----------------------------- MODULE PlcProofs ------------------------------
(***************************************************************************)
(* Proofs about CoreServer, Facade, Plc and Program, for every set of      *)
(* messages, hardware modules, sources, blocks and libraries.              *)
(*                                                                         *)
(* The server: the type invariant, that EXIT is never left, unless SIGTERM *)
(* has put the server into the middle of another setRunState, and that     *)
(* cycles run in a CPU that has been started.  The last of these rests on  *)
(* an invariant of the steps the thread has entered (Shape) and of what    *)
(* they say about the flags (FlagsFit), together CInv.                     *)
(*                                                                         *)
(* The hardware: whatever the server does and whichever module raises,     *)
(* hardware that is up can be reached through the list of the facade, a    *)
(* closed process has it down, and a cycle finds it up.  The server's part *)
(* of the last is CInv.                                                    *)
(*                                                                         *)
(* The program: what clients have done to it and a restart has loaded is   *)
(* complete and built in a started CPU, and is in the project file.        *)
(***************************************************************************)
EXTENDS Plc, Program, SequenceTheorems, WellFoundedInduction, TLAPS

\* The states that are set: nothing puts an embedded server into EXIT.
Targets == IF embedded THEN States \ {"EXIT"} ELSE States
StepSet == [do : Steps, to : Targets]

\* The steps that are not the end of a setRunState.
Calm == [do : Steps \ {"state", "running"}, to : Targets]

\* The inductive invariant.
IInv == TypeOK /\ todo \in Seq(StepSet)

----------------------------------------------------------------------------
(* The first except clause                                                 *)

Less == OpToRel(<, Nat)

LEMMA LessIsLess == \A x, y \in Nat : x < y => <<x, y>> \in Less
BY SMT DEF Less, OpToRel

LEMMA MinIsMember ==
  ASSUME NEW T, T \subseteq Nat, T # {}
  PROVE  Min(T) \in T
<1>1. PICK x \in T : \A y \in T : ~ (<<y, x>> \in Less)
  BY WFMin, NatLessThanWellFounded, Zenon DEF Less
<1>2. ASSUME NEW y \in T PROVE x <= y
  <2>1. x \in Nat /\ y \in Nat
    OBVIOUS
  <2>2. <<y, x>> \notin Less
    BY <1>1
  <2>3. ~(y < x)
    BY <2>1, <2>2, LessIsLess, Zenon
  <2>4. QED
    BY <2>1, <2>3
<1>3. QED
  BY <1>2 DEF Min

FirstExcept(steps) == SelectInSeq(steps, LAMBDA step : step.do = "except")

LEMMA FirstExceptIsIndex ==
  ASSUME NEW S, NEW steps \in Seq(S)
  PROVE  /\ FirstExcept(steps) \in 0..Len(steps)
         /\ FirstExcept(steps) > 0 => steps[FirstExcept(steps)].do = "except"
<1> DEFINE I == {i \in 1..Len(steps) : steps[i].do = "except"}
<1>1. FirstExcept(steps) = IF I # {} THEN Min(I) ELSE 0
  BY DEF FirstExcept, SelectInSeq
<1>2. CASE I = {}
  BY <1>1, <1>2
<1>3. CASE I # {}
  <2>1. I \subseteq Nat
    OBVIOUS
  <2>2. Min(I) \in I
    BY MinIsMember, <1>3, <2>1, Zenon
  <2>3. QED
    BY <1>1, <1>3, <2>2
<1>4. QED
  BY <1>2, <1>3

----------------------------------------------------------------------------
(* What a step puts in front of the others                                 *)

\* K is StepSet, or Calm when no setRunState is about to end.
LEMMA TailStays ==
  ASSUME NEW K, NEW s \in Seq(K), s # <<>>
  PROVE  Head(s) \in K /\ Tail(s) \in Seq(K)
OBVIOUS

LEMMA CalmSteps ==
  /\ \A do \in Steps \ {"state", "running"} : Step(do) \in Calm
  /\ \A s \in Targets : Enter(s) \in Calm
  /\ "STOP" \in Targets /\ "RUN" \in Targets /\ "MAINTENANCE" \in Targets
  /\ ~embedded => "EXIT" \in Targets
BY DEF Step, Enter, Calm, Steps, Targets, States

LEMMA CalmIsStep == Calm \subseteq StepSet
BY DEF Calm, StepSet

LEMMA AfterErrorStays ==
  ASSUME NEW K, Calm \subseteq K, NEW s \in Seq(K), embedded \in BOOLEAN
  PROVE  AfterError(s) \in Seq(K)
<1>1. FirstExcept(s) \in 0..Len(s)
  BY FirstExceptIsIndex
<1>2. CASE FirstExcept(s) > 0
  <2>1. SubSeq(s, FirstExcept(s) + 1, Len(s)) \in Seq(K)
    BY <1>1
  <2>2. QED
    BY <1>2, <2>1 DEF AfterError, FirstExcept
<1>3. CASE ~(FirstExcept(s) > 0)
  <2>1. Step("rebuild") \in K /\ Step("raise") \in K /\ Step("assert") \in K /\ Enter("STOP") \in K
    BY CalmSteps DEF Steps
  <2>2. <<Enter("STOP"), Step("rebuild")>> \in Seq(K)
    BY <2>1
  <2>3. (IF embedded THEN <<Step("raise"), Enter("STOP"), Step("assert")>> ELSE <<>>) \in Seq(K)
    BY <2>1
  <2>4. AfterError(s) = <<Enter("STOP"), Step("rebuild")>>
          \o (IF embedded THEN <<Step("raise"), Enter("STOP"), Step("assert")>> ELSE <<>>)
    BY <1>3 DEF AfterError, FirstExcept
  <2>5. QED
    BY <2>2, <2>3, <2>4, ConcatProperties
<1>4. QED
  BY <1>2, <1>3

LEMMA AfterMaintenanceStays ==
  ASSUME NEW K, Calm \subseteq K, NEW s, embedded \in BOOLEAN
  PROVE  AfterMaintenance(s) \in Seq(K)
<1>1. Step("leave") \in K /\ Enter("MAINTENANCE") \in K
  BY CalmSteps DEF Steps
<1>2. <<Step("leave")>> \in Seq(K) /\ <<Enter("MAINTENANCE")>> \in Seq(K) /\ <<>> \in Seq(K)
  BY <1>1
<1>3. (IF embedded THEN <<Step("leave")>> ELSE <<>>) \in Seq(K)
  BY <1>2
<1>4. QED
  BY <1>2, <1>3, ConcatProperties DEF AfterMaintenance

LEMMA HandlerStays ==
  ASSUME NEW K, Calm \subseteq K, NEW msg \in Messages, embedded \in BOOLEAN
  PROVE  Handler(msg) \in Seq(K)
<1>1. /\ Step("reset") \in K /\ Step("hwmod") \in K /\ Step("content") \in K
      /\ Enter("STOP") \in K /\ Enter("RUN") \in K /\ (~embedded => Enter("EXIT") \in K)
  BY CalmSteps DEF Steps
<1>2. msg \in {"RUN", "STOP", "RESET", "SHUTDOWN", "HWMOD", "LIBSEL", "AWLSRC"}
  BY CoreServerAssumption
<1>3. /\ <<Enter("STOP")>> \in Seq(K) /\ <<Enter("RUN")>> \in Seq(K) /\ <<>> \in Seq(K)
      /\ <<Enter("STOP"), Step("reset")>> \in Seq(K)
      /\ <<Enter("STOP"), Step("content")>> \in Seq(K)
      /\ <<Step("hwmod")>> \in Seq(K) /\ <<Step("content")>> \in Seq(K)
      /\ (~embedded => <<Enter("EXIT")>> \in Seq(K))
  BY <1>1
<1>4. QED
  BY <1>2, <1>3 DEF Handler

----------------------------------------------------------------------------
(* The steps in K stay the steps in K                                      *)

\* An action drops the first step and puts others in front; no action but
\* SetRunState adds the end of a setRunState.
Entering == SetRunState /\ state # "EXIT" /\ state # Head(todo).to

LEMMA StepsStay ==
  ASSUME NEW K, Calm \subseteq K, todo \in Seq(K), embedded \in BOOLEAN,
         [Next]_vars, ~Entering
  PROVE  todo' \in Seq(K)
<1>1. ASSUME todo # <<>> PROVE Tail(todo) \in Seq(K)
  BY <1>1, TailStays
<1>2. ASSUME todo # <<>>, Continue PROVE todo' \in Seq(K)
  BY <1>1, <1>2 DEF Continue
<1>3. ASSUME todo # <<>>, Error PROVE todo' \in Seq(K)
  BY <1>1, <1>3, AfterErrorStays DEF Error
<1>4. ASSUME Maintenance PROVE todo' \in Seq(K)
  BY <1>4, AfterMaintenanceStays DEF Maintenance
<1>5. CASE SetRunState
  BY <1>2, <1>5 DEF SetRunState, Entering, Doing
<1>6. CASE SetState \/ SetRunning \/ SkipExcept \/ PendProject \/ ScheduleRebuild
           \/ EnterRun \/ Leave \/ Silence
  BY <1>2, <1>6
     DEF SetState, SetRunning, SkipExcept, PendProject, ScheduleRebuild, EnterRun, Leave,
         Silence, Doing
<1>7. CASE Startup \/ ResetAll \/ LoadHardware \/ Translate \/ Cycle
  BY <1>2, <1>3, <1>4, <1>7
     DEF Startup, StartupDone, StartupFails, ResetAll, ResetDone, ResetFails, LoadHardware,
         Translate, Cycle, Doing
<1>8. CASE LoadProject
  <2>1. todo # <<>>
    BY <1>8 DEF LoadProject, Doing
  <2>2. CASE Error
    BY <1>3, <2>1, <2>2
  <2>3. CASE todo' = <<Enter("STOP"), Step("reset"), Step("hwmod"),
                       Enter("STOP"), Step("content")>> \o Tail(todo)
    <3>1. Enter("STOP") \in K /\ Step("reset") \in K /\ Step("hwmod") \in K /\ Step("content") \in K
      BY CalmSteps DEF Steps
    <3>2. <<Enter("STOP"), Step("reset"), Step("hwmod"), Enter("STOP"), Step("content")>> \in Seq(K)
      BY <3>1
    <3>3. QED
      BY <1>1, <2>1, <2>3, <3>2, ConcatProperties
  <2>4. QED
    BY <1>8, <2>2, <2>3 DEF LoadProject
<1>9. CASE RaiseFromRun
  BY <1>2, <1>9 DEF RaiseFromRun, Doing
<1>10. CASE Receive
  <2>1. PICK msg \in Messages : todo' = Handler(msg) \o todo
    BY <1>10 DEF Receive
  <2>2. Handler(msg) \in Seq(K)
    BY HandlerStays
  <2>3. QED
    BY <2>1, <2>2, ConcatProperties
<1>11. CASE LoopHead \/ LoopHalted \/ LoopRunning
  <2>1. Step("load") \in K /\ Step("comm") \in K /\ Step("cycle") \in K
    BY CalmSteps DEF Steps
  <2>2. <<Step("load")>> \in Seq(K) /\ <<Step("comm")>> \in Seq(K)
        /\ <<Step("cycle"), Step("comm")>> \in Seq(K)
    BY <2>1
  <2>3. QED
    BY <1>11, <2>2 DEF LoopHead, LoopHalted, LoopRunning, Test, control
<1>12. CASE SigTerm \/ Ended \/ UNCHANGED vars
  BY <1>12 DEF SigTerm, Ended, vars
<1>13. QED
  BY <1>5, <1>6, <1>7, <1>8, <1>9, <1>10, <1>11, <1>12
     DEF Next, Thread, HardwareSteps, OtherSteps

\* On the way into a state the work comes before the two assignments.
LEMMA EnteringAdds ==
  ASSUME todo \in Seq(StepSet), embedded \in BOOLEAN, Entering
  PROVE  todo' \in Seq(StepSet)
<1>1. /\ todo # <<>> /\ Head(todo).to \in Targets /\ Tail(todo) \in Seq(StepSet)
      /\ todo' = Work(Head(todo).to) \o Commit(Head(todo).to) \o Tail(todo)
  <2>1. todo # <<>>
    BY DEF Entering, SetRunState, Doing
  <2>2. Head(todo) \in StepSet /\ Tail(todo) \in Seq(StepSet)
    BY <2>1, TailStays
  <2>3. QED
    BY <2>1, <2>2 DEF Entering, SetRunState, StepSet
<1>2. Commit(Head(todo).to) \in Seq(StepSet)
  <2>1. /\ [do |-> "state", to |-> Head(todo).to] \in StepSet
        /\ [do |-> "running", to |-> Head(todo).to] \in StepSet
    BY <1>1 DEF StepSet, Steps
  <2>2. QED
    BY <2>1 DEF Commit
<1>3. Work(Head(todo).to) \in Seq(StepSet)
  <2>1. Step("load") \in StepSet /\ Except \in StepSet /\ Step("startup") \in StepSet
    BY CalmSteps, CalmIsStep DEF Steps, Except
  <2>2. <<Step("load"), Except>> \in Seq(StepSet) /\ <<>> \in Seq(StepSet)
        /\ <<Step("startup")>> \in Seq(StepSet)
    BY <2>1
  <2>3. (IF project THEN <<Step("load"), Except>> ELSE <<>>) \in Seq(StepSet)
    BY <2>2
  <2>4. QED
    BY <2>2, <2>3, ConcatProperties DEF Work
<1>4. QED
  BY <1>1, <1>2, <1>3, ConcatProperties

----------------------------------------------------------------------------
(* The type invariant                                                      *)

LEMMA StepSetIsTyped == Seq(StepSet) \subseteq Seq([do : Steps, to : States])
<1>1. StepSet \subseteq [do : Steps, to : States]
  BY DEF StepSet, Targets
<1>2. QED
  BY <1>1, SeqMonotonic

\* TypeOK without todo: the flags of the server, and the others.
FlagsOK == running \in BOOLEAN /\ needOB10x \in BOOLEAN /\ project \in BOOLEAN /\ started \in BOOLEAN

OthersOK ==
  /\ state \in States
  /\ loop \in {"head", "halted", "running"}
  /\ ended \in {"no", "exit", "assertion", "maintenance", "fault"}
  /\ embedded \in BOOLEAN /\ signalled \in BOOLEAN
  /\ embedded => state # "EXIT"

LEMMA TypeIsSplit == IInv <=> FlagsOK /\ OthersOK /\ todo \in Seq(StepSet)
BY StepSetIsTyped DEF IInv, TypeOK, FlagsOK, OthersOK

LEMMA InitIsTyped == Init => IInv
<1> SUFFICES ASSUME Init PROVE IInv
  OBVIOUS
<1>1. /\ Enter("STOP") \in StepSet /\ Step("pend") \in StepSet /\ Enter("RUN") \in StepSet
      /\ Except \in StepSet /\ Step("assert") \in StepSet
  BY CalmSteps, CalmIsStep DEF Steps, Except
<1>2. /\ <<Enter("STOP"), Step("pend"), Enter("STOP")>> \in Seq(StepSet)
      /\ <<Enter("RUN"), Except>> \in Seq(StepSet) /\ <<>> \in Seq(StepSet)
      /\ <<Step("assert")>> \in Seq(StepSet)
  BY <1>1
<1>3. (IF embedded THEN <<Enter("RUN"), Except>> ELSE <<>>) \in Seq(StepSet)
  BY <1>2
<1>4. todo \in Seq(StepSet)
  BY <1>2, <1>3, ConcatProperties DEF Init
<1>5. QED
  BY <1>4, TypeIsSplit DEF Init, FlagsOK, OthersOK, States

LEMMA StepIsTyped == IInv /\ [Next]_vars => IInv'
<1> SUFFICES ASSUME IInv, [Next]_vars PROVE IInv'
  OBVIOUS
<1>1. todo' \in Seq(StepSet)
  BY StepsStay, EnteringAdds, CalmIsStep DEF IInv, TypeOK
<1>2. todo # <<>> => Head(todo) \in StepSet
  BY TailStays DEF IInv
<1>3. FlagsOK /\ OthersOK
  BY TypeIsSplit
<1>4. OthersOK'
  <2>1. CASE SetState
    <3>1. Head(todo).to \in Targets
      BY <1>2, <2>1 DEF SetState, Doing, StepSet
    <3>2. state' \in States /\ (embedded' => state' # "EXIT")
      BY <2>1, <3>1 DEF SetState, Doing, Targets
    <3>3. QED
      BY <1>3, <2>1, <3>2 DEF SetState, Doing, control, OthersOK
  <2>2. CASE SetRunState \/ SetRunning \/ SkipExcept \/ PendProject \/ ScheduleRebuild
    <3>1. UNCHANGED <<state, control, embedded, signalled>>
      BY <2>2, Zenon
         DEF SetRunState, SetRunning, SkipExcept, PendProject, ScheduleRebuild, Doing, server
    <3>2. QED
      BY <1>3, <3>1 DEF control, OthersOK
  <2>3. CASE RaiseFromRun \/ EnterRun \/ Leave \/ Receive \/ Silence
    BY <1>3, <2>3 DEF RaiseFromRun, EnterRun, Leave, Receive, Silence, Doing, server, control, OthersOK
  <2>4. CASE Startup \/ ResetAll \/ LoadHardware
    BY <1>3, <2>4
       DEF Startup, StartupDone, StartupFails, ResetAll, ResetDone, ResetFails, LoadHardware,
           Error, Maintenance, Doing, server, control, OthersOK
  <2>5. CASE Translate \/ Cycle \/ LoadProject
    BY <1>3, <2>5
       DEF Translate, Cycle, LoadProject, Error, Maintenance, Doing, server, control, OthersOK
  <2>6. CASE LoopHead \/ LoopHalted \/ LoopRunning
    BY <1>3, <2>6 DEF LoopHead, LoopHalted, LoopRunning, Test, server, control, OthersOK
  <2>7. CASE SigTerm
    <3>1. ~embedded /\ signalled' = TRUE /\ state' = "EXIT" /\ UNCHANGED <<embedded, control>>
      BY <2>7, Zenon DEF SigTerm
    <3>2. QED
      BY <1>3, <3>1 DEF control, States, OthersOK
  <2>8. CASE Ended \/ UNCHANGED vars
    BY <1>3, <2>8 DEF Ended, vars, OthersOK
  <2>9. QED
    BY <2>1, <2>2, <2>3, <2>4, <2>5, <2>6, <2>7, <2>8 DEF Next, Thread, HardwareSteps, OtherSteps
<1>5. FlagsOK'
  <2>1. CASE SetRunState \/ SetState \/ SetRunning \/ SkipExcept \/ PendProject \/ ScheduleRebuild
    BY <1>3, <2>1, Zenon
       DEF SetRunState, SetState, SetRunning, SkipExcept, PendProject, ScheduleRebuild,
           server, FlagsOK
  <2>2. CASE RaiseFromRun \/ EnterRun \/ Leave \/ Receive \/ Silence
    BY <1>3, <2>2, Zenon DEF RaiseFromRun, EnterRun, Leave, Receive, Silence, server, FlagsOK
  <2>3. CASE Startup \/ ResetAll \/ LoadHardware
    BY <1>3, <2>3, Zenon
       DEF Startup, StartupDone, StartupFails, ResetAll, ResetDone, ResetFails, LoadHardware,
           Error, Maintenance, server, FlagsOK
  <2>4. CASE Translate \/ Cycle \/ LoadProject
    BY <1>3, <2>4, Zenon
       DEF Translate, Cycle, LoadProject, Error, Maintenance, server, FlagsOK
  <2>5. CASE LoopHead \/ LoopHalted \/ LoopRunning \/ SigTerm \/ Ended \/ UNCHANGED vars
    BY <1>3, <2>5, Zenon
       DEF LoopHead, LoopHalted, LoopRunning, Test, SigTerm, Ended, vars, server, FlagsOK
  <2>6. QED
    BY <2>1, <2>2, <2>3, <2>4, <2>5 DEF Next, Thread, HardwareSteps, OtherSteps
<1>6. todo' \in Seq([do : Steps, to : States])
  BY <1>1, StepSetIsTyped, Zenon
<1>7. embedded' = embedded
  BY Zenon
     DEF Next, Thread, HardwareSteps, OtherSteps, SetRunState, SetState, SetRunning, SkipExcept,
         PendProject, LoadProject, Translate, ScheduleRebuild, RaiseFromRun, EnterRun, Leave,
         Cycle, Receive, Silence, LoopHead, LoopHalted, LoopRunning, Startup, ResetAll,
         LoadHardware, Doing, Test, SigTerm, Ended, vars
<1>8. StepSet' = StepSet
  BY <1>7 DEF StepSet, Targets
<1>9. QED
  BY <1>1, <1>4, <1>5, <1>6, <1>8, Zenon DEF IInv, TypeOK, FlagsOK, OthersOK

\* The variables have their types, and an embedded server is never put into
\* EXIT: not by a message, whose handler is masked out, nor by a signal.
THEOREM TypeCorrect == Spec => []TypeOK
<1>1. IInv => TypeOK
  BY DEF IInv
<1>2. QED
  BY InitIsTyped, StepIsTyped, <1>1, PTL DEF Spec

----------------------------------------------------------------------------
(* EXIT is kept                                                            *)

LEMMA CalmIsNotCommitting ==
  ASSUME todo \in Seq(StepSet)
  PROVE  todo \in Seq(Calm) <=> ~Committing
<1>1. ASSUME todo \in Seq(Calm) PROVE ~Committing
  <2>1. \A i \in DOMAIN todo : todo[i] \in Calm
    BY <1>1
  <2>2. QED
    BY <2>1 DEF Committing, Calm
<1>2. ASSUME ~Committing PROVE todo \in Seq(Calm)
  <2>1. \A i \in DOMAIN todo : todo[i] \in StepSet
    OBVIOUS
  <2>2. \A i \in DOMAIN todo : todo[i] \in Calm
    BY <1>2, <2>1 DEF Committing, Calm, StepSet
  <2>3. QED
    BY <2>2
<1>3. QED
  BY <1>1, <1>2

LEMMA ExitStep == IInv /\ [Next]_vars => (InExit => InExit')
<1> SUFFICES ASSUME IInv, [Next]_vars, InExit PROVE InExit'
  OBVIOUS
<1>1. todo \in Seq(Calm)
  BY CalmIsNotCommitting DEF InExit, IInv
<1>2. todo' \in Seq(Calm)
  BY <1>1, StepsStay DEF InExit, IInv, TypeOK, Entering
<1>3. ~Committing'
  <2>1. \A i \in DOMAIN todo' : todo'[i] \in Calm
    BY <1>2
  <2>2. QED
    BY <2>1 DEF Committing, Calm
<1>4. state' = "EXIT"
  <2>1. ASSUME SetState PROVE FALSE
    <3>1. todo # <<>> /\ Head(todo).do = "state"
      BY <2>1 DEF SetState, Doing
    <3>2. Head(todo) \in Calm
      BY <1>1, <3>1, TailStays
    <3>3. QED
      BY <3>1, <3>2 DEF Calm
  <2>2. CASE SetRunState \/ SetRunning \/ SkipExcept \/ PendProject \/ ScheduleRebuild
             \/ RaiseFromRun \/ EnterRun \/ Leave \/ Receive \/ Silence
    BY <2>2
       DEF SetRunState, SetRunning, SkipExcept, PendProject, ScheduleRebuild, RaiseFromRun,
           EnterRun, Leave, Receive, Silence, Doing, server, control, InExit
  <2>3. CASE Startup \/ ResetAll \/ LoadHardware \/ Translate \/ Cycle \/ LoadProject
    BY <2>3
       DEF Startup, StartupDone, StartupFails, ResetAll, ResetDone, ResetFails, LoadHardware,
           Translate, Cycle, LoadProject, Error, Maintenance, server, control, InExit
  <2>4. CASE LoopHead \/ LoopHalted \/ LoopRunning \/ SigTerm \/ Ended \/ UNCHANGED vars
    BY <2>4
       DEF LoopHead, LoopHalted, LoopRunning, Test, SigTerm, Ended, vars, server, control, InExit
  <2>5. QED
    BY <2>1, <2>2, <2>3, <2>4 DEF Next, Thread, HardwareSteps, OtherSteps
<1>5. QED
  BY <1>3, <1>4 DEF InExit

\* Whatever is received, raised or signalled, a server that has entered EXIT
\* stays there, unless the signal came in the middle of a setRunState.
THEOREM ExitIsKept == Spec => ExitStays
<1>1. Spec => []IInv
  BY InitIsTyped, StepIsTyped, PTL DEF Spec
<1>2. IInv /\ [Next]_vars => [InExit => InExit']_vars
  BY ExitStep
<1>3. QED
  BY <1>1, <1>2, PTL DEF Spec, ExitStays

----------------------------------------------------------------------------
(* The steps of the thread as a sequence                                   *)

\* The steps behind the first n.
Rest(s, n) == SubSeq(s, n + 1, Len(s))

\* A sequence of steps t after a step of the thread: the first n steps of s
\* are gone, p is in front of the others.
Moved(s, t, p, n) ==
  /\ Len(t) = Len(p) + (Len(s) - n)
  /\ \A k \in 1..Len(p) : t[k] = p[k]
  /\ \A k \in 1..(Len(s) - n) : t[Len(p) + k] = s[n + k]

LEMMA JoinFacts ==
  ASSUME NEW S, NEW s \in Seq(S), NEW t \in Seq(S)
  PROVE  /\ s \o t \in Seq(S) /\ Len(s \o t) = Len(s) + Len(t)
         /\ \A k \in 1..Len(s) : (s \o t)[k] = s[k]
         /\ \A k \in 1..Len(t) : (s \o t)[Len(s) + k] = t[k]
OBVIOUS

\* Tuples are joined to a tuple.
LEMMA JoinIs ==
  ASSUME NEW S, NEW s \in Seq(S), NEW t \in Seq(S), NEW u \in Seq(S),
         Len(u) = Len(s) + Len(t),
         \A k \in 1..Len(s) : u[k] = s[k], \A k \in 1..Len(t) : u[Len(s) + k] = t[k]
  PROVE  s \o t = u
<1>1. /\ s \o t \in Seq(S) /\ Len(s \o t) = Len(u) 
  BY JoinFacts
<1>2. ASSUME NEW i \in 1..Len(u) PROVE (s \o t)[i] = u[i]
  <2>1. CASE i \in 1..Len(s)
    BY <2>1, JoinFacts
  <2>2. CASE i \notin 1..Len(s)
    <3>1. PICK k \in 1..Len(t) : i = Len(s) + k
      <4>1. i - Len(s) \in 1..Len(t) /\ i = Len(s) + (i - Len(s))
        BY <2>2
      <4>2. QED
        BY <4>1
    <3>2. (s \o t)[Len(s) + k] = t[k]
      BY JoinFacts
    <3>3. QED
      BY <3>1, <3>2
  <2>3. QED
    BY <2>1, <2>2
<1>3. QED
  BY <1>1, <1>2, SeqEqual

LEMMA Join11 ==
  ASSUME NEW a, NEW b
  PROVE  <<a>> \o <<b>> = <<a, b>>
<1> DEFINE S == {a, b}
           s == <<a>>
           t == <<b>>
           u == <<a, b>>
<1>1. /\ s \in Seq(S) /\ t \in Seq(S) /\ u \in Seq(S) /\ Len(u) = Len(s) + Len(t)
      /\ Len(s) = 1 /\ Len(t) = 1 /\ u[1] = s[1] /\ u[2] = t[1]
  OBVIOUS
<1> HIDE DEF S, s, t, u
<1>2. \A k \in 1..Len(s) : u[k] = s[k]
  BY <1>1
<1>3. \A k \in 1..Len(t) : u[Len(s) + k] = t[k]
  <2>1. \A k \in 1..Len(t) : k = 1 /\ Len(s) + k = 2
    BY <1>1
  <2>2. QED
    BY <1>1, <2>1
<1>4. s \o t = u
  BY <1>1, <1>2, <1>3, JoinIs, Zenon
<1>5. QED
  BY <1>4 DEF s, t, u

LEMMA Join12 ==
  ASSUME NEW a, NEW b, NEW c
  PROVE  <<a>> \o <<b, c>> = <<a, b, c>>
<1> DEFINE S == {a, b, c}
           s == <<a>>
           t == <<b, c>>
           u == <<a, b, c>>
<1>1. /\ s \in Seq(S) /\ t \in Seq(S) /\ u \in Seq(S) /\ Len(u) = Len(s) + Len(t)
      /\ \A k \in 1..Len(s) : u[k] = s[k]
      /\ \A k \in 1..Len(t) : u[Len(s) + k] = t[k]
  OBVIOUS
<1> HIDE DEF S, s, t, u
<1>2. s \o t = u
  BY <1>1, JoinIs, Zenon
<1>3. QED
  BY <1>2 DEF s, t, u

LEMMA Join21 ==
  ASSUME NEW a, NEW b, NEW c
  PROVE  <<a, b>> \o <<c>> = <<a, b, c>>
<1> DEFINE S == {a, b, c}
           s == <<a, b>>
           t == <<c>>
           u == <<a, b, c>>
<1>1. /\ s \in Seq(S) /\ t \in Seq(S) /\ u \in Seq(S) /\ Len(u) = Len(s) + Len(t)
      /\ \A k \in 1..Len(s) : u[k] = s[k]
      /\ \A k \in 1..Len(t) : u[Len(s) + k] = t[k]
  OBVIOUS
<1> HIDE DEF S, s, t, u
<1>2. s \o t = u
  BY <1>1, JoinIs, Zenon
<1>3. QED
  BY <1>2 DEF s, t, u

LEMMA Join23 ==
  ASSUME NEW a, NEW b, NEW c, NEW d, NEW e
  PROVE  <<a, b>> \o <<c, d, e>> = <<a, b, c, d, e>>
<1> DEFINE S == {a, b, c, d, e}
           s == <<a, b>>
           t == <<c, d, e>>
           u == <<a, b, c, d, e>>
<1>1. /\ s \in Seq(S) /\ t \in Seq(S) /\ u \in Seq(S) /\ Len(u) = Len(s) + Len(t)
      /\ \A k \in 1..Len(s) : u[k] = s[k]
      /\ \A k \in 1..Len(t) : u[Len(s) + k] = t[k]
  OBVIOUS
<1> HIDE DEF S, s, t, u
<1>2. s \o t = u
  BY <1>1, JoinIs, Zenon
<1>3. QED
  BY <1>2 DEF s, t, u

LEMMA Join32 ==
  ASSUME NEW a, NEW b, NEW c, NEW d, NEW e
  PROVE  <<a, b, c>> \o <<d, e>> = <<a, b, c, d, e>>
<1> DEFINE S == {a, b, c, d, e}
           s == <<a, b, c>>
           t == <<d, e>>
           u == <<a, b, c, d, e>>
<1>1. /\ s \in Seq(S) /\ t \in Seq(S) /\ u \in Seq(S) /\ Len(u) = Len(s) + Len(t)
      /\ \A k \in 1..Len(s) : u[k] = s[k]
      /\ \A k \in 1..Len(t) : u[Len(s) + k] = t[k]
  OBVIOUS
<1> HIDE DEF S, s, t, u
<1>2. s \o t = u
  BY <1>1, JoinIs, Zenon
<1>3. QED
  BY <1>2 DEF s, t, u

LEMMA RestFacts ==
  ASSUME NEW S, NEW s \in Seq(S), NEW n \in 0..Len(s)
  PROVE  /\ Rest(s, n) \in Seq(S) /\ Len(Rest(s, n)) = Len(s) - n
         /\ \A k \in 1..(Len(s) - n) : Rest(s, n)[k] = s[n + k]
BY DEF Rest

LEMMA MovedIsMoved ==
  ASSUME NEW S, NEW s \in Seq(S), NEW p \in Seq(S), NEW n \in 0..Len(s)
  PROVE  Moved(s, p \o Rest(s, n), p, n)
<1>1. Rest(s, n) \in Seq(S)
  BY RestFacts
<1>2. /\ Len(p \o Rest(s, n)) = Len(p) + Len(Rest(s, n))
      /\ \A k \in 1..Len(p) : (p \o Rest(s, n))[k] = p[k]
      /\ \A k \in 1..Len(Rest(s, n)) : (p \o Rest(s, n))[Len(p) + k] = Rest(s, n)[k]
  BY <1>1, JoinFacts
<1>3. /\ Len(Rest(s, n)) = Len(s) - n
      /\ \A k \in 1..(Len(s) - n) : Rest(s, n)[k] = s[n + k]
  BY RestFacts
<1>4. QED
  BY <1>2, <1>3 DEF Moved

LEMMA TailIsMoved ==
  ASSUME NEW S, NEW s \in Seq(S), s # <<>>
  PROVE  Moved(s, Tail(s), <<>>, 1) /\ Len(s) > 0 /\ Head(s) = s[1]
BY DEF Moved

LEMMA PushIsMoved ==
  ASSUME NEW S, NEW s \in Seq(S), s # <<>>, NEW p \in Seq(S)
  PROVE  Moved(s, p \o Tail(s), p, 1) /\ Len(s) > 0 /\ Head(s) = s[1]
<1>1. /\ Tail(s) \in Seq(S) /\ Len(Tail(s)) = Len(s) - 1
      /\ \A k \in 1..(Len(s) - 1) : Tail(s)[k] = s[1 + k]
  OBVIOUS
<1>2. /\ Len(p \o Tail(s)) = Len(p) + Len(Tail(s))
      /\ \A k \in 1..Len(p) : (p \o Tail(s))[k] = p[k]
      /\ \A k \in 1..Len(Tail(s)) : (p \o Tail(s))[Len(p) + k] = Tail(s)[k]
  BY <1>1, JoinFacts
<1>3. QED
  BY <1>1, <1>2 DEF Moved

----------------------------------------------------------------------------
(* The shape of the steps                                                  *)

StateStep(s) == [do |-> "state", to |-> s]
RunningStep(s) == [do |-> "running", to |-> s]

\* What may come before a startup: the loading of a project.
LoadSteps == {Enter("STOP"), StateStep("STOP"), RunningStep("STOP"), Step("load"),
              Step("reset"), Step("hwmod"), Step("content"), Except}

\* A setRunState that stops the CPU, at any point.
Halts == {Enter("STOP"), StateStep("STOP"), RunningStep("STOP"), Enter("MAINTENANCE"),
          StateStep("MAINTENANCE"), RunningStep("MAINTENANCE")}

\* Which steps follow each other at once.
LinkedAt(s, k) ==
  /\ s[k].do = "state" => k < Len(s) /\ s[k + 1] = RunningStep(s[k].to)
  /\ s[k].do = "startup" => k < Len(s) /\ s[k + 1] = StateStep("RUN")
  /\ s[k].do = "comm" => k = Len(s)
  /\ k > 1 => /\ s[k].do # "cycle" /\ s[k].do # "load"
              /\ s[k].do = "running" => s[k - 1] = StateStep(s[k].to)
              /\ s[k] = StateStep("RUN") => s[k - 1].do = "startup"
              /\ s[k].do = "reset" => s[k - 1] = Enter("STOP") \/ s[k - 1] = RunningStep("STOP")

Linked(s) == \A k \in 1..Len(s) : LinkedAt(s, k)

\* An except clause behind a setRunState(RUN) is right behind it.
ExceptPlace(s) == \A j, k \in 1..Len(s) : j < k /\ s[k].do = "except" =>
  /\ s[j] = Enter("RUN") => k = j + 1
  /\ s[j].do = "startup" => k = j + 3
  /\ s[j] = StateStep("RUN") => k = j + 2

\* Before a startup there is nothing but the loading of a project, before the
\* __loadProject of startup() nothing but a setRunState(STOP).
Fronts(s) == \A j, k \in 1..Len(s) : j < k =>
  /\ s[k].do = "startup" => s[j] \in LoadSteps
  /\ s[k].do = "pend" => s[j] \in Halts

Shape(s) == Linked(s) /\ ExceptPlace(s) /\ Fronts(s)

LEMMA ShapeDrops ==
  ASSUME NEW S, NEW s \in Seq(S), NEW t, NEW n \in 0..Len(s), Len(t) \in Nat,
         Moved(s, t, <<>>, n), Shape(s)
  PROVE  Shape(t)
<1>1. Len(t) = Len(s) - n /\ \A k \in 1..Len(t) : t[k] = s[n + k]
  BY DEF Moved
<1>2. Linked(t)
  <2> SUFFICES ASSUME NEW k \in 1..Len(t) PROVE LinkedAt(t, k)
    BY DEF Linked
  <2>1. n + k \in 1..Len(s) /\ t[k] = s[n + k] /\ (n + k) + 1 = n + (k + 1) /\ (n + k) - 1 = n + (k - 1)
    BY <1>1
  <2>2. k < Len(t) => t[k + 1] = s[(n + k) + 1]
    BY <1>1
  <2>3. k > 1 => t[k - 1] = s[(n + k) - 1]
    BY <1>1
  <2>4. k < Len(t) <=> n + k < Len(s)
    BY <1>1
  <2>5. QED
    BY <1>1, <2>1, <2>2, <2>3, <2>4 DEF LinkedAt, Linked, Shape
<1>3. ExceptPlace(t)
  BY <1>1 DEF Shape, ExceptPlace
<1>4. Fronts(t)
  <2> SUFFICES ASSUME NEW j \in 1..Len(t), NEW k \in 1..Len(t), j < k
               PROVE  /\ t[k].do = "startup" => t[j] \in LoadSteps
                      /\ t[k].do = "pend" => t[j] \in Halts
    BY DEF Fronts
  <2>1. n + j \in 1..Len(s) /\ n + k \in 1..Len(s) /\ n + j < n + k /\ t[j] = s[n + j] /\ t[k] = s[n + k]
    BY <1>1
  <2>2. QED
    BY <2>1 DEF Shape, Fronts
<1>5. QED
  BY <1>2, <1>3, <1>4 DEF Shape

\* In place of the first step, steps of the same kind.
LEMMA ShapeJoins ==
  ASSUME NEW S, NEW s \in Seq(S), s # <<>>, NEW p \in Seq(S), p # <<>>, NEW t, Len(t) \in Nat,
         Moved(s, t, p, 1), Shape(s), Shape(p),
         s[1].do = "enter" \/ s[1].do = "load", p[Len(p)].do # "comm",
         s[1] = Enter("STOP") => p[Len(p)] = RunningStep("STOP"),
         \A i \in 1..Len(p) : p[i] # Enter("RUN") /\ p[i].do # "pend",
         \A i \in 1..Len(p) : p[i].do = "startup" => s[1] = Enter("RUN") /\ i = Len(p) - 2,
         \A i \in 1..Len(p) : p[i] = StateStep("RUN") => s[1] = Enter("RUN") /\ i = Len(p) - 1,
         s[1] \in LoadSteps => \A i \in 1..Len(p) : p[i] \in LoadSteps,
         s[1] \in Halts => \A i \in 1..Len(p) : p[i] \in Halts
  PROVE  Shape(t)
<1> DEFINE m == Len(p)
<1>1. m \in Nat /\ m > 0 /\ Len(s) \in Nat /\ Len(s) > 0
  OBVIOUS
<1>2. /\ Len(t) = m + (Len(s) - 1)
      /\ \A k \in 1..m : t[k] = p[k]
      /\ \A k \in 1..(Len(s) - 1) : t[m + k] = s[1 + k]
  BY DEF Moved
<1> HIDE DEF m
<1>a. ASSUME NEW k \in (m + 1)..Len(t) PROVE t[k] = s[k - m + 1] /\ k - m + 1 \in 2..Len(s)
  <2>1. k - m \in 1..(Len(s) - 1) /\ m + (k - m) = k /\ 1 + (k - m) = k - m + 1
    BY <1>1, <1>2
  <2>2. t[m + (k - m)] = s[1 + (k - m)]
    BY <1>2, <2>1
  <2>3. k - m + 1 \in 2..Len(s)
    BY <1>1, <2>1
  <2>4. QED
    BY <2>1, <2>2, <2>3
<1>3. Linked(t)
  <2> SUFFICES ASSUME NEW k \in 1..Len(t) PROVE LinkedAt(t, k)
    BY DEF Linked
  <2>1. CASE k < m
    <3>1. t[k] = p[k] /\ t[k + 1] = p[k + 1] /\ (k > 1 => t[k - 1] = p[k - 1]) /\ k \in 1..m /\ k < Len(t)
      <4>1. k \in 1..m /\ k + 1 \in 1..m /\ (k > 1 => k - 1 \in 1..m)
        BY <1>1, <2>1
      <4>2. t[k] = p[k] /\ t[k + 1] = p[k + 1]
        BY <1>2, <4>1
      <4>3. k > 1 => t[k - 1] = p[k - 1]
        BY <1>2, <4>1
      <4>4. k < Len(t)
        BY <1>1, <1>2, <2>1
      <4>5. QED
        BY <4>1, <4>2, <4>3, <4>4
    <3>2. LinkedAt(p, k)
      BY <3>1 DEF Shape, Linked, m
    <3>3. QED
      BY <2>1, <3>1, <3>2 DEF LinkedAt, m
  <2>2. CASE k = m
    <3>1. t[k] = p[k] /\ (k > 1 => t[k - 1] = p[k - 1]) /\ k \in 1..m
      BY <1>1, <1>2, <2>2
    <3>2. LinkedAt(p, k)
      BY <3>1 DEF Shape, Linked, m
    <3>3. p[k].do # "state" /\ p[k].do # "startup" /\ p[k].do # "comm"
      BY <1>1, <2>2, <3>2 DEF LinkedAt, m
    <3>4. QED
      BY <2>2, <3>1, <3>2, <3>3 DEF LinkedAt
  <2>3. CASE k > m
    <3>1. PICK i \in 2..Len(s) : i = k - m + 1
      BY <1>1, <1>a, <2>3
    <3>2. t[k] = s[i] /\ (k < Len(t) => t[k + 1] = s[i + 1]) /\ (i < Len(s) <=> k < Len(t)) /\ (k = Len(t) <=> i = Len(s))
      <4>1. (i < Len(s) <=> k < Len(t)) /\ (k = Len(t) <=> i = Len(s)) /\ k \in (m + 1)..Len(t)
        BY <1>1, <1>2, <2>3, <3>1
      <4>2. t[k] = s[i]
        BY <1>a, <3>1, <4>1
      <4>3. ASSUME k < Len(t) PROVE t[k + 1] = s[i + 1]
        <5>1. k + 1 \in (m + 1)..Len(t) /\ (k + 1) - m + 1 = i + 1
          BY <1>1, <3>1, <4>1, <4>3
        <5>2. QED
          BY <1>a, <5>1
      <4>4. QED
        BY <4>1, <4>2, <4>3
    <3>3. ASSUME k > m + 1 PROVE t[k - 1] = s[i - 1]
      <4>1. k - 1 \in (m + 1)..Len(t) /\ (k - 1) - m + 1 = i - 1
        BY <1>1, <3>1, <3>3
      <4>2. QED
        BY <1>a, <4>1
    <3>4. ASSUME k = m + 1 PROVE t[k - 1] = p[m] /\ i = 2
      <4>1. k - 1 = m /\ m \in 1..m /\ i = 2
        BY <1>1, <3>1, <3>4
      <4>2. QED
        BY <1>2, <4>1
    <3>5. LinkedAt(s, i)
      BY <3>1 DEF Shape, Linked
    <3>6. CASE k > m + 1
      BY <1>1, <2>3, <3>1, <3>2, <3>3, <3>5, <3>6 DEF LinkedAt
    <3>7. CASE k = m + 1
      <4>1. s[i].do # "running" /\ s[i] # StateStep("RUN")
        BY <1>1, <3>4, <3>5, <3>7 DEF LinkedAt, StateStep
      <4>2. s[i].do = "reset" => p[m] = RunningStep("STOP")
        BY <1>1, <3>4, <3>5, <3>7 DEF LinkedAt, RunningStep, m
      <4>3. QED
        BY <1>1, <2>3, <3>1, <3>2, <3>4, <3>5, <3>7, <4>1, <4>2 DEF LinkedAt
    <3>8. QED
      BY <1>1, <2>3, <3>6, <3>7
  <2>4. QED
    BY <1>1, <2>1, <2>2, <2>3
<1>4. ExceptPlace(t)
  <2> SUFFICES ASSUME NEW j \in 1..Len(t), NEW k \in 1..Len(t), j < k, t[k].do = "except"
               PROVE  /\ t[j] = Enter("RUN") => k = j + 1
                      /\ t[j].do = "startup" => k = j + 3
                      /\ t[j] = StateStep("RUN") => k = j + 2
    BY DEF ExceptPlace
  <2>1. CASE k <= m
    <3>1. j \in 1..m /\ k \in 1..m /\ t[j] = p[j] /\ t[k] = p[k]
      BY <1>1, <1>2, <2>1
    <3>2. QED
      BY <3>1 DEF Shape, ExceptPlace, m
  <2>2. CASE j > m
    <3>1. /\ k - m + 1 \in 2..Len(s) /\ t[k] = s[k - m + 1]
          /\ j - m + 1 \in 2..Len(s) /\ t[j] = s[j - m + 1]
      BY <1>1, <1>a, <2>2
    <3>2. /\ s[j - m + 1] = Enter("RUN") => k - m + 1 = j - m + 1 + 1
          /\ s[j - m + 1].do = "startup" => k - m + 1 = j - m + 1 + 3
          /\ s[j - m + 1] = StateStep("RUN") => k - m + 1 = j - m + 1 + 2
      BY <1>1, <3>1 DEF Shape, ExceptPlace
    <3>3. QED
      BY <1>1, <3>1, <3>2
  <2>3. CASE j <= m /\ k > m
    <3>1. j \in 1..m /\ t[j] = p[j] /\ t[k] = s[k - m + 1] /\ k - m + 1 \in 2..Len(s)
      BY <1>1, <1>2, <1>a, <2>3
    <3>2. s[1] = Enter("RUN") => k = m + 1
      <4>1. s[1] = Enter("RUN") => k - m + 1 = 2
        BY <1>1, <3>1 DEF Shape, ExceptPlace
      <4>2. QED
        BY <1>1, <4>1
    <3>3. p[j] # Enter("RUN")
      BY <3>1 DEF m
    <3>4. p[j].do = "startup" => s[1] = Enter("RUN") /\ j = m - 2
      BY <3>1 DEF m
    <3>5. p[j] = StateStep("RUN") => s[1] = Enter("RUN") /\ j = m - 1
      BY <3>1 DEF m
    <3>6. t[j].do = "startup" => k = j + 3
      <4>1. t[j].do = "startup" => k = m + 1 /\ j = m - 2
        BY <3>1, <3>2, <3>4
      <4>2. QED
        BY <1>1, <4>1
    <3>7. t[j] = StateStep("RUN") => k = j + 2
      <4>1. t[j] = StateStep("RUN") => k = m + 1 /\ j = m - 1
        BY <3>1, <3>2, <3>5
      <4>2. QED
        BY <1>1, <4>1
    <3>8. QED
      BY <3>1, <3>3, <3>6, <3>7
  <2>4. QED
    BY <1>1, <2>1, <2>2, <2>3
<1>5. Fronts(t)
  <2> SUFFICES ASSUME NEW j \in 1..Len(t), NEW k \in 1..Len(t), j < k
               PROVE  /\ t[k].do = "startup" => t[j] \in LoadSteps
                      /\ t[k].do = "pend" => t[j] \in Halts
    BY DEF Fronts
  <2>1. CASE k <= m
    <3>1. j \in 1..m /\ k \in 1..m /\ t[j] = p[j] /\ t[k] = p[k]
      BY <1>1, <1>2, <2>1
    <3>2. QED
      BY <3>1 DEF Shape, Fronts, m
  <2>2. CASE k > m
    <3>1. t[k] = s[k - m + 1] /\ k - m + 1 \in 2..Len(s)
      BY <1>1, <1>a, <2>2
    <3>2. CASE j > m
      <4> DEFINE a == j - m + 1
                 b == k - m + 1
      <4>1. a \in 1..Len(s) /\ b \in 1..Len(s) /\ a < b /\ t[j] = s[a] /\ t[k] = s[b]
        BY <1>1, <1>a, <3>1, <3>2
      <4> HIDE DEF a, b
      <4>2. QED
        BY <4>1 DEF Shape, Fronts
    <3>3. CASE j <= m
      <4>1. j \in 1..m /\ t[j] = p[j]
        BY <1>1, <1>2, <3>3
      <4>2. /\ s[k - m + 1].do = "startup" => s[1] \in LoadSteps
            /\ s[k - m + 1].do = "pend" => s[1] \in Halts
        BY <1>1, <3>1 DEF Shape, Fronts
      <4>3. QED
        BY <3>1, <4>1, <4>2 DEF m
    <3>4. QED
      BY <1>1, <3>2, <3>3
  <2>3. QED
    BY <1>1, <2>1, <2>2
<1>6. QED
  BY <1>3, <1>4, <1>5 DEF Shape

\* The steps that setRunState(s) puts in front.
PlainSteps(s) == <<StateStep(s), RunningStep(s)>>
RunSteps == <<Step("startup"), StateStep("RUN"), RunningStep("RUN")>>
LoadRunSteps == <<Step("load"), Except, Step("startup"), StateStep("RUN"), RunningStep("RUN")>>

Entered(s) == Work(s) \o Commit(s)

LEMMA EnteredCases ==
  ASSUME NEW s
  PROVE  Entered(s) = IF s # "RUN" THEN PlainSteps(s) ELSE IF project THEN LoadRunSteps ELSE RunSteps
<1>1. Commit(s) = PlainSteps(s)
  BY DEF Commit, PlainSteps, StateStep, RunningStep
<1>2. CASE s # "RUN"
  BY <1>1, <1>2 DEF Entered, Work, PlainSteps
<1>3. CASE s = "RUN" /\ project
  <2>1. Work(s) = <<Step("load"), Except, Step("startup")>>
    <3>1. Work(s) = <<Step("load"), Except>> \o <<Step("startup")>>
      BY <1>3 DEF Work
    <3>2. QED
      BY <3>1, Join21
  <2>2. Commit(s) = <<StateStep("RUN"), RunningStep("RUN")>>
    BY <1>1, <1>3 DEF PlainSteps
  <2>3. <<Step("load"), Except, Step("startup")>> \o <<StateStep("RUN"), RunningStep("RUN")>> = LoadRunSteps
    BY Join32 DEF LoadRunSteps
  <2>4. QED
    BY <1>3, <2>1, <2>2, <2>3 DEF Entered
<1>4. CASE s = "RUN" /\ ~project
  <2>1. Work(s) = <<Step("startup")>>
    BY <1>4 DEF Work
  <2>2. Commit(s) = <<StateStep("RUN"), RunningStep("RUN")>>
    BY <1>1, <1>4 DEF PlainSteps
  <2>3. QED
    BY <1>4, <2>1, <2>2, Join12 DEF Entered, RunSteps
<1>5. QED
  BY <1>2, <1>3, <1>4

LEMMA EnteredElements ==
  /\ \A s : /\ Len(PlainSteps(s)) = 2
            /\ PlainSteps(s)[1] = StateStep(s) /\ PlainSteps(s)[2] = RunningStep(s)
  /\ Len(RunSteps) = 3
  /\ RunSteps[1] = Step("startup") /\ RunSteps[2] = StateStep("RUN") /\ RunSteps[3] = RunningStep("RUN")
  /\ Len(LoadRunSteps) = 5 /\ LoadRunSteps[1] = Step("load") /\ LoadRunSteps[2] = Except
  /\ LoadRunSteps[3] = Step("startup") /\ LoadRunSteps[4] = StateStep("RUN")
  /\ LoadRunSteps[5] = RunningStep("RUN")
BY DEF PlainSteps, RunSteps, LoadRunSteps

LEMMA ShapeOfEntered ==
  /\ \A s : s # "RUN" => Shape(PlainSteps(s))
  /\ Shape(RunSteps) /\ Shape(LoadRunSteps)
<1>1. ASSUME NEW s, s # "RUN" PROVE Shape(PlainSteps(s))
  BY <1>1 DEF PlainSteps, Shape, Linked, LinkedAt, ExceptPlace, Fronts, StateStep, RunningStep
<1>2. Shape(RunSteps)
  BY DEF RunSteps, Shape, Linked, LinkedAt, ExceptPlace, Fronts, StateStep, RunningStep, Step
<1>3. Shape(LoadRunSteps)
  BY DEF LoadRunSteps, Shape, Linked, LinkedAt, ExceptPlace, Fronts, StateStep, RunningStep, Step,
         Except, Enter, LoadSteps
<1>4. QED
  BY <1>1, <1>2, <1>3

LoadFront == <<Enter("STOP"), Step("reset"), Step("hwmod"), Enter("STOP"), Step("content")>>

LEMMA ShapeOfLoadFront == Shape(LoadFront)
BY DEF LoadFront, Shape, Linked, LinkedAt, ExceptPlace, Fronts, StateStep, RunningStep, Step, Enter, LoadSteps, Halts

\* The end of run() and of a fault, and what a loop begins.
Recovery == <<Enter("STOP"), Step("rebuild")>>
              \o (IF embedded THEN <<Step("raise"), Enter("STOP"), Step("assert")>> ELSE <<>>)

LEMMA ShapeOfRecovery == Shape(Recovery)
<1>1. CASE embedded
  <2> DEFINE w == <<Enter("STOP"), Step("rebuild"), Step("raise"), Enter("STOP"), Step("assert")>>
  <2>1. Recovery = w
    BY <1>1, Join23 DEF Recovery
  <2>2. Shape(w)
    BY DEF Shape, Linked, LinkedAt, ExceptPlace, Fronts, StateStep, RunningStep, Step, Enter
  <2>3. QED
    BY <2>1, <2>2
<1>2. CASE ~embedded
  <2> DEFINE w == <<Enter("STOP"), Step("rebuild")>>
  <2>1. Recovery = w
    BY <1>2 DEF Recovery
  <2>2. Shape(w)
    BY DEF Shape, Linked, LinkedAt, ExceptPlace, Fronts, StateStep, RunningStep, Step, Enter
  <2>3. QED
    BY <2>1, <2>2
<1>3. QED
  BY <1>1, <1>2

LEMMA MaintenanceSteps ==
  ASSUME NEW s
  PROVE  AfterMaintenance(s) \in {<<Step("leave")>>, <<Enter("MAINTENANCE")>>,
                                  <<Enter("MAINTENANCE"), Step("leave")>>}
<1>1. <<Enter("MAINTENANCE")>> \o <<>> = <<Enter("MAINTENANCE")>>
  OBVIOUS
<1>2. <<Enter("MAINTENANCE")>> \o <<Step("leave")>> = <<Enter("MAINTENANCE"), Step("leave")>>
  BY Join11
<1>3. QED
  BY <1>1, <1>2 DEF AfterMaintenance

LEMMA ShapeOfOthers ==
  /\ Shape(<<Step("leave")>>) /\ Shape(<<Enter("MAINTENANCE")>>)
  /\ Shape(<<Enter("MAINTENANCE"), Step("leave")>>)
  /\ Shape(<<Step("load")>>) /\ Shape(<<Step("comm")>>) /\ Shape(<<Step("cycle"), Step("comm")>>)
BY DEF Shape, Linked, LinkedAt, ExceptPlace, Fronts, StateStep, RunningStep, Step, Enter

\* A message is handled in front of the rest of __handleCommunication.
LEMMA ShapeOfHandling ==
  ASSUME NEW msg \in Messages, NEW S, NEW s \in Seq(S), s # <<>>, s[1].do = "comm", Shape(s)
  PROVE  Shape(Handler(msg) \o s)
<1> DEFINE c == s[1]
<1>1. s = <<c>>
  <2>1. Len(s) \in Nat /\ Len(s) > 0
    OBVIOUS
  <2>2. LinkedAt(s, 1)
    BY <2>1 DEF Shape, Linked
  <2>3. Len(s) = 1
    BY <2>1, <2>2 DEF LinkedAt
  <2>4. QED
    BY <2>3
<1>2. msg \in {"RUN", "STOP", "RESET", "SHUTDOWN", "HWMOD", "LIBSEL", "AWLSRC"}
  BY CoreServerAssumption
<1>3. Handler(msg) \in {<<>>, <<Enter("RUN")>>, <<Enter("STOP")>>, <<Enter("EXIT")>>, <<Step("hwmod")>>,
                        <<Step("content")>>, <<Enter("STOP"), Step("reset")>>,
                        <<Enter("STOP"), Step("content")>>}
  BY <1>2 DEF Handler
<1>4. /\ <<>> \o <<c>> = <<c>> 
      /\ \A a : <<a>> \o <<c>> = <<a, c>>
      /\ \A a, b : <<a, b>> \o <<c>> = <<a, b, c>>
  BY Join11, Join21
<1>5. /\ Shape(<<c>>) /\ Shape(<<Enter("RUN"), c>>) /\ Shape(<<Enter("STOP"), c>>)
      /\ Shape(<<Enter("EXIT"), c>>) /\ Shape(<<Step("hwmod"), c>>) /\ Shape(<<Step("content"), c>>)
  <2>1. Shape(<<c>>)
    BY DEF Shape, Linked, LinkedAt, ExceptPlace, Fronts, StateStep, RunningStep, Step, Enter
  <2>2. Shape(<<Enter("RUN"), c>>)
    BY DEF Shape, Linked, LinkedAt, ExceptPlace, Fronts, StateStep, RunningStep, Step, Enter
  <2>3. Shape(<<Enter("STOP"), c>>) /\ Shape(<<Enter("EXIT"), c>>)
    BY DEF Shape, Linked, LinkedAt, ExceptPlace, Fronts, StateStep, RunningStep, Step, Enter
  <2>4. Shape(<<Step("hwmod"), c>>)
    BY DEF Shape, Linked, LinkedAt, ExceptPlace, Fronts, StateStep, RunningStep, Step, Enter
  <2>5. Shape(<<Step("content"), c>>)
    BY DEF Shape, Linked, LinkedAt, ExceptPlace, Fronts, StateStep, RunningStep, Step, Enter
  <2>6. QED
    BY <2>1, <2>2, <2>3, <2>4, <2>5
<1>6. Shape(<<Enter("STOP"), Step("reset"), c>>) /\ Shape(<<Enter("STOP"), Step("content"), c>>)
  BY DEF Shape, Linked, LinkedAt, ExceptPlace, Fronts, StateStep, RunningStep, Step, Enter
<1> HIDE DEF c
<1>7. QED
  BY <1>1, <1>3, <1>4, <1>5, <1>6, Zenon

----------------------------------------------------------------------------
(* The steps keep their shape                                              *)

Raising == {"startup", "load", "reset", "hwmod", "content", "cycle"}

\* A project is loaded, and does not fail at once.
Loads == LoadProject /\ todo' = LoadFront \o Tail(todo)

\* All that an action does to the steps.
LEMMA TodoSteps ==
  ASSUME [Next]_vars
  PROVE  \/ todo' = todo
         \/ todo # <<>> /\ Continue
         \/ todo # <<>> /\ Head(todo).do \in Raising /\ Error
         \/ todo # <<>> /\ Head(todo).do \in {"startup", "cycle"} /\ Maintenance
         \/ Entering
         \/ Loads
         \/ Receive
         \/ todo = <<>> /\ todo' \in {<<Step("load")>>, <<Step("comm")>>, <<Step("cycle"), Step("comm")>>}
<1>1. CASE SetRunState
  BY <1>1 DEF SetRunState, Entering, Doing
<1>2. CASE SetState \/ SetRunning \/ SkipExcept \/ PendProject \/ ScheduleRebuild
           \/ EnterRun \/ Leave \/ Silence \/ RaiseFromRun
  BY <1>2
     DEF SetState, SetRunning, SkipExcept, PendProject, ScheduleRebuild, EnterRun, Leave,
         Silence, RaiseFromRun, Doing
<1>3. CASE Startup \/ ResetAll \/ LoadHardware \/ Translate \/ Cycle
  BY <1>3
     DEF Startup, StartupDone, StartupFails, ResetAll, ResetDone, ResetFails, LoadHardware,
         Translate, Cycle, Doing, Raising
<1>4. CASE LoadProject
  BY <1>4 DEF LoadProject, Loads, LoadFront, Doing, Raising
<1>5. CASE Receive
  BY <1>5
<1>6. CASE LoopHead \/ LoopHalted \/ LoopRunning
  BY <1>6 DEF LoopHead, LoopHalted, LoopRunning, Test, control
<1>7. CASE SigTerm \/ Ended \/ UNCHANGED vars
  BY <1>7 DEF SigTerm, Ended, vars
<1>8. QED
  BY <1>1, <1>2, <1>3, <1>4, <1>5, <1>6, <1>7 DEF Next, Thread, HardwareSteps, OtherSteps

\* An AwlSimError goes on behind the next except clause, or in run().
LEMMA ErrorCases ==
  ASSUME todo \in Seq(StepSet), todo # <<>>, Error
  PROVE  \/ todo' = Recovery
         \/ \E i \in 2..Len(todo) : todo[i].do = "except" /\ todo' = Rest(todo, i)
<1> DEFINE t == Tail(todo)
           i == FirstExcept(t)
<1>1. t \in Seq(StepSet) /\ Len(t) = Len(todo) - 1 /\ \A k \in 1..Len(t) : t[k] = todo[k + 1]
  OBVIOUS
<1>2. i \in 0..Len(t) /\ (i > 0 => t[i].do = "except")
  BY <1>1, FirstExceptIsIndex
<1>3. todo' = IF i > 0 THEN SubSeq(t, i + 1, Len(t)) ELSE Recovery
  BY DEF Error, AfterError, FirstExcept, Recovery
<1> HIDE DEF i
<1>4. CASE i > 0
  <2>1. i + 1 \in 2..Len(todo) /\ todo[i + 1].do = "except"
    BY <1>1, <1>2, <1>4
  <2>2. SubSeq(t, i + 1, Len(t)) = Rest(todo, i + 1)
    BY <1>1, <1>2, <1>4 DEF Rest
  <2>3. QED
    BY <1>3, <1>4, <2>1, <2>2
<1>5. QED
  BY <1>2, <1>3, <1>4

\* What the call of setRunState at the head is for, and its steps.
Target == Head(todo).to
Pushed == Entered(Target)

LEMMA EnteringElements ==
  ASSUME todo \in Seq(StepSet), Entering
  PROVE  /\ todo # <<>> /\ todo' = Pushed \o Tail(todo) /\ todo[1] = Enter(Target) /\ Target \in Targets
         /\ Pushed \in Seq(StepSet) /\ Pushed # <<>>
         /\ Pushed[Len(Pushed)].do # "comm"
         /\ todo[1] = Enter("STOP") => Pushed[Len(Pushed)] = RunningStep("STOP")
         /\ \A i \in 1..Len(Pushed) :
              /\ Pushed[i] # Enter("RUN") /\ Pushed[i].do # "pend"
              /\ Pushed[i].do = "startup" => todo[1] = Enter("RUN") /\ i = Len(Pushed) - 2
              /\ Pushed[i] = StateStep("RUN") => todo[1] = Enter("RUN") /\ i = Len(Pushed) - 1
<1>1. todo # <<>> /\ todo' = Pushed \o Tail(todo) /\ todo[1] = Enter(Target) /\ Target \in Targets
  <2>1. todo # <<>> /\ todo' = Pushed \o Tail(todo) /\ Head(todo).do = "enter"
    BY DEF Entering, SetRunState, Doing, Entered, Pushed, Target
  <2>2. todo[1] \in StepSet /\ Head(todo) = todo[1]
    BY <2>1, ElementOfSeq
  <2>3. QED
    BY <2>1, <2>2 DEF Enter, StepSet, Target
<1>2. Pushed \in Seq(StepSet) /\ Pushed # <<>>
  <2>1. /\ StateStep(Target) \in StepSet /\ RunningStep(Target) \in StepSet
        /\ StateStep("RUN") \in StepSet /\ RunningStep("RUN") \in StepSet
    BY <1>1, CalmSteps DEF StepSet, StateStep, RunningStep, Steps
  <2>2. Step("load") \in StepSet /\ Except \in StepSet /\ Step("startup") \in StepSet
    BY CalmSteps, CalmIsStep DEF Steps, Except
  <2>3. /\ PlainSteps(Target) \in Seq(StepSet) /\ PlainSteps(Target) # <<>>
        /\ RunSteps \in Seq(StepSet) /\ RunSteps # <<>>
        /\ LoadRunSteps \in Seq(StepSet) /\ LoadRunSteps # <<>>
    BY <2>1, <2>2 DEF PlainSteps, RunSteps, LoadRunSteps
  <2>4. QED
    BY <2>3, EnteredCases DEF Pushed
<1>3. /\ Pushed[Len(Pushed)].do # "comm"
      /\ todo[1] = Enter("STOP") => Pushed[Len(Pushed)] = RunningStep("STOP")
      /\ \A i \in 1..Len(Pushed) :
           /\ Pushed[i] # Enter("RUN") /\ Pushed[i].do # "pend"
           /\ Pushed[i].do = "startup" => todo[1] = Enter("RUN") /\ i = Len(Pushed) - 2
           /\ Pushed[i] = StateStep("RUN") => todo[1] = Enter("RUN") /\ i = Len(Pushed) - 1
  <2>1. CASE Target # "RUN"
    <3>1. Len(Pushed) = 2 /\ Pushed[1] = StateStep(Target) /\ Pushed[2] = RunningStep(Target)
      BY <2>1, EnteredCases, EnteredElements DEF Pushed
    <3>2. todo[1] = Enter("STOP") => Target = "STOP"
      BY <1>1 DEF Enter
    <3>3. \A i \in 1..Len(Pushed) : i = 1 \/ i = 2
      BY <3>1
    <3>4. QED
      BY <2>1, <3>1, <3>2, <3>3 DEF StateStep, RunningStep, Enter
  <2>2. CASE Target = "RUN"
    <3>1. Pushed = RunSteps \/ Pushed = LoadRunSteps
      BY <2>2, EnteredCases DEF Pushed
    <3>2. todo[1] = Enter("RUN") /\ todo[1] # Enter("STOP")
      BY <1>1, <2>2 DEF Enter
    <3>3. CASE Pushed = RunSteps
      <4>1. /\ Len(Pushed) = 3 /\ Pushed[1] = Step("startup") /\ Pushed[2] = StateStep("RUN")
            /\ Pushed[3] = RunningStep("RUN")
        BY <3>3, EnteredElements
      <4>2. \A i \in 1..Len(Pushed) : i = 1 \/ i = 2 \/ i = 3
        BY <4>1
      <4>3. QED
        BY <3>2, <4>1, <4>2 DEF StateStep, RunningStep, Step, Enter
    <3>4. CASE Pushed = LoadRunSteps
      <4>1. /\ Len(Pushed) = 5 /\ Pushed[1] = Step("load") /\ Pushed[2] = Except /\ Pushed[3] = Step("startup")
            /\ Pushed[4] = StateStep("RUN") /\ Pushed[5] = RunningStep("RUN")
        BY <3>4, EnteredElements
      <4>2. \A i \in 1..Len(Pushed) : i = 1 \/ i = 2 \/ i = 3 \/ i = 4 \/ i = 5
        BY <4>1
      <4>3. QED
        BY <3>2, <4>1, <4>2 DEF StateStep, RunningStep, Step, Except, Enter
    <3>5. QED
      BY <3>1, <3>3, <3>4
  <2>3. QED
    BY <2>1, <2>2
<1>4. QED
  BY <1>1, <1>2, <1>3

LEMMA ShapeOfEntering ==
  ASSUME todo \in Seq(StepSet), Shape(todo), Entering, todo' \in Seq(StepSet)
  PROVE  Shape(todo')
<1>1. /\ todo # <<>> /\ todo' = Pushed \o Tail(todo) /\ todo[1] = Enter(Target)
      /\ Pushed \in Seq(StepSet) /\ Pushed # <<>>
  BY EnteringElements
<1>2. Shape(Pushed)
  BY EnteredCases, ShapeOfEntered DEF Pushed
<1>3. Moved(todo, todo', Pushed, 1) /\ Len(todo') \in Nat
  BY <1>1, PushIsMoved
<1>4. /\ Pushed[Len(Pushed)].do # "comm"
      /\ todo[1] = Enter("STOP") => Pushed[Len(Pushed)] = RunningStep("STOP")
      /\ \A i \in 1..Len(Pushed) :
           /\ Pushed[i] # Enter("RUN") /\ Pushed[i].do # "pend"
           /\ Pushed[i].do = "startup" => todo[1] = Enter("RUN") /\ i = Len(Pushed) - 2
           /\ Pushed[i] = StateStep("RUN") => todo[1] = Enter("RUN") /\ i = Len(Pushed) - 1
  BY EnteringElements
<1>5. /\ todo[1] \in LoadSteps => \A i \in 1..Len(Pushed) : Pushed[i] \in LoadSteps
      /\ todo[1] \in Halts => \A i \in 1..Len(Pushed) : Pushed[i] \in Halts
  <2>1. todo[1] \in LoadSteps => Target = "STOP"
    BY <1>1 DEF LoadSteps, Enter, StateStep, RunningStep, Step, Except
  <2>2. todo[1] \in Halts => Target \in {"STOP", "MAINTENANCE"}
    BY <1>1 DEF Halts, Enter, StateStep, RunningStep
  <2>3. Target # "RUN" => Pushed = PlainSteps(Target)
    BY EnteredCases DEF Pushed
  <2>4. /\ Target \in {"STOP", "MAINTENANCE"} => \A i \in 1..Len(PlainSteps(Target)) : PlainSteps(Target)[i] \in Halts
        /\ Target = "STOP" => \A i \in 1..Len(PlainSteps(Target)) : PlainSteps(Target)[i] \in LoadSteps
    BY DEF PlainSteps, Halts, LoadSteps
  <2>5. QED
    BY <2>1, <2>2, <2>3, <2>4
<1>6. todo[1].do = "enter"
  BY <1>1 DEF Enter
<1>7. QED
  BY <1>1, <1>2, <1>3, <1>4, <1>5, <1>6, ShapeJoins

LEMMA ShapeOfLoads ==
  ASSUME todo \in Seq(StepSet), Shape(todo), Loads, todo' \in Seq(StepSet)
  PROVE  Shape(todo')
<1>1. todo # <<>> /\ todo' = LoadFront \o Tail(todo) /\ todo[1].do = "load"
  BY DEF Loads, LoadProject, Doing
<1>2. LoadFront \in Seq(StepSet) /\ LoadFront # <<>>
  <2>1. Enter("STOP") \in StepSet /\ Step("reset") \in StepSet /\ Step("hwmod") \in StepSet /\ Step("content") \in StepSet
    BY CalmSteps, CalmIsStep DEF Steps
  <2>2. QED
    BY <2>1 DEF LoadFront
<1>3. Moved(todo, todo', LoadFront, 1) /\ Len(todo') \in Nat
  BY <1>1, <1>2, PushIsMoved
<1>4. /\ LoadFront[Len(LoadFront)].do # "comm" /\ todo[1] # Enter("STOP")
      /\ \A i \in 1..Len(LoadFront) :
           /\ LoadFront[i] # Enter("RUN") /\ LoadFront[i].do # "pend"
           /\ LoadFront[i].do # "startup" /\ LoadFront[i] # StateStep("RUN")
  BY <1>1 DEF LoadFront, Enter, Step, StateStep
<1>5. (\A i \in 1..Len(LoadFront) : LoadFront[i] \in LoadSteps) /\ todo[1] \notin Halts
  BY <1>1 DEF LoadFront, LoadSteps, Halts, Enter, StateStep, RunningStep
<1>6. QED
  BY <1>1, <1>2, <1>3, <1>4, <1>5, ShapeJoins, ShapeOfLoadFront

LEMMA ShapeStep ==
  ASSUME IInv, Shape(todo), [Next]_vars
  PROVE  Shape(todo')
<1>1. todo \in Seq(StepSet) /\ todo' \in Seq(StepSet)
  BY StepsStay, EnteringAdds, CalmIsStep DEF IInv, TypeOK
<1>2. Len(todo') \in Nat
  BY <1>1
<1>3. ASSUME todo # <<>>, Continue PROVE Shape(todo')
  <2>1. Moved(todo, Tail(todo), <<>>, 1) /\ 1 \in 0..Len(todo)
    BY <1>1, <1>3, TailIsMoved
  <2>2. QED
    BY <1>1, <1>2, <1>3, <2>1, ShapeDrops DEF Continue
<1>4. ASSUME todo # <<>>, Error PROVE Shape(todo')
  <2>1. CASE todo' = Recovery
    BY <2>1, ShapeOfRecovery
  <2>2. CASE \E i \in 2..Len(todo) : todo' = Rest(todo, i)
    <3>1. PICK i \in 2..Len(todo) : todo' = Rest(todo, i)
      BY <2>2
    <3>2. i \in 0..Len(todo)
      OBVIOUS
    <3>3. Rest(todo, i) \in Seq(StepSet) /\ <<>> \o Rest(todo, i) = Rest(todo, i) /\ <<>> \in Seq(StepSet)
      BY <1>1, <3>2, RestFacts
    <3>4. Moved(todo, todo', <<>>, i)
      BY <1>1, <3>1, <3>2, <3>3, MovedIsMoved
    <3>5. QED
      BY <1>1, <1>2, <3>2, <3>4, ShapeDrops
  <2>3. QED
    BY <1>1, <1>4, <2>1, <2>2, ErrorCases
<1>5. ASSUME Maintenance PROVE Shape(todo')
  BY <1>5, MaintenanceSteps, ShapeOfOthers DEF Maintenance
<1>6. ASSUME Entering PROVE Shape(todo')
  BY <1>1, <1>6, ShapeOfEntering DEF IInv
<1>7. ASSUME Loads PROVE Shape(todo')
  BY <1>1, <1>7, ShapeOfLoads
<1>8. ASSUME Receive PROVE Shape(todo')
  <2>1. PICK msg \in Messages : todo' = Handler(msg) \o todo
    BY <1>8 DEF Receive
  <2>2. todo # <<>> /\ Head(todo).do = "comm"
    BY <1>8 DEF Receive, Doing
  <2>3. QED
    BY <1>1, <2>1, <2>2, ShapeOfHandling
<1>9. CASE todo = <<>> /\ todo' \in {<<Step("load")>>, <<Step("comm")>>, <<Step("cycle"), Step("comm")>>}
  BY <1>9, ShapeOfOthers
<1>10. QED
  BY <1>3, <1>4, <1>5, <1>6, <1>7, <1>8, <1>9, TodoSteps

----------------------------------------------------------------------------
(* What the steps say about the flags                                      *)

\* A startup is due or has been done, and waits for nothing but the project.
StartupReady == \A k \in 1..Len(todo) : todo[k].do = "startup" =>
  /\ k > 1 => needOB10x
  /\ needOB10x \/ started
  /\ project => todo[1].do = "load"

\* An exception that is caught on the way into RUN leaves a startup due, and
\* no RUN behind.
ExceptNeeds == \A k \in 1..Len(todo) : todo[k].do = "except" =>
  \/ needOB10x /\ state # "RUN"
  \/ \A j \in 1..(k - 1) : todo[j] = StateStep("RUN") \/ todo[j] = RunningStep("RUN")

\* A project is remembered only before the first startup.
PendNeeds == \A k \in 1..Len(todo) : todo[k].do = "pend" => needOB10x
ProjectNeeds == project => needOB10x

\* The handler of run() is on its way to the end.
Recovering == \E k \in 1..Len(todo) :
  /\ todo[k].do = "rebuild" \/ todo[k].do = "leave"
  /\ \A j \in 1..(k - 1) : todo[j] \in Halts

Requesting == todo # <<>> /\ todo[1] = Enter("MAINTENANCE") /\ ~Committing /\ state # "MAINTENANCE"

\* The CPU is started, or it will be before it runs.
Accounted == ended = "no" => needOB10x \/ started \/ Recovering \/ InExit \/ Requesting

\* __running is the shortcut for RUN, but for the moment between the two
\* assignments.
RunningAgrees ==
  running /\ state # "RUN" /\ state # "EXIT"
    => todo # <<>> /\ todo[1].do = "running" /\ todo[1].to # "RUN"

HeadFits == todo # <<>> =>
  /\ (todo[1].do = "state" \/ todo[1].do = "running") /\ todo[1].to = "RUN" => started
  /\ todo[1].do = "running" => state = todo[1].to \/ state = "EXIT"
  /\ todo[1].do = "reset" => state = "STOP" \/ state = "EXIT"
  /\ todo[1].do = "cycle" => (state = "RUN" \/ state = "EXIT") /\ ended = "no"

\* The next step ends RUN.
Stopping == todo # <<>> /\
  \/ todo[1] = Enter("STOP") \/ todo[1] = Enter("MAINTENANCE") \/ todo[1].do = "leave"
  \/ (todo[1].do = "state" \/ todo[1].do = "running") /\ todo[1].to # "RUN"

Runs ==
  ended = "no" /\ state # "EXIT" /\ (state = "RUN" \/ running) => started \/ Stopping

FlagsFit ==
  /\ StartupReady /\ ExceptNeeds /\ PendNeeds /\ ProjectNeeds /\ Accounted
  /\ RunningAgrees /\ HeadFits /\ Runs

\* The inductive invariant.
CInv == IInv /\ Shape(todo) /\ FlagsFit

LEMMA HeadIsFirst ==
  ASSUME NEW S, NEW s \in Seq(S), s # <<>>
  PROVE  /\ Len(s) \in Nat /\ Len(s) > 0 /\ Head(s) = s[1] /\ s[1] \in S
         /\ Len(Tail(s)) = Len(s) - 1 /\ \A k \in 1..Len(Tail(s)) : Tail(s)[k] = s[k + 1]
OBVIOUS

LEMMA StepIsRecord ==
  ASSUME NEW x \in StepSet
  PROVE  x = [do |-> x.do, to |-> x.to]
BY DEF StepSet

\* The steps when the first one is done.
LEMMA PopElements ==
  ASSUME CInv, todo # <<>>, Continue
  PROVE  /\ Len(todo) \in Nat /\ Len(todo) > 0 /\ Len(todo') = Len(todo) - 1
         /\ \A k \in 1..Len(todo') : todo'[k] = todo[k + 1] /\ k + 1 \in 1..Len(todo)
         /\ todo' # <<>> => Len(todo) > 1 /\ todo'[1] = todo[2] /\ LinkedAt(todo, 2)
                            /\ todo[2] = [do |-> todo[2].do, to |-> todo[2].to]
<1>1. todo \in Seq(StepSet) /\ todo' = Tail(todo)
  BY DEF CInv, IInv, Continue
<1>2. Len(todo) \in Nat /\ Len(todo) > 0 /\ Len(todo') = Len(todo) - 1 /\ (todo' # <<>> => Len(todo) > 1)
  BY <1>1, HeadIsFirst
<1>3. \A k \in 1..Len(todo') : todo'[k] = todo[k + 1] /\ k + 1 \in 1..Len(todo)
  BY <1>1, <1>2, HeadIsFirst
<1>4. ASSUME todo' # <<>>
      PROVE  /\ todo'[1] = todo[2] /\ LinkedAt(todo, 2)
             /\ todo[2] = [do |-> todo[2].do, to |-> todo[2].to]
  <2>1. 1 \in 1..Len(todo') /\ todo'[1] = todo[2] /\ 2 \in 1..Len(todo)
    BY <1>2, <1>3, <1>4
  <2>2. LinkedAt(todo, 2)
    BY <2>1 DEF CInv, Shape, Linked
  <2>3. todo[2] = [do |-> todo[2].do, to |-> todo[2].to]
    BY <1>1, <2>1, ElementOfSeq, StepIsRecord
  <2>4. QED
    BY <2>1, <2>2, <2>3
<1>5. QED
  BY <1>2, <1>3, <1>4

\* What a step is behind: after no other step comes one of these.
LEMMA PopsTo ==
  ASSUME CInv, todo # <<>>, Continue, todo' # <<>>
  PROVE  /\ todo'[1].do # "cycle"
         /\ todo'[1].do = "state" /\ todo'[1].to = "RUN" => todo[1].do = "startup"
         /\ todo'[1].do = "running" => todo[1] = StateStep(todo'[1].to)
         /\ todo'[1].do = "reset" => todo[1] = Enter("STOP") \/ todo[1] = RunningStep("STOP")
BY PopElements DEF LinkedAt, StateStep

\* A handler of run() that is not at its end goes on.
LEMMA PopRecovers ==
  ASSUME CInv, todo # <<>>, Continue, Recovering, todo[1].do # "rebuild", todo[1].do # "leave"
  PROVE  Recovering'
<1>1. PICK k \in 1..Len(todo) : /\ todo[k].do = "rebuild" \/ todo[k].do = "leave"
                               /\ \A j \in 1..(k - 1) : todo[j] \in Halts
  BY DEF Recovering
<1>2. /\ Len(todo) \in Nat /\ Len(todo) > 0 /\ Len(todo') = Len(todo) - 1
      /\ \A i \in 1..Len(todo') : todo'[i] = todo[i + 1] /\ i + 1 \in 1..Len(todo)
  BY PopElements
<1>3. k > 1
  BY <1>1
<1>4. k - 1 \in 1..Len(todo') /\ todo'[k - 1] = todo[k]
  <2>1. k - 1 \in 1..Len(todo') /\ (k - 1) + 1 = k
    BY <1>2, <1>3
  <2>2. QED
    BY <1>2, <2>1
<1>5. \A j \in 1..(k - 1 - 1) : todo'[j] \in Halts
  BY <1>1, <1>2, <1>3
<1>6. todo'[k - 1].do = "rebuild" \/ todo'[k - 1].do = "leave"
  BY <1>1, <1>4
<1>7. QED
  BY <1>4, <1>5, <1>6 DEF Recovering

\* An except clause that comes nearer still finds what it needs.
LEMMA PopExcepts ==
  ASSUME CInv, todo # <<>>, Continue, state' = state, needOB10x => needOB10x'
  PROVE  ExceptNeeds'
<1>1. \A k \in 1..Len(todo') : todo'[k] = todo[k + 1] /\ k + 1 \in 1..Len(todo)
  BY PopElements
<1> SUFFICES ASSUME NEW k \in 1..Len(todo'), todo'[k].do = "except"
             PROVE  \/ needOB10x' /\ state' # "RUN"
                    \/ \A j \in 1..(k - 1) : todo'[j] = StateStep("RUN") \/ todo'[j] = RunningStep("RUN")
  BY DEF ExceptNeeds
<1> DEFINE i == k + 1
<1>2. todo[i].do = "except" /\ i \in 1..Len(todo)
  BY <1>1
<1>3. CASE needOB10x /\ state # "RUN"
  BY <1>3
<1>4. CASE \A j \in 1..(i - 1) : todo[j] = StateStep("RUN") \/ todo[j] = RunningStep("RUN")
  <2>1. SUFFICES ASSUME NEW j \in 1..(k - 1)
                 PROVE  todo'[j] = StateStep("RUN") \/ todo'[j] = RunningStep("RUN")
    OBVIOUS
  <2>2. k \in Nat /\ k >= 1 /\ k <= Len(todo') /\ Len(todo') \in Nat
    BY PopElements
  <2>3. j \in 1..Len(todo') /\ j + 1 \in 1..(i - 1)
    BY <2>2
  <2>4. todo'[j] = todo[j + 1]
    BY <1>1, <2>3
  <2>5. QED
    BY <1>4, <2>3, <2>4
<1> HIDE DEF i
<1>5. ExceptNeeds
  BY DEF CInv, FlagsFit
<1>6. \/ needOB10x /\ state # "RUN"
      \/ \A j \in 1..(i - 1) : todo[j] = StateStep("RUN") \/ todo[j] = RunningStep("RUN")
  BY <1>2, <1>5 DEF ExceptNeeds
<1>7. QED
  BY <1>3, <1>4, <1>6

\* A step is done that concerns none of the flags, or asks for a startup.
LEMMA PopFits ==
  ASSUME CInv, [Next]_vars, todo # <<>>, Continue,
         UNCHANGED <<state, running, project, started>>, needOB10x => needOB10x', ended' = "no" => ended = "no",
         todo[1].do \notin {"state", "running", "startup", "load", "reset"},
         todo[1].do = "enter" => state = todo[1].to \/ state = "EXIT",
         todo[1].do = "rebuild" => needOB10x',
         todo[1].do = "leave" => ended' # "no"
  PROVE  FlagsFit'
<1>1. /\ Len(todo) \in Nat /\ Len(todo) > 0 /\ Len(todo') = Len(todo) - 1
      /\ \A k \in 1..Len(todo') : todo'[k] = todo[k + 1] /\ k + 1 \in 1..Len(todo)
  BY PopElements
<1>2. StartupReady'
  BY <1>1 DEF StartupReady, CInv, FlagsFit
<1>3. ExceptNeeds'
  BY PopExcepts
<1>4. PendNeeds' /\ ProjectNeeds'
  BY <1>1 DEF PendNeeds, ProjectNeeds, CInv, FlagsFit
<1>5. Accounted'
  <2>1. InExit => InExit'
    BY ExitStep DEF CInv
  <2>2. ended' = "no" /\ Recovering => Recovering' \/ needOB10x'
    BY PopRecovers
  <2>3. Requesting => InExit
    BY DEF Requesting, InExit, Enter
  <2>4. QED
    BY <2>1, <2>2, <2>3 DEF Accounted, CInv, FlagsFit
<1>6. RunningAgrees'
  BY DEF RunningAgrees, CInv, FlagsFit
<1>7. HeadFits'
  BY PopsTo DEF HeadFits, StateStep, RunningStep, Enter
<1>8. Runs'
  BY DEF Runs, Stopping, RunningAgrees, CInv, FlagsFit, Enter
<1>9. QED
  BY <1>2, <1>3, <1>4, <1>5, <1>6, <1>7, <1>8 DEF FlagsFit

\* setRunState sets the state: the shortcut follows at once.
LEMMA SetStateFits ==
  ASSUME CInv, [Next]_vars, SetState
  PROVE  FlagsFit'
<1> DEFINE s == todo[1].to
<1>1. /\ todo # <<>> /\ todo[1].do = "state" /\ Continue /\ state' = s
      /\ UNCHANGED <<running, needOB10x, project, started, ended>>
  BY DEF SetState, Doing, control
<1>2. /\ Len(todo) \in Nat /\ Len(todo) > 0 /\ Len(todo') = Len(todo) - 1
      /\ \A k \in 1..Len(todo') : todo'[k] = todo[k + 1] /\ k + 1 \in 1..Len(todo)
  BY <1>1, PopElements
<1>3. todo' # <<>> /\ todo'[1] = RunningStep(s)
  <2>1. LinkedAt(todo, 1)
    BY <1>2 DEF CInv, Shape, Linked
  <2>2. 1 < Len(todo) /\ todo[2] = RunningStep(s)
    BY <1>1, <2>1 DEF LinkedAt
  <2>3. 1 \in 1..Len(todo')
    BY <1>2, <2>2
  <2>4. QED
    BY <1>2, <2>2, <2>3
<1>4. StartupReady'
  BY <1>1, <1>2 DEF StartupReady, CInv, FlagsFit
<1>5. ExceptNeeds'
  <2> SUFFICES ASSUME NEW k \in 1..Len(todo'), todo'[k].do = "except"
               PROVE  \/ needOB10x' /\ state' # "RUN"
                      \/ \A j \in 1..(k - 1) : todo'[j] = StateStep("RUN") \/ todo'[j] = RunningStep("RUN")
    BY DEF ExceptNeeds
  <2>1. todo[k + 1].do = "except" /\ k + 1 \in 1..Len(todo) /\ 1 < k + 1
    BY <1>2
  <2>2. CASE needOB10x /\ s # "RUN"
    BY <1>1, <2>2
  <2>3. CASE s = "RUN"
    <3>1. todo[1] = StateStep("RUN")
      <4>1. todo[1] \in StepSet
        BY <1>1, HeadIsFirst DEF CInv, IInv
      <4>2. QED
        BY <1>1, <2>3, <4>1, StepIsRecord DEF StateStep
    <3>2. k + 1 = 1 + 2
      BY <1>2, <2>1, <3>1 DEF CInv, Shape, ExceptPlace
    <3>3. k = 2
      BY <3>2
    <3>4. QED
      BY <1>3, <2>3, <3>3
  <2>4. CASE \A j \in 1..(k + 1 - 1) : todo[j] = StateStep("RUN") \/ todo[j] = RunningStep("RUN")
    BY <1>2, <2>4
  <2>5. QED
    BY <2>1, <2>2, <2>3, <2>4 DEF CInv, FlagsFit, ExceptNeeds
<1>6. PendNeeds' /\ ProjectNeeds'
  BY <1>1, <1>2 DEF PendNeeds, ProjectNeeds, CInv, FlagsFit
<1>7. Accounted'
  <2>1. Recovering => Recovering'
    BY <1>1, PopRecovers
  <2>2. ~InExit /\ ~Requesting
    BY <1>1, <1>2 DEF InExit, Requesting, Committing, Enter
  <2>3. QED
    BY <1>1, <2>1, <2>2 DEF Accounted, CInv, FlagsFit
<1>8. HeadFits' /\ RunningAgrees' /\ Runs'
  BY <1>1, <1>3 DEF HeadFits, RunningAgrees, Runs, Stopping, RunningStep, CInv, FlagsFit
<1>9. QED
  BY <1>4, <1>5, <1>6, <1>7, <1>8 DEF FlagsFit

LEMMA SetRunningFits ==
  ASSUME CInv, [Next]_vars, SetRunning
  PROVE  FlagsFit'
<1> DEFINE s == todo[1].to
<1>1. /\ todo # <<>> /\ todo[1].do = "running" /\ Continue /\ running' = (s = "RUN")
      /\ UNCHANGED <<state, needOB10x, project, started, ended>>
  BY DEF SetRunning, Doing, control
<1>2. /\ Len(todo) \in Nat /\ Len(todo) > 0 /\ Len(todo') = Len(todo) - 1
      /\ \A k \in 1..Len(todo') : todo'[k] = todo[k + 1] /\ k + 1 \in 1..Len(todo)
  BY <1>1, PopElements
<1>3. (state = s \/ state = "EXIT") /\ (s = "RUN" => started)
  BY <1>1 DEF HeadFits, CInv, FlagsFit
<1>4. StartupReady' /\ ExceptNeeds' /\ PendNeeds' /\ ProjectNeeds'
  <2>1. StartupReady'
    BY <1>1, <1>2 DEF StartupReady, CInv, FlagsFit
  <2>2. ExceptNeeds'
    BY <1>1, PopExcepts
  <2>3. PendNeeds' /\ ProjectNeeds'
    BY <1>1, <1>2 DEF PendNeeds, ProjectNeeds, CInv, FlagsFit
  <2>4. QED
    BY <2>1, <2>2, <2>3
<1>5. Accounted'
  <2>1. Recovering => Recovering'
    BY <1>1, PopRecovers
  <2>2. ~InExit /\ ~Requesting
    BY <1>1, <1>2 DEF InExit, Requesting, Committing, Enter
  <2>3. QED
    BY <1>1, <2>1, <2>2 DEF Accounted, CInv, FlagsFit
<1>6. RunningAgrees' /\ Runs'
  BY <1>1, <1>3 DEF RunningAgrees, Runs
<1>7. HeadFits'
  BY <1>1, <1>3, PopsTo DEF HeadFits, StateStep, RunningStep, Enter
<1>8. QED
  BY <1>4, <1>5, <1>6, <1>7 DEF FlagsFit

\* startup() remembers the project.
LEMMA PendFits ==
  ASSUME CInv, [Next]_vars, PendProject
  PROVE  FlagsFit'
<1>1. /\ todo # <<>> /\ todo[1].do = "pend" /\ Continue
      /\ UNCHANGED <<state, running, needOB10x, started, ended>>
  BY DEF PendProject, Doing, control
<1>2. /\ Len(todo) \in Nat /\ Len(todo) > 0 /\ Len(todo') = Len(todo) - 1
      /\ \A k \in 1..Len(todo') : todo'[k] = todo[k + 1] /\ k + 1 \in 1..Len(todo)
  BY <1>1, PopElements
<1>3. needOB10x
  BY <1>1, <1>2 DEF PendNeeds, CInv, FlagsFit
<1>4. \A k \in 1..Len(todo') : todo'[k].do # "startup"
  <2>1. \A i \in 2..Len(todo) : todo[i].do = "startup" => todo[1] \in LoadSteps
    BY <1>2 DEF CInv, Shape, Fronts
  <2>2. todo[1] \notin LoadSteps
    BY <1>1 DEF LoadSteps, Enter, StateStep, RunningStep, Step, Except
  <2>3. QED
    BY <1>2, <2>1, <2>2
<1>5. needOB10x'
  BY <1>1, <1>3
<1>6. StartupReady' /\ PendNeeds' /\ ProjectNeeds' /\ Accounted'
  BY <1>4, <1>5 DEF StartupReady, PendNeeds, ProjectNeeds, Accounted
<1>7. ExceptNeeds'
  BY <1>1, PopExcepts
<1>8. RunningAgrees' /\ Runs'
  BY <1>1 DEF RunningAgrees, Runs, Stopping, Enter, CInv, FlagsFit
<1>9. HeadFits'
  BY <1>1, PopsTo DEF HeadFits, StateStep, RunningStep, Enter
<1>10. QED
  BY <1>6, <1>7, <1>8, <1>9 DEF FlagsFit

\* Hardware startup, build and OB 100 are done, or have been done before.
LEMMA StartupFits ==
  ASSUME CInv, [Next]_vars, todo # <<>>, todo[1].do = "startup", StartupDone
  PROVE  FlagsFit'
<1>1. Continue /\ UNCHANGED <<state, running, project, ended>> /\ ~needOB10x' /\ started' = (started \/ needOB10x)
  BY DEF StartupDone, control
<1>2. /\ Len(todo) \in Nat /\ Len(todo) > 0 /\ Len(todo') = Len(todo) - 1
      /\ \A k \in 1..Len(todo') : todo'[k] = todo[k + 1] /\ k + 1 \in 1..Len(todo)
  BY <1>1, PopElements
<1>3. started' /\ ~project'
  <2>1. (needOB10x \/ started) /\ ~project
    BY <1>2 DEF StartupReady, CInv, FlagsFit
  <2>2. QED
    BY <1>1, <2>1, Zenon
<1>4. \A k \in 1..Len(todo') : todo'[k].do # "startup" /\ todo'[k].do # "pend"
  <2>1. \A i \in 2..Len(todo) : /\ todo[i].do = "startup" => todo[1] \in LoadSteps
                                /\ todo[i].do = "pend" => todo[1] \in Halts
    BY <1>2 DEF CInv, Shape, Fronts
  <2>2. todo[1] \notin LoadSteps /\ todo[1] \notin Halts
    BY DEF LoadSteps, Halts, Enter, StateStep, RunningStep, Step, Except
  <2>3. QED
    BY <1>2, <2>1, <2>2
<1>5. StartupReady' /\ PendNeeds' /\ ProjectNeeds' /\ Accounted'
  BY <1>3, <1>4 DEF StartupReady, PendNeeds, ProjectNeeds, Accounted
<1>6. ExceptNeeds'
  <2> SUFFICES ASSUME NEW k \in 1..Len(todo'), todo'[k].do = "except"
               PROVE  \A j \in 1..(k - 1) : todo'[j] = StateStep("RUN") \/ todo'[j] = RunningStep("RUN")
    BY DEF ExceptNeeds
  <2>1. todo[k + 1].do = "except" /\ k + 1 \in 1..Len(todo) /\ 1 < k + 1
    BY <1>2
  <2>2. k + 1 = 1 + 3
    BY <1>2, <2>1 DEF CInv, Shape, ExceptPlace
  <2>3. k = 3
    BY <2>2
  <2>4. LinkedAt(todo, 1) /\ LinkedAt(todo, 2)
    BY <1>2, <2>1, <2>3 DEF CInv, Shape, Linked
  <2>5. todo[2] = StateStep("RUN") /\ todo[3] = RunningStep("RUN")
    BY <2>4 DEF LinkedAt, StateStep
  <2>6. todo'[1] = todo[2] /\ todo'[2] = todo[3]
    BY <1>2, <2>3
  <2>7. QED
    BY <2>3, <2>5, <2>6
<1>7. RunningAgrees'
  BY <1>1 DEF RunningAgrees, CInv, FlagsFit
<1>8. Runs'
  BY <1>3 DEF Runs
<1>9. HeadFits'
  BY <1>1, <1>3, PopsTo DEF HeadFits, StateStep, RunningStep, Enter
<1>10. QED
  BY <1>5, <1>6, <1>7, <1>8, <1>9 DEF FlagsFit

\* The CPU has been reset: it is stopped and will be started again.
LEMMA ResetFits ==
  ASSUME CInv, [Next]_vars, todo # <<>>, todo[1].do = "reset", ResetDone
  PROVE  FlagsFit'
<1>1. Continue /\ UNCHANGED <<state, running, project, ended>> /\ needOB10x' /\ ~started'
  BY DEF ResetDone, control
<1>2. /\ Len(todo) \in Nat /\ Len(todo) > 0 /\ Len(todo') = Len(todo) - 1
      /\ \A k \in 1..Len(todo') : todo'[k] = todo[k + 1] /\ k + 1 \in 1..Len(todo)
  BY <1>1, PopElements
<1>3. (state = "STOP" \/ state = "EXIT") /\ (running => state = "EXIT")
  BY DEF HeadFits, RunningAgrees, CInv, FlagsFit
<1>4. PendNeeds' /\ ProjectNeeds' /\ Accounted'
  BY <1>1 DEF PendNeeds, ProjectNeeds, Accounted
<1>5. StartupReady'
  BY <1>1, <1>2 DEF StartupReady, CInv, FlagsFit
<1>6. ExceptNeeds'
  BY <1>1, <1>3 DEF ExceptNeeds
<1>7. RunningAgrees' /\ Runs'
  BY <1>1, <1>3 DEF RunningAgrees, Runs
<1>8. HeadFits'
  BY <1>1, PopsTo DEF HeadFits, StateStep, RunningStep, Enter
<1>9. QED
  BY <1>4, <1>5, <1>6, <1>7, <1>8 DEF FlagsFit

\* An AwlSimError: the steps up to the next except clause are dropped.
LEMMA ErrorFits ==
  ASSUME CInv, [Next]_vars, todo # <<>>, Error, todo[1].do \in Raising, project' => project,
         todo[1].do = "load" => ~project'
  PROVE  FlagsFit'
<1>1. todo \in Seq(StepSet) /\ Len(todo) \in Nat /\ Len(todo) > 0
  BY HeadIsFirst DEF CInv, IInv
<1>2. UNCHANGED <<state, running, needOB10x, ended>> /\ ~started'
  BY DEF Error
<1>3. running => state = "RUN" \/ state = "EXIT"
  BY <1>1 DEF CInv, FlagsFit, RunningAgrees, Raising
<1>4. CASE todo' = Recovery
  <2>1. /\ Len(todo') >= 2 /\ todo'[1] = Enter("STOP") /\ todo'[2] = Step("rebuild")
        /\ Len(todo') \in Nat
        /\ \A k \in 1..Len(todo') : todo'[k].do # "startup" /\ todo'[k].do # "except" /\ todo'[k].do # "pend"
    <3>1. CASE embedded
      <4>1. Recovery = <<Enter("STOP"), Step("rebuild"), Step("raise"), Enter("STOP"), Step("assert")>>
        BY <3>1, Join23 DEF Recovery
      <4>2. QED
        BY <1>4, <4>1 DEF Enter, Step
    <3>2. CASE ~embedded
      <4>1. Recovery = <<Enter("STOP"), Step("rebuild")>>
        BY <3>2 DEF Recovery
      <4>2. QED
        BY <1>4, <4>1 DEF Enter, Step
    <3>3. QED
      BY <3>1, <3>2
  <2>2. StartupReady' /\ ExceptNeeds' /\ PendNeeds'
    BY <2>1 DEF StartupReady, ExceptNeeds, PendNeeds
  <2>3. ProjectNeeds'
    BY <1>2 DEF ProjectNeeds, CInv, FlagsFit
  <2>4. Recovering'
    <3>1. 2 \in 1..Len(todo') /\ todo'[2].do = "rebuild" /\ \A j \in 1..(2 - 1) : todo'[j] \in Halts
      BY <2>1 DEF Step, Halts
    <3>2. QED
      BY <3>1 DEF Recovering
  <2>5. Accounted'
    BY <2>4 DEF Accounted
  <2>6. RunningAgrees'
    BY <1>2, <1>3 DEF RunningAgrees
  <2>7. HeadFits' /\ Runs'
    BY <2>1 DEF HeadFits, Runs, Stopping, Enter
  <2>8. QED
    BY <2>2, <2>3, <2>5, <2>6, <2>7 DEF FlagsFit
<1>5. CASE \E i \in 2..Len(todo) : todo[i].do = "except" /\ todo' = Rest(todo, i)
  <2>1. PICK i \in 2..Len(todo) : todo[i].do = "except" /\ todo' = Rest(todo, i)
    BY <1>5
  <2>2. /\ Len(todo') = Len(todo) - i /\ Len(todo') \in Nat
        /\ \A k \in 1..Len(todo') : todo'[k] = todo[i + k] /\ i + k \in 1..Len(todo) /\ i + k > 1
    <3>1. /\ Len(Rest(todo, i)) = Len(todo) - i
          /\ \A k \in 1..(Len(todo) - i) : Rest(todo, i)[k] = todo[i + k]
      BY <1>1, RestFacts
    <3>2. Len(todo') = Len(todo) - i /\ \A k \in 1..(Len(todo) - i) : todo'[k] = todo[i + k]
      BY <2>1, <3>1
    <3> DEFINE n == Len(todo)
    <3>3. n \in Nat /\ i \in 2..n
      BY <1>1
    <3> HIDE DEF n
    <3>4. /\ n - i \in Nat
          /\ \A k \in 1..(n - i) : i + k \in 1..n /\ i + k > 1
      BY <3>3
    <3>5. QED
      BY <3>2, <3>4 DEF n
  <2>3. needOB10x /\ state # "RUN"
    <3>1. todo[1] # StateStep("RUN") /\ todo[1] # RunningStep("RUN") /\ 1 \in 1..(i - 1)
      BY DEF Raising, StateStep, RunningStep
    <3>2. QED
      BY <1>1, <2>1, <3>1 DEF CInv, FlagsFit, ExceptNeeds
  <2>4. StartupReady'
    <3>1. ASSUME NEW k \in 1..Len(todo'), todo'[k].do = "startup" PROVE ~project'
      BY <2>2, <3>1 DEF StartupReady, CInv, FlagsFit
    <3>2. needOB10x'
      BY <1>2, <2>3
    <3>3. QED
      BY <3>1, <3>2 DEF StartupReady
  <2>5. ExceptNeeds' /\ PendNeeds' /\ ProjectNeeds' /\ Accounted'
    BY <1>2, <2>3 DEF ExceptNeeds, PendNeeds, ProjectNeeds, Accounted
  <2>6. RunningAgrees' /\ Runs'
    BY <1>2, <1>3, <2>3 DEF RunningAgrees, Runs
  <2>7. HeadFits'
    <3> SUFFICES ASSUME todo' # <<>> PROVE HeadFits'
      BY DEF HeadFits
    <3>1. Len(todo') > 0
      BY StepsStay, EnteringAdds, CalmIsStep DEF CInv, IInv, TypeOK
    <3>2. todo'[1] = todo[i + 1] /\ i + 1 \in 1..Len(todo)
      BY <2>2, <3>1
    <3>3. LinkedAt(todo, i + 1)
      BY <3>2 DEF CInv, Shape, Linked
    <3>4. todo[i + 1] = [do |-> todo[i + 1].do, to |-> todo[i + 1].to]
      BY <1>1, <3>2, ElementOfSeq, StepIsRecord
    <3>5. /\ todo[i + 1].do # "cycle" /\ todo[i + 1].do # "running" /\ todo[i + 1].do # "reset"
          /\ ~(todo[i + 1].do = "state" /\ todo[i + 1].to = "RUN")
      <4>1. i + 1 > 1 /\ i + 1 - 1 = i
        OBVIOUS
      <4>2. todo[i] # Enter("STOP") /\ todo[i] # RunningStep("STOP") /\ todo[i].do # "state" /\ todo[i].do # "startup"
        BY <2>1 DEF Enter, RunningStep
      <4>3. QED
        BY <3>3, <3>4, <4>1, <4>2 DEF LinkedAt, StateStep
    <3>6. QED
      BY <3>2, <3>5 DEF HeadFits
  <2>8. QED
    BY <2>4, <2>5, <2>6, <2>7 DEF FlagsFit
<1>6. QED
  BY <1>1, <1>4, <1>5, ErrorCases

\* A maintenance request leaves run(), or asks for the state.
LEMMA MaintenanceFits ==
  ASSUME CInv, [Next]_vars, todo # <<>>, Maintenance,
         (todo[1].do = "startup" /\ needOB10x) \/ todo[1].do = "cycle"
  PROVE  FlagsFit'
<1>1. UNCHANGED <<state, running, needOB10x, project, ended>> /\ ~started'
  BY DEF Maintenance
<1>2. todo' \in {<<Step("leave")>>, <<Enter("MAINTENANCE")>>, <<Enter("MAINTENANCE"), Step("leave")>>}
  BY MaintenanceSteps DEF Maintenance
<1>3. (running => state = "RUN" \/ state = "EXIT") /\ (needOB10x \/ state = "RUN" \/ state = "EXIT")
  BY DEF CInv, FlagsFit, RunningAgrees, HeadFits
<1>4. /\ Len(todo') \in Nat /\ Len(todo') > 0 /\ (todo'[1] = Step("leave") \/ todo'[1] = Enter("MAINTENANCE"))
      /\ \A k \in 1..Len(todo') : todo'[k] = Step("leave") \/ todo'[k] = Enter("MAINTENANCE")
  BY <1>2
<1>5. StartupReady' /\ ExceptNeeds' /\ PendNeeds'
  BY <1>4 DEF StartupReady, ExceptNeeds, PendNeeds, Step, Enter
<1>6. ProjectNeeds'
  BY <1>1 DEF ProjectNeeds, CInv, FlagsFit
<1>7. Recovering' \/ todo' = <<Enter("MAINTENANCE")>>
  <2>1. CASE todo' = <<Step("leave")>>
    <3>1. 1 \in 1..Len(todo') /\ todo'[1].do = "leave" /\ \A j \in 1..(1 - 1) : todo'[j] \in Halts
      BY <2>1 DEF Step
    <3>2. QED
      BY <3>1 DEF Recovering
  <2>2. CASE todo' = <<Enter("MAINTENANCE"), Step("leave")>>
    <3>1. 2 \in 1..Len(todo') /\ todo'[2].do = "leave" /\ \A j \in 1..(2 - 1) : todo'[j] \in Halts
      BY <2>2 DEF Step, Halts
    <3>2. QED
      BY <3>1 DEF Recovering
  <2>3. QED
    BY <1>2, <2>1, <2>2
<1>8. Accounted'
  BY <1>1, <1>3, <1>4, <1>7 DEF Accounted, Requesting, Committing, Enter, Step
<1>9. RunningAgrees'
  BY <1>1, <1>3 DEF RunningAgrees
<1>10. HeadFits' /\ Runs'
  BY <1>4 DEF HeadFits, Runs, Stopping, Enter, Step
<1>11. QED
  BY <1>5, <1>6, <1>8, <1>9, <1>10 DEF FlagsFit

\* The element of the new steps, in front and behind.
LEMMA PushedElements ==
  ASSUME NEW S, NEW s \in Seq(S), s # <<>>, NEW p \in Seq(S), NEW t, t = p \o Tail(s), p # <<>>
  PROVE  /\ Len(p) \in Nat /\ Len(p) > 0 /\ Len(t) \in Nat /\ Len(t) >= Len(p) /\ t[1] = p[1]
         /\ \A k \in 1..Len(t) :
              \/ k \in 1..Len(p) /\ t[k] = p[k]
              \/ k > Len(p) /\ k - Len(p) + 1 \in 2..Len(s) /\ t[k] = s[k - Len(p) + 1]
<1>1. Moved(s, t, p, 1)
  BY PushIsMoved
<1>2. Len(p) \in Nat /\ Len(p) > 0 /\ Len(s) \in Nat /\ Len(s) > 0
  OBVIOUS
<1>3. Len(t) = Len(p) + (Len(s) - 1) /\ Len(t) \in Nat /\ Len(t) >= Len(p)
  BY <1>1, <1>2 DEF Moved
<1>4. t[1] = p[1]
  BY <1>1, <1>2 DEF Moved
<1>5. ASSUME NEW k \in 1..Len(t), k > Len(p)
      PROVE  k - Len(p) + 1 \in 2..Len(s) /\ t[k] = s[k - Len(p) + 1]
  <2>1. k - Len(p) \in 1..(Len(s) - 1) /\ Len(p) + (k - Len(p)) = k /\ 1 + (k - Len(p)) = k - Len(p) + 1
    BY <1>2, <1>3, <1>5
  <2>2. t[Len(p) + (k - Len(p))] = s[1 + (k - Len(p))]
    BY <1>1, <2>1 DEF Moved
  <2>3. k - Len(p) + 1 \in 2..Len(s)
    BY <1>2, <2>1
  <2>4. QED
    BY <2>1, <2>2, <2>3
<1>6. ASSUME NEW k \in 1..Len(t), ~(k > Len(p)) PROVE k \in 1..Len(p) /\ t[k] = p[k]
  BY <1>1, <1>2, <1>3, <1>6 DEF Moved
<1>7. QED
  BY <1>2, <1>3, <1>4, <1>5, <1>6

\* The parts of a project are loaded with the CPU stopped.
LEMMA LoadsFits ==
  ASSUME CInv, [Next]_vars, Loads, UNCHANGED <<state, running, needOB10x, started, ended>>, ~project'
  PROVE  FlagsFit'
<1>1. todo \in Seq(StepSet) /\ todo # <<>> /\ todo[1].do = "load" /\ todo' = LoadFront \o Tail(todo)
  BY DEF CInv, IInv, Loads, LoadProject, Doing
<1>2. LoadFront \in Seq(StepSet) /\ LoadFront # <<>> /\ LoadFront[1] = Enter("STOP")
  <2>1. Enter("STOP") \in StepSet /\ Step("reset") \in StepSet /\ Step("hwmod") \in StepSet /\ Step("content") \in StepSet
    BY CalmSteps, CalmIsStep DEF Steps
  <2>2. QED
    BY <2>1 DEF LoadFront
<1>3. \A k \in 1..Len(LoadFront) : LoadFront[k].do \in {"enter", "reset", "hwmod", "content"}
  BY DEF LoadFront, Enter, Step
<1>4. /\ Len(todo') \in Nat /\ todo'[1] = Enter("STOP")
      /\ \A k \in 1..Len(todo') :
           \/ todo'[k].do \in {"enter", "reset", "hwmod", "content"}
           \/ \E i \in 2..Len(todo) : todo'[k] = todo[i]
  <2> DEFINE m == Len(LoadFront)
  <2>1. /\ Len(todo') \in Nat /\ todo'[1] = LoadFront[1]
        /\ \A k \in 1..Len(todo') :
             \/ k \in 1..m /\ todo'[k] = LoadFront[k]
             \/ k > m /\ k - m + 1 \in 2..Len(todo) /\ todo'[k] = todo[k - m + 1]
    BY <1>1, <1>2, PushedElements
  <2> HIDE DEF m
  <2>2. \A k \in 1..m : LoadFront[k].do \in {"enter", "reset", "hwmod", "content"}
    BY <1>3 DEF m
  <2>3. QED
    BY <1>2, <2>1, <2>2
<1>5. todo' # <<>>
  BY <1>1, <1>2, PushedElements
<1>6. StartupReady' /\ PendNeeds' /\ ProjectNeeds'
  <2>1. ASSUME NEW i \in 2..Len(todo), todo[i].do = "startup" \/ todo[i].do = "pend" PROVE needOB10x
    BY <1>1, <2>1 DEF StartupReady, PendNeeds, CInv, FlagsFit
  <2>2. QED
    BY <1>4, <2>1 DEF StartupReady, PendNeeds, ProjectNeeds
<1>7. ExceptNeeds'
  <2>1. ASSUME NEW i \in 2..Len(todo), todo[i].do = "except" PROVE needOB10x /\ state # "RUN"
    BY <1>1, <2>1 DEF ExceptNeeds, CInv, FlagsFit, StateStep, RunningStep
  <2>2. QED
    BY <1>4, <2>1 DEF ExceptNeeds
<1>8. Accounted'
  <2>1. InExit => InExit'
    BY ExitStep DEF CInv
  <2>2. ~Recovering /\ ~Requesting
    BY <1>1 DEF Recovering, Requesting, Halts, Enter, StateStep, RunningStep
  <2>3. QED
    BY <2>1, <2>2 DEF Accounted, CInv, FlagsFit
<1>9. RunningAgrees'
  BY <1>1 DEF RunningAgrees, CInv, FlagsFit
<1>10. HeadFits' /\ Runs'
  BY <1>4, <1>5 DEF HeadFits, Runs, Stopping, Enter
<1>11. QED
  BY <1>6, <1>7, <1>8, <1>9, <1>10 DEF FlagsFit

\* setRunState goes into another state.
LEMMA EnteringFits ==
  ASSUME CInv, [Next]_vars, Entering
  PROVE  FlagsFit'
<1>1. /\ todo \in Seq(StepSet) /\ todo # <<>> /\ todo' = Pushed \o Tail(todo) /\ todo[1] = Enter(Target)
      /\ Target \in Targets /\ Pushed \in Seq(StepSet) /\ Pushed # <<>>
  BY EnteringElements DEF CInv, IInv
<1>2. /\ UNCHANGED <<state, running, project, started, ended>> /\ needOB10x' = (needOB10x \/ Target = "MAINTENANCE")
      /\ ended = "no" /\ state # "EXIT" /\ state # Target
  BY DEF Entering, SetRunState, Doing, control, Target
<1>3. running => state = "RUN"
  BY <1>1, <1>2 DEF CInv, FlagsFit, RunningAgrees, Enter
<1>4. /\ Len(todo') \in Nat /\ todo'[1] = Pushed[1] /\ todo' # <<>>
      /\ \A k \in 1..Len(todo') :
           \/ k \in 1..Len(Pushed) /\ todo'[k] = Pushed[k]
           \/ k > Len(Pushed) /\ k - Len(Pushed) + 1 \in 2..Len(todo) /\ todo'[k] = todo[k - Len(Pushed) + 1]
  BY <1>1, PushedElements
<1>5. \A i \in 2..Len(todo) :
           /\ todo[i].do = "startup" => needOB10x /\ ~project
           /\ todo[i].do = "except" => needOB10x /\ state # "RUN"
           /\ todo[i].do = "pend" => needOB10x
  <2> SUFFICES ASSUME NEW i \in 2..Len(todo)
               PROVE  /\ todo[i].do = "startup" => needOB10x /\ ~project
                      /\ todo[i].do = "except" => needOB10x /\ state # "RUN"
                      /\ todo[i].do = "pend" => needOB10x
    OBVIOUS
  <2>1. todo[1].do = "enter" /\ i \in 1..Len(todo) /\ 1 \in 1..(i - 1) /\ i > 1
    BY <1>1 DEF Enter
  <2>2. todo[i].do = "startup" => needOB10x /\ ~project
    BY <2>1 DEF CInv, FlagsFit, StartupReady
  <2>3. todo[i].do = "except" => needOB10x /\ state # "RUN"
    <3>1. todo[1] # StateStep("RUN") /\ todo[1] # RunningStep("RUN")
      BY <2>1 DEF StateStep, RunningStep
    <3>2. QED
      BY <2>1, <3>1 DEF CInv, FlagsFit, ExceptNeeds
  <2>4. todo[i].do = "pend" => needOB10x
    BY <2>1 DEF CInv, FlagsFit, PendNeeds
  <2>5. QED
    BY <2>2, <2>3, <2>4
<1>6. PendNeeds' /\ ProjectNeeds'
  <2>1. \A k \in 1..Len(Pushed) : Pushed[k].do # "pend"
    BY <1>1, EnteringElements
  <2>2. QED
    BY <1>2, <1>4, <1>5, <2>1 DEF PendNeeds, ProjectNeeds, CInv, FlagsFit
<1>7. CASE Target # "RUN"
  <2>1. Len(Pushed) = 2 /\ Pushed[1] = StateStep(Target) /\ Pushed[2] = RunningStep(Target)
    BY <1>7, EnteredCases, EnteredElements DEF Pushed
  <2>2. \A k \in 1..Len(todo') :
           \/ todo'[k].do = "state" \/ todo'[k].do = "running"
           \/ \E i \in 2..Len(todo) : todo'[k] = todo[i]
    <3>1. \A k \in 1..Len(Pushed) : Pushed[k].do = "state" \/ Pushed[k].do = "running"
      BY <2>1 DEF StateStep, RunningStep
    <3>2. QED
      BY <1>4, <3>1
  <2>3. StartupReady'
    <3>1. ASSUME NEW k \in 1..Len(todo'), todo'[k].do = "startup" PROVE needOB10x /\ ~project
      BY <1>5, <2>2, <3>1
    <3>2. QED
      BY <1>2, <3>1 DEF StartupReady
  <2>4. ExceptNeeds'
    <3>1. ASSUME NEW k \in 1..Len(todo'), todo'[k].do = "except" PROVE needOB10x /\ state # "RUN"
      BY <1>5, <2>2, <3>1
    <3>2. QED
      BY <1>2, <3>1 DEF ExceptNeeds
  <2>5. Recovering => Recovering'
    <3> SUFFICES ASSUME Recovering PROVE Recovering'
      OBVIOUS
    <3>1. PICK k \in 1..Len(todo) : /\ todo[k].do = "rebuild" \/ todo[k].do = "leave"
                                   /\ \A j \in 1..(k - 1) : todo[j] \in Halts
      BY DEF Recovering
    <3>2. k > 1 /\ todo[1] \in Halts
      BY <1>1, <3>1 DEF Enter
    <3>3. StateStep(Target) \in Halts /\ RunningStep(Target) \in Halts
      BY <1>1, <3>2 DEF Halts, Enter, StateStep, RunningStep
    <3>4. k + 1 \in 1..Len(todo') /\ todo'[k + 1] = todo[k]
      <4>1. Moved(todo, todo', Pushed, 1) /\ Len(todo) \in Nat
        BY <1>1, PushIsMoved
      <4>2. Len(todo') = 2 + (Len(todo) - 1) /\ k - 1 \in 1..(Len(todo) - 1) /\ 2 + (k - 1) = k + 1 /\ 1 + (k - 1) = k
        BY <2>1, <3>2, <4>1 DEF Moved
      <4>3. todo'[2 + (k - 1)] = todo[1 + (k - 1)]
        BY <2>1, <4>1, <4>2 DEF Moved
      <4>4. QED
        BY <4>1, <4>2, <4>3
    <3>5. ASSUME NEW j \in 1..k PROVE todo'[j] \in Halts
      <4>1. j \in 1..Len(todo')
        BY <3>4
      <4>2. CASE j \in 1..Len(Pushed)
        <5>1. (j = 1 \/ j = 2) /\ ~(j > Len(Pushed))
          BY <2>1, <4>2
        <5>2. QED
          BY <1>4, <2>1, <3>3, <4>1, <5>1
      <4>3. CASE j > 2 /\ j - 2 + 1 \in 2..Len(todo) /\ todo'[j] = todo[j - 2 + 1]
        <5>1. j - 2 + 1 \in 1..(k - 1)
          BY <4>3
        <5>2. QED
          BY <3>1, <4>3, <5>1
      <4>4. QED
        BY <1>4, <2>1, <4>1, <4>2, <4>3
    <3>6. \A j \in 1..(k + 1 - 1) : todo'[j] \in Halts
      BY <3>5
    <3>7. QED
      BY <3>1, <3>4, <3>6 DEF Recovering
  <2>6. Accounted'
    <3>1. Requesting => needOB10x'
      <4>1. Requesting => Target = "MAINTENANCE"
        BY <1>1 DEF Requesting, Enter
      <4>2. QED
        BY <1>2, <4>1, Zenon
    <3>2. QED
      BY <1>2, <2>5, <3>1 DEF Accounted, InExit, CInv, FlagsFit
  <2>7. RunningAgrees'
    BY <1>2, <1>3 DEF RunningAgrees
  <2>8. HeadFits' /\ Runs'
    BY <1>4, <1>7, <2>1 DEF HeadFits, Runs, Stopping, StateStep
  <2>9. QED
    BY <1>6, <2>3, <2>4, <2>6, <2>7, <2>8 DEF FlagsFit
<1>8. CASE Target = "RUN"
  <2>1. state # "RUN" /\ ~running
    BY <1>2, <1>3, <1>8
  <2>2. needOB10x \/ started
    <3>1. ~Recovering /\ ~Requesting
      BY <1>1, <1>8 DEF Recovering, Requesting, Halts, Enter, StateStep, RunningStep
    <3>2. QED
      BY <1>2, <3>1 DEF Accounted, InExit, CInv, FlagsFit
  <2>3. RunningAgrees' /\ Runs' /\ Accounted'
    BY <1>2, <2>1, <2>2 DEF RunningAgrees, Runs, Accounted
  <2>4. CASE ~project
    <3>1. /\ Len(Pushed) = 3 /\ Pushed[1] = Step("startup") /\ Pushed[2] = StateStep("RUN") /\ Pushed[3] = RunningStep("RUN")
      BY <1>8, <2>4, EnteredCases, EnteredElements DEF Pushed
    <3>2. \A k \in 1..Len(Pushed) : Pushed[k].do # "except" /\ (k = 1 \/ Pushed[k].do # "startup")
      BY <3>1 DEF Step, StateStep, RunningStep
    <3>3. StartupReady'
      <4>1. ASSUME NEW k \in 1..Len(todo'), todo'[k].do = "startup" PROVE k > 1 => needOB10x
        BY <1>4, <1>5, <3>2, <4>1
      <4>2. (needOB10x => needOB10x') /\ (needOB10x' \/ started') /\ ~project'
        BY <1>2, <2>2, <2>4, Zenon
      <4>3. QED
        BY <4>1, <4>2 DEF StartupReady
    <3>4. ExceptNeeds'
      <4>1. ASSUME NEW k \in 1..Len(todo'), todo'[k].do = "except" PROVE needOB10x /\ state # "RUN"
        BY <1>4, <1>5, <3>2, <4>1
      <4>2. QED
        BY <1>2, <4>1 DEF ExceptNeeds
    <3>5. HeadFits'
      BY <1>4, <3>1 DEF HeadFits, Step
    <3>6. QED
      BY <1>6, <2>3, <3>3, <3>4, <3>5 DEF FlagsFit
  <2>5. CASE project
    <3>1. /\ Len(Pushed) = 5 /\ Pushed[1] = Step("load")
      BY <1>8, <2>5, EnteredCases, EnteredElements DEF Pushed
    <3>2. needOB10x
      BY <2>5 DEF ProjectNeeds, CInv, FlagsFit
    <3>3. StartupReady' /\ ExceptNeeds'
      <4>1. state' # "RUN" /\ todo'[1].do = "load"
        BY <1>2, <1>4, <2>1, <3>1 DEF Step
      <4>2. needOB10x'
        BY <1>2, <3>2, Zenon
      <4>3. QED
        BY <4>1, <4>2 DEF StartupReady, ExceptNeeds
    <3>4. HeadFits'
      BY <1>4, <3>1 DEF HeadFits, Step
    <3>5. QED
      BY <1>6, <2>3, <3>3, <3>4 DEF FlagsFit
  <2>6. QED
    BY <2>4, <2>5
<1>9. QED
  BY <1>7, <1>8

\* A message is handled; its handler has no project and no startup before it.
LEMMA ReceiveFits ==
  ASSUME CInv, [Next]_vars, Receive
  PROVE  FlagsFit'
<1>1. /\ todo \in Seq(StepSet) /\ todo # <<>> /\ todo[1].do = "comm"
      /\ UNCHANGED <<state, running, needOB10x, project, started, ended>>
  BY DEF CInv, IInv, Receive, Doing, server, control
<1>2. PICK msg \in Messages : todo' = Handler(msg) \o todo
  BY DEF Receive
<1>3. /\ Len(todo') \in Nat
      /\ todo' # <<>> => todo'[1].do \in {"comm", "enter", "hwmod", "content"}
      /\ \A k \in 1..Len(todo') : todo'[k].do \in {"comm", "enter", "hwmod", "content", "reset"}
  <2> DEFINE c == todo[1]
  <2>1. todo = <<c>>
    <3>1. LinkedAt(todo, 1) /\ Len(todo) \in Nat
      BY <1>1 DEF CInv, Shape, Linked
    <3>2. Len(todo) = 1
      BY <1>1, <3>1 DEF LinkedAt
    <3>3. QED
      BY <1>1, <3>2
  <2>2. msg \in {"RUN", "STOP", "RESET", "SHUTDOWN", "HWMOD", "LIBSEL", "AWLSRC"}
    BY CoreServerAssumption
  <2>3. Handler(msg) \in {<<>>, <<Enter("RUN")>>, <<Enter("STOP")>>, <<Enter("EXIT")>>, <<Step("hwmod")>>,
                          <<Step("content")>>, <<Enter("STOP"), Step("reset")>>,
                          <<Enter("STOP"), Step("content")>>}
    BY <2>2 DEF Handler
  <2>4. c.do = "comm"
    BY <1>1
  <2> HIDE DEF c
  <2>5. \/ todo' = <<c>>
        \/ \E a \in {Enter("RUN"), Enter("STOP"), Enter("EXIT"), Step("hwmod"), Step("content")} : todo' = <<a, c>>
        \/ \E b \in {Step("reset"), Step("content")} : todo' = <<Enter("STOP"), b, c>>
    <3>1. <<>> \o <<c>> = <<c>>
      OBVIOUS
    <3>2. \A a : <<a>> \o <<c>> = <<a, c>>
      BY Join11
    <3>3. \A a, b : <<a, b>> \o <<c>> = <<a, b, c>>
      BY Join21
    <3>4. CASE Handler(msg) = <<>>
      BY <1>2, <2>1, <3>1, <3>4
    <3>5. CASE \E a \in {Enter("RUN"), Enter("STOP"), Enter("EXIT"), Step("hwmod"), Step("content")} :
                 Handler(msg) = <<a>>
      BY <1>2, <2>1, <3>2, <3>5
    <3>6. CASE \E b \in {Step("reset"), Step("content")} : Handler(msg) = <<Enter("STOP"), b>>
      BY <1>2, <2>1, <3>3, <3>6
    <3>7. QED
      BY <2>3, <3>4, <3>5, <3>6
  <2>6. CASE todo' = <<c>>
    BY <2>4, <2>6
  <2>7. CASE \E a \in {Enter("RUN"), Enter("STOP"), Enter("EXIT"), Step("hwmod"), Step("content")} : todo' = <<a, c>>
    BY <2>4, <2>7 DEF Enter, Step
  <2>8. CASE \E b \in {Step("reset"), Step("content")} : todo' = <<Enter("STOP"), b, c>>
    BY <2>4, <2>8 DEF Enter, Step
  <2>9. QED
    BY <2>5, <2>6, <2>7, <2>8
<1>4. StartupReady' /\ ExceptNeeds' /\ PendNeeds'
  BY <1>3 DEF StartupReady, ExceptNeeds, PendNeeds
<1>5. ProjectNeeds'
  BY <1>1 DEF ProjectNeeds, CInv, FlagsFit
<1>6. ~Recovering /\ ~Requesting /\ ~Stopping /\ todo[1].do # "running"
  BY <1>1 DEF Recovering, Requesting, Stopping, Halts, Enter, StateStep, RunningStep
<1>7. Accounted'
  <2>1. InExit => InExit'
    BY ExitStep DEF CInv
  <2>2. QED
    BY <1>1, <1>6, <2>1 DEF Accounted, CInv, FlagsFit
<1>8. RunningAgrees' /\ Runs'
  BY <1>1, <1>6 DEF RunningAgrees, Runs, CInv, FlagsFit
<1>9. HeadFits'
  BY <1>3 DEF HeadFits
<1>10. QED
  BY <1>4, <1>5, <1>7, <1>8, <1>9 DEF FlagsFit

\* The loops of run().
LEMMA LoopFits ==
  ASSUME CInv, [Next]_vars, LoopHead \/ LoopHalted \/ LoopRunning
  PROVE  FlagsFit'
<1>1. /\ todo = <<>> /\ UNCHANGED <<state, running, needOB10x, project, started>>
      /\ ended = "no"
  BY DEF LoopHead, LoopHalted, LoopRunning, Test, server
<1>2. \/ todo' = todo \/ todo' = <<Step("load")>> \/ todo' = <<Step("comm")>>
      \/ running /\ todo' = <<Step("cycle"), Step("comm")>>
  BY DEF LoopHead, LoopHalted, LoopRunning, Test, control
<1>3. running => state = "RUN" \/ state = "EXIT"
  BY <1>1 DEF RunningAgrees, CInv, FlagsFit
<1>4. /\ Len(todo') \in Nat
      /\ \A k \in 1..Len(todo') : todo'[k].do \in {"load", "comm", "cycle"}
      /\ todo' # <<>> => todo'[1].do = "load" \/ todo'[1].do = "comm" \/ (todo'[1].do = "cycle" /\ running)
  <2>1. CASE todo' = todo
    BY <1>1, <2>1
  <2>2. ASSUME NEW do \in {"load", "comm"}, todo' = <<Step(do)>>
        PROVE  /\ Len(todo') \in Nat
               /\ \A k \in 1..Len(todo') : todo'[k].do \in {"load", "comm", "cycle"}
               /\ todo' # <<>> => todo'[1].do = "load" \/ todo'[1].do = "comm"
    <3>1. Len(todo') = 1 /\ todo'[1] = Step(do)
      BY <2>2
    <3>2. \A k \in 1..Len(todo') : k = 1
      BY <3>1
    <3>3. Step(do).do = do
      BY DEF Step
    <3>4. QED
      BY <3>1, <3>2, <3>3
  <2>4. CASE running /\ todo' = <<Step("cycle"), Step("comm")>>
    BY <2>4 DEF Step
  <2>5. CASE todo' = <<Step("load")>>
    BY <2>2, <2>5
  <2>6. CASE todo' = <<Step("comm")>>
    BY <2>2, <2>6
  <2>7. QED
    BY <1>2, <2>1, <2>4, <2>5, <2>6
<1>5. StartupReady' /\ ExceptNeeds' /\ PendNeeds'
  BY <1>4 DEF StartupReady, ExceptNeeds, PendNeeds
<1>6. ProjectNeeds'
  BY <1>1 DEF ProjectNeeds, CInv, FlagsFit
<1>7. ~Recovering /\ ~Requesting /\ ~Stopping
  BY <1>1 DEF Recovering, Requesting, Stopping
<1>8. Accounted'
  <2>1. InExit => InExit'
    BY ExitStep DEF CInv
  <2>2. QED
    BY <1>1, <1>7, <2>1 DEF Accounted, CInv, FlagsFit
<1>9. RunningAgrees' /\ Runs'
  BY <1>1, <1>3, <1>7 DEF RunningAgrees, Runs, CInv, FlagsFit
<1>10. HeadFits'
  <2>1. todo' # <<>> => ended' = "no"
    BY <1>1 DEF LoopHead, LoopHalted, LoopRunning, Test, control
  <2>2. QED
    BY <1>1, <1>3, <1>4, <2>1 DEF HeadFits
<1>11. QED
  BY <1>5, <1>6, <1>8, <1>9, <1>10 DEF FlagsFit

\* SIGTERM, and steps that change nothing the flags depend on.
LEMMA SigTermFits ==
  ASSUME CInv, [Next]_vars, SigTerm
  PROVE  FlagsFit'
<1>1. /\ UNCHANGED <<needOB10x, project, todo, started, ended>> /\ state' = "EXIT"
      /\ running' => running
  BY DEF SigTerm, control
<1>2. StartupReady' /\ ExceptNeeds' /\ PendNeeds' /\ ProjectNeeds'
  BY <1>1 DEF StartupReady, ExceptNeeds, PendNeeds, ProjectNeeds, CInv, FlagsFit
<1>3. Accounted'
  <2>1. InExit => InExit'
    BY ExitStep DEF CInv
  <2>2. Recovering => Recovering'
    BY <1>1 DEF Recovering
  <2>3. Requesting => Requesting'
    BY <1>1 DEF Requesting, Committing
  <2>4. QED
    BY <1>1, <2>1, <2>2, <2>3 DEF Accounted, CInv, FlagsFit
<1>4. RunningAgrees' /\ Runs'
  BY <1>1 DEF RunningAgrees, Runs
<1>5. HeadFits'
  BY <1>1 DEF HeadFits, CInv, FlagsFit
<1>6. QED
  BY <1>2, <1>3, <1>4, <1>5 DEF FlagsFit

LEMMA StutterFits ==
  ASSUME CInv, [Next]_vars, UNCHANGED <<server, todo>>, ended' = "no" => ended = "no",
         todo # <<>> /\ todo[1].do = "cycle" => ended' = ended
  PROVE  FlagsFit'
<1>1. UNCHANGED <<state, running, needOB10x, project, started, todo>>
  BY DEF server
<1>2. StartupReady' /\ ExceptNeeds' /\ PendNeeds' /\ ProjectNeeds'
  BY <1>1 DEF StartupReady, ExceptNeeds, PendNeeds, ProjectNeeds, CInv, FlagsFit
<1>3. Accounted'
  <2>1. InExit => InExit'
    BY ExitStep DEF CInv
  <2>2. Recovering => Recovering'
    BY <1>1 DEF Recovering
  <2>3. Requesting => Requesting'
    BY <1>1 DEF Requesting, Committing
  <2>4. QED
    BY <1>1, <2>1, <2>2, <2>3 DEF Accounted, CInv, FlagsFit
<1>4. RunningAgrees' /\ Runs' /\ HeadFits'
  BY <1>1 DEF RunningAgrees, Runs, Stopping, HeadFits, CInv, FlagsFit
<1>5. QED
  BY <1>2, <1>3, <1>4 DEF FlagsFit

----------------------------------------------------------------------------
(* The invariant                                                           *)

LEMMA Join31 ==
  ASSUME NEW a, NEW b, NEW c, NEW d
  PROVE  <<a, b, c>> \o <<d>> = <<a, b, c, d>>
<1> DEFINE S == {a, b, c, d}
           s == <<a, b, c>>
           t == <<d>>
           u == <<a, b, c, d>>
<1>1. /\ s \in Seq(S) /\ t \in Seq(S) /\ u \in Seq(S) /\ Len(u) = Len(s) + Len(t)
      /\ \A k \in 1..Len(s) : u[k] = s[k]
      /\ \A k \in 1..Len(t) : u[Len(s) + k] = t[k]
  OBVIOUS
<1> HIDE DEF S, s, t, u
<1>2. s \o t = u
  BY <1>1, JoinIs, Zenon
<1>3. QED
  BY <1>2 DEF s, t, u

LEMMA Join51 ==
  ASSUME NEW a, NEW b, NEW c, NEW d, NEW e, NEW f
  PROVE  <<a, b, c, d, e>> \o <<f>> = <<a, b, c, d, e, f>>
<1> DEFINE S == {a, b, c, d, e, f}
           s == <<a, b, c, d, e>>
           t == <<f>>
           u == <<a, b, c, d, e, f>>
<1>1. /\ s \in Seq(S) /\ t \in Seq(S) /\ u \in Seq(S) /\ Len(u) = Len(s) + Len(t)
      /\ \A k \in 1..Len(s) : u[k] = s[k]
      /\ \A k \in 1..Len(t) : u[Len(s) + k] = t[k]
  OBVIOUS
<1> HIDE DEF S, s, t, u
<1>2. s \o t = u
  BY <1>1, JoinIs, Zenon
<1>3. QED
  BY <1>2 DEF s, t, u

\* What startup() and run() have to do at first.
FirstSteps == <<Enter("STOP"), Step("pend"), Enter("STOP"), Step("assert")>>
FirstStepsEmbedded ==
  <<Enter("STOP"), Step("pend"), Enter("STOP"), Enter("RUN"), Except, Step("assert")>>

LEMMA InitSteps == Init => todo = FirstSteps \/ todo = FirstStepsEmbedded
<1> SUFFICES ASSUME Init PROVE todo = FirstSteps \/ todo = FirstStepsEmbedded
  OBVIOUS
<1> DEFINE three == <<Enter("STOP"), Step("pend"), Enter("STOP")>>
<1>1. todo = three \o (IF embedded THEN <<Enter("RUN"), Except>> ELSE <<>>) \o <<Step("assert")>>
  BY DEF Init
<1>2. three \o <<Enter("RUN"), Except>>
        = <<Enter("STOP"), Step("pend"), Enter("STOP"), Enter("RUN"), Except>>
  BY Join32
<1>3. three \o <<>> = three
  OBVIOUS
<1>4. CASE embedded
  <2>1. todo = (three \o <<Enter("RUN"), Except>>) \o <<Step("assert")>>
    BY <1>1, <1>4, Zenon
  <2>2. QED
    BY <1>2, <2>1, Join51 DEF FirstStepsEmbedded
<1>5. CASE ~embedded
  <2>1. todo = (three \o <<>>) \o <<Step("assert")>>
    BY <1>1, <1>5, Zenon
  <2>2. QED
    BY <1>3, <2>1, Join31 DEF FirstSteps
<1>6. QED
  BY <1>4, <1>5

\* What holds of the first steps.
LEMMA FirstElements ==
  ASSUME Init
  PROVE  /\ Len(todo) \in {4, 6} /\ todo[1] = Enter("STOP") /\ todo[2] = Step("pend")
         /\ todo[3] = Enter("STOP")
         /\ Len(todo) = 4 => todo[4] = Step("assert")
         /\ Len(todo) = 6 => todo[4] = Enter("RUN") /\ todo[5] = Except /\ todo[6] = Step("assert")
BY InitSteps DEF FirstSteps, FirstStepsEmbedded

LEMMA FirstPlaces ==
  ASSUME Init
  PROVE  \A k \in 1..Len(todo) : k = 1 \/ k = 2 \/ k = 3 \/ k = 4 \/ (Len(todo) = 6 /\ (k = 5 \/ k = 6))
<1>1. CASE Len(todo) = 4
  BY <1>1
<1>2. CASE Len(todo) = 6
  BY <1>2
<1>3. QED
  BY <1>1, <1>2, FirstElements

LEMMA InitShape == Init => Shape(todo)
<1> SUFFICES ASSUME Init PROVE Shape(todo)
  OBVIOUS
<1>1. \A k \in 1..Len(todo) : k \in 1..4 \/ (Len(todo) = 6 /\ k \in 1..6)
  BY FirstElements
<1>2. \A k \in 1..Len(todo) : /\ todo[k].do \in {"enter", "pend", "assert", "except"}
                              /\ todo[k].do = "pend" => k = 2
                              /\ todo[k].do = "except" => k = 5
                              /\ todo[k] = Enter("RUN") => k = 4
  <2>1. /\ Enter("STOP").do = "enter" /\ Enter("RUN").do = "enter" /\ Step("pend").do = "pend"
        /\ Step("assert").do = "assert" /\ Except.do = "except" /\ Enter("STOP") # Enter("RUN")
    BY DEF Enter, Step, Except
  <2>2. /\ Step("pend") # Enter("RUN") /\ Except # Enter("RUN") /\ Step("assert") # Enter("RUN")
    BY DEF Enter, Step, Except
  <2>3. \A k \in 1..Len(todo) : k = 1 \/ k = 2 \/ k = 3 \/ k = 4 \/ (Len(todo) = 6 /\ (k = 5 \/ k = 6))
    BY FirstPlaces
  <2>4. QED
    BY <2>1, <2>2, <2>3, FirstElements
<1>3. Linked(todo)
  BY <1>2 DEF Linked, LinkedAt, StateStep
<1>4. ExceptPlace(todo)
  BY <1>2 DEF ExceptPlace, StateStep
<1>5. Fronts(todo)
  <2>1. todo[1] \in Halts
    BY FirstElements DEF Halts
  <2>2. QED
    BY <1>2, <2>1 DEF Fronts
<1>6. QED
  BY <1>3, <1>4, <1>5 DEF Shape

LEMMA InitFits == Init => CInv
<1> SUFFICES ASSUME Init PROVE CInv
  OBVIOUS
<1>1. state = "INIT" /\ needOB10x = TRUE /\ running = FALSE /\ todo[1].do = "enter"
  BY FirstElements DEF Init, Enter
<1>2. \A k \in 1..Len(todo) : todo[k].do # "startup"
  <2>1. /\ Enter("STOP").do # "startup" /\ Enter("RUN").do # "startup" /\ Step("pend").do # "startup"
        /\ Step("assert").do # "startup" /\ Except.do # "startup"
    BY DEF Enter, Step, Except
  <2>2. \A k \in 1..Len(todo) : k = 1 \/ k = 2 \/ k = 3 \/ k = 4 \/ (Len(todo) = 6 /\ (k = 5 \/ k = 6))
    BY FirstPlaces
  <2>3. QED
    BY <2>1, <2>2, FirstElements
<1>3. StartupReady /\ ExceptNeeds /\ PendNeeds /\ ProjectNeeds /\ Accounted
  BY <1>1, <1>2 DEF StartupReady, ExceptNeeds, PendNeeds, ProjectNeeds, Accounted
<1>4. RunningAgrees /\ HeadFits /\ Runs
  BY <1>1 DEF RunningAgrees, HeadFits, Runs
<1>5. QED
  BY <1>3, <1>4, InitIsTyped, InitShape DEF CInv, FlagsFit

LEMMA FlagsStep == CInv /\ [Next]_vars => FlagsFit'
<1> SUFFICES ASSUME CInv, [Next]_vars PROVE FlagsFit'
  OBVIOUS
<1>1. todo # <<>> => Head(todo) = todo[1]
  BY HeadIsFirst DEF CInv, IInv
<1>2. CASE SetRunState
  <2>1. todo # <<>> /\ todo[1].do = "enter" /\ UNCHANGED <<state, running, project, started, ended>>
    BY <1>1, <1>2 DEF SetRunState, Doing, control
  <2>2. CASE state = todo[1].to \/ state = "EXIT"
    <3>1. Continue /\ UNCHANGED needOB10x
      BY <1>1, <1>2, <2>1, <2>2 DEF SetRunState
    <3>2. QED
      BY <2>1, <2>2, <3>1, PopFits
  <2>3. CASE ~(state = todo[1].to \/ state = "EXIT")
    BY <1>1, <1>2, <2>1, <2>3, EnteringFits DEF Entering
  <2>4. QED
    BY <2>2, <2>3
<1>3. CASE SetState
  BY <1>3, SetStateFits
<1>4. CASE SetRunning
  BY <1>4, SetRunningFits
<1>5. CASE SkipExcept \/ Silence \/ EnterRun \/ Leave \/ ScheduleRebuild
  <2>1. /\ todo # <<>> /\ Continue /\ UNCHANGED <<state, running, project, started>>
        /\ todo[1].do \in {"except", "comm", "assert", "leave", "rebuild"} /\ ended = "no"
    BY <1>1, <1>5 DEF SkipExcept, Silence, EnterRun, Leave, ScheduleRebuild, Doing, server
  <2>2. /\ needOB10x => needOB10x'
        /\ todo[1].do = "rebuild" => needOB10x'
        /\ todo[1].do = "leave" => ended' # "no"
    BY <1>1, <1>5 DEF SkipExcept, Silence, EnterRun, Leave, ScheduleRebuild, Doing, server
  <2>3. QED
    BY <2>1, <2>2, PopFits
<1>6. CASE RaiseFromRun
  <2>1. todo # <<>> /\ todo[1].do = "raise" /\ UNCHANGED <<state, running, needOB10x, project, started>>
        /\ ended = "no"
    BY <1>1, <1>6 DEF RaiseFromRun, Doing, server
  <2>2. CASE Continue /\ UNCHANGED ended
    BY <2>1, <2>2, PopFits
  <2>3. CASE ended' = "fault" /\ UNCHANGED todo
    BY <2>1, <2>3, StutterFits DEF server
  <2>4. QED
    BY <1>6, <2>2, <2>3 DEF RaiseFromRun
<1>7. CASE PendProject
  BY <1>7, PendFits
<1>8. CASE Startup
  <2>1. todo # <<>> /\ todo[1].do = "startup" /\ ended = "no"
    BY <1>1, <1>8 DEF Startup, Doing
  <2>2. CASE StartupDone
    BY <1>8, <2>1, <2>2, StartupFits
  <2>3. CASE StartupFails
    BY <1>8, <2>1, <2>3, ErrorFits DEF StartupFails, Raising
  <2>4. CASE needOB10x /\ Maintenance
    BY <1>8, <2>1, <2>4, MaintenanceFits
  <2>5. QED
    BY <1>8, <2>2, <2>3, <2>4 DEF Startup
<1>9. CASE ResetAll
  <2>1. todo # <<>> /\ todo[1].do = "reset" /\ ended = "no"
    BY <1>1, <1>9 DEF ResetAll, Doing
  <2>2. CASE ResetDone
    BY <1>9, <2>1, <2>2, ResetFits
  <2>3. CASE ResetFails
    BY <1>9, <2>1, <2>3, ErrorFits DEF ResetFails, Raising
  <2>4. QED
    BY <1>9, <2>2, <2>3 DEF ResetAll
<1>10. CASE LoadHardware \/ Translate \/ Cycle
  <2>1. todo # <<>> /\ todo[1].do \in {"hwmod", "content", "cycle"} /\ ended = "no"
    BY <1>1, <1>10 DEF LoadHardware, Translate, Cycle, Doing
  <2>2. CASE Continue /\ UNCHANGED <<server, control>>
    BY <2>1, <2>2, PopFits DEF server, control
  <2>3. CASE Error /\ UNCHANGED project
    BY <1>10, <2>1, <2>3, ErrorFits DEF Raising
  <2>4. CASE Maintenance /\ todo[1].do = "cycle"
    BY <2>1, <2>4, MaintenanceFits
  <2>5. QED
    BY <1>1, <1>10, <2>1, <2>2, <2>3, <2>4 DEF LoadHardware, Translate, Cycle, Doing
<1>11. CASE LoadProject
  <2>1. todo # <<>> /\ todo[1].do = "load" /\ ended = "no" /\ project' = FALSE
    BY <1>1, <1>11 DEF LoadProject, Doing
  <2>2. CASE Error
    BY <1>11, <2>1, <2>2, ErrorFits DEF Raising
  <2>3. CASE ~Error
    <3>1. todo' = LoadFront \o Tail(todo) /\ UNCHANGED <<state, running, needOB10x, started, control>>
      BY <1>11, <2>3 DEF LoadProject, LoadFront
    <3>2. Loads /\ UNCHANGED ended
      BY <1>11, <3>1 DEF Loads, control
    <3>3. QED
      BY <2>1, <3>1, <3>2, LoadsFits
  <2>4. QED
    BY <2>2, <2>3
<1>12. CASE Receive
  BY <1>12, ReceiveFits
<1>13. CASE LoopHead \/ LoopHalted \/ LoopRunning
  BY <1>13, LoopFits
<1>14. CASE SigTerm
  BY <1>14, SigTermFits
<1>15. CASE Ended \/ UNCHANGED vars
  <2>1. UNCHANGED <<server, todo, ended>>
    BY <1>15 DEF Ended, vars, server
  <2>2. QED
    BY <2>1, StutterFits
<1>16. QED
  BY <1>2, <1>3, <1>4, <1>5, <1>6, <1>7, <1>8, <1>9, <1>10, <1>11, <1>12, <1>13, <1>14, <1>15
     DEF Next, Thread, HardwareSteps, OtherSteps

LEMMA CStep == CInv /\ [Next]_vars => CInv'
BY StepIsTyped, ShapeStep, FlagsStep DEF CInv

\* A cycle runs in a started CPU, and before the thread has ended.
LEMMA CycleIsStarted ==
  ASSUME CInv, todo # <<>>, Head(todo).do = "cycle", state # "EXIT"
  PROVE  started /\ ended = "no"
<1>1. todo[1].do = "cycle"
  BY HeadIsFirst DEF CInv, IInv
<1>2. state = "RUN" /\ ended = "no"
  BY <1>1 DEF HeadFits, CInv, FlagsFit
<1>3. ~Stopping
  BY <1>1 DEF Stopping, Enter
<1>4. QED
  BY <1>2, <1>3 DEF Runs, CInv, FlagsFit

\* Whatever order of faults, downloads, resets, run requests and signals has
\* led there, a cycle runs in a CPU that has been through its startup since
\* the last fault and the last reset.
THEOREM CyclesStarted == Spec => []CyclesAreStarted
<1>1. CInv => CyclesAreStarted
  BY CycleIsStarted DEF CyclesAreStarted
<1>2. QED
  BY InitFits, CStep, <1>1, PTL DEF Spec

(***************************************************************************)
(* Plc                                                                     *)
(***************************************************************************)

----------------------------------------------------------------------------
(* The operations of the facade on the list and on the modules that are up *)

\* The module list and its members, which all operations keep well-formed.
HardwareTypes == registered \in Seq(Modules) /\ up \subseteq Modules

\* The inductive invariant.
HwInv == HardwareTypes /\ HardwareIsReachable

LEMMA SameList == Hw!ToSet(registered) = ToSet(registered)
BY DEF Hw!ToSet, ToSet

\* The modules in front of one that fails are in the list.
LEMMA UpToInList ==
  ASSUME HardwareTypes, NEW i \in Nat, i <= Len(registered)
  PROVE  Hw!UpTo(i) \subseteq ToSet(registered)
BY DEF HardwareTypes, Hw!UpTo, ToSet

\* The list holds modules.
LEMMA ListOfModules == HardwareTypes => ToSet(registered) \subseteq Modules
BY DEF HardwareTypes, ToSet

\* registerHardware puts modules behind those that are there.
LEMMA ListGrows ==
  ASSUME NEW s \in Seq(Modules), NEW t \in Seq(Modules)
  PROVE  ToSet(s) \subseteq ToSet(s \o t)
<1>1. DOMAIN s \subseteq DOMAIN (s \o t) /\ \A i \in DOMAIN s : (s \o t)[i] = s[i]
  OBVIOUS
<1>2. QED
  BY <1>1 DEF ToSet

LEMMA RegisterKeeps ==
  ASSUME HwInv, NEW ms \in Seq(Modules), Hw!RegisterHardware(ms)
  PROVE  HwInv'
<1>1. registered' = registered \o ms /\ up' = up
  BY DEF Hw!RegisterHardware
<1>2. registered' \in Seq(Modules)
  BY <1>1 DEF HwInv, HardwareTypes
<1>3. ToSet(registered) \subseteq ToSet(registered')
  BY <1>1, ListGrows DEF HwInv, HardwareTypes
<1>4. QED
  BY <1>1, <1>2, <1>3 DEF HwInv, HardwareTypes, HardwareIsReachable

LEMMA StartupKeeps == HwInv /\ Hw!HardwareStartup => HwInv'
BY ListOfModules, SameList DEF HwInv, HardwareTypes, HardwareIsReachable, ToSet, Hw!HardwareStartup

LEMMA StartupFailsKeeps == HwInv /\ Hw!HardwareStartupFails => HwInv'
<1> SUFFICES ASSUME HwInv, Hw!HardwareStartupFails PROVE HwInv'
  OBVIOUS
<1>1. PICK i \in DOMAIN registered : up' = up \cup Hw!UpTo(i - 1)
  BY DEF Hw!HardwareStartupFails
<1>2. i - 1 \in Nat /\ i - 1 <= Len(registered)
  BY DEF HwInv, HardwareTypes
<1>3. Hw!UpTo(i - 1) \subseteq ToSet(registered)
  BY <1>2, UpToInList DEF HwInv
<1>4. registered' = registered
  BY DEF Hw!HardwareStartupFails
<1>5. QED
  BY <1>1, <1>3, <1>4, ListOfModules DEF HwInv, HardwareTypes, HardwareIsReachable

\* The list is taken away when all of its modules are down, and with it all
\* modules that were up.
LEMMA UnregisterKeeps == HwInv /\ Hw!UnregisterAllHardware => HwInv' /\ up' = {}
BY SameList DEF HwInv, HardwareTypes, HardwareIsReachable, Hw!UnregisterAllHardware, ToSet

LEMMA UnregisterFailsKeeps == HwInv /\ Hw!UnregisterFails => HwInv'
BY DEF HwInv, HardwareTypes, HardwareIsReachable, Hw!UnregisterFails

LEMMA StutterKeeps == HwInv /\ UNCHANGED hardware => HwInv'
BY DEF HwInv, HardwareTypes, HardwareIsReachable, hardware

----------------------------------------------------------------------------
(* The server around the facade                                            *)

LEMMA InitHwInv == PlcInit => HwInv
BY DEF PlcInit, Hw!Init, HwInv, HardwareTypes, HardwareIsReachable

LEMMA StepHwInv == HwInv /\ [PlcNext]_plc => HwInv'
<1> SUFFICES ASSUME HwInv, [PlcNext]_plc PROVE HwInv'
  OBVIOUS
<1>1. CASE PlcStartup
  BY <1>1, StartupKeeps, StartupFailsKeeps, StutterKeeps DEF PlcStartup
<1>2. CASE PlcReset
  BY <1>2, UnregisterKeeps, UnregisterFailsKeeps DEF PlcReset
<1>3. CASE PlcLoadHardware
  <2>1. PICK ms \in SeqOf(Modules, 2) : Hw!RegisterHardware(ms)
    BY <1>3, Zenon DEF PlcLoadHardware
  <2>2. ms \in Seq(Modules)
    <3>1. PICK m \in 0..2 : ms \in [1..m -> Modules]
      BY DEF SeqOf
    <3>2. QED
      BY <3>1, SeqDef
  <2>3. QED
    BY <2>1, <2>2, RegisterKeeps
<1>4. CASE OtherSteps /\ UNCHANGED hardware
  BY <1>4, StutterKeeps
<1>5. CASE PlcSigTerm
  BY <1>5, StutterKeeps DEF PlcSigTerm, hardware
<1>6. CASE Shutdown
  BY <1>6, UnregisterKeeps, UnregisterFailsKeeps DEF Shutdown
<1>7. CASE UNCHANGED plc
  BY <1>7, StutterKeeps DEF plc
<1>8. QED
  BY <1>1, <1>2, <1>3, <1>4, <1>5, <1>6, <1>7 DEF PlcNext, PlcThread, PlcEnded

\* Hardware that is up is in the facade's list, through startups and shutdowns
\* that stop at any module: no module runs that a reset does not reach.
THEOREM Reachable == PlcSpec => []HardwareIsReachable
<1>1. HwInv => HardwareIsReachable
  BY DEF HwInv
<1>2. QED
  BY InitHwInv, StepHwInv, <1>1, PTL DEF PlcSpec

\* The thread takes no step when it has ended, and none is cut off by a signal.
LEMMA ThreadGoesOn == PlcThread \/ PlcSigTerm => ended = "no"
<1>1. PlcStartup \/ PlcReset \/ PlcLoadHardware => ended = "no"
  BY DEF PlcStartup, PlcReset, PlcLoadHardware, Startup, ResetAll, LoadHardware, Doing
<1>2. OtherSteps => ended = "no"
  BY DEF OtherSteps, SetRunState, SetState, SetRunning, SkipExcept, PendProject,
         LoadProject, Translate, ScheduleRebuild, RaiseFromRun, EnterRun, Leave, Cycle,
         Receive, Silence, LoopHead, LoopHalted, LoopRunning, Doing, Test
<1>3. QED
  BY <1>1, <1>2 DEF PlcThread, PlcSigTerm, SigTerm

\* A process that has ended, without a module that raises at that moment, has
\* all hardware down, whatever failed before: the safety part of
\* HardwareGoesDown.
ClosedIsDown == closed # "no" => ended # "no" /\ (closed = "done" => up = {})

LEMMA ClosedStep == HwInv /\ ClosedIsDown /\ [PlcNext]_plc => ClosedIsDown'
<1> SUFFICES ASSUME HwInv, ClosedIsDown, [PlcNext]_plc PROVE ClosedIsDown'
  OBVIOUS
<1>1. CASE PlcThread \/ PlcSigTerm
  <2>1. closed' = closed
    BY <1>1 DEF PlcThread, PlcSigTerm
  <2>2. QED
    BY <1>1, <2>1, ThreadGoesOn DEF ClosedIsDown
<1>2. CASE Shutdown
  <2>1. ended # "no" /\ ended' = ended
    BY <1>2 DEF Shutdown, vars
  <2>2. closed' = "done" => up' = {}
    BY <1>2, UnregisterKeeps DEF Shutdown
  <2>3. QED
    BY <2>1, <2>2 DEF ClosedIsDown
<1>3. CASE UNCHANGED plc
  BY <1>3 DEF ClosedIsDown, plc, vars, hardware
<1>4. QED
  BY <1>1, <1>2, <1>3 DEF PlcNext, PlcEnded

\* A process that has closed without a module that raises has all hardware down.
THEOREM DownWhenClosed == PlcSpec => []ClosedIsDown
<1>1. PlcInit => ClosedIsDown
  BY DEF PlcInit, ClosedIsDown
<1>2. QED
  BY InitHwInv, StepHwInv, ClosedStep, <1>1, PTL DEF PlcSpec

----------------------------------------------------------------------------
(* The server of Plc is the one of CoreServer                              *)

LEMMA PlcStepIsStep == [PlcNext]_plc => [Next]_vars
BY DEF PlcNext, PlcThread, PlcStartup, PlcReset, PlcLoadHardware, PlcSigTerm, Shutdown, PlcEnded,
       plc, Next, Thread, HardwareSteps

LEMMA PlcInitServer == PlcInit => CInv
BY InitFits DEF PlcInit

LEMMA PlcStepServer == CInv /\ [PlcNext]_plc => CInv'
BY PlcStepIsStep, CStep

----------------------------------------------------------------------------
(* The type invariant                                                      *)

LEMMA SameInjective == Hw!IsInjective(registered) <=> IsInjective(registered)
BY DEF Hw!IsInjective, IsInjective

\* What the facade keeps: no module is in its list twice.
ListOK == IsInjective(registered) /\ late \subseteq ToSet(registered) /\ startupRequired \in BOOLEAN

LEMMA HwTypesSplit == Hw!TypeOK <=> HardwareTypes /\ ListOK
BY SameList, SameInjective DEF Hw!TypeOK, HardwareTypes, ListOK

\* Different modules behind those in the list.
LEMMA JoinInjective ==
  ASSUME NEW s \in Seq(Modules), NEW t \in Seq(Modules), IsInjective(s), IsInjective(t),
         ToSet(s) \cap ToSet(t) = {}
  PROVE  IsInjective(s \o t)
<1>1. /\ Len(s) \in Nat /\ Len(t) \in Nat /\ DOMAIN s = 1..Len(s) /\ DOMAIN t = 1..Len(t)
      /\ DOMAIN (s \o t) = 1..(Len(s) + Len(t))
  OBVIOUS
<1>2. ASSUME NEW i \in DOMAIN (s \o t)
      PROVE  \/ i \in DOMAIN s /\ (s \o t)[i] = s[i]
             \/ i - Len(s) \in DOMAIN t /\ (s \o t)[i] = t[i - Len(s)]
  BY <1>1
<1>3. ASSUME NEW i \in DOMAIN s, NEW j \in DOMAIN t PROVE s[i] # t[j]
  BY DEF ToSet
<1> SUFFICES ASSUME NEW i \in DOMAIN (s \o t), NEW j \in DOMAIN (s \o t), (s \o t)[i] = (s \o t)[j]
             PROVE  i = j
  BY DEF IsInjective
<1> DEFINE u == s \o t
           m == i - Len(s)
           n == j - Len(s)
<1>4. \/ i \in DOMAIN s /\ u[i] = s[i]
      \/ m \in DOMAIN t /\ u[i] = t[m]
  BY <1>2
<1>5. \/ j \in DOMAIN s /\ u[j] = s[j]
      \/ n \in DOMAIN t /\ u[j] = t[n]
  BY <1>2
<1>6. u[i] = u[j] /\ (m = n => i = j)
  BY <1>1
<1> HIDE DEF u, m, n
<1>7. CASE i \in DOMAIN s /\ u[i] = s[i]
  <2>1. j \in DOMAIN s /\ u[j] = s[j]
    BY <1>3, <1>5, <1>6, <1>7
  <2>2. QED
    BY <1>6, <1>7, <2>1 DEF IsInjective
<1>8. CASE m \in DOMAIN t /\ u[i] = t[m]
  <2>1. n \in DOMAIN t /\ u[j] = t[n]
    BY <1>3, <1>5, <1>6, <1>8
  <2>2. QED
    BY <1>6, <1>8, <2>1 DEF IsInjective
<1>9. QED
  BY <1>4, <1>7, <1>8

\* The members of two lists behind each other.
LEMMA JoinMembers ==
  ASSUME NEW s \in Seq(Modules), NEW t \in Seq(Modules)
  PROVE  ToSet(s \o t) = ToSet(s) \cup ToSet(t)
<1>1. /\ Len(s) \in Nat /\ Len(t) \in Nat /\ DOMAIN s = 1..Len(s) /\ DOMAIN t = 1..Len(t)
      /\ DOMAIN (s \o t) = 1..(Len(s) + Len(t))
  OBVIOUS
<1>2. ASSUME NEW i \in DOMAIN (s \o t) PROVE (s \o t)[i] \in ToSet(s) \cup ToSet(t)
  BY <1>1 DEF ToSet
<1>3. ToSet(t) \subseteq ToSet(s \o t)
  <2>1. ASSUME NEW i \in DOMAIN t PROVE Len(s) + i \in DOMAIN (s \o t) /\ (s \o t)[Len(s) + i] = t[i]
    BY <1>1
  <2>2. QED
    BY <2>1 DEF ToSet
<1>4. ToSet(s \o t) \subseteq ToSet(s) \cup ToSet(t)
  BY <1>2 DEF ToSet
<1>5. QED
  BY <1>3, <1>4, ListGrows

\* The modules of a project or of a message.
LEMMA LoadedModules ==
  ASSUME HwInv, PlcLoadHardware
  PROVE  \E ms \in Seq(Modules) : IsInjective(ms) /\ Hw!RegisterHardware(ms)
<1>1. PICK ms \in SeqOf(Modules, 2) : IsInjective(ms) /\ Hw!RegisterHardware(ms)
  BY Zenon DEF PlcLoadHardware
<1>2. PICK m \in 0..2 : ms \in [1..m -> Modules]
  BY DEF SeqOf
<1>3. ms \in Seq(Modules)
  BY <1>2, SeqDef
<1>4. QED
  BY <1>1, <1>3

LEMMA ListStays == HwInv /\ ListOK /\ [PlcNext]_plc => ListOK'
<1> SUFFICES ASSUME HwInv, ListOK, [PlcNext]_plc PROVE ListOK'
  OBVIOUS
<1>1. ASSUME UNCHANGED hardware PROVE ListOK'
  BY <1>1 DEF ListOK, hardware
<1>2. ASSUME Hw!HardwareStartup \/ Hw!HardwareStartupFails \/ Hw!UnregisterFails PROVE ListOK'
  BY <1>2 DEF ListOK, Hw!HardwareStartup, Hw!HardwareStartupFails, Hw!UnregisterFails
<1>3. ASSUME Hw!UnregisterAllHardware PROVE ListOK'
  BY <1>3 DEF ListOK, Hw!UnregisterAllHardware, IsInjective
<1>4. ASSUME PlcLoadHardware PROVE ListOK'
  <2>1. PICK ms \in Seq(Modules) : IsInjective(ms) /\ Hw!RegisterHardware(ms)
    BY <1>4, LoadedModules
  <2>2. /\ registered' = registered \o ms /\ late' = late \cup Hw!ToSet(ms)
        /\ startupRequired' \in BOOLEAN /\ Hw!ToSet(ms) \cap Hw!ToSet(registered) = {}
    BY <2>1 DEF Hw!RegisterHardware, ListOK
  <2>3. Hw!ToSet(ms) = ToSet(ms)
    BY DEF Hw!ToSet, ToSet
  <2>4. registered \in Seq(Modules)
    BY DEF HwInv, HardwareTypes
  <2>5. IsInjective(registered')
    BY <2>1, <2>2, <2>3, <2>4, SameList, JoinInjective DEF ListOK
  <2>6. late' \subseteq ToSet(registered')
    BY <2>1, <2>2, <2>3, <2>4, JoinMembers DEF ListOK
  <2>7. QED
    BY <2>2, <2>5, <2>6 DEF ListOK
<1>5. QED
  BY <1>1, <1>2, <1>3, <1>4
     DEF PlcNext, PlcThread, PlcStartup, PlcReset, PlcSigTerm, Shutdown, PlcEnded, plc, hardware

ClosedTypes == closed \in {"no", "done", "raised"}

\* The server and its hardware have their types: in particular, no module is
\* in the list of the facade twice, whatever is loaded while it runs.
THEOREM PlcTypeCorrect == PlcSpec => []PlcTypeOK
<1>1. PlcInit => ListOK /\ ClosedTypes
  BY DEF PlcInit, Hw!Init, ListOK, IsInjective, ClosedTypes
<1>2. ClosedTypes /\ [PlcNext]_plc => ClosedTypes'
  BY DEF ClosedTypes, PlcNext, PlcThread, PlcSigTerm, Shutdown, PlcEnded, plc
<1>3. CInv /\ HwInv /\ ListOK /\ ClosedTypes => PlcTypeOK
  BY HwTypesSplit DEF CInv, IInv, HwInv, PlcTypeOK, ClosedTypes
<1>4. QED
  BY PlcInitServer, PlcStepServer, InitHwInv, StepHwInv, ListStays, <1>1, <1>2, <1>3, PTL DEF PlcSpec

----------------------------------------------------------------------------
(* Cycles use hardware that is up                                          *)

\* A started CPU has its hardware up, but for what was registered since.
HardwareFits == started /\ closed = "no" => ToSet(registered) \ late \subseteq up

\* The steps of the server that do not touch the hardware do not start it.
LEMMA OthersStartNothing == OtherSteps \/ SigTerm => (started' => started)
<1>1. SetRunState \/ SetState \/ SetRunning \/ SkipExcept \/ PendProject \/ ScheduleRebuild
      \/ RaiseFromRun \/ EnterRun \/ Leave \/ Receive \/ Silence => (started' => started)
  BY DEF SetRunState, SetState, SetRunning, SkipExcept, PendProject, ScheduleRebuild,
         RaiseFromRun, EnterRun, Leave, Receive, Silence, server
<1>2. Translate \/ Cycle \/ LoadProject => (started' => started)
  BY DEF Translate, Cycle, LoadProject, Error, Maintenance, server
<1>3. LoopHead \/ LoopHalted \/ LoopRunning \/ SigTerm => (started' => started)
  BY DEF LoopHead, LoopHalted, LoopRunning, Test, SigTerm, server
<1>4. QED
  BY <1>1, <1>2, <1>3 DEF OtherSteps

LEMMA HardwareFitsStep == HwInv /\ HardwareFits /\ [PlcNext]_plc => HardwareFits'
<1> SUFFICES ASSUME HwInv, HardwareFits, [PlcNext]_plc PROVE HardwareFits'
  OBVIOUS
<1>1. ASSUME UNCHANGED <<hardware, closed>>, started' => started PROVE HardwareFits'
  BY <1>1 DEF HardwareFits, hardware
<1>2. CASE PlcStartup /\ closed' = closed
  <2>1. CASE needOB10x /\ Hw!HardwareStartup
    BY <2>1, SameList DEF Hw!HardwareStartup, HardwareFits
  <2>2. CASE needOB10x /\ StartupFails
    BY <2>2 DEF StartupFails, Error, HardwareFits
  <2>3. CASE ~needOB10x /\ UNCHANGED hardware
    <3>1. started' => started
      BY <1>2, <2>3 DEF PlcStartup, Startup, StartupDone, StartupFails
    <3>2. QED
      BY <1>1, <1>2, <2>3, <3>1
  <2>4. QED
    BY <1>2, <2>1, <2>2, <2>3 DEF PlcStartup
<1>3. CASE PlcReset
  <2>1. ~started'
    BY <1>3 DEF PlcReset, ResetDone, ResetFails, Error
  <2>2. QED
    BY <2>1 DEF HardwareFits
<1>4. CASE PlcLoadHardware /\ closed' = closed
  <2>1. PICK ms \in Seq(Modules) : Hw!RegisterHardware(ms)
    BY <1>4, LoadedModules
  <2>2. registered' = registered \o ms /\ late' = late \cup ToSet(ms) /\ up' = up
    BY <2>1 DEF Hw!RegisterHardware, Hw!ToSet, ToSet
  <2>3. ToSet(registered') = ToSet(registered) \cup ToSet(ms)
    BY <2>2, JoinMembers DEF HwInv, HardwareTypes
  <2>4. started' => started
    BY <1>4 DEF PlcLoadHardware, LoadHardware, Error, server
  <2>5. QED
    BY <1>4, <2>2, <2>3, <2>4 DEF HardwareFits
<1>5. CASE OtherSteps /\ UNCHANGED <<hardware, closed>>
  BY <1>1, <1>5, OthersStartNothing
<1>6. CASE PlcSigTerm
  BY <1>1, <1>6, OthersStartNothing DEF PlcSigTerm
<1>7. CASE Shutdown
  BY <1>7 DEF Shutdown, HardwareFits
<1>8. CASE UNCHANGED plc
  BY <1>1, <1>8 DEF plc, vars
<1>9. QED
  BY <1>2, <1>3, <1>4, <1>5, <1>6, <1>7, <1>8 DEF PlcNext, PlcThread, PlcEnded

\* A cycle finds all hardware up that was there when the CPU was started,
\* through failed startups, shutdowns that stop half-way, resets and reloads.
THEOREM CyclesFindHardware == PlcSpec => []CyclesUseStartedHardware
<1>1. PlcInit => HardwareFits /\ ClosedIsDown
  BY DEF PlcInit, Init, HardwareFits, ClosedIsDown
<1>2. CInv /\ HardwareFits /\ ClosedIsDown => CyclesUseStartedHardware
  <2> SUFFICES ASSUME CInv, HardwareFits, ClosedIsDown, todo # <<>>, Head(todo).do = "cycle", state # "EXIT"
               PROVE  ToSet(registered) \ late \subseteq up
    BY DEF CyclesUseStartedHardware
  <2>1. started /\ ended = "no"
    BY CycleIsStarted
  <2>2. closed = "no"
    BY <2>1 DEF ClosedIsDown
  <2>3. QED
    BY <2>1, <2>2 DEF HardwareFits
<1>3. QED
  BY PlcInitServer, PlcStepServer, InitHwInv, StepHwInv, HardwareFitsStep, ClosedStep, <1>1, <1>2, PTL DEF PlcSpec

(***************************************************************************)
(* The user program and its sources (Program)                              *)
(***************************************************************************)

\* A program of the right type, whose references are to managers of sources.
Sound(p) ==
  /\ p \in Programs
  /\ \A b \in Blocks : p.table[b].owned => p.table[b].src \in Sources

\* Only a build makes the program complete, and a project is loaded into a
\* CPU that has not been started.
LoadingStops == Loading => needStartup

\* What the container holds has been written to the file.
ContainerIsSaved == prog.managed \subseteq file.sources

\* An acknowledged source is in the container or still to be loaded.
AckedIsLoaded == acked \subseteq prog.managed \cup loading.sources

\* The inductive invariant.
PInv ==
  /\ ProgramTypeOK /\ Sound(prog) /\ LoadingStops
  /\ StartedIsRunnable /\ StartedIsBuilt /\ ContainerIsSaved /\ AckedIsLoaded

LEMMA LibrariesAreBlocks == LibBlocks \subseteq Blocks
<1>1. 3 \in 1 .. 5 /\ 4 \in 1 .. 5
  OBVIOUS
<1>2. QED
  BY <1>1, LibrariesAssumption, ProgramAssumption

LEMMA KindsAreBlocks == \A k \in 1 .. 5 : Kinds[k] \subseteq Blocks
BY ProgramAssumption

LEMMA OB1IsBlock == OB1 \in Blocks
<1>1. 2 \in 1 .. 5
  OBVIOUS
<1>2. QED
  BY <1>1, ProgramAssumption, KindsAreBlocks

LEMMA RawsAre ==
  ASSUME NEW s \in Sources, NEW k \in 1 .. 5
  PROVE  Raws(s, k) \in Seq(Raw)
<1>1. Defines[s][k] \in Seq(Blocks)
  <2>1. Defines[s][k] \in Seq(Kinds[k]) /\ Kinds[k] \subseteq Blocks
    BY ProgramAssumption, KindsAreBlocks
  <2>2. QED
    BY <2>1, SeqMonotonic
<1> DEFINE d == Defines[s][k]
<1>2. /\ DOMAIN d = 1 .. Len(d) /\ Len(d) \in Nat
      /\ \A i \in 1 .. Len(d) : d[i] \in Blocks
  BY <1>1
<1>3. Raws(s, k) = [i \in 1 .. Len(d) |-> [block |-> d[i], src |-> s, owned |-> TRUE]]
  BY <1>2 DEF Raws
<1> HIDE DEF d
<1>4. \A i \in 1 .. Len(d) : [block |-> d[i], src |-> s, owned |-> TRUE] \in Raw
  BY <1>2 DEF Raw
<1>5. QED
  BY <1>2, <1>3, <1>4, IsASeq

\* From p to q nobody gains a reference, and the managers that leave the
\* container are those that lose their last one.
Sheds(p, q) ==
  /\ \A s \in Sources : Owns(q, s) => Owns(p, s)
  /\ q.managed \subseteq p.managed
  /\ \A s \in p.managed \ q.managed : Owns(p, s) /\ ~Owns(q, s)

\* The references are those of the raw blocks, the blocks and the stale ones.
LEMMA SameOwner ==
  ASSUME NEW p, NEW q, NEW s, q.pending = p.pending, q.table = p.table, q.stale = p.stale
  PROVE  Owns(q, s) <=> Owns(p, s)
BY DEF Owns

LEMMA ShedsSame ==
  ASSUME NEW p, NEW q, \A s \in Sources : Owns(q, s) => Owns(p, s), q.managed = p.managed
  PROVE  Sheds(p, q)
BY DEF Sheds

LEMMA ShedsTransitive ==
  ASSUME NEW p, NEW q, NEW r, Sheds(p, q), Sheds(q, r), p.managed \subseteq Sources
  PROVE  Sheds(p, r)
<1>1. \A s \in Sources : Owns(r, s) => Owns(p, s)
  BY DEF Sheds
<1>2. r.managed \subseteq p.managed
  BY DEF Sheds
<1>3. ASSUME NEW s \in p.managed, s \notin r.managed PROVE Owns(p, s) /\ ~Owns(r, s)
  <2>1. CASE s \in q.managed
    BY <1>3, <2>1 DEF Sheds
  <2>2. CASE s \notin q.managed
    BY <1>3, <2>2 DEF Sheds
  <2>3. QED
    BY <2>1, <2>2
<1>4. QED
  BY <1>1, <1>2, <1>3 DEF Sheds

\* Lost references change nothing but which managers remain.
LEMMA UnrefKeeps ==
  ASSUME NEW p \in Programs, NEW lost
  PROVE  /\ Unref(p, lost) \in Programs
         /\ Unref(p, lost).pending = p.pending /\ Unref(p, lost).table = p.table
         /\ Unref(p, lost).managed \subseteq p.managed
         /\ Unref(p, lost).stale = p.stale
BY DEF Unref, Programs

\* q is p without the entries lost, and without new references.
LEMMA UnrefSheds ==
  ASSUME NEW p, NEW q \in Programs, NEW lost, q.managed = p.managed,
         \A s \in Sources : Owns(q, s) => Owns(p, s),
         \A e \in lost : e.owned => Owns(p, e.src)
  PROVE  Sheds(p, Unref(q, lost))
<1> DEFINE u == Unref(q, lost)
<1>1. \A s \in Sources : Owns(u, s) <=> Owns(q, s)
  BY UnrefKeeps, SameOwner
<1>2. u.managed = {s \in q.managed : (\E e \in lost : e.owned /\ e.src = s) => Owns(q, s)}
  BY DEF Unref, Programs
<1>3. q.managed \subseteq Sources
  BY DEF Programs
<1> HIDE DEF u
<1>4. QED
  BY <1>1, <1>2, <1>3 DEF Sheds, u

\* What a part of a build leaves of the program p: the first n lists are done
\* unless it has raised.
Fits(st, p, n) ==
  /\ st.raised \in BOOLEAN /\ Sound(st.prog) /\ Sheds(p, st.prog)
  /\ ~st.raised => \A k \in 1 .. n : st.prog.pending[k] = <<>>

LEMMA LibrariesFit ==
  ASSUME NEW p, Sound(p)
  PROVE  Fits(LoadLibraries(p), p, 0)
<1> DEFINE clashes == {i \in DOMAIN p.libs : \/ p.table[p.libs[i]].kind = "library"
                                             \/ \E j \in 1 .. i - 1 : p.libs[j] = p.libs[i]}
           loaded == {p.libs[i] : i \in {i \in DOMAIN p.libs : \A j \in clashes : i < j}}
           displaced == {b \in loaded : p.table[b].owned}
           table == [b \in Blocks |-> IF b \in loaded THEN Library ELSE p.table[b]]
           refs == {<<p.table[b].src, b>> : b \in displaced}
           q == [p EXCEPT !.table = table, !.stale = @ \cup refs]
<1>1. p \in Programs /\ p.libs \in Seq(LibBlocks) /\ p.table \in [Blocks -> Entries]
  BY DEF Sound, Programs
<1>2. LoadLibraries(p) = IF clashes = {} THEN Ok([q EXCEPT !.libs = <<>>]) ELSE Raise(q)
  BY DEF LoadLibraries
<1>3. loaded \subseteq Blocks
  <2>1. \A i \in DOMAIN p.libs : p.libs[i] \in LibBlocks
    BY <1>1
  <2>2. QED
    BY <2>1, LibrariesAreBlocks
<1> HIDE DEF clashes, loaded
<1>4. table \in [Blocks -> Entries] /\ \A b \in Blocks : table[b].owned => table[b].src \in Sources
  <2>1. Library \in Entries /\ Library.owned = FALSE
    BY DEF Library, Entries
  <2>2. QED
    BY <1>1, <2>1 DEF Sound
<1>5. refs \subseteq Sources \X Blocks
  BY <1>3 DEF Sound
<1> HIDE DEF table, refs
<1>6. /\ q \in Programs /\ q.table = table /\ q.managed = p.managed /\ q.pending = p.pending
      /\ q.stale = p.stale \cup refs
  BY <1>1, <1>4, <1>5 DEF Programs
<1>9. \A s \in Sources : Owns(q, s) => Owns(p, s)
  <2> SUFFICES ASSUME NEW s \in Sources, Owns(q, s) PROVE Owns(p, s)
    OBVIOUS
  <2>1. ASSUME NEW b \in Blocks, q.table[b].src = s, q.table[b].owned PROVE Owns(p, s)
    <3>1. Library.owned = FALSE
      BY DEF Library
    <3>2. q.table[b] = p.table[b]
      BY <1>6, <2>1, <3>1 DEF table
    <3>3. QED
      BY <2>1, <3>2 DEF Owns
  <2>2. ASSUME NEW b \in Blocks, <<s, b>> \in refs PROVE Owns(p, s)
    <3>1. p.table[b].src = s /\ p.table[b].owned
      BY <2>2 DEF refs
    <3>2. QED
      BY <3>1 DEF Owns
  <2>3. QED
    BY <1>6, <2>1, <2>2 DEF Owns
<1> HIDE DEF q
<1>7. /\ [q EXCEPT !.libs = <<>>] \in Programs /\ [q EXCEPT !.libs = <<>>].table = table
      /\ [q EXCEPT !.libs = <<>>].managed = p.managed
      /\ [q EXCEPT !.libs = <<>>].pending = q.pending /\ [q EXCEPT !.libs = <<>>].stale = q.stale
  <2>1. <<>> \in Seq(LibBlocks)
    OBVIOUS
  <2>2. QED
    BY <1>6, <2>1 DEF Programs
<1>8. Sheds(p, q) /\ Sheds(p, [q EXCEPT !.libs = <<>>])
  BY <1>6, <1>7, <1>9, SameOwner, ShedsSame
<1>10. QED
  BY <1>2, <1>4, <1>6, <1>7, <1>8 DEF Fits, Sound, Ok, Raise

LEMMA InstallKeeps ==
  ASSUME NEW p, Sound(p), NEW k \in 1 .. 5, NEW is \in SUBSET DOMAIN p.pending[k]
  PROVE  /\ Sound(Install(p, k, is)) /\ Sheds(p, Install(p, k, is))
         /\ \A j \in 1 .. 5 : j # k => Install(p, k, is).pending[j] = p.pending[j]
<1> DEFINE raws == p.pending[k]
           new == {raws[i].block : i \in is}
           raw(b) == raws[CHOOSE i \in is : raws[i].block = b]
           list == [i \in DOMAIN raws |-> IF i \in is THEN Inherited(raws[i]) ELSE raws[i]]
           table == [b \in Blocks |-> IF b \in new THEN User(raw(b).src, raw(b).owned)
                                                   ELSE p.table[b]]
           lists == [p.pending EXCEPT ![k] = list]
           q == [p EXCEPT !.pending = lists, !.table = table]
<1>1. /\ p \in Programs /\ raws \in Seq(Raw) /\ p.table \in [Blocks -> Entries]
      /\ p.pending \in [1 .. 5 -> Seq(Raw)]
  BY DEF Sound, Programs
<1>2. DOMAIN raws = 1 .. Len(raws) /\ Len(raws) \in Nat /\ \A i \in DOMAIN raws : raws[i] \in Raw
  BY <1>1
<1>3. Install(p, k, is) = Unref(q, {p.table[b] : b \in new})
  BY <1>1 DEF Install, Programs
<1>4. list \in Seq(Raw)
  <2>1. \A i \in 1 .. Len(raws) : Inherited(raws[i]) \in Raw
    BY <1>2 DEF Raw, Inherited
  <2> HIDE DEF raws
  <2>2. QED
    BY <1>2, <2>1, IsASeq
<1>5. /\ new \subseteq Blocks
      /\ \A b \in new : raw(b) \in Raw /\ raw(b) \in Range(raws)
  BY <1>2 DEF Raw, Range
<1>10. ASSUME NEW x \in Range(list), x.owned PROVE x \in Range(raws)
  <2>1. PICK i \in DOMAIN raws : x = IF i \in is THEN Inherited(raws[i]) ELSE raws[i]
    BY <1>10 DEF Range
  <2>2. i \notin is
    <3>1. raws[i] \in Raw
      BY <1>2
    <3>2. Inherited(raws[i]).owned = FALSE
      BY <3>1 DEF Raw, Inherited
    <3>3. QED
      BY <2>1, <3>2, <1>10
  <2>3. QED
    BY <2>1, <2>2 DEF Range
<1> HIDE DEF list, raw, new
<1>6. table \in [Blocks -> Entries] /\ \A b \in Blocks : table[b].owned => table[b].src \in Sources
  <2>1. \A b \in new : User(raw(b).src, raw(b).owned) \in Entries
    BY <1>5 DEF User, Entries, Raw
  <2>2. \A b \in new : User(raw(b).src, raw(b).owned).src \in Sources
    BY <1>5 DEF User, Raw
  <2>3. table \in [Blocks -> Entries]
    BY <1>1, <2>1
  <2>4. QED
    BY <2>2, <2>3 DEF Sound
<1>11. \A b \in new : table[b].src = raw(b).src /\ table[b].owned = raw(b).owned
  BY <1>5 DEF User
<1>12. \A b \in Blocks \ new : table[b] = p.table[b]
  OBVIOUS
<1>7. /\ lists \in [1 .. 5 -> Seq(Raw)] /\ \A j \in 1 .. 5 : j # k => lists[j] = p.pending[j]
      /\ lists[k] = list /\ p.pending[k] = raws
  BY <1>1, <1>4
<1> HIDE DEF table, lists, raws
<1>8. /\ q \in Programs /\ q.table = table /\ q.managed = p.managed /\ q.pending = lists
      /\ q.stale = p.stale
  BY <1>1, <1>6, <1>7 DEF Programs
<1> HIDE DEF q
<1>13. \A s \in Sources : Owns(q, s) => Owns(p, s)
  <2> SUFFICES ASSUME NEW s \in Sources, Owns(q, s) PROVE Owns(p, s)
    OBVIOUS
  <2>1. ASSUME NEW x \in Range(raws), x.src = s, x.owned PROVE Owns(p, s)
    BY <2>1, <1>7 DEF Owns
  <2>2. ASSUME NEW j \in 1 .. 5, NEW x \in Range(lists[j]), x.src = s, x.owned PROVE Owns(p, s)
    <3>1. CASE j = k
      BY <3>1, <2>1, <2>2, <1>7, <1>10
    <3>2. CASE j # k
      BY <3>2, <2>2, <1>7 DEF Owns
    <3>3. QED
      BY <3>1, <3>2
  <2>3. ASSUME NEW b \in Blocks, table[b].src = s, table[b].owned PROVE Owns(p, s)
    <3>1. CASE b \in new
      BY <3>1, <2>1, <2>3, <1>5, <1>11
    <3>2. CASE b \notin new
      BY <3>2, <2>3, <1>12 DEF Owns
    <3>3. QED
      BY <3>1, <3>2
  <2>4. ASSUME NEW b \in Blocks, <<s, b>> \in p.stale PROVE Owns(p, s)
    BY <2>4 DEF Owns
  <2>5. QED
    BY <1>8, <2>2, <2>3, <2>4 DEF Owns
<1>14. \A e \in {p.table[b] : b \in new} : e.owned => Owns(p, e.src)
  BY <1>5 DEF Owns
<1>15. Sheds(p, Install(p, k, is))
  BY <1>3, <1>8, <1>13, <1>14, UnrefSheds
<1>9. QED
  BY <1>3, <1>6, <1>7, <1>8, <1>15, UnrefKeeps DEF Sound

LEMMA Results ==
  ASSUME NEW p
  PROVE  Ok(p).prog = p /\ Ok(p).raised = FALSE /\ Raise(p).prog = p /\ Raise(p).raised = TRUE
BY DEF Ok, Raise

LEMMA TranslateFits ==
  ASSUME NEW st, NEW p, Sound(p), NEW k \in 1 .. 5, Fits(st, p, k - 1)
  PROVE  Fits(AndTranslate(st, k), p, k)
<1> DEFINE r == st.prog
           rejected == {i \in DOMAIN r.pending[k] : Rejected(r, k, i)}
           is == {i \in DOMAIN r.pending[k] : \A j \in rejected : i < j}
           q == Install(r, k, is)
           done == [q EXCEPT !.pending[k] = <<>>]
<1>1. TranslateKind(r, k) = IF rejected = {} THEN Ok(done) ELSE Raise(q)
  BY DEF TranslateKind
<1>2. /\ Sound(q) /\ Sheds(r, q)
      /\ \A j \in 1 .. 5 : j # k => q.pending[j] = r.pending[j]
  BY InstallKeeps DEF Fits
<1> HIDE DEF q, rejected
<1>3. /\ Sound(r) /\ Sheds(p, r)
      /\ ~st.raised => \A j \in 1 .. k - 1 : r.pending[j] = <<>>
  BY DEF Fits
<1>4. q.pending \in [1 .. 5 -> Seq(Raw)] /\ q \in Programs
  BY <1>2 DEF Sound, Programs
<1>5. /\ Sound(done) /\ done.managed = q.managed /\ done.table = q.table
      /\ done.stale = q.stale
      /\ done.pending[k] = <<>> /\ \A j \in 1 .. 5 : j # k => done.pending[j] = q.pending[j]
  <2>1. <<>> \in Seq(Raw)
    OBVIOUS
  <2>2. /\ done.pending = [q.pending EXCEPT ![k] = <<>>] /\ done \in Programs
        /\ done.table = q.table /\ done.managed = q.managed /\ done.stale = q.stale
    BY <1>4, <2>1 DEF Programs
  <2>3. QED
    BY <1>2, <1>4, <2>2 DEF Sound
<1>11. Sheds(p, q) /\ Sheds(q, done)
  <2>1. Sheds(p, q)
    BY <1>2, <1>3, ShedsTransitive DEF Sound, Programs
  <2>2. ASSUME NEW s \in Sources, Owns(done, s) PROVE Owns(q, s)
    <3>1. \A j \in 1 .. 5 : Range(done.pending[j]) \subseteq Range(q.pending[j])
      <4>1. Range(done.pending[k]) = {}
        BY <1>5 DEF Range
      <4>2. QED
        BY <4>1, <1>5
    <3>2. QED
      BY <2>2, <3>1, <1>5 DEF Owns
  <2>3. QED
    BY <2>1, <2>2, <1>5, ShedsSame
<1>12. Sheds(p, done)
  BY <1>11, ShedsTransitive DEF Sound, Programs
<1>6. \A j \in 1 .. k : j \in 1 .. 5 /\ (j # k => j \in 1 .. k - 1)
  OBVIOUS
<1> HIDE DEF done, r
<1>7. CASE st.raised
  BY <1>7 DEF AndTranslate, Fits
<1>8. CASE ~st.raised /\ rejected # {}
  <2>1. AndTranslate(st, k) = Raise(q)
    BY <1>1, <1>8 DEF AndTranslate, r
  <2>2. Raise(q).prog = q /\ Raise(q).raised = TRUE
    BY Results
  <2>3. Fits(Raise(q), p, k)
    BY <2>2, <1>2, <1>11 DEF Fits
  <2>4. QED
    BY <2>1, <2>3
<1>9. CASE ~st.raised /\ rejected = {}
  <2>1. AndTranslate(st, k) = Ok(done)
    BY <1>1, <1>9 DEF AndTranslate, r
  <2>2. \A j \in 1 .. k : done.pending[j] = <<>>
    BY <1>2, <1>3, <1>5, <1>6, <1>9
  <2>3. Ok(done).prog = done /\ Ok(done).raised = FALSE
    BY Results
  <2>4. Fits(Ok(done), p, k)
    BY <2>2, <2>3, <1>5, <1>12 DEF Fits
  <2>5. QED
    BY <2>1, <2>4
<1>10. QED
  BY <1>7, <1>8, <1>9 DEF Fits

\* A build: its result is complete, unless it has raised.
LEMMA BuildFits ==
  ASSUME NEW p, Sound(p)
  PROVE  Fits(Build(p), p, 5) /\ (~Build(p).raised => Runnable(Build(p).prog))
<1> DEFINE libs == LoadLibraries(p)
           udts == AndTranslate(libs, 1)
           obs == AndTranslate(udts, 2)
           fbs == AndTranslate(obs, 3)
           fcs == AndTranslate(fbs, 4)
           dbs == AndTranslate(fcs, 5)
<1>1. Fits(libs, p, 0)
  BY LibrariesFit
<1> HIDE DEF libs
<1>2. Fits(udts, p, 1)
  BY <1>1, TranslateFits, 1 - 1 = 0
<1> HIDE DEF udts
<1>3. Fits(obs, p, 2)
  BY <1>2, TranslateFits, 2 - 1 = 1
<1> HIDE DEF obs
<1>4. Fits(fbs, p, 3)
  BY <1>3, TranslateFits, 3 - 1 = 2
<1> HIDE DEF fbs
<1>5. Fits(fcs, p, 4)
  BY <1>4, TranslateFits, 4 - 1 = 3
<1> HIDE DEF fcs
<1>6. Fits(dbs, p, 5)
  BY <1>5, TranslateFits, 5 - 1 = 4
<1>7. Build(p) = IF dbs.raised \/ ~Runnable(dbs.prog) THEN Raise(dbs.prog) ELSE dbs
  BY DEF Build, dbs, fcs, fbs, obs, udts, libs
<1> HIDE DEF dbs
<1>8. QED
  BY <1>6, <1>7, Results DEF Fits

----------------------------------------------------------------------------
(* The other operations on a program                                       *)

LEMMA SameTableRuns ==
  ASSUME NEW p, NEW q, q.table = p.table
  PROVE  Runnable(q) = Runnable(p)
BY DEF Runnable, Present

LEMMA LoadedKeeps ==
  ASSUME NEW p, Sound(p), NEW s \in Sources
  PROVE  /\ Sound(Loaded(p, s)) /\ Loaded(p, s).managed = p.managed
         /\ Loaded(p, s).table = p.table
         /\ \A t \in Sources \ {s} : Owns(Loaded(p, s), t) => Owns(p, t)
<1> DEFINE lists == [k \in 1 .. 5 |-> p.pending[k] \o Raws(s, k)]
<1>1. p \in Programs /\ p.pending \in [1 .. 5 -> Seq(Raw)]
  BY DEF Sound, Programs
<1>2. lists \in [1 .. 5 -> Seq(Raw)]
  <2>1. ASSUME NEW k \in 1 .. 5 PROVE p.pending[k] \o Raws(s, k) \in Seq(Raw)
    <3>1. p.pending[k] \in Seq(Raw) /\ Raws(s, k) \in Seq(Raw)
      BY <1>1, RawsAre
    <3>2. QED
      BY <3>1
  <2>2. QED
    BY <2>1
<1>3. Loaded(p, s) = [p EXCEPT !.pending = lists]
  BY DEF Loaded
<1>4. ASSUME NEW k \in 1 .. 5, NEW x \in Range(lists[k])
      PROVE  x \in Range(p.pending[k]) \/ x.src = s
  <2> DEFINE old == p.pending[k]
             new == Raws(s, k)
  <2>1. old \in Seq(Raw) /\ new \in Seq(Raw) /\ lists[k] = old \o new
    BY <1>1, RawsAre
  <2>2. \A i \in DOMAIN new : new[i].src = s
    BY DEF Raws
  <2> HIDE DEF old, new, lists
  <2>3. PICK i \in 1 .. Len(old) + Len(new) : x = (old \o new)[i]
    BY <2>1 DEF Range
  <2>4. CASE i \in 1 .. Len(old)
    BY <2>1, <2>3, <2>4 DEF Range, old
  <2>5. CASE i \notin 1 .. Len(old)
    <3>1. i - Len(old) \in 1 .. Len(new) /\ x = new[i - Len(old)]
      BY <2>1, <2>3, <2>5
    <3>2. QED
      BY <2>1, <2>2, <3>1
  <2>6. QED
    BY <2>4, <2>5
<1> HIDE DEF lists
<1>5. /\ Loaded(p, s).pending = lists /\ Loaded(p, s).table = p.table
      /\ Loaded(p, s).stale = p.stale
  BY <1>1, <1>2, <1>3 DEF Programs
<1>6. ASSUME NEW t \in Sources \ {s}, Owns(Loaded(p, s), t) PROVE Owns(p, t)
  BY <1>4, <1>5, <1>6 DEF Owns
<1>7. QED
  BY <1>1, <1>2, <1>3, <1>6 DEF Sound, Programs

\* What a download leaves: the build is of the program with the raw blocks.
LEMMA LoadKeeps ==
  ASSUME NEW p, Sound(p), NEW s \in Sources, NEW rebuild \in BOOLEAN
  PROVE  LET st == Load(p, s, rebuild)
         IN  /\ Sound(st.prog) /\ Sheds(Loaded(p, s), st.prog)
             /\ rebuild /\ ~st.raised =>
                  Runnable(st.prog) /\ \A k \in 1 .. 5 : st.prog.pending[k] = <<>>
             /\ ~rebuild => st.prog = Loaded(p, s) /\ ~st.raised
<1>1. Sound(Loaded(p, s)) /\ Loaded(p, s).managed = p.managed /\ Loaded(p, s).table = p.table
  BY LoadedKeeps
<1>2. CASE rebuild
  <2>1. Load(p, s, rebuild) = Build(Loaded(p, s))
    BY <1>2 DEF Load
  <2>2. /\ Fits(Build(Loaded(p, s)), Loaded(p, s), 5)
        /\ ~Build(Loaded(p, s)).raised => Runnable(Build(Loaded(p, s)).prog)
    BY <1>1, BuildFits
  <2>3. QED
    BY <1>1, <1>2, <2>1, <2>2 DEF Fits
<1>3. CASE ~rebuild
  <2>1. Load(p, s, rebuild) = Ok(Loaded(p, s))
    BY <1>3 DEF Load
  <2>2. Ok(Loaded(p, s)).prog = Loaded(p, s) /\ Ok(Loaded(p, s)).raised = FALSE
    BY Results
  <2>3. Sheds(Loaded(p, s), Loaded(p, s))
    BY DEF Sheds
  <2>4. QED
    BY <1>1, <1>3, <2>1, <2>2, <2>3
<1>4. QED
  BY <1>2, <1>3

LEMMA ManageKeeps ==
  ASSUME NEW p, Sound(p), NEW s \in Sources
  PROVE  /\ Sound(Manage(p, s)) /\ Manage(p, s).managed = p.managed \cup {s}
         /\ Manage(p, s).table = p.table /\ Manage(p, s).pending = p.pending
         /\ Manage(p, s).stale = p.stale
BY DEF Manage, Sound, Programs

LEMMA SelectKeeps ==
  ASSUME NEW p, Sound(p), NEW b \in LibBlocks
  PROVE  /\ Sound(SelectLibrary(p, b)) /\ SelectLibrary(p, b).managed = p.managed
         /\ SelectLibrary(p, b).table = p.table /\ SelectLibrary(p, b).pending = p.pending
<1>1. p \in Programs /\ p.libs \in Seq(LibBlocks)
  BY DEF Sound, Programs
<1>2. Append(p.libs, b) \in Seq(LibBlocks)
  BY <1>1
<1>3. QED
  BY <1>1, <1>2 DEF SelectLibrary, Sound, Programs

LEMMA RemoveKeeps ==
  ASSUME NEW p, Sound(p), NEW bs \in SUBSET Blocks
  PROVE  /\ Sound(RemoveBlocks(p, bs)) /\ Sheds(p, RemoveBlocks(p, bs))
         /\ RemoveBlocks(p, bs).pending = p.pending
<1> DEFINE table == [b \in Blocks |-> IF b \in bs THEN Absent ELSE p.table[b]]
           q == [p EXCEPT !.table = table]
           lost == {p.table[b] : b \in bs}
<1>1. p \in Programs /\ p.table \in [Blocks -> Entries]
  BY DEF Sound, Programs
<1>2. table \in [Blocks -> Entries] /\ \A b \in Blocks : table[b].owned => table[b].src \in Sources
  <2>1. Absent \in Entries /\ Absent.owned = FALSE
    BY DEF Absent, Entries
  <2>2. QED
    BY <1>1, <2>1 DEF Sound
<1>3. RemoveBlocks(p, bs) = Unref(q, lost)
  BY DEF RemoveBlocks
<1>4. /\ q \in Programs /\ q.table = table /\ q.managed = p.managed /\ q.pending = p.pending
      /\ q.stale = p.stale
  BY <1>1, <1>2 DEF Programs
<1>5. \A e \in lost : e.owned => Owns(p, e.src)
  BY DEF Owns
<1>6. ASSUME NEW s \in Sources, Owns(q, s) PROVE Owns(p, s)
  <2>1. \A b \in Blocks : table[b].owned => table[b] = p.table[b]
    BY DEF Absent
  <2> HIDE DEF q, table
  <2>2. QED
    BY <1>4, <1>6, <2>1 DEF Owns
<1> HIDE DEF table, lost, q
<1>7. Sheds(p, RemoveBlocks(p, bs))
  BY <1>3, <1>4, <1>5, <1>6, UnrefSheds
<1>8. QED
  BY <1>2, <1>3, <1>4, <1>7, UnrefKeeps DEF Sound

LEMMA DisownKeeps ==
  ASSUME NEW p, Sound(p), NEW s
  PROVE  /\ Sound(Disown(p, s)) /\ Disown(p, s).managed = p.managed \ {s}
         /\ \A t \in Sources : Owns(Disown(p, s), t) => Owns(p, t)
         /\ \A k \in 1 .. 5 : p.pending[k] = <<>> => Disown(p, s).pending[k] = <<>>
<1> DEFINE list(k) == [i \in DOMAIN p.pending[k] |-> Released(p.pending[k][i], s)]
           lists == [k \in 1 .. 5 |-> list(k)]
           table == [b \in Blocks |-> Released(p.table[b], s)]
           refs == {r \in p.stale : r[1] # s}
           managed == p.managed \ {s}
<1>1. /\ p \in Programs /\ p.table \in [Blocks -> Entries]
      /\ p.pending \in [1 .. 5 -> Seq(Raw)] /\ p.stale \subseteq Sources \X Blocks
      /\ p.managed \subseteq Sources
  BY DEF Sound, Programs
<1>2. Disown(p, s) = [p EXCEPT !.pending = lists, !.table = table, !.stale = refs,
                               !.managed = managed]
  BY DEF Disown
<1>3. ASSUME NEW k \in 1 .. 5
      PROVE  list(k) \in Seq(Raw) /\ (p.pending[k] = <<>> => list(k) = <<>>)
  <2> DEFINE raws == p.pending[k]
  <2>1. raws \in Seq(Raw) /\ list(k) = [i \in DOMAIN raws |-> Released(raws[i], s)]
    BY <1>1
  <2> HIDE DEF raws, list
  <2>2. DOMAIN raws = 1 .. Len(raws) /\ Len(raws) \in Nat /\ \A i \in DOMAIN raws : raws[i] \in Raw
    BY <2>1
  <2>3. \A i \in 1 .. Len(raws) : Released(raws[i], s) \in Raw
    BY <2>2 DEF Released, Raw
  <2>4. list(k) \in Seq(Raw)
    BY <2>1, <2>2, <2>3, IsASeq
  <2>5. ASSUME raws = <<>> PROVE list(k) = <<>>
    <3>1. DOMAIN list(k) = {}
      BY <2>1, <2>5
    <3>2. QED
      BY <2>4, <3>1
  <2>6. QED
    BY <2>4, <2>5 DEF raws
<1>8. ASSUME NEW k \in 1 .. 5, NEW x \in Range(list(k)), x.owned
      PROVE  \E y \in Range(p.pending[k]) : y.owned /\ y.src = x.src
  <2>1. PICK i \in DOMAIN p.pending[k] : x = Released(p.pending[k][i], s)
    BY <1>8 DEF Range
  <2>2. p.pending[k][i] \in Raw
    BY <1>1, <2>1
  <2>3. p.pending[k][i].owned /\ p.pending[k][i].src = x.src
    BY <1>8, <2>1, <2>2 DEF Released, Raw
  <2>4. QED
    BY <2>1, <2>3 DEF Range
<1>9. \A b \in Blocks : table[b].owned => p.table[b].owned /\ p.table[b].src = table[b].src
  <2>1. \A x \in Entries : Released(x, s).src = x.src /\ (Released(x, s).owned => x.owned)
    BY DEF Released, Entries
  <2>2. QED
    BY <1>1, <2>1
<1>4. table \in [Blocks -> Entries] /\ \A b \in Blocks : table[b].owned => table[b].src \in Sources
  <2>1. \A x \in Entries : Released(x, s) \in Entries /\ Released(x, s).src = x.src
                           /\ (Released(x, s).owned => x.owned)
    BY DEF Released, Entries
  <2>2. QED
    BY <1>1, <2>1 DEF Sound
<1> HIDE DEF list
<1>5. /\ lists \in [1 .. 5 -> Seq(Raw)]
      /\ \A k \in 1 .. 5 : lists[k] = list(k) /\ (p.pending[k] = <<>> => lists[k] = <<>>)
  BY <1>3
<1>6. refs \subseteq Sources \X Blocks /\ managed \subseteq Sources /\ managed \subseteq p.managed
  BY <1>1
<1> HIDE DEF lists, table
<1>10. /\ Disown(p, s).pending = lists /\ Disown(p, s).table = table
       /\ Disown(p, s).stale = refs /\ Disown(p, s).managed = managed
  BY <1>1, <1>2, <1>4, <1>5, <1>6 DEF Programs
<1>11. ASSUME NEW t \in Sources, Owns(Disown(p, s), t) PROVE Owns(p, t)
  <2>1. ASSUME NEW k \in 1 .. 5, NEW x \in Range(lists[k]), x.src = t, x.owned PROVE Owns(p, t)
    <3>1. x \in Range(list(k))
      BY <1>5, <2>1
    <3>2. PICK y \in Range(p.pending[k]) : y.owned /\ y.src = t
      BY <1>8, <2>1, <3>1
    <3>3. QED
      BY <3>2 DEF Owns
  <2>2. ASSUME NEW b \in Blocks, table[b].src = t, table[b].owned PROVE Owns(p, t)
    BY <1>9, <2>2 DEF Owns
  <2>3. ASSUME NEW b \in Blocks, <<t, b>> \in refs PROVE Owns(p, t)
    BY <2>3 DEF Owns
  <2>4. QED
    BY <1>10, <1>11, <2>1, <2>2, <2>3 DEF Owns
<1> HIDE DEF refs
<1>7. QED
  BY <1>1, <1>2, <1>4, <1>5, <1>6, <1>10, <1>11 DEF Sound, Programs

LEMMA EmptyIsSound ==
  /\ Sound(EmptyProgram) /\ EmptyProgram.managed = {}
  /\ EmptyFile \in Files
<1> DEFINE table == [b \in Blocks |-> IF b = OB1 THEN User(NoSource, FALSE) ELSE Absent]
<1>1. table \in [Blocks -> Entries] /\ \A b \in Blocks : table[b].owned = FALSE
  BY DEF User, Absent, Entries
<1>2. <<>> \in Seq(LibBlocks) /\ [k \in 1 .. 5 |-> <<>>] \in [1 .. 5 -> Seq(Raw)]
  <2>1. <<>> \in Seq(Raw)
    OBVIOUS
  <2>2. QED
    BY <2>1
<1>3. EmptyProgram = [pending |-> [k \in 1 .. 5 |-> <<>>], libs |-> <<>>, stale |-> {},
                      managed |-> {}, table |-> table]
  BY DEF EmptyProgram
<1> HIDE DEF table
<1>4. Sound(EmptyProgram) /\ EmptyProgram.managed = {}
  BY <1>1, <1>2, <1>3 DEF Sound, Programs
<1>5. EmptyFile \in Files
  BY <1>2 DEF EmptyFile, Files
<1>6. QED
  BY <1>4, <1>5

----------------------------------------------------------------------------
(* The invariant is inductive: one lemma per action                        *)

\* What the invariant says of the state after a step.
LEMMA AfterStep ==
  ASSUME Sound(prog'), libsel' \in Seq(LibBlocks), file' \in Files, loading' \in Files,
         needStartup' \in BOOLEAN, prog'.managed \subseteq file'.sources, LoadingStops',
         acked' \subseteq prog'.managed \cup loading'.sources,
         ~needStartup' => Runnable(prog') /\ \A k \in 1 .. 5 : prog'.pending[k] = <<>>
  PROVE  PInv'
<1>1. acked' \in SUBSET Sources
  BY DEF Sound, Programs, Files
<1>2. QED
  BY <1>1 DEF PInv, ProgramTypeOK, Sound, StartedIsRunnable, StartedIsBuilt, ContainerIsSaved,
     AckedIsLoaded

\* The file that is written holds what the containers hold.
LEMMA UpdateIsFile ==
  ASSUME UpdateProjectFile, Sound(prog'), libsel' \in Seq(LibBlocks)
  PROVE  file' \in Files /\ file'.sources = prog'.managed
BY DEF UpdateProjectFile, Files, Sound, Programs

LEMMA InvFacts ==
  ASSUME PInv
  PROVE  /\ Sound(prog) /\ libsel \in Seq(LibBlocks) /\ file \in Files /\ loading \in Files
         /\ needStartup \in BOOLEAN /\ prog.managed \subseteq file.sources /\ LoadingStops
         /\ acked \subseteq prog.managed \cup loading.sources /\ acked \subseteq Sources
         /\ ~needStartup => Runnable(prog) /\ \A k \in 1 .. 5 : prog.pending[k] = <<>>
BY DEF PInv, ProgramTypeOK, StartedIsRunnable, StartedIsBuilt, ContainerIsSaved, AckedIsLoaded

\* An acknowledged source that keeps a block, or had none, stays in the container.
LEMMA KeptIsLoaded ==
  ASSUME PInv, Sheds(prog, prog')
  PROVE  Kept \subseteq prog'.managed \cup loading.sources
<1> SUFFICES ASSUME NEW s \in Kept, s \notin loading.sources PROVE s \in prog'.managed
  OBVIOUS
<1>1. /\ s \in acked /\ s \in prog.managed
      /\ Owns(prog, s) => Owns(prog', s)
  BY InvFacts DEF Kept
<1>2. QED
  BY <1>1 DEF Sheds

\* A fault needs nothing of the program but that it is sound and saved.
LEMMA FaultInv ==
  ASSUME PInv, Fault, Sound(prog'), prog'.managed \subseteq prog.managed, loading' \in Files,
         acked' \subseteq prog'.managed \cup loading'.sources
  PROVE  PInv'
<1>1. /\ needStartup' = TRUE /\ libsel' = libsel /\ file' = file
  BY DEF Fault
<1>2. LoadingStops'
  BY <1>1 DEF LoadingStops
<1>3. prog'.managed \subseteq file'.sources
  BY <1>1, InvFacts
<1>4. QED
  BY <1>1, <1>2, <1>3, AfterStep, InvFacts

LEMMA NotLoading == UNCHANGED loading /\ ~Loading => ~Loading'
BY DEF Loading

LEMMA InitPInv == ProgramInit => PInv
<1> SUFFICES ASSUME ProgramInit PROVE PInv
  OBVIOUS
<1>1. /\ prog = EmptyProgram /\ libsel = <<>> /\ file = EmptyFile /\ needStartup = TRUE
      /\ loading = EmptyFile /\ acked = {}
  BY DEF ProgramInit
<1>2. libsel \in Seq(LibBlocks)
  BY <1>1
<1>3. QED
  BY <1>1, <1>2, EmptyIsSound
  DEF PInv, ProgramTypeOK, Sound, LoadingStops, StartedIsRunnable, StartedIsBuilt,
      ContainerIsSaved, AckedIsLoaded

LEMMA LoadAwlSourceInv ==
  ASSUME PInv, NEW s \in Sources, LoadAwlSource(s)
  PROVE  PInv'
<1> DEFINE st == Load(prog, s, ~needStartup)
<1>1. /\ Sound(st.prog) /\ Sheds(Loaded(prog, s), st.prog)
      /\ ~needStartup /\ ~st.raised =>
           Runnable(st.prog) /\ \A k \in 1 .. 5 : st.prog.pending[k] = <<>>
      /\ needStartup => ~st.raised
  <2>1. Sound(prog) /\ (~needStartup) \in BOOLEAN
    BY InvFacts
  <2>2. QED
    BY <2>1, LoadKeeps
<1>2. /\ UNCHANGED loading /\ ~Loading /\ s \notin prog.managed
      /\ IF st.raised
         THEN prog' = st.prog /\ acked' = Kept /\ Fault
         ELSE /\ prog' = Manage(st.prog, s)
              /\ acked' = Kept \cup {s}
              /\ UNCHANGED <<libsel, needStartup>>
              /\ UpdateProjectFile
  BY DEF LoadAwlSource, ByClient
<1> HIDE DEF st
<1>6. st.prog.managed \subseteq prog.managed
  BY <1>1, LoadedKeeps, InvFacts DEF Sheds
\* An acknowledged source that the download takes out has lost its last block.
<1>7. ASSUME NEW t \in acked, Owns(prog, t) => Owns(st.prog, t)
      PROVE  t \in st.prog.managed \cup loading.sources
  <2> SUFFICES ASSUME t \notin loading.sources, t \notin st.prog.managed PROVE FALSE
    OBVIOUS
  <2>1. t \in prog.managed /\ t \in Sources /\ t # s
    BY <1>2, InvFacts
  <2>2. Owns(Loaded(prog, s), t) /\ ~Owns(st.prog, t)
    BY <2>1, <1>1, LoadedKeeps, InvFacts DEF Sheds
  <2>3. Owns(prog, t)
    BY <2>1, <2>2, LoadedKeeps, InvFacts
  <2>4. QED
    BY <2>2, <2>3, <1>7
<1>3. CASE st.raised
  <2>1. prog' = st.prog /\ acked' = Kept /\ Fault
    BY <1>2, <1>3
  <2>2. acked' \subseteq prog'.managed \cup loading'.sources
    BY <2>1, <1>2, <1>7 DEF Kept
  <2>3. QED
    BY <1>1, <1>2, <1>6, <2>1, <2>2, FaultInv, InvFacts
<1>4. CASE ~st.raised
  <2>1. /\ Sound(prog') /\ prog'.table = st.prog.table /\ prog'.pending = st.prog.pending
        /\ prog'.stale = st.prog.stale /\ prog'.managed = st.prog.managed \cup {s}
    BY <1>1, <1>2, <1>4, ManageKeeps
  <2>7. acked' \subseteq prog'.managed \cup loading'.sources
    <3>1. \A t \in Sources : Owns(prog', t) <=> Owns(st.prog, t)
      BY <2>1, SameOwner
    <3>2. acked' = Kept \cup {s} /\ loading' = loading
      BY <1>2, <1>4
    <3>3. ASSUME NEW t \in Kept PROVE t \in prog'.managed \cup loading'.sources
      <4>1. t \in acked /\ t \in Sources /\ (Owns(prog, t) => Owns(st.prog, t))
        BY <3>1, InvFacts DEF Kept
      <4>2. QED
        BY <4>1, <1>7, <2>1, <3>2
    <3>4. QED
      BY <2>1, <3>2, <3>3
  <2>2. libsel' \in Seq(LibBlocks) /\ needStartup' = needStartup
    BY <1>2, <1>4, InvFacts
  <2>3. file' \in Files /\ file'.sources = prog'.managed
    BY <1>2, <1>4, <2>1, <2>2, UpdateIsFile
  <2>4. LoadingStops'
    BY <1>2, NotLoading DEF LoadingStops
  <2>5. ~needStartup => Runnable(prog') /\ \A k \in 1 .. 5 : prog'.pending[k] = <<>>
    BY <1>1, <1>4, <2>1, SameTableRuns
  <2>6. QED
    BY <1>2, <2>1, <2>2, <2>3, <2>4, <2>5, <2>7, AfterStep, InvFacts
<1>5. QED
  BY <1>3, <1>4

\* A library is selected by a client, or while a project is loaded.
LEMMA SelectInv ==
  ASSUME PInv, NEW b \in LibBlocks, prog' = SelectLibrary(prog, b), libsel' = Append(libsel, b),
         UpdateProjectFile, UNCHANGED <<needStartup, acked>>, loading' \in Files, LoadingStops',
         loading'.sources = loading.sources
  PROVE  PInv'
<1>1. /\ Sound(prog') /\ prog'.table = prog.table /\ prog'.pending = prog.pending
      /\ prog'.managed = prog.managed
  BY SelectKeeps, InvFacts
<1>2. libsel' \in Seq(LibBlocks)
  BY InvFacts
<1>3. file' \in Files /\ file'.sources = prog'.managed
  BY <1>1, <1>2, UpdateIsFile
<1>4. ~needStartup' => Runnable(prog') /\ \A k \in 1 .. 5 : prog'.pending[k] = <<>>
  BY <1>1, SameTableRuns, InvFacts
<1>5. QED
  BY <1>1, <1>2, <1>3, <1>4, AfterStep, InvFacts

LEMMA LoadLibraryBlockInv ==
  ASSUME PInv, NEW b \in LibBlocks, LoadLibraryBlock(b)
  PROVE  PInv'
<1>1. /\ prog' = SelectLibrary(prog, b) /\ libsel' = Append(libsel, b)
      /\ UpdateProjectFile /\ UNCHANGED <<needStartup, acked>> /\ UNCHANGED loading /\ ~Loading
  BY DEF LoadLibraryBlock, ByClient
<1>2. LoadingStops'
  BY <1>1, NotLoading DEF LoadingStops
<1>3. QED
  BY <1>1, <1>2, SelectInv, InvFacts

LEMMA BuildRequestInv == ASSUME PInv, BuildRequest PROVE PInv'
<1> DEFINE st == Build(prog)
<1>1. Fits(st, prog, 5) /\ (~st.raised => Runnable(st.prog))
  BY InvFacts, BuildFits
<1>2. /\ prog' = st.prog /\ UNCHANGED loading /\ ~Loading /\ acked' = Kept
      /\ IF st.raised THEN Fault ELSE UNCHANGED <<libsel, file, needStartup>>
  BY DEF BuildRequest, ByClient
<1> HIDE DEF st
<1>3. /\ Sound(prog') /\ prog'.managed \subseteq prog.managed
      /\ acked' \subseteq prog'.managed \cup loading'.sources
  <2>1. Sound(prog') /\ Sheds(prog, prog')
    BY <1>1, <1>2 DEF Fits
  <2>2. QED
    BY <1>2, <2>1, KeptIsLoaded DEF Sheds
<1>4. CASE st.raised
  BY <1>2, <1>3, <1>4, FaultInv, InvFacts
<1>5. CASE ~st.raised
  <2>1. Runnable(prog') /\ \A k \in 1 .. 5 : prog'.pending[k] = <<>>
    BY <1>1, <1>2, <1>5 DEF Fits
  <2>2. LoadingStops'
    BY <1>2, NotLoading DEF LoadingStops
  <2>3. libsel' = libsel /\ file' = file /\ needStartup' = needStartup /\ loading' = loading
    BY <1>2, <1>5
  <2>4. QED
    BY <1>3, <2>1, <2>2, <2>3, AfterStep, InvFacts
<1>6. QED
  BY <1>4, <1>5

LEMMA StartProgramInv == ASSUME PInv, StartProgram PROVE PInv'
<1> DEFINE st == Build(prog)
<1>1. Fits(st, prog, 5) /\ (~st.raised => Runnable(st.prog))
  BY InvFacts, BuildFits
<1>2. /\ prog' = st.prog /\ UNCHANGED loading /\ ~Loading /\ acked' = Kept
      /\ \/ Fault
         \/ ~st.raised /\ needStartup' = FALSE /\ UNCHANGED <<libsel, file>>
  BY DEF StartProgram
<1> HIDE DEF st
<1>3. /\ Sound(prog') /\ prog'.managed \subseteq prog.managed
      /\ acked' \subseteq prog'.managed \cup loading'.sources
  <2>1. Sound(prog') /\ Sheds(prog, prog')
    BY <1>1, <1>2 DEF Fits
  <2>2. QED
    BY <1>2, <2>1, KeptIsLoaded DEF Sheds
<1>4. CASE Fault
  BY <1>2, <1>3, <1>4, FaultInv, InvFacts
<1>5. CASE ~st.raised /\ needStartup' = FALSE /\ UNCHANGED <<libsel, file>>
  <2>1. Runnable(prog') /\ \A k \in 1 .. 5 : prog'.pending[k] = <<>>
    BY <1>1, <1>2, <1>5 DEF Fits
  <2>2. LoadingStops'
    BY <1>2, NotLoading DEF LoadingStops
  <2>3. libsel' = libsel /\ file' = file /\ needStartup' = FALSE /\ loading' = loading
    BY <1>2, <1>5
  <2>4. QED
    BY <1>3, <2>1, <2>2, <2>3, AfterStep, InvFacts
<1>6. QED
  BY <1>2, <1>4, <1>5

LEMMA RemoveSourceInv ==
  ASSUME PInv, NEW s \in Sources, RemoveSource(s)
  PROVE  PInv'
<1> DEFINE blocks == BlocksOf(prog, s)
           gone == {b \in blocks : ~Present(prog, b)}
<1>1. /\ UNCHANGED loading /\ ~Loading
      /\ IF gone # {}
         THEN /\ \E done \in SUBSET (blocks \ gone) : prog' = RemoveBlocks(prog, done)
              /\ acked' = Kept
              /\ Fault
         ELSE /\ prog' = Disown(RemoveBlocks(prog, blocks), s)
              /\ acked' = Kept \ {s}
              /\ UNCHANGED libsel
              /\ IF Runnable(prog')
                 THEN UpdateProjectFile /\ UNCHANGED needStartup
                 ELSE UNCHANGED file /\ needStartup' = TRUE
  BY DEF RemoveSource, ByClient
<1>2. Sound(prog) /\ blocks \subseteq Blocks
  BY InvFacts DEF BlocksOf
<1> HIDE DEF gone, blocks
<1>3. CASE gone # {}
  <2>1. /\ \E done \in SUBSET (blocks \ gone) : prog' = RemoveBlocks(prog, done)
        /\ acked' = Kept /\ Fault /\ loading' = loading
    BY <1>1, <1>3
  <2>2. Sound(prog') /\ Sheds(prog, prog')
    BY <1>2, <2>1, RemoveKeeps
  <2>3. /\ prog'.managed \subseteq prog.managed
        /\ acked' \subseteq prog'.managed \cup loading'.sources
    BY <2>1, <2>2, KeptIsLoaded DEF Sheds
  <2>4. QED
    BY <2>1, <2>2, <2>3, FaultInv, InvFacts
<1>4. CASE gone = {}
  <2>1. /\ Sound(prog') /\ prog'.managed \subseteq prog.managed
        /\ acked' \subseteq prog'.managed \cup loading'.sources
        /\ \A k \in 1 .. 5 : prog.pending[k] = <<>> => prog'.pending[k] = <<>>
    <3> DEFINE q == RemoveBlocks(prog, blocks)
    <3>1. Sound(q) /\ Sheds(prog, q) /\ q.pending = prog.pending
      BY <1>2, RemoveKeeps
    <3>2. prog' = Disown(q, s) /\ acked' = Kept \ {s} /\ loading' = loading
      BY <1>1, <1>4
    <3> HIDE DEF q
    <3>3. /\ Sound(prog') /\ prog'.managed = q.managed \ {s}
          /\ \A t \in Sources : Owns(prog', t) => Owns(q, t)
          /\ \A k \in 1 .. 5 : prog.pending[k] = <<>> => prog'.pending[k] = <<>>
      BY <3>1, <3>2, DisownKeeps
    <3>4. ASSUME NEW t \in Kept, t # s, t \notin loading.sources PROVE t \in q.managed
      <4>1. /\ t \in prog.managed /\ t \in Sources
            /\ Owns(prog, t) => Owns(q, t)
        BY <3>3, <3>4, InvFacts DEF Kept
      <4>2. QED
        BY <4>1, <3>1 DEF Sheds
    <3>5. QED
      BY <3>1, <3>2, <3>3, <3>4 DEF Sheds
  <2>2. LoadingStops'
    BY <1>1, NotLoading DEF LoadingStops
  <2>3. libsel' = libsel /\ loading' = loading
    BY <1>1, <1>4
  <2>4. CASE Runnable(prog')
    <3>1. UpdateProjectFile /\ needStartup' = needStartup
      BY <1>1, <1>4, <2>4
    <3>2. file' \in Files /\ file'.sources = prog'.managed
      BY <2>1, <2>3, <3>1, UpdateIsFile, InvFacts
    <3>3. QED
      BY <2>1, <2>2, <2>3, <2>4, <3>1, <3>2, AfterStep, InvFacts
  <2>5. CASE ~Runnable(prog')
    <3>1. file' = file /\ needStartup' = TRUE
      BY <1>1, <1>4, <2>5
    <3>2. prog'.managed \subseteq file'.sources
      BY <2>1, <3>1, InvFacts
    <3>3. QED
      BY <2>1, <2>2, <2>3, <3>1, <3>2, AfterStep, InvFacts
  <2>6. QED
    BY <2>4, <2>5
<1>5. QED
  BY <1>3, <1>4

LEMMA RemoveBlockRequestInv ==
  ASSUME PInv, NEW b \in Blocks, RemoveBlockRequest(b)
  PROVE  PInv'
<1>1. /\ UNCHANGED loading /\ ~Loading /\ UNCHANGED <<libsel, file>>
      /\ IF Present(prog, b)
         THEN /\ prog' = RemoveBlocks(prog, {b})
              /\ acked' = Kept
              /\ needStartup' = (needStartup \/ ~Runnable(prog'))
         ELSE UNCHANGED <<prog, acked>> /\ Fault
  BY DEF RemoveBlockRequest, ByClient
<1>2. CASE Present(prog, b)
  <2>1. /\ Sound(prog') /\ prog'.managed \subseteq prog.managed /\ prog'.pending = prog.pending
        /\ acked' \subseteq prog'.managed \cup loading'.sources
    <3>1. Sound(prog') /\ Sheds(prog, prog') /\ prog'.pending = prog.pending
      BY <1>1, <1>2, RemoveKeeps, InvFacts
    <3>2. QED
      BY <1>1, <1>2, <3>1, KeptIsLoaded DEF Sheds
  <2>2. LoadingStops'
    BY <1>1, NotLoading DEF LoadingStops
  <2>3. needStartup' = (needStartup \/ ~Runnable(prog'))
    BY <1>1, <1>2
  <2>4. needStartup' \in BOOLEAN /\ (~needStartup' => ~needStartup /\ Runnable(prog'))
    BY <2>3, InvFacts
  <2>5. libsel' = libsel /\ file' = file /\ loading' = loading
    BY <1>1
  <2>6. ~needStartup' => Runnable(prog') /\ \A k \in 1 .. 5 : prog'.pending[k] = <<>>
    BY <2>1, <2>4, InvFacts
  <2>7. prog'.managed \subseteq file'.sources
    BY <2>1, <2>5, InvFacts
  <2>8. QED
    BY <2>1, <2>2, <2>4, <2>5, <2>6, <2>7, AfterStep, InvFacts
<1>3. CASE ~Present(prog, b)
  <2>1. prog' = prog /\ Fault /\ loading' = loading /\ acked' = acked
    BY <1>1, <1>3
  <2>2. QED
    BY <2>1, FaultInv, InvFacts
<1>4. QED
  BY <1>2, <1>3

LEMMA ResetInv ==
  ASSUME PInv, Reset, loading' \in Files, acked' \subseteq loading'.sources
  PROVE  PInv'
<1>1. prog' = EmptyProgram /\ libsel' = <<>> /\ needStartup' = TRUE /\ UpdateProjectFile
  BY DEF Reset
<1>2. Sound(prog') /\ libsel' \in Seq(LibBlocks)
  BY <1>1, EmptyIsSound
<1>3. file' \in Files /\ file'.sources = prog'.managed
  BY <1>1, <1>2, UpdateIsFile
<1>4. LoadingStops'
  BY <1>1 DEF LoadingStops
<1>5. QED
  BY <1>1, <1>2, <1>3, <1>4, AfterStep

LEMMA LoadNextLibraryInv == ASSUME PInv, LoadNextLibrary PROVE PInv'
<1>1. /\ loading.libs # <<>> /\ loading' = [loading EXCEPT !.libs = Tail(@)]
      /\ prog' = SelectLibrary(prog, Head(loading.libs))
      /\ libsel' = Append(libsel, Head(loading.libs))
      /\ UpdateProjectFile /\ UNCHANGED <<needStartup, acked>>
  BY DEF LoadNextLibrary
<1>2. loading \in Files /\ loading.libs \in Seq(LibBlocks)
  BY InvFacts DEF Files
<1>3. Head(loading.libs) \in LibBlocks /\ Tail(loading.libs) \in Seq(LibBlocks)
  BY <1>1, <1>2
<1>4. loading' \in Files /\ loading'.sources = loading.sources
  BY <1>1, <1>2, <1>3 DEF Files
<1>5. LoadingStops'
  <2>1. Loading
    BY <1>1 DEF Loading, EmptyFile
  <2>2. needStartup
    BY <2>1, InvFacts DEF LoadingStops
  <2>3. QED
    BY <1>1, <2>2 DEF LoadingStops
<1>6. QED
  BY <1>1, <1>3, <1>4, <1>5, SelectInv

LEMMA LoadNextSourceInv == ASSUME PInv, LoadNextSource PROVE PInv'
<1>1. PICK s \in loading.sources :
        /\ loading' = [loading EXCEPT !.sources = @ \ {s}]
        /\ prog' = Manage(Load(prog, s, FALSE).prog, s)
  BY DEF LoadNextSource
<1>2. UNCHANGED <<libsel, needStartup, acked>> /\ UpdateProjectFile
  BY DEF LoadNextSource
<1>3. s \in Sources /\ loading' \in Files
  BY <1>1, InvFacts DEF Files
<1>4. needStartup
  <2>1. Loading
    BY <1>1 DEF Loading, EmptyFile
  <2>2. QED
    BY <2>1, InvFacts DEF LoadingStops
<1>5. Sound(prog') /\ prog'.managed = prog.managed \cup {s}
  <2> DEFINE q == Loaded(prog, s)
  <2>1. Sound(q) /\ q.managed = prog.managed
    BY <1>3, LoadedKeeps, InvFacts
  <2>2. Load(prog, s, FALSE).prog = q
    BY Results DEF Load
  <2>3. prog' = Manage(q, s)
    BY <1>1, <2>2
  <2> HIDE DEF q
  <2>4. QED
    BY <1>3, <2>1, <2>3, ManageKeeps
<1>6. libsel' \in Seq(LibBlocks) /\ needStartup' /\ needStartup' \in BOOLEAN
  BY <1>2, <1>4, InvFacts
<1>7. file' \in Files /\ file'.sources = prog'.managed
  BY <1>2, <1>5, <1>6, UpdateIsFile
<1>8. LoadingStops'
  BY <1>6 DEF LoadingStops
<1>9. acked' \subseteq prog'.managed \cup loading'.sources
  <2>1. loading'.sources = loading.sources \ {s}
    BY <1>1, InvFacts DEF Files
  <2>2. QED
    BY <1>2, <1>5, <2>1, InvFacts
<1>10. QED
  BY <1>3, <1>5, <1>6, <1>7, <1>8, <1>9, AfterStep

LEMMA NextPInv == PInv /\ [ProgramNext]_programVars => PInv'
<1> SUFFICES ASSUME PInv, [ProgramNext]_programVars PROVE PInv'
  OBVIOUS
<1>1. ASSUME NEW s \in Sources, LoadAwlSource(s) \/ RemoveSource(s) PROVE PInv'
  BY <1>1, LoadAwlSourceInv, RemoveSourceInv
<1>2. ASSUME NEW b \in LibBlocks, LoadLibraryBlock(b) PROVE PInv'
  BY <1>2, LoadLibraryBlockInv
<1>3. ASSUME NEW b \in Blocks, RemoveBlockRequest(b) PROVE PInv'
  BY <1>3, RemoveBlockRequestInv
<1>4. CASE BuildRequest
  BY <1>4, BuildRequestInv
<1>5. CASE StartProgram
  BY <1>5, StartProgramInv
<1>6. CASE CycleFails
  <2>1. prog' = prog /\ loading' = loading /\ acked' = acked /\ Fault
    BY <1>6 DEF CycleFails
  <2>2. QED
    BY <2>1, FaultInv, InvFacts
<1>7. CASE ResetRequest
  BY <1>7, ResetInv, InvFacts DEF ResetRequest, ByClient
<1>8. CASE Restart
  <2>1. Reset /\ loading' = file /\ acked' = acked \ loading.sources
    BY <1>8 DEF Restart, BrokenOff
  <2>2. QED
    BY <2>1, ResetInv, InvFacts
<1>9. CASE LoadNextLibrary
  BY <1>9, LoadNextLibraryInv
<1>10. CASE LoadNextSource
  BY <1>10, LoadNextSourceInv
<1>11. CASE LoadFails
  <2>1. /\ prog' = prog /\ loading' = EmptyFile /\ Fault
        /\ acked' = acked \ loading.sources
    BY <1>11 DEF LoadFails, BrokenOff
  <2>2. QED
    BY <2>1, FaultInv, EmptyIsSound, InvFacts
<1>12. CASE UNCHANGED programVars
  BY <1>12 DEF programVars, PInv, ProgramTypeOK, Sound, LoadingStops, Loading,
     StartedIsRunnable, StartedIsBuilt, ContainerIsSaved, AckedIsLoaded
<1>13. QED
  BY <1>1, <1>2, <1>3, <1>4, <1>5, <1>6, <1>7, <1>8, <1>9, <1>10, <1>11, <1>12
  DEF ProgramNext

LEMMA ProgramInductive == ProgramSpec => []PInv
BY InitPInv, NextPInv, PTL DEF ProgramSpec

\* The type of the program, its lists and the project file, for every set of
\* sources, kinds of blocks and libraries: a build, a removal or a project that
\* is loaded part by part leaves no reference to what is not a source.
THEOREM ProgramTypeCorrect == ProgramSpec => []ProgramTypeOK
<1>1. PInv => ProgramTypeOK
  BY DEF PInv
<1>2. QED
  BY <1>1, ProgramInductive, PTL

\* A CPU that goes on without a start has OB 1 and every block its program
\* calls: removeSource, REMOVEBLK and failed downloads leave no other without
\* a start that builds again.
THEOREM StartedCanRun == ProgramSpec => []StartedIsRunnable
<1>1. PInv => StartedIsRunnable
  BY DEF PInv
<1>2. QED
  BY <1>1, ProgramInductive, PTL

\* No raw block waits in a CPU that goes on without a start: whatever is
\* downloaded is built at once, or the next start builds it.
THEOREM StartedHasNoRawBlocks == ProgramSpec => []StartedIsBuilt
<1>1. PInv => StartedIsBuilt
  BY DEF PInv
<1>2. QED
  BY <1>1, ProgramInductive, PTL

\* What clients were told is loaded survives failed messages, failed builds,
\* crashes and restarts, for every set of sources: it is in the project file, or
\* in what the server is about to load from it, until a message removes or
\* replaces its last block; only a load that is itself broken off loses it.
THEOREM AcknowledgedSurvives == ProgramSpec => []AcknowledgedIsSaved
<1>1. PInv => AcknowledgedIsSaved
  BY DEF PInv, ContainerIsSaved, AckedIsLoaded, AcknowledgedIsSaved
<1>2. QED
  BY <1>1, ProgramInductive, PTL
=============================================================================
