----------------------------- MODULE CoreServer -----------------------------
(***************************************************************************)
(* Run states of the core server (awlsim/coreserver/server.py).  One       *)
(* thread executes startup(), run() and, inside of them, the handlers of   *)
(* client messages, cycles of the CPU and setRunState(), which calls       *)
(* itself when it loads a project on the way into RUN.  SIGTERM is handled *)
(* between any two bytecodes of that thread.                               *)
(*                                                                         *)
(* todo is what the thread has entered and not finished, the next step     *)
(* first: a call puts its steps in front, an exception drops all steps up  *)
(* to the except clause that takes it.  With todo empty the thread tests   *)
(* the conditions of the loops of run().                                   *)
(***************************************************************************)
EXTENDS Integers, Sequences, SequencesExt

CONSTANT Messages       \* the client messages that are sent

ASSUME CoreServerAssumption ==
  Messages \subseteq {"RUN", "STOP", "RESET", "SHUTDOWN", "HWMOD", "LIBSEL", "AWLSRC"}

VARIABLES embedded,     \* run by awlsim-linuxcnc-hal, not as a process of its own
          state,        \* __state
          running,      \* __running, the shortcut the run loop tests
          needOB10x,    \* __needOB10x
          project,      \* __projectToBeLoaded is set
          todo,         \* the steps of the thread
          loop,         \* the loop of run() the thread is in
          ended,        \* how the thread has ended
          started,      \* history: OB 100 ran since the last fault or reset
          signalled     \* SIGTERM was handled; it is sent once

vars == <<embedded, state, running, needOB10x, project, todo, loop, ended,
          started, signalled>>
server == <<state, running, needOB10x, project, started>>
control == <<loop, ended>>

States == {"INIT", "STOP", "RUN", "MAINTENANCE", "EXIT"}
Halted == {"STOP", "MAINTENANCE"}

Steps == {"enter", "state", "running", "except", "startup", "pend", "load", "reset",
          "hwmod", "content", "rebuild", "raise", "assert", "leave", "cycle", "comm"}

Step(do) == [do |-> do, to |-> "INIT"]
Enter(s) == [do |-> "enter", to |-> s]
Commit(s) == <<[do |-> "state", to |-> s], [do |-> "running", to |-> s]>>
\* An except clause for AwlSimError that continues with the step behind it.
Except == Step("except")

TypeOK ==
  /\ state \in States /\ running \in BOOLEAN /\ needOB10x \in BOOLEAN
  /\ project \in BOOLEAN /\ started \in BOOLEAN
  /\ todo \in Seq([do : Steps, to : States])
  /\ loop \in {"head", "halted", "running"}
  /\ ended \in {"no", "exit", "assertion", "maintenance", "fault"}
  /\ embedded \in BOOLEAN /\ signalled \in BOOLEAN
  /\ embedded => state # "EXIT"

\* __init__ has put the server into INIT; startup() is entered, and then run().
Init ==
  /\ embedded \in BOOLEAN
  /\ state = "INIT" /\ running = FALSE /\ needOB10x = TRUE /\ project = FALSE
  /\ todo = <<Enter("STOP"), Step("pend"), Enter("STOP")>>
            \o (IF embedded THEN <<Enter("RUN"), Except>> ELSE <<>>)
            \o <<Step("assert")>>
  /\ loop = "head" /\ ended = "no"
  /\ started = FALSE /\ signalled = FALSE

(***************************************************************************)
(* Exceptions                                                              *)
(***************************************************************************)

\* The steps after an AwlSimError: those behind the next except clause, or
\* the handler of run().  The embedding program gets the exception again,
\* stops the CPU once more and calls run().
AfterError(steps) ==
  LET i == SelectInSeq(steps, LAMBDA step : step.do = "except")
  IN IF i > 0 THEN SubSeq(steps, i + 1, Len(steps))
     ELSE <<Enter("STOP"), Step("rebuild")>>
          \o (IF embedded THEN <<Step("raise"), Enter("STOP"), Step("assert")>> ELSE <<>>)

Error ==
  /\ todo' = AfterError(Tail(todo))
  /\ loop' = "head"
  /\ started' = FALSE
  /\ UNCHANGED <<state, running, needOB10x, ended>>

\* A MaintenanceRequest passes the except clauses, and run() is left with it
\* in the embedding program.  It never gets to run() from in front of it.
AfterMaintenance(steps) ==
  IF \E i \in DOMAIN steps : steps[i].do = "assert" THEN <<Step("leave")>>
  ELSE <<Enter("MAINTENANCE")>> \o (IF embedded THEN <<Step("leave")>> ELSE <<>>)

Maintenance ==
  /\ todo' = AfterMaintenance(todo)
  /\ loop' = "head"
  /\ started' = FALSE
  /\ UNCHANGED <<state, running, needOB10x, project, ended>>

(***************************************************************************)
(* The steps of setRunState and of the calls                               *)
(***************************************************************************)

Doing(do) ==
  ended = "no" /\ todo # <<>> /\ Head(todo).do = do /\ UNCHANGED <<embedded, signalled>>
Continue == todo' = Tail(todo)

\* What setRunState(s) does before it sets the state.
Work(s) ==
  IF s # "RUN" THEN <<>>
  ELSE (IF project THEN <<Step("load"), Except>> ELSE <<>>) \o <<Step("startup")>>

\* Mutant: EXIT can be left.
SetAnyRunState ==
  /\ Doing("enter")
  /\ LET s == Head(todo).to
     IN IF state = s
        THEN Continue /\ UNCHANGED needOB10x
        ELSE /\ todo' = Work(s) \o Commit(s) \o Tail(todo)
             /\ needOB10x' = (needOB10x \/ s = "MAINTENANCE")
  /\ UNCHANGED <<state, running, project, started, control>>

SetRunState ==
  /\ Doing("enter")
  /\ LET s == Head(todo).to
     IN IF state = s \/ state = "EXIT"
        THEN Continue /\ UNCHANGED needOB10x
        ELSE /\ todo' = Work(s) \o Commit(s) \o Tail(todo)
             /\ needOB10x' = (needOB10x \/ s = "MAINTENANCE")
  /\ UNCHANGED <<state, running, project, started, control>>

SetState ==
  /\ Doing("state")
  /\ state' = Head(todo).to
  /\ Continue
  /\ UNCHANGED <<running, needOB10x, project, started, control>>

SetRunning ==
  /\ Doing("running")
  /\ running' = (Head(todo).to = "RUN")
  /\ Continue
  /\ UNCHANGED <<state, needOB10x, project, started, control>>

\* The end of a try block without an exception.
SkipExcept ==
  /\ Doing("except")
  /\ Continue
  /\ UNCHANGED <<server, control>>

StartupDone ==
  /\ needOB10x' = FALSE
  /\ started' = (started \/ needOB10x)
  /\ Continue
  /\ UNCHANGED <<state, running, project, control>>

StartupFails == needOB10x /\ Error /\ UNCHANGED project

\* Hardware startup, build and OB 100, unless nothing has happened since.
Startup ==
  /\ Doing("startup")
  /\ \/ StartupDone
     \/ StartupFails
     \/ needOB10x /\ Maintenance

\* __loadProject remembers the project of the command line, if there is one.
PendProject ==
  /\ Doing("pend")
  /\ project' \in BOOLEAN
  /\ Continue
  /\ UNCHANGED <<state, running, needOB10x, started, control>>

\* __doLoadProject: the file may be unreadable.  Hardware modules come first; a
\* symbol table or library selection stops the CPU before it is loaded, as the
\* reset does.
LoadProject ==
  /\ Doing("load")
  /\ project' = FALSE
  /\ \/ /\ todo' = <<Enter("STOP"), Step("reset"), Step("hwmod"),
                      Enter("STOP"), Step("content")>> \o Tail(todo)
        /\ UNCHANGED <<state, running, needOB10x, started, control>>
     \/ Error

ResetDone ==
  /\ needOB10x' = TRUE
  /\ started' = FALSE
  /\ Continue
  /\ UNCHANGED <<state, running, project, control>>

\* A hardware module does not shut down: the CPU has been reset, the sources
\* and the startup flag have not.
ResetFails == Error /\ UNCHANGED project

ResetAll == Doing("reset") /\ (ResetDone \/ ResetFails)

\* loadHardwareModule registers modules, or one of them does not load.  It is
\* handled in any run state and schedules no startup.
LoadHardware ==
  /\ Doing("hwmod")
  /\ \/ Continue /\ UNCHANGED <<server, control>>
     \/ Error /\ UNCHANGED project

\* A source, a selection or the whole program is translated, or is rejected.
Translate ==
  /\ Doing("content")
  /\ \/ Continue /\ UNCHANGED <<server, control>>
     \/ Error /\ UNCHANGED project

\* Mutant: the handler leaves the startup flag alone.
ScheduleNothing ==
  /\ Doing("rebuild")
  /\ Continue
  /\ UNCHANGED <<server, control>>

\* The end of the handler for AwlSimError in run().
ScheduleRebuild ==
  /\ Doing("rebuild")
  /\ needOB10x' = TRUE
  /\ Continue
  /\ UNCHANGED <<state, running, project, started, control>>

\* The exception is raised to the embedding program.  That gives up after
\* ten of them in a row.  If a client could not be sent the exception, "e" is
\* unbound and an UnboundLocalError takes its place, which nothing catches.
RaiseFromRun ==
  /\ Doing("raise")
  /\ \/ Continue /\ UNCHANGED ended
     \/ ended' = "fault" /\ UNCHANGED todo
  /\ UNCHANGED <<server, loop>>

\* run() is entered and asserts that the CPU is in a runnable state.
EnterRun ==
  /\ Doing("assert")
  /\ ended' = IF state \in Halted \cup {"RUN"} THEN "no" ELSE "assertion"
  /\ Continue
  /\ UNCHANGED <<server, loop>>

\* The embedding program takes the maintenance request and ends.
Leave ==
  /\ Doing("leave")
  /\ ended' = "maintenance"
  /\ Continue
  /\ UNCHANGED <<server, loop>>

(***************************************************************************)
(* Cycles and messages                                                     *)
(***************************************************************************)

Cycle ==
  /\ Doing("cycle")
  /\ \/ Continue /\ UNCHANGED <<server, control>>
     \/ Error /\ UNCHANGED project
     \/ Maintenance

\* Mutant: the command mask of the embedding program is not tested.
HandlerWithoutMask(msg) ==
  CASE msg = "RUN" -> IF state \in Halted THEN <<Enter("RUN")>> ELSE <<>>
    [] msg = "STOP" -> <<Enter("STOP")>>
    [] msg = "RESET" -> <<Enter("STOP"), Step("reset")>>
    [] msg = "SHUTDOWN" -> <<Enter("EXIT")>>
    [] msg = "HWMOD" -> <<Step("hwmod")>>
    [] msg = "LIBSEL" -> <<Enter("STOP"), Step("content")>>
    [] msg = "AWLSRC" -> <<Step("content")>>

\* The steps of the handler of a message.
Handler(msg) ==
  CASE msg = "RUN" -> IF state \in Halted THEN <<Enter("RUN")>> ELSE <<>>
    [] msg = "STOP" -> <<Enter("STOP")>>
    [] msg = "RESET" -> <<Enter("STOP"), Step("reset")>>
    [] msg = "SHUTDOWN" -> IF embedded THEN <<>> ELSE <<Enter("EXIT")>>
    [] msg = "HWMOD" -> <<Step("hwmod")>>
    [] msg = "LIBSEL" -> <<Enter("STOP"), Step("content")>>
    [] msg = "AWLSRC" -> <<Step("content")>>

\* __handleCommunication handles messages until there are none for a moment.
Receive ==
  /\ Doing("comm")
  /\ \E msg \in Messages : todo' = Handler(msg) \o todo
  /\ UNCHANGED <<server, control>>

Silence ==
  /\ Doing("comm")
  /\ Continue
  /\ UNCHANGED <<server, control>>

(***************************************************************************)
(* The loops of run()                                                      *)
(***************************************************************************)

Test(l) ==
  ended = "no" /\ todo = <<>> /\ loop = l /\ UNCHANGED <<embedded, server, signalled>>

LoopHead ==
  /\ Test("head")
  /\ \/ state = "EXIT" /\ ended' = "exit" /\ UNCHANGED <<todo, loop>>
     \/ state # "EXIT" /\ project /\ todo' = <<Step("load")>> /\ UNCHANGED control
     \/ /\ state # "EXIT" /\ ~project
        /\ loop' = IF state = "RUN" THEN "running" ELSE "halted"
        /\ UNCHANGED <<todo, ended>>

\* Mutant: the halted loop is left for RUN only.
LoopHaltedUntilRun ==
  /\ Test("halted")
  /\ IF state # "RUN"
     THEN todo' = <<Step("comm")>> /\ UNCHANGED loop
     ELSE loop' = "head" /\ UNCHANGED todo
  /\ UNCHANGED ended

LoopHalted ==
  /\ Test("halted")
  /\ IF state \in Halted
     THEN todo' = <<Step("comm")>> /\ UNCHANGED loop
     ELSE loop' = "head" /\ UNCHANGED todo
  /\ UNCHANGED ended

LoopRunning ==
  /\ Test("running")
  /\ IF running
     THEN todo' = <<Step("cycle"), Step("comm")>> /\ UNCHANGED loop
     ELSE loop' = "head" /\ UNCHANGED todo
  /\ UNCHANGED ended

(***************************************************************************)
(* The specification                                                       *)
(***************************************************************************)

\* signalHandler: a complete setRunState(STATE_EXIT).  The embedding program
\* does not install it.
SigTerm ==
  /\ ended = "no" /\ ~embedded /\ ~signalled
  /\ signalled' = TRUE
  /\ state' = "EXIT"
  /\ running' = (running /\ state = "EXIT")
  /\ UNCHANGED <<embedded, needOB10x, project, todo, started, control>>

\* The steps that concern the hardware modules (see Plc), and all others.
HardwareSteps == Startup \/ ResetAll \/ LoadHardware

OtherSteps ==
  \/ SetRunState \/ SetState \/ SetRunning \/ SkipExcept
  \/ PendProject \/ LoadProject \/ Translate \/ ScheduleRebuild
  \/ RaiseFromRun \/ EnterRun \/ Leave \/ Cycle \/ Receive \/ Silence
  \/ LoopHead \/ LoopHalted \/ LoopRunning

Thread == HardwareSteps \/ OtherSteps

Ended == ended # "no" /\ UNCHANGED vars

Next == Thread \/ SigTerm \/ Ended

\* The thread goes on: a cycle is ended by the cycle time limit, the blocking
\* select() by its timeout.  And the clients do not keep it in
\* __handleCommunication for ever: there is a pause of 10 ms now and then.
Spec == Init /\ [][Next]_vars /\ WF_vars(Thread) /\ SF_vars(Silence)

(***************************************************************************)
(* Properties                                                              *)
(***************************************************************************)

\* A step of setRunState that sets the state is still to come.
Committing == \E i \in DOMAIN todo : todo[i].do \in {"state", "running"}

\* A cycle runs in a CPU that has been through hardware startup, build and
\* OB 100 since the last fault and the last reset, whatever order of faults,
\* downloads, resets and run requests has led here (__needOB10x).  A server
\* in EXIT should not run cycles at all: see ExitIsFinal.
CyclesAreStarted ==
  todo # <<>> /\ Head(todo).do = "cycle" /\ state # "EXIT" => started

\* setRunState(STATE_EXIT) is final, unless a signal has put it into the
\* middle of another setRunState.
InExit == state = "EXIT" /\ ~Committing
ExitStays == [][InExit => InExit']_vars

\* A server in EXIT leaves run(): from the halted and from the running loop,
\* with a project pending and with messages arriving, whatever exception is
\* raised meanwhile.
ExitEnds == InExit /\ ~running ~> ended # "no"

\* The comment "We are exiting. Cannot set another state." of setRunState: in
\* EXIT neither the state is left nor its shortcut set again, by which the
\* loop that runs the cycles would go on.
ExitIsFinal == [][state = "EXIT" => state' = "EXIT" /\ (running' => running)]_vars
=============================================================================
