-------------------------------- MODULE Plc ---------------------------------
(***************************************************************************)
(* The core server with its hardware: the run states of CoreServer drive   *)
(* the modules of Facade.  The server starts the modules on its way into   *)
(* RUN, unregisters them when it is reset, takes new ones from a project   *)
(* or from a client at any time, and shuts down with its process.          *)
(***************************************************************************)
EXTENDS CoreServer

CONSTANT Modules

VARIABLES registered, up, startupRequired, late,    \* see Facade
          closed        \* how AwlSimServer.shutdown has ended

Hw == INSTANCE Facade

hardware == <<registered, up, startupRequired, late>>

plc == <<vars, hardware, closed>>

PlcTypeOK == TypeOK /\ Hw!TypeOK /\ closed \in {"no", "done", "raised"}

PlcInit == Init /\ Hw!Init /\ closed = "no"

\* Mutant: a module that fails is logged, as it is in a cycle.
PlcStartupLogs ==
  /\ Startup
  /\ IF needOB10x
     THEN Hw!HardwareStartup \/ Hw!HardwareStartupFails
     ELSE UNCHANGED hardware

\* setRunState(RUN): the hardware is started before the CPU, and only if the
\* CPU has to be started.
PlcStartup ==
  /\ Startup
  /\ IF needOB10x
     THEN \/ Hw!HardwareStartup
          \/ Hw!HardwareStartupFails /\ StartupFails
     ELSE UNCHANGED hardware

\* AwlSim.reset: the CPU first, then its hardware.
PlcReset ==
  /\ ResetAll
  /\ \/ ResetDone /\ Hw!UnregisterAllHardware
     \/ ResetFails /\ Hw!UnregisterFails

\* The modules of a project, or the one of a message; those in front of one
\* that fails have been registered.  A disabled module is not registered.
PlcLoadHardware ==
  /\ LoadHardware
  /\ \E ms \in SeqOf(Modules, 2) : IsInjective(ms) /\ Hw!RegisterHardware(ms)

PlcThread ==
  /\ \/ PlcStartup
     \/ PlcReset
     \/ PlcLoadHardware
     \/ OtherSteps /\ UNCHANGED hardware
  /\ UNCHANGED closed

PlcSigTerm == SigTerm /\ UNCHANGED <<hardware, closed>>

\* Mutant: the process just ends.
ShutdownNothing ==
  /\ ended # "no" /\ closed = "no"
  /\ closed' = "done"
  /\ UNCHANGED <<vars, hardware>>

\* The finally clause of the server process and of the embedding program:
\* whatever has ended the thread, the facade is shut down, as far as it goes.
Shutdown ==
  /\ ended # "no" /\ closed = "no"
  /\ \/ closed' = "done" /\ Hw!UnregisterAllHardware
     \/ closed' = "raised" /\ Hw!UnregisterFails
  /\ UNCHANGED vars

PlcEnded == closed # "no" /\ UNCHANGED plc

PlcNext == PlcThread \/ PlcSigTerm \/ Shutdown \/ PlcEnded

\* Fairness of CoreServer, and of the process that ends.
PlcSpec ==
  /\ PlcInit /\ [][PlcNext]_plc
  /\ WF_plc(PlcThread) /\ SF_plc(Silence /\ UNCHANGED <<hardware, closed>>)
  /\ WF_plc(Shutdown)

(***************************************************************************)
(* Properties                                                              *)
(***************************************************************************)

\* A cycle reads and writes hardware that is up, through failed startups,
\* shutdowns that stopped half-way, resets and reloads.  The exception is a
\* module that was registered since (HWMOD in RUN, or in a STOP that goes on
\* without a startup): it is accessed without ever having been started.
CyclesUseStartedHardware ==
  todo # <<>> /\ Head(todo).do = "cycle" /\ state # "EXIT"
    => ToSet(registered) \ late \subseteq up

\* Hardware that is up is known to the facade, also after a module has failed
\* to shut down: the next reset, or the end of the process, still reaches it.
HardwareIsReachable == up \subseteq ToSet(registered)

\* However the thread ends, and whatever has failed before, all hardware goes
\* down with the process, unless a module raises at that moment.
HardwareGoesDown ==
  ended # "no" ~> closed = "raised" \/ (closed = "done" /\ up = {})
=============================================================================
