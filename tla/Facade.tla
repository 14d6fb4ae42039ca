------------------------------- MODULE Facade -------------------------------
(***************************************************************************)
(* The hardware modules of the AwlSim facade (awlsim/core/main.py) and the *)
(* life of one module (awlsim/core/hardware.py), as operations that the    *)
(* program around the facade calls.  An operation that goes through the    *)
(* list of modules is left in the middle of it when a module raises.       *)
(***************************************************************************)
EXTENDS Naturals, Sequences, SequencesExt

CONSTANT Modules        \* the instances of hardware modules there can be

VARIABLES registered,   \* __registeredHardware
          up,           \* the modules that are __running
          startupRequired,  \* __hwStartupRequired
          late          \* history: registered since the hardware was started

TypeOK ==
  /\ registered \in Seq(Modules) /\ IsInjective(registered)
  /\ up \subseteq Modules
  /\ startupRequired \in BOOLEAN
  /\ late \subseteq ToSet(registered)

Init == registered = <<>> /\ up = {} /\ startupRequired = TRUE /\ late = {}

\* The modules in front of and including the i-th.
UpTo(i) == {registered[j] : j \in 1..i}

\* registerHardware for the new instances ms.
RegisterHardware(ms) ==
  /\ ToSet(ms) \cap (ToSet(registered) \cup up) = {}
  /\ registered' = registered \o ms
  /\ startupRequired' = (startupRequired \/ ms # <<>>)
  /\ late' = late \cup ToSet(ms)
  /\ UNCHANGED up

\* hardwareStartup and the startup() behind it: a module that is running is
\* not started again.
HardwareStartup ==
  /\ up' = up \cup ToSet(registered)
  /\ startupRequired' = TRUE
  /\ late' = {}
  /\ UNCHANGED registered

\* The i-th module raises in hardwareStartup.
HardwareStartupFails ==
  /\ \E i \in DOMAIN registered :
       registered[i] \notin up /\ up' = up \cup UpTo(i - 1)
  /\ UNCHANGED <<registered, startupRequired, late>>

UnregisterAllHardware ==
  /\ up' = up \ ToSet(registered)
  /\ registered' = <<>>
  /\ late' = {}
  /\ UNCHANGED startupRequired

\* Mutant: the list is taken away before the modules are shut down.
UnregisterFirst ==
  /\ \E i \in DOMAIN registered : registered[i] \in up /\ up' = up \ UpTo(i)
  /\ registered' = <<>>
  /\ late' = {}
  /\ UNCHANGED startupRequired

\* The i-th module raises while it shuts down: it counts as down, the modules
\* behind it stay up, and all of them stay in the list.
UnregisterFails ==
  /\ \E i \in DOMAIN registered : registered[i] \in up /\ up' = up \ UpTo(i)
  /\ UNCHANGED <<registered, startupRequired, late>>
=============================================================================
