------------------------------ MODULE Program ------------------------------
(***************************************************************************)
(* What clients do to the program of the core server, one message at a     *)
(* time (awlsim/coreserver/server.py): sources and library blocks are      *)
(* loaded, sources and blocks removed, the CPU is built, started and       *)
(* reset.  With write-back, changes are written to the project file, from  *)
(* which a new server process loads the program.  A handler that raises an *)
(* AwlSimError stops the CPU and leaves everything it has done before;     *)
(* needStartup (__needOB10x) makes the next start build again.             *)
(***************************************************************************)
EXTENDS ProgramOps

CONSTANTS LibBlocks,    \* the blocks the libraries offer
          MaxPending,   \* bound on the raw blocks of a kind that pile up
          MaxLibs       \* bound on the library selections

ASSUME LibrariesAssumption == LibBlocks \subseteq Kinds[3] \cup Kinds[4]

VARIABLES prog,         \* the program and its source managers
          libsel,       \* loadedLibSelections
          file,         \* the project file: [sources, libs]
          needStartup,  \* the next start builds the program and runs OB 100
          loading,      \* what is still to be loaded of the project
          acked         \* history: the sources a client was told are loaded

programVars == <<prog, libsel, file, needStartup, loading, acked>>

Files == [sources : SUBSET Sources, libs : Seq(LibBlocks)]
EmptyFile == [sources |-> {}, libs |-> <<>>]
Loading == loading # EmptyFile

Raw == [block : Blocks, src : Sources, owned : BOOLEAN]
Entries == [kind : {"absent", "library", "user"}, src : Sources \cup {NoSource}, owned : BOOLEAN]
Programs == [pending : [1 .. 5 -> Seq(Raw)], libs : Seq(LibBlocks), table : [Blocks -> Entries],
             stale : SUBSET (Sources \X Blocks), managed : SUBSET Sources]

ProgramTypeOK ==
  /\ prog \in Programs
  /\ libsel \in Seq(LibBlocks)
  /\ file \in Files /\ loading \in Files
  /\ needStartup \in BOOLEAN
  /\ acked \in SUBSET Sources

ProgramInit ==
  /\ prog = EmptyProgram
  /\ libsel = <<>>
  /\ file = EmptyFile
  /\ needStartup = TRUE
  /\ loading = EmptyFile
  /\ acked = {}

\* A mutation: the file is written before the source is added.
UpdateBeforeAdding == file' = [sources |-> prog.managed, libs |-> libsel']

\* __updateProjectFile: what the containers hold now.
UpdateProjectFile == file' = [sources |-> prog'.managed, libs |-> libsel']

\* The main loop has caught an AwlSimError: the CPU is stopped.
Fault ==
  /\ needStartup' = TRUE
  /\ UNCHANGED <<libsel, file>>

\* The acknowledged sources whose last block or raw block the step does not
\* remove or replace.
Kept == {s \in acked : Owns(prog, s) => Owns(prog', s)}

\* A message is handled when no project is being loaded.
ByClient == ~Loading /\ UNCHANGED loading

\* loadAwlSource.  A download has managers and references of its own.
LoadAwlSource(s) ==
  /\ s \notin prog.managed /\ ~Owns(prog, s)
  /\ \A k \in 1 .. 5 : Len(prog.pending[k]) + Len(Defines[s][k]) <= MaxPending
  /\ ByClient
  /\ LET st == Load(prog, s, ~needStartup)
     IN IF st.raised
        THEN prog' = st.prog /\ acked' = Kept /\ Fault
        ELSE /\ prog' = Manage(st.prog, s)
             /\ acked' = Kept \cup {s}
             /\ UNCHANGED <<libsel, needStartup>>
             /\ UpdateProjectFile

\* loadLibraryBlock: the CPU is put into STOP, the block stays pending.
LoadLibraryBlock(b) ==
  /\ Len(libsel) < MaxLibs
  /\ prog' = SelectLibrary(prog, b)
  /\ libsel' = Append(libsel, b)
  /\ UpdateProjectFile
  /\ ByClient
  /\ UNCHANGED <<needStartup, acked>>

\* The message BUILD.
BuildRequest ==
  /\ prog' = Build(prog).prog /\ acked' = Kept
  /\ ByClient
  /\ IF Build(prog).raised THEN Fault ELSE UNCHANGED <<libsel, file, needStartup>>

\* setRunState(STATE_RUN): the startup builds the program and runs OB 100.
StartProgram ==
  /\ needStartup
  /\ prog' = Build(prog).prog /\ acked' = Kept
  /\ ~Loading /\ UNCHANGED loading
  /\ \/ Fault                      \* the build, the hardware or OB 100 fails
     \/ /\ ~Build(prog).raised
        /\ needStartup' = FALSE
        /\ UNCHANGED <<libsel, file>>

\* The program has run into an error, or a maintenance request.
CycleFails ==
  /\ ~needStartup
  /\ Fault
  /\ UNCHANGED <<prog, loading, acked>>

\* A mutation: no sanity checks after the removal of a source.
RemoveSourceUnchecked(s) ==
  /\ s \in prog.managed
  /\ prog' = Disown(RemoveBlocks(prog, BlocksOf(prog, s)), s)
  /\ acked' = Kept \ {s}
  /\ ByClient
  /\ UNCHANGED <<libsel, needStartup>>
  /\ UpdateProjectFile

\* removeSource.  A block that is not in the CPU any more ends it, after the
\* removal of any of the others.
RemoveSource(s) ==
  /\ s \in prog.managed
  /\ ByClient
  /\ LET blocks == BlocksOf(prog, s)
         gone == {b \in blocks : ~Present(prog, b)}
     IN IF gone # {}
        THEN /\ \E done \in SUBSET (blocks \ gone) : prog' = RemoveBlocks(prog, done)
             /\ acked' = Kept
             /\ Fault
        ELSE /\ prog' = Disown(RemoveBlocks(prog, blocks), s)
             /\ acked' = Kept \ {s}
             /\ UNCHANGED libsel
             /\ IF Runnable(prog')
                THEN UpdateProjectFile /\ UNCHANGED needStartup
                ELSE UNCHANGED file /\ needStartup' = TRUE

\* The message REMOVEBLK.
RemoveBlockRequest(b) ==
  /\ ByClient
  /\ UNCHANGED <<libsel, file>>
  /\ IF Present(prog, b)
     THEN /\ prog' = RemoveBlocks(prog, {b})
          /\ acked' = Kept
          /\ needStartup' = (needStartup \/ ~Runnable(prog'))
     ELSE UNCHANGED <<prog, acked>> /\ Fault

\* __resetAll.
Reset ==
  /\ prog' = EmptyProgram
  /\ libsel' = <<>>
  /\ needStartup' = TRUE
  /\ UpdateProjectFile

\* The message RESET.
ResetRequest == ByClient /\ Reset /\ acked' = {}

(***************************************************************************)
(* The server process is ended, or crashes, and started again              *)
(***************************************************************************)

\* A load that is broken off: the file has been reset (server.py:1623) and
\* holds no more than what was loaded, so the rest is lost.
BrokenOff == acked' = acked \ loading.sources

\* __doLoadProject reads the file and resets the server, which writes it.
Restart ==
  /\ Reset
  /\ loading' = file
  /\ BrokenOff

\* Every part that is loaded writes the file again.
LoadNextLibrary ==
  /\ loading.libs # <<>>
  /\ loading' = [loading EXCEPT !.libs = Tail(@)]
  /\ prog' = SelectLibrary(prog, Head(loading.libs))
  /\ libsel' = Append(libsel, Head(loading.libs))
  /\ UpdateProjectFile
  /\ UNCHANGED <<needStartup, acked>>

LoadNextSource ==
  /\ loading.libs = <<>>
  /\ \E s \in loading.sources :
       /\ loading' = [loading EXCEPT !.sources = @ \ {s}]
       /\ prog' = Manage(Load(prog, s, FALSE).prog, s)
  /\ UNCHANGED <<libsel, needStartup, acked>>
  /\ UpdateProjectFile

\* A part cannot be loaded: what has been loaded is kept.
LoadFails ==
  /\ Loading
  /\ loading' = EmptyFile
  /\ BrokenOff
  /\ Fault
  /\ UNCHANGED prog

ProgramNext ==
  \/ \E s \in Sources : LoadAwlSource(s) \/ RemoveSource(s)
  \/ \E b \in LibBlocks : LoadLibraryBlock(b)
  \/ \E b \in Blocks : RemoveBlockRequest(b)
  \/ BuildRequest \/ StartProgram \/ CycleFails \/ ResetRequest
  \/ LoadNextLibrary \/ LoadNextSource \/ LoadFails \/ Restart

ProgramSpec == ProgramInit /\ [][ProgramNext]_programVars

(***************************************************************************)
(* Properties                                                              *)
(***************************************************************************)

\* A CPU that goes on without a start has all blocks its program calls, even
\* after removals and failed downloads: nothing but a fault stops it.
StartedIsRunnable == ~needStartup => Runnable(prog)

\* It executes what the clients have downloaded: no raw block waits for a
\* build that no start will make.
StartedIsBuilt == ~needStartup => \A k \in 1 .. 5 : prog.pending[k] = <<>>

\* A source that a client was told is loaded is in the project file, or still
\* to be loaded from it, whatever has failed and however often the server was
\* started again since, until a client removes it or resets the CPU, or until
\* the last of its blocks is removed or replaced (by a download that failed,
\* too).  The exception is a load of the project that is itself broken off: it
\* loses what it has not yet loaded.
AcknowledgedIsSaved == acked \subseteq file.sources \cup loading.sources
=============================================================================
