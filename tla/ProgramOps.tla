----------------------------- MODULE ProgramOps -----------------------------
(***************************************************************************)
(* The user program in the CPU and the managers of the sources it was      *)
(* made from (S7Prog in awlsim/core/cpu.py, SourceManager and ObjRef in    *)
(* awlsim/common).  A loaded source leaves raw blocks pending; a build     *)
(* translates them into blocks of the CPU.  Every raw block and block      *)
(* refers to the manager of its source ("owned") until the reference is    *)
(* destroyed, and a manager that has lost all references leaves its        *)
(* container.                                                              *)
(*                                                                         *)
(* A program is a record                                                   *)
(*   [pending, libs, table, stale, managed]                                *)
(* pending[k] is the list of raw blocks [block, src, owned] of kind k; libs *)
(* the pending library selections; table[b] the block b of the CPU; stale  *)
(* the references <<s, b>> of blocks that a library block has displaced;   *)
(* and managed the source container.  A member of Sources is one download: *)
(* a changed source is another member that defines the same blocks.        *)
(*                                                                         *)
(* A loop over a list that raises at an element has handled the ones before *)
(* it: it is written as the set of the elements that are handled.  A        *)
(* manager that loses references in a loop leaves its container if none    *)
(* is left at its end, since no loop gives a manager new ones.             *)
(***************************************************************************)
EXTENDS Naturals, Sequences, SequencesExt

CONSTANTS Sources,      \* the sources clients download
          NoSource,       \* the source of the preset OB 1
          Blocks, OB1,  \* the blocks, and the one that runs the cycle
          Kinds,        \* <<UDTs, OBs, FBs, FCs, DBs>>, in the order of build
          Defines,      \* Defines[s][k]: the blocks of kind k that s defines
          Calls,        \* the blocks a source calls
          Faulty        \* the pairs <<s, b>> that cannot be translated

ASSUME ProgramAssumption ==
  /\ NoSource \notin Sources /\ OB1 \in Kinds[2]
  /\ Len(Kinds) = 5 /\ UNION {Kinds[k] : k \in 1 .. 5} = Blocks
  /\ \A s \in Sources, k \in 1 .. 5 : Defines[s][k] \in Seq(Kinds[k])
  /\ \A s \in Sources : Calls[s] \subseteq Blocks

Absent == [kind |-> "absent", src |-> NoSource, owned |-> FALSE]
Library == [kind |-> "library", src |-> NoSource, owned |-> FALSE]
User(s, owned) == [kind |-> "user", src |-> s, owned |-> owned]

Raws(s, k) == [i \in DOMAIN Defines[s][k] |->
                 [block |-> Defines[s][k][i], src |-> s, owned |-> TRUE]]

\* S7CPU.reset and the clear() of the source containers.
EmptyProgram ==
  [pending |-> [k \in 1 .. 5 |-> <<>>], libs |-> <<>>, stale |-> {}, managed |-> {},
   table |-> [b \in Blocks |-> IF b = OB1 THEN User(NoSource, FALSE) ELSE Absent]]

Owns(p, s) ==
  \/ \E k \in 1 .. 5 : \E r \in Range(p.pending[k]) : r.src = s /\ r.owned
  \/ \E b \in Blocks : p.table[b].src = s /\ p.table[b].owned
  \/ \E b \in Blocks : <<s, b>> \in p.stale

\* ObjRef.destroy on the references of the entries that p has lost: with its
\* last reference a manager leaves the container.
Unref(p, lost) ==
  [p EXCEPT !.managed = {s \in @ : (\E e \in lost : e.owned /\ e.src = s) => Owns(p, s)}]

Present(p, b) == p.table[b].kind # "absent"

\* The static checks: OB 1 exists, and so does every block that is called.
Runnable(p) ==
  /\ Present(p, OB1)
  /\ \A b \in Blocks \ Kinds[1] :
       p.table[b].kind = "user" /\ p.table[b].src # NoSource
         => \A c \in Calls[p.table[b].src] : Present(p, c)

(***************************************************************************)
(* Build                                                                   *)
(***************************************************************************)

\* A step of a build: the program, and whether an AwlSimError was raised.
Ok(p) == [prog |-> p, raised |-> FALSE]
Raise(p) == [prog |-> p, raised |-> TRUE]

\* __loadLibraries: up to the first selection that finds a library block.
\* The blocks that are displaced keep their references.
LoadLibraries(p) ==
  LET clashes == {i \in DOMAIN p.libs : \/ p.table[p.libs[i]].kind = "library"
                                       \/ \E j \in 1 .. i - 1 : p.libs[j] = p.libs[i]}
      loaded == {p.libs[i] : i \in {i \in DOMAIN p.libs : \A j \in clashes : i < j}}
      displaced == {b \in loaded : p.table[b].owned}
      q == [p EXCEPT !.table = [b \in Blocks |-> IF b \in loaded THEN Library ELSE @[b]],
                     !.stale = @ \cup {<<p.table[b].src, b>> : b \in displaced}]
  IN IF clashes = {} THEN Ok([q EXCEPT !.libs = <<>>]) ELSE Raise(q)

\* r without the reference that its block has inherited.
Inherited(r) == [r EXCEPT !.owned = FALSE]

\* The raw blocks with the indices is are translated: a block inherits the
\* reference, and the block it replaces loses its own.
Install(p, k, is) ==
  LET raws == p.pending[k]
      new == {raws[i].block : i \in is}
      raw(b) == raws[CHOOSE i \in is : raws[i].block = b]
  IN Unref([p EXCEPT
              !.pending[k] = [i \in DOMAIN raws |-> IF i \in is THEN Inherited(raws[i])
                                                     ELSE raws[i]],
              !.table = [b \in Blocks |-> IF b \in new THEN User(raw(b).src, raw(b).owned)
                                         ELSE @[b]]],
           {p.table[b] : b \in new})

Rejected(p, k, i) ==
  LET r == p.pending[k][i]
  IN \/ \E j \in 1 .. i - 1 : p.pending[k][j].block = r.block
     \/ p.table[r.block].kind = "library"
     \/ <<r.src, r.block>> \in Faulty

\* The loop over the pending raw blocks of kind k; the list is cleared when
\* all of them have been translated.
TranslateKind(p, k) ==
  LET rejected == {i \in DOMAIN p.pending[k] : Rejected(p, k, i)}
      q == Install(p, k, {i \in DOMAIN p.pending[k] : \A j \in rejected : i < j})
  IN IF rejected = {} THEN Ok([q EXCEPT !.pending[k] = <<>>]) ELSE Raise(q)

AndTranslate(st, k) == IF st.raised THEN st ELSE TranslateKind(st.prog, k)

\* S7Prog.build: nothing is undone when it fails.
Build(p) ==
  LET udts == AndTranslate(LoadLibraries(p), 1)
      obs == AndTranslate(udts, 2)
      fbs == AndTranslate(obs, 3)
      fcs == AndTranslate(fbs, 4)
      dbs == AndTranslate(fcs, 5)
  IN IF dbs.raised \/ ~Runnable(dbs.prog) THEN Raise(dbs.prog) ELSE dbs

(***************************************************************************)
(* Loading and removing                                                    *)
(***************************************************************************)

Loaded(p, s) == [p EXCEPT !.pending = [k \in 1 .. 5 |-> @[k] \o Raws(s, k)]]

\* A mutation: a source is never built when it is loaded.
LoadOnly(p, s, rebuild) == Ok(Loaded(p, s))

\* S7CPU.load, with the build that follows where a rebuild is needed.
Load(p, s, rebuild) == IF rebuild THEN Build(Loaded(p, s)) ELSE Ok(Loaded(p, s))

Manage(p, s) == [p EXCEPT !.managed = @ \cup {s}]

SelectLibrary(p, b) == [p EXCEPT !.libs = Append(@, b)]

\* S7Prog.removeBlock without its sanity checks, for blocks of the CPU.
RemoveBlocks(p, bs) ==
  Unref([p EXCEPT !.table = [b \in Blocks |-> IF b \in bs THEN Absent ELSE @[b]]],
        {p.table[b] : b \in bs})

\* getCodeBlocks and getDataBlocks: the numbers of all blocks of s but UDTs.
BlocksOf(p, s) ==
  {b \in Blocks \ Kinds[1] : \/ p.table[b].src = s /\ p.table[b].owned
                             \/ <<s, b>> \in p.stale}

\* A mutation: the raw blocks forget their source.
DisownForgets(p, s) ==
  [p EXCEPT !.pending = [k \in 1 .. 5 |-> [i \in DOMAIN @[k] |->
              IF @[k][i].src = s THEN [@[k][i] EXCEPT !.src = NoSource, !.owned = FALSE]
                                 ELSE @[k][i]]],
            !.managed = @ \ {s}]

\* x and its reference to the manager of s, which is destroyed.
Released(x, s) == [x EXCEPT !.owned = @ /\ x.src # s]

\* The references that are left are destroyed; the raw blocks and the UDTs
\* they belong to stay.
Disown(p, s) ==
  [p EXCEPT !.pending = [k \in 1 .. 5 |->
                           [i \in DOMAIN p.pending[k] |-> Released(p.pending[k][i], s)]],
            !.table = [b \in Blocks |-> Released(p.table[b], s)],
            !.stale = {r \in @ : r[1] # s},
            !.managed = @ \ {s}]
=============================================================================
