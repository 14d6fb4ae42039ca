----------------------------- MODULE CallStack -----------------------------
(***************************************************************************)
(* Block calls of the CPU (awlsim/core/cpu.py, awlsim/core/callstack.py).  *)
(* A cycle runs the OB; the running block executes call instructions,      *)
(* opens and swaps data blocks, loads AR2 and ends.  A call transfers its  *)
(* parameter, saves the registers in a call stack element and enters a     *)
(* frame of the L-stack; the block end transfers the output parameter back *)
(* and restores the registers.  An AwlSimError abandons the cycle where it *)
(* stands.                                                                 *)
(*                                                                         *)
(* A call instruction s ("site") has the properties                        *)
(*   Site[s] = [owner, callee, kind, inst, base, width, opens, out]        *)
(* owner contains it and callee is called; kind is "FC", "FB", "MULTI_FB", *)
(* "RAW_FC" or "RAW_FB"; inst is the instance DB of an "FB" and base the   *)
(* offset of a "MULTI_FB" in the caller's instance.  It passes at most one *)
(* parameter: width > 0 is the number of bits an FC parameter takes in the *)
(* caller's L-stack, opens the DB that a fully qualified parameter opens   *)
(* (or NoDB), and out where the output goes: "DI", a static variable of    *)
(* the caller, "abs", a fixed address, or "none".                          *)
(***************************************************************************)
EXTENDS LStackOps

CONSTANTS OB,             \* the organization block
          FBs,            \* the function blocks
          Sites, Site,    \* the call instructions
          TempBytes,      \* tempAllocation of each block
          DBs,            \* numbers of the data blocks, with 0
          UserOps,        \* the register operations the program contains
          Bases,          \* values the program loads into AR2
          LocalBytes,     \* S7CPUSpecs.nrLocalbytes
          CallStackSize   \* S7CPUSpecs.callStackSize

NoDB == -1

Calls == {"FC", "FB", "MULTI_FB", "RAW_FC", "RAW_FB"}

ASSUME CallStackAssumption ==
  /\ 0 \in DBs /\ DBs \subseteq Nat
  /\ UserOps \subseteq {"AUF_DB", "AUF_DI", "TDB", "LAR2"}
  /\ Bases \subseteq Nat
  /\ LocalBytes \in Nat /\ CallStackSize \in Nat \ {0}
  /\ OB \in DOMAIN TempBytes /\ \A b \in DOMAIN TempBytes : TempBytes[b] \in Nat
  /\ TempBytes[OB] < LocalBytes       \* otherwise no cycle ever starts
  /\ \A s \in Sites : /\ Site[s].owner \in DOMAIN TempBytes /\ Site[s].callee \in DOMAIN TempBytes
                      /\ Site[s].kind \in Calls
                      /\ Site[s].kind \in {"FB", "MULTI_FB"} => Site[s].callee \in FBs
                      /\ Site[s].inst \in DBs /\ Site[s].base \in Nat
                      /\ Site[s].width \in Nat /\ Site[s].opens \in DBs \cup {NoDB}

VARIABLES
  running,   \* __runOB is executing
  ls,        \* the L-stack of the OB
  stack,     \* the call stack elements, callStackTop last
  depth,     \* callStackDepth
  reg,       \* dbRegister, diRegister and the base in AR2
  scratch,   \* scratchSpaceOp of the parameter of each site: its offset
  found,     \* history: what each active call found
  again,     \* history: the active calls whose instruction was executed again
  moved,     \* the output transferred by the last step: [from, to], or <<>>
  tidy       \* history: the cycle has left DI and AR2 to its CALLs so far

vars == <<running, ls, stack, depth, reg, scratch, found, again, moved, tidy>>

Registers == [db : DBs, di : DBs, ar2 : Nat]
InitialRegisters == [db |-> 0, di |-> 0, ar2 |-> 0]

Top == stack[Len(stack)]
Raw(kind) == kind \in {"RAW_FC", "RAW_FB"}

TypeOK ==
  /\ running \in BOOLEAN
  /\ ls \in LStackType
  /\ depth \in 0 .. CallStackSize
  /\ reg \in Registers
  /\ scratch \in [Sites -> Nat]
  /\ \A i \in 1 .. Len(stack) :
       /\ stack[i].block \in DOMAIN TempBytes
       /\ stack[i].kind \in Calls \cup {"OB"}
       /\ stack[i].inst \in DBs /\ stack[i].prev \in Registers

----------------------------------------------------------------------------
(* make_CallStackElem                                                      *)

\* The registers while the parameter is transferred: a fully qualified DB
\* operand has opened its data block.
Opened(s) == IF Site[s].opens = NoDB THEN reg ELSE [reg EXCEPT !.db = Site[s].opens]

\* The parameter of an FC call is copied to the caller's L-stack (VL).
Copies(s) == Site[s].kind = "FC" /\ Site[s].width > 0
CopyFits(s) == Copies(s) => AllocFits(ls, Site[s].width)
Copied(s) == IF Copies(s) THEN Alloc(ls, Site[s].width) ELSE ls

\* The offset of the copy is remembered in the parameter itself.
Scratched(s) ==
  IF Copies(s) /\ Site[s].out # "none"
  THEN [scratch EXCEPT ![s] = AllocOffset(ls, Site[s].width)]
  ELSE scratch

\* The frame of the called block and its TEMP data.
TempFits(l, b) == TempBytes[b] > 0 => AllocFits(l, 8 * TempBytes[b])
WithTemp(l, b) == IF TempBytes[b] > 0 THEN Alloc(l, 8 * TempBytes[b]) ELSE l

\* Mutant: the registers are saved when the parameters have been transferred.
ElementAfterTransfer(s) ==
  [block |-> Site[s].callee, kind |-> Site[s].kind, site |-> s,
   inst  |-> CASE Site[s].kind = "FB" -> Site[s].inst
               [] Site[s].kind \in {"MULTI_FB", "RAW_FB"} -> reg.di
               [] OTHER -> 0,
   ref   |-> IF Copies(s) THEN AllocOffset(ls, Site[s].width) ELSE 0,
   prev  |-> Opened(s)]

\* The call stack element; inst is instanceDB, ref the offset in _interfRefs.
Element(s) ==
  [block |-> Site[s].callee, kind |-> Site[s].kind, site |-> s,
   inst  |-> CASE Site[s].kind = "FB" -> Site[s].inst
               [] Site[s].kind \in {"MULTI_FB", "RAW_FB"} -> reg.di
               [] OTHER -> 0,
   ref   |-> IF Copies(s) THEN AllocOffset(ls, Site[s].width) ELSE 0,
   prev  |-> reg]

\* The registers the called block starts with.
CalleeRegisters(s) ==
  CASE Site[s].kind = "FB" -> [db |-> reg.di, di |-> Site[s].inst, ar2 |-> 0]
    [] Site[s].kind = "MULTI_FB" ->
         [db |-> reg.di, di |-> reg.di, ar2 |-> reg.ar2 + Site[s].base]
    [] OTHER -> Opened(s)

----------------------------------------------------------------------------
(* handleBlockExit                                                         *)

\* A static variable of the block b, as the registers r address it.
StaticOf(b, r) == [db |-> r.di, base |-> IF b \in FBs THEN r.ar2 ELSE 0]

\* Where an output goes if it is stored with the registers r.
Destination(s, r) ==
  IF Site[s].out = "DI" THEN StaticOf(Site[s].owner, r) ELSE [db |-> NoDB, base |-> 0]

\* Mutant: an FC output is read before the frame of the callee is left.
TransferFromCallee(cse) ==
  IF cse.kind = "FC" THEN [lstack |-> ls.topFrameOffset + scratch[cse.site]]
                     ELSE [db |-> reg.di, base |-> reg.ar2]

\* An FC output is read from the copy, after the frame has been left, an FB
\* output from the data block in DI at the base in AR2.
TransferFrom(cse) ==
  IF cse.kind = "FC"
  THEN [lstack |-> ExitStackFrame(ls).topFrameOffset + scratch[cse.site]]
  ELSE [db |-> reg.di, base |-> reg.ar2]

\* AR2 has been restored when the output is stored, DB and DI have not.
TransferTo(cse) ==
  Destination(cse.site, [reg EXCEPT !.ar2 = cse.prev.ar2])

HasOutput(cse) ==
  CASE cse.kind = "FC" -> Copies(cse.site) /\ Site[cse.site].out # "none"
    [] cse.kind \in {"FB", "MULTI_FB"} -> Site[cse.site].out # "none"
    [] OTHER -> FALSE

\* Mutant: the return from an FB leaves its base in AR2.
ReturnKeepsBase(cse) ==
  CASE cse.kind = "FC" -> cse.prev
    [] cse.kind \in {"FB", "MULTI_FB"} ->
         [db |-> cse.inst, di |-> cse.prev.di, ar2 |-> reg.ar2]
    [] OTHER -> reg

\* A raw call (UC, CC) and the OB restore nothing.
Returned(cse) ==
  CASE cse.kind = "FC" -> cse.prev
    [] cse.kind \in {"FB", "MULTI_FB"} ->
         [db |-> cse.inst, di |-> cse.prev.di, ar2 |-> cse.prev.ar2]
    [] OTHER -> reg

----------------------------------------------------------------------------
Init ==
  /\ running = FALSE
  /\ ls = EmptyLStack(LocalBytes)
  /\ stack = <<>> /\ depth = 0
  /\ reg = InitialRegisters
  /\ scratch = [s \in Sites |-> 0]
  /\ found = <<>> /\ again = {} /\ moved = <<>> /\ tidy = TRUE

\* Mutant: the cycle starts on top of what an abandoned one has left.
FrameOfOBOnTop == EnterStackFrame(ls)

\* The L-stack of a new cycle.
FrameOfOB == EnterStackFrame(Reset(ls))

OBElement == [block |-> OB, kind |-> "OB", site |-> OB, inst |-> 0, ref |-> 0,
              prev |-> InitialRegisters]

\* __runOB: registers, L-stack and call stack start afresh.
RunOB ==
  /\ ~running
  /\ reg' = InitialRegisters
  /\ running' = TRUE
  /\ ls' = WithTemp(FrameOfOB, OB)
  /\ stack' = <<OBElement>>
  /\ found' = <<[reg |-> InitialRegisters, slot |-> 0, from |-> <<>>, to |-> <<>>,
                 entered |-> 0]>>
  /\ again' = {}
  /\ depth' = 1
  /\ moved' = <<>> /\ tidy' = TRUE
  /\ UNCHANGED scratch

\* Mutant: the call that fills the call stack is still allowed.
DepthExceeds == depth > CallStackSize

DepthExceeded == depth >= CallStackSize

\* The running block contains the call.
At(s) == running /\ Site[s].owner = Top.block

\* Where the parameter copy of a call is written, where its output is and
\* belongs, seen from the registers and the L-stack before the call, and where
\* the L-stack ended when the frame of the callee was entered.
Found(s) ==
  LET slot == ls.topFrameOffset + Element(s).ref
  IN  [reg |-> reg, slot |-> slot,
       from |-> IF Site[s].kind = "FC" THEN [lstack |-> slot]
                ELSE [db |-> CalleeRegisters(s).di, base |-> CalleeRegisters(s).ar2],
       to   |-> Destination(s, reg),
       entered |-> Copied(s).globAllocBits]

Call(s) ==
  /\ At(s)
  /\ ~DepthExceeded
  /\ CopyFits(s)
  /\ LET entered == EnterStackFrame(Copied(s))
     IN  /\ TempFits(entered, Site[s].callee)
         /\ ls' = WithTemp(entered, Site[s].callee)
  /\ stack' = Append(stack, Element(s))
  /\ depth' = depth + 1
  /\ reg' = CalleeRegisters(s)
  /\ scratch' = Scratched(s)
  /\ found' = Append(found, Found(s))
  /\ again' = {i \in 1 .. Len(stack) : i \in again \/ stack[i].site = s}
  /\ moved' = <<>>
  /\ UNCHANGED <<running, tidy>>

\* A call fails on the depth check, on the copy or on the TEMP data.
CallFails(s) ==
  /\ At(s)
  /\ running' = FALSE
  /\ \/ /\ DepthExceeded
        /\ UNCHANGED <<ls, reg, scratch>>
     \/ /\ ~DepthExceeded /\ ~CopyFits(s)
        /\ reg' = Opened(s)
        /\ UNCHANGED <<ls, scratch>>
     \/ /\ ~DepthExceeded /\ CopyFits(s)
        /\ ~TempFits(EnterStackFrame(Copied(s)), Site[s].callee)
        /\ ls' = EnterStackFrame(Copied(s))
        /\ reg' = Opened(s)
        /\ scratch' = Scratched(s)
  /\ moved' = <<>>
  /\ UNCHANGED <<stack, depth, found, again, tidy>>

\* AUF DB and AUF DI, TDB, and a load of AR2 by the program.
UserOp ==
  /\ running
  /\ \/ "AUF_DB" \in UserOps /\ \E n \in DBs : reg' = [reg EXCEPT !.db = n]
     \/ "AUF_DI" \in UserOps /\ \E n \in DBs : reg' = [reg EXCEPT !.di = n]
     \/ "TDB" \in UserOps /\ reg' = [reg EXCEPT !.db = reg.di, !.di = reg.db]
     \/ "LAR2" \in UserOps /\ \E n \in Bases : reg' = [reg EXCEPT !.ar2 = n]
  /\ tidy' = (tidy /\ UNCHANGED <<reg.di, reg.ar2>>)
  /\ moved' = <<>>
  /\ UNCHANGED <<running, ls, stack, depth, scratch, found, again>>

\* Any AwlSimError of the program, or the cycle time is exceeded.
Abandon ==
  /\ running
  /\ running' = FALSE
  /\ moved' = <<>>
  /\ UNCHANGED <<ls, stack, depth, reg, scratch, found, again, tidy>>

\* The running block ends; the end of the OB ends the cycle.
BlockEnd ==
  /\ running
  /\ ls' = ExitStackFrame(ls)
  /\ stack' = SubSeq(stack, 1, Len(stack) - 1)
  /\ found' = SubSeq(found, 1, Len(found) - 1)
  /\ again' = again \ {Len(stack)}
  /\ depth' = depth - 1
  /\ running' = (Len(stack) > 1)
  /\ reg' = Returned(Top)
  /\ moved' = IF HasOutput(Top)
              THEN [from |-> TransferFrom(Top), to |-> TransferTo(Top)]
              ELSE <<>>
  /\ UNCHANGED <<scratch, tidy>>

Next ==
  \/ RunOB
  \/ \E s \in Sites : Call(s) \/ CallFails(s)
  \/ UserOp
  \/ Abandon
  \/ BlockEnd

Spec == Init /\ [][Next]_vars

----------------------------------------------------------------------------
(* Correctness.                                                            *)

\* The call stack, its depth and the frames of the L-stack agree at every
\* instruction, whatever an earlier cycle was abandoned with.
StackAgrees ==
  running => /\ depth = Len(stack)
             /\ Len(ls.frames) = Len(stack)
             /\ depth > 0

\* The frame of call i was entered at a byte boundary.  If not, because its own
\* parameter was a single bit, the base of the block is a few bits too low after
\* any return into it (lstack.py:129).
OnByte(i) == found[i].entered % 8 = 0

\* The copy of a parameter is where the called FC looks for it, and lies below
\* everything the called block allocates, also after other calls have returned,
\* unless the frame of the caller was entered in the middle of a byte.
ParamsReachable ==
  running =>
    \A i \in 2 .. Len(stack) :
      LET s == stack[i].site
      IN  Copies(s) /\ OnByte(i - 1) =>
            /\ 8 * ls.frames[i - 1].byteOffset + stack[i].ref = found[i].slot
            /\ found[i].slot + Site[s].width <= 8 * ls.frames[i].byteOffset

\* A CALL returns DI and AR2 as it found them, and DB too if it was an FC; an
\* FB leaves its instance in DB.  (Calls by UC and CC return what they like.)
ReturnRestores ==
  [][BlockEnd /\ Top.kind \in {"FC", "FB", "MULTI_FB"} =>
       LET before == found[Len(found)].reg
       IN  /\ reg'.di = before.di /\ reg'.ar2 = before.ar2
           /\ reg'.db = IF Top.kind = "FC" THEN before.db ELSE Top.inst]_vars

\* While a cycle leaves DI and AR2 to its CALL instructions, an FB sees its own
\* instance at its own base whenever it runs.
InstanceView ==
  running /\ tidy /\ Top.kind \in {"FB", "MULTI_FB"} =>
    StaticOf(Top.block, reg) = found[Len(found)].from

\* The output of a call comes from where this very call has put it.  An FC's is
\* in its copy; but callstack.py:135 remembers the offset in an object that all
\* activations of the instruction share, so one that was executed again since is
\* excepted, and so is a caller whose base is not its own any more (OnByte).
FromThisCall ==
  LET n == Len(found)
      sure == IF Top.kind = "FC" THEN n \notin again /\ OnByte(n - 1) ELSE tidy
  IN  sure => moved'.from = found[n].from

\* It goes to what the RVALUE of LVALUE := RVALUE was when the call was made
\* (parameters.py:47), in every cycle that leaves DI and AR2 to its CALLs.  The
\* exception is an output of CALL FB, DB to a static variable of the caller:
\* DI is still the instance of the callee when it is stored (callstack.py:419),
\* so it lands there.
ToTheCaller ==
  tidy /\ ~(Top.kind = "FB" /\ Site[Top.site].out = "DI") => moved'.to = found[Len(found)].to

CopyBackToCaller == [][BlockEnd /\ moved' # <<>> => FromThisCall /\ ToTheCaller]_vars
=============================================================================
