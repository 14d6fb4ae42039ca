# A TLA+ verification of the Awlsim core

Awlsim is a soft-PLC: it translates AWL/STL programs for S7 controllers and runs
them cyclically, in process or in a core server that clients control over a
socket. This directory holds TLA+ models of its core, the TLC runs that check
them on small instances, and TLAPS proofs of what holds for all of them. Paths
without a directory are files of `src/awlsim/core` (`server.py`, `messages.py`:
`coreserver`, `client.py`: `coreclient`).

## 1. The system

| part | code | state | operations | talks to |
|---|---|---|---|---|
| L-stack | `lstack.py` | allocated bits, frames, base of the top frame | reset, enter, exit, alloc, resize | call stack |
| Block calls | `callstack.py`, `cpu.py` | call stack elements, DB, DI, AR2, parameter copies | five kinds of call, block end, open and swap DBs | L-stack, status word |
| Bit logic | `statusword.py`, `parenstack.py`, `instructions/` | NER, VKE, OR, parentheses of each block, MCR zones | gates, parentheses, edges, outputs, jumps, MCR | block calls |
| Time | `cpu.py`, `timers.py` | cached timestamp, clock memory, timers | update, startup, timer instructions | the cycle |
| IEC timers, counters | `systemblocks/` (SFB 0 to 5) | an instance data block | call | `TIME` of the CPU |
| Program | `cpu.py` (S7Prog), `common/sources.py`, `common/refmanager.py`, `server.py` | raw and translated blocks, source managers, project file | load, build, remove, reset, restart | core server, project file |
| Run states | `server.py` | `__state`, `__running`, `__needOB10x`, pending project | startup, run, messages, cycle, SIGTERM | CPU, clients |
| Messages | `server.py`, `messages.py`, `client.py` | connections, subscriptions, sequence numbers, open calls | synchronous and asynchronous requests, dumps, exceptions | run states |
| Transceiver | `messages.py` | a partial message in each direction | send, receive | sockets |
| Counters | `counters.py`, `instructions/` | value, VKE last seen by each instruction | ZV, ZR, S, R, FR, read | - |
| Arithmetic | `instructions/` | accumulators; A1, A0, OV, OS | integer operations, comparisons, shifts, moves, jumps | - |
| Facade, hardware | `main.py`, `hardware.py` | module list, which of them run, process image | register, startup, cycle, shutdown | run states, CPU, back ends |
| Operands, memory | `memory.py`, `operators.py` | memory areas | fetch, store | every instruction |
| FUP compiler | `fupcompiler` | elements compiled so far, TEMP variables | compile a grid | optimizer, program |
| AWL optimizer | `awloptimizer` | a list of instructions | passes | FUP compiler, program |
| AWL translator | `awlcompiler` | - | parsing, translation | program |
| GUI, back ends, tunnels | `gui`, `awlsimhw_*`, `sshtunnel.py` | - | input and output | client, facade |

What is hard, and what makes each part correct:

- *L-stack.* Bit and byte alignment mix, and an error leaves frames behind.
  Correct: the local data of active blocks never overlap, a return gives back
  exactly what the callee took, a new cycle starts with nothing allocated.
- *Block calls.* What a call saves is used many steps later; parameter objects
  are shared by all activations of a call. Correct: a return restores the
  registers, an FB sees its instance, parameters and outputs go where the call
  says.
- *Bit logic.* NER and OR mean different things at different places of a
  network, and parentheses save them. Correct: VKE is the value of the
  expression that the instructions spell out.
- *Time.* Time is read now and then, a timer notices its deadline only when it
  is used. Correct: a timer is the one that acts at its deadline and is looked
  at from time to time (an SE or SS that nobody has looked at starts again from
  the output that was seen last), and the clock memory keeps its phases over
  wrap-arounds and late updates.
- *IEC timers.* A `TIME` wraps around; input and preset time may change in any
  order, and the block sees them only when it is called. Correct: Q and ET are
  those of the standard's timer, in a time that does not wrap around.
- *Counters.* Four instructions remember a VKE each, FR makes three of them forget
  it, and an S can stop the CPU halfway. Correct: each pulse is counted once, up
  to the limits, also over a stop and at the ends of an INT.
- *Arithmetic.* Results may not fit or not be defined, and the program sees that only
  several instructions later. Correct: the accumulators have the exact results, the
  jumps tell their signs, OS tells whether all of them did fit.
- *Program.* Building can fail in the middle, blocks change their owner, a
  server process may end at any time. Correct: a CPU that goes on without a
  start has a program that is built and complete; a source that was acknowledged
  stays in the project file over failures and restarts, unless a project that is
  loaded breaks off in the middle (section 6).
- *Run states.* `setRunState` calls itself, is left by exceptions, and is
  interrupted by SIGTERM between any two bytecodes. Correct: no cycle without
  startup, EXIT is final and ends the server.
- *Hardware.* Each step over the list of modules may be left in the middle.
  Correct: a cycle uses hardware that has been started, the facade never loses
  a module that runs, and the hardware goes down with the process.
- *Messages.* Late answers, unasked messages, clients that vanish while others
  are served. Correct: a call returns its own answer, subscriptions die with
  their clients, every connection gets its turn.

- *Transceiver.* Either end of a stream cuts messages anywhere, and a reception is
  left for want of bytes and taken up later. Correct: what is handled is what was
  sent, in order and once.
- *FUP.* An element is compiled from whichever place needs it first; others read
  its value from a TEMP variable. The optimizer moves labels. Correct: the code
  computes what the diagram means, whatever is drawn, and can be loaded.

PROJECT.json lists every hazard at its line, with the property that would see it.

## 2. The modules

| module | what it is | check | proof |
|---|---|---|---|
| `LStackOps` | the allocator's operations as operators on its value | | `LStackOpsProofs` |
| `LStack` | the allocator in the order the CPU uses it | `MCLStack` | `LStackProofs` |
| `LocalAreas` | abstract: a stack of disjoint areas | refined by `LStack` | refined by `LStack` |
| `CallStack` | calls, registers, parameters; on `LStackOps` | `MCCallStack` | `CallStackProofs` |
| `StatusWord` | NER, VKE and OR under each kind of instruction | | |
| `Network` | abstract: the Boolean expression of a network | | |
| `BitLogic` | parentheses, blocks, MCR on `StatusWord`; against `Network` | `BitLogic` | `LogicProofs` |
| `TimerOps`, `CpuTime` | timers; the timestamp, clock memory and a timer | `MCSmallPrograms` | `InstructionProofs` |
| `IdealTimer` | abstract: a timer that acts at its deadline, seen by looking | refined by `CpuTime` | refined by `CpuTime` |
| `IecTimer` | the function blocks TP, TON and TOF | `MCSmallPrograms` | `InstructionProofs` |
| `IecReference` | abstract: what they show, as a function of all calls | | |
| `Counting` | counters Z and the function blocks CTU, CTD and CTUD | `MCSmallPrograms` | `InstructionProofs` |
| `CountReference` | abstract: what they count, as a function of all that was done | | |
| `Accumulators` | integer calculations in the accumulators; A1, A0, OV and OS | `MCSmallPrograms` | `InstructionProofs` |
| `Calculation` | abstract: what is calculated, on integers and bit by bit | | |
| `SmallPrograms` | a program with a timer block, a counter, a calculation or an S7 timer | `MCSmallPrograms` | `InstructionProofs` |
| `ProgramOps`, `Program` | S7Prog; the server's handlers, the project file | `MCProgram` | `PlcProofs` |
| `CoreServer` | run states of the server, signals, exceptions | `CoreServerIsFinal` | `PlcProofs` |
| `Facade` | the list of hardware modules | | `PlcProofs` |
| `Plc` | `CoreServer` composed with `Facade` | `Plc` | `PlcProofs` |
| `ClientServer` | clients, connections, the server's passes | `MCClientServer` | `MessageProofs` |
| `Transceiver` | one direction of a connection, byte by byte | `MCTransceiver` | `MessageProofs` |
| `MessageStream` | abstract: messages in order, each once | refined by `Transceiver` | refined by `Transceiver` |
| `FupDiagram` | abstract: a diagram and what it means | | |
| `FupCompiler`, `AwlOptimizer` | a grid's code; the passes over it | | |
| `AwlRun` | the CPU on that code; on `StatusWord` | | |
| `Fup` | a grid from the drawing to optimized code | `MCFup` | `LogicProofs`, `FupProofs` |

### LStack
`ls` is the `LStackAllocator` (`globAllocBits`, `maxAllocBits`, `topFrameOffset`,
`frames` of `byteOffset` and `allocBits`). `RunOB` is the reset and first frame of
`__runOB`, `Call` an allocation of parameter copies and the frame of the callee,
`BlockExit`, `Reallocate` (`resize`) and `Abandon`, an error that leaves the
frames in place, follow the code. Two history variables: `saved` is what each call
found, `returned` whether a block that the running one has called has returned.
`topFrameOffset` is a bit address, and what the operands are added to; an access of
bytes drops its bit offset (`ByteReach`). `LocalAreas` has a base of its own, next to
the areas, and the refinement maps `topFrameOffset` to it.

### CallStack
A call instruction is a *site* with owner, callee, kind (`CALL FC`, `CALL FB,DB`,
multi-instance, and the raw `UC`/`CC` of both), instance, parameter and output.
`Call` does what `make_CallStackElem` does in its order: transfer, registers,
frame, TEMP data; each failure in between is an outcome of `CallFails`.
`BlockEnd` is `handleBlockExit`. `UserOp` is an `AUF`, `TDB` or `LAR2` of the
program. `found` remembers the registers and the addresses at the call; `tidy`
says that the cycle has changed DI and AR2 by CALL only, which `InstanceView` and
the copy properties are about. `again` has the active calls whose instruction was
executed again since, and `entered` in `found` where the L-stack ended when the frame
of the call was entered. One parameter per call; values are addresses, not
contents.

### BitLogic
`sw` has the bits NER, VKE and OR, `stack` the parenthesis stacks of the active
blocks; an action is an instruction, or one for all instructions of one effect
(comparisons, jumps, instructions that only use VKE). `expr` is the network in
front of the next instruction as a `Network` expression, never read by the code's
side of the model: gates append factors, `O` begins a product, a parenthesis puts
the expression aside and `)` joins its value to it. `RunOB` may happen at any
instruction: it stands for the cycle after one that was abandoned there. The MCR
survives it, as in the code. STA is not read by anything modelled; jumps by BIE
may go either way.

### CpuTime
`now` is the cached timestamp in units of 50 ms. `UpdateTimestamp` moves it by any
of `TimeSteps` and toggles the clock memory at most once, `Restart` is `startup`,
`Drive`, `Enable`, `ResetTimer` and `Read` are SI/SV/SE/SS/SA, FR, R and any read
of one timer, at any moment and in any order. `IdealTimer` has the status an
instruction found or set last (`shown`) besides the output: an SE or SS that is
started again begins with that one.

### Program
A block's table entry says whether it is a user's or a library's and which sources
own it (`refmanager.py`). `Build` is `S7Prog.build` with its phases, its loss of
duplicates and what each failure leaves. `LoadAwlSource`, `LoadLibraryBlock`,
`BuildRequest`, `RemoveSource`, `RemoveBlockRequest`, `ResetRequest`, `StartProgram` and
`CycleFails` are the server's handlers, each with the update of the project file
it makes and the fault that ends it. `Restart` is a new server process, which
loads the file part by part (`LoadNextLibrary`, `LoadNextSource`, `LoadFails`).
`pending` has the five lists of raw blocks, one per kind. A loop over such a list that
raises at an element has handled the ones in front of it: `LoadLibraries`,
`TranslateKind` and `RemoveBlocks` say so as sets, without a fold. `needStartup` is
`__needOB10x`, which is a variable of `CoreServer` under its own name. `acked`, a history
variable that outlives the process, has the sources that a client was told are loaded
and that no message has taken away since: removed, reset, or left without a block
(`Kept`).

### CoreServer
`todo` is what the thread has entered and not finished, so a call of `setRunState`
within itself, a `try`/`except` and a signal handler are steps put in front, and an
exception drops the steps up to the clause that takes it. `SigTerm` can happen
between any two. With `todo` empty the thread tests the loop conditions of `run()`
(`LoopHead`, `LoopHalted`, `LoopRunning`). `embedded` tells `awlsim-linuxcnc-hal`,
where an exception leaves `run()`, from the server process.

### Facade and Plc
`registered`, `up` and `startupRequired` are the module list, `__running` of each
module and `__hwStartupRequired`. `Plc` conjoins an operation of `Facade` to the
step of `CoreServer` that makes it: `PlcStartup` starts the hardware in front of
the CPU, and only if the CPU has to be started; `PlcReset` unregisters it behind
the CPU; `PlcLoadHardware` registers that of a project or of an `HWMOD`; `Shutdown`
is the `finally` clause of the process. Each is left in the middle when a module
raises. `late`, a history variable, has the modules that were registered since
the hardware was started, which a cycle accesses nevertheless.

### ClientServer
A connection is a queue in each direction with room for `UpRoom` and `DownRoom`
messages (that a stream of bytes is such a queue is what `Transceiver` is about). The server's `Select` takes the connections with something to read,
`Serve` handles them in order of registration, `Report` sends what subscriptions
ask for; any send can find the peer gone. A client's `Call` takes a sequence number
and waits; `Handle` processes one message, `Timeout` and exceptions leave the call
while its answer may be under way.

### Transceiver
`send` cuts what it has to send (`txData`) as the socket takes it (`Fragment`);
`ReadHeader` and `ReadPayload` are one `recv` each, with the buffer and the count
they leave for the next. `Finish` is what follows a complete message: handled,
refused as unknown, or not decodable, which the server answers by removing the
client and a client by keeping everything as it is (`DecodeAgain`). `Close` and
`Break` lose the connection at any byte. A byte is known to the properties by its
message and place; the receiver only counts and compares the magic value.

### IecTimer
`inst` is the instance data block without ATIME, which is never read. `CallTimer` is one
call at some later time with any input and preset time, passed or not; it runs
the block's code branch by branch. `timerLog` has the calls since the last reset (a
preset time that is not positive), from which `IecReference` computes Q and ET.

### Counting
`counter` is the object of the CPU or the instance of a block. `CounterFR`, `Set`,
`ResetCounter`, `RunZV` and `RunZR` are the instructions with either VKE; an S with a
word that is no BCD number raises and leaves everything as it was, so that it is
no step. `Reallocate` is a reset of the CPU. `CallCounter` is a call of a block with any
inputs, whose CV is a word that wraps around. `counterLog` has what was done since the
reset or the last value, from which `CountReference` computes the count.

### Accumulators
An action is an instruction for INT or DINT, or all shifts, or all comparisons. The
program is an expression: `items` has the values it keeps and their types, computed by
`Calculation` from the exact values, and an action is enabled where a program may use
the instruction (two values of its type; room for a value, which `ENT` makes with four
accumulators). A result that does not fit is `lost`, and the expression goes on with
what the accumulator has. `Find` and `Yields` are this side, `accu'` and `stw'` the
code's. `verdict` is what the conditional jumps are to tell of the last result.
`NextCycle` is the next cycle, wherever the last one ended. NER and OR after a comparison
are in `BitLogic`.

### Fup
`Draw...` and `Assign` wire up any diagram without cycles. `Start` is what the
grid does before it compiles (virtual elements between a box's ENO and its
readers, the element tree of an inverted assignment). `CompileAssignment` and
`CompileTransfer` compile an entry point that is left, in any order, since the
order is that of the drawing's coordinates. `Optimize` runs any subset of passes.
`AwlRun` executes the code with the status word operators of `BitLogic`;
`Values` of `FupDiagram` is what is at each pin, for given values of the LOAD operands and
the comparisons.

## 3. Properties and runs

| run | instance | checks |
|---|---|---|
| `lstack` | 3 or 6 bytes, widths 1, 8, 16 bits, depth 4; 184,000 states | `Balanced`, `InBounds`, `Isolated`; refines `LocalAreas` |
| `lstack_bits` | the same | violates `BaseIsAligned` |
| `callstack` | 3 bytes, depth 4, eight sites: one per kind of call, a recursive FC with a parameter of one bit, an FB with outputs to its own static variables; three DBs, every register operation; 1,220,000 states (`View`: variables that are dead are left out) | `StackAgrees`, `ParamsReachable`, `InstanceView`, `ReturnRestores`, `CopyBackToCaller` |
| `bitlogic` | two nested blocks, one open parenthesis in either, one zone and one that overflows; 655,000 states | `ResultIsExpression`, `OutputsFollow` |
| `programs` | a `TIME` of 8 ms, preset times -1, 2 and 3, gaps 0, 1 and 5, five calls between resets; an INT from -2 to 1, five instructions or calls, BCD numbers and others; words of 2 bits, double words of 4, seven instructions in a cycle; a timestamp up to 84, steps 1 and 3, up to 2 late, an S7 timer driven up to time 6; 5,370,000 states | `OutputsAreIec`, `CountsPulses`, `ResultsAreExact`, `OverflowIsRemembered`, `JumpsDecide`, `ClockPhases`; refines `IdealTimer` |
| `program` | three sources, one library block, 3 pending blocks, 2 selections; 129,000 states | `StartedIsRunnable`, `StartedIsBuilt`, `AcknowledgedIsSaved` |
| `coreserver` | `Plc`: all seven messages that change the run state or the hardware, one SIGTERM, three module instances; 35,000 states | `CyclesAreStarted`, `CyclesUseStartedHardware`, `HardwareIsReachable`, `ExitStays`, `ExitEnds`, `HardwareGoesDown` |
| `coreserver_exit` | `CoreServer` alone, the same messages | violates `ExitIsFinal` |
| `clientserver` | a client that controls, one that watches, 2 sequence numbers, room for 1 and 2; 562,000 states | `AnswersItsCall`, `FlagsAgree`, `Served` |
| `transceiver` | headers of 3 bytes, payloads of 0 to 2, known and unknown, decodable and not, room for 4 bytes, four messages; 42,000 states | `InSync`; refines `MessageStream` |
| `fup` | 3 nodes and 4 elements with the operands assigned, two gates, both boxes, two LOADs; 390,000 states | `LabelsResolve`, `Computes` |
| `fup_compare` | the same with 2 nodes | violates `ResultIsCompared` |

Every passing run checks the type invariant of its module too, but `transceiver`,
`lstack` and `bitlogic`, where it is proved.

Why the bounds are enough to mean something:

- `lstack`: the sizes are exhausted within two frames, so that every refusal
  happens, and 1, 8 and 16 bits give every alignment. `Reallocate` moves between
  the sizes.
- `callstack`: the depth lets an FB's multi-instance call an FC, the longest chain
  of different saved registers, and an FC call itself twice, so that one instruction is
  active twice and a frame is entered in the middle of a byte; the L-stack overflows in
  the middle. The run reaches all that `CopyBackToCaller` and `ParamsReachable` except:
  without any one of the exceptions TLC reports a violation.
- `bitlogic`: an expression is canonical (what values its products have, what
  values the factors of the last one have), so networks need no bound. The
  parentheses do, and the proofs have none.
- `program`: a source, its user and a conflicting, failing version are the smallest
  set in which a removal, a replacement and a failure concern each other. The number of
  restarts is not bounded.
- `coreserver`: `todo` is bounded by the code itself; nothing is cut off but a
  second SIGTERM. Three modules are one before, one at and one behind the module
  that fails, two registered at a time.
- `clientserver`: two numbers are the smallest wrap-around. `SeqIsFree` is the
  assumption that fewer requests are under way than there are numbers: 65536 in
  the code.
- `programs`: gaps shorter, equal to and longer than a preset time, more time in five
  calls than three wrap-arounds; five calls are an edge, a time that runs, ends,
  is looked at again, and the next edge. The number of resets, and with it the
  time, is not bounded: the view leaves out everything but differences.
  An INT of two bits has both ends within reach of five calls; a counter Z has its
  real range, and is set next to either end of it. A word of
  two bits has a sign, a most negative value, results that do not fit and shifts by
  less than, as much as and more than its bits; seven instructions load the four
  accumulators (two L, ENT and L, ENT and L) and calculate with the last two
  values. 84 units of time are a whole period of the clock memory, 80, and the bit of
  the slowest clock once more; a timer's life needs fewer, hence `MaxProgram`.
  Timers, counters and calculations share nothing, so that one run with a
  program that uses one of them is enough.
- `transceiver`: `Room` is less than a header and a payload, so that every place of
  a message can be the last under way; four messages put a message that is
  refused or lost between others.
- `fup`: two nodes and their readers are the smallest diagram in which a value is
  read twice, a box enables a box and virtual elements appear; the third node
  is between or behind them. The gates have an inverted input (AND) and an
  inverted output (OR), so that all of the compiler's branches on inversion are
  taken; other combinations add no branch.

`MCFup` and `MCFupCompare` switch off the deadlock check, since a grid that has been
optimized is done.

## 4. Fairness

- `CoreServer`, and with it `Plc`: `WF(Thread)`: the thread executes. `SF(Silence)`:
  between messages there are, again and again, the 10 ms without one that end the
  loop in which the server handles messages before it tests its state. The
  server's clients are people and a GUI that polls every few 100 ms. `ExitEnds`
  fails without it, by a client that never pauses: `handleMessages` is repeated
  while it returns true. `WF(Shutdown)` in `Plc`: a process that ends runs its
  `finally` clause.

- `ClientServer`: `WF(Server)` and `WF(ProcessMessage(c))`, two threads that
  execute. Clients need not make requests, close or time out. `Served` assumes
  that from some point on no request fails: the first exception ends a pass, and
  the next pass starts with the first connection again.
- `Transceiver`: `WF(Fragment)` and `WF(Receive)`: `send` retries while the socket has
  no room, both ends call `receive` for ever. `WF(Handle)` of `MessageStream` is what
  they imply: each message is handled in the end, unless the connection breaks
  or one does not decode.

The other modules have no liveness: what happens is up to the program or a client.

## 5. Proofs

Proved by TLAPS for every value of the constants that the modules' ASSUMEs allow.

*LStackProofs.* `TypeCorrect`, `BooksBalance`, `StaysInBounds`, `CalleeIsolated`,
`Refinement` (of `LocalAreas`), and `ByteProgramsKeepTheirBase`: programs without
single-bit allocations keep `BaseIsFrame`. `Balanced` is not inductive: a return
computes the caller's base from `globAllocBits` and the caller's books. `IInv`
adds that each frame starts on the byte boundary above what its call found, and
that the base of the running block lies between the two. Which of the two it is,
`BaseIsKnown` says: the boundary until a block that was called returns, what the call
found from then on. `CalleeIsolated` is about the operands: where bits are reached
from the base, and where bytes are, with the bit offset dropped. Its one exception is a
block called in the middle of a byte, after a return to it, and `lstack_bits` shows that
it is needed.

*LogicProofs*, of `BitLogic`. `TypeCorrect`, `ResultCorrect` and `OutputsCorrect`, for all
sizes of the parenthesis, call and MCR stacks. `Agree` relates a status word and
an expression: VKE is its value; VKE and NER what an O or X finds in front; OR and
NER the sum of the products before the last; and the next factor is multiplied
with VKE or starts afresh just as the last product has factors or not. It
has to hold of the saved bits of every open parenthesis in every block, because
`)` makes them the status word again. One lemma per operation on the status word,
then one step per instruction.

*LogicProofs*, of `Fup`. `GridTypeCorrect`, `GridInvCorrect`, `CodeInvCorrect` and
`LabelsAlwaysResolve`, for any number of elements and inputs, any wiring, any order of
the entry points and any selection of the passes. `GridInv` says that a diagram is
without cycles as ranks: every pin has one, above those of the pins it is made of, and it
survives the virtual elements (`VirtualRank`). With the ranks come the functions that the
compiler's mutual recursion defines: `RankedRecursion` gives a recursive function its
value, `InstructionsDefined` the compiler's. What a compilation leaves (`Partly`) is then
proved by induction on the rank: which elements are done and which operands stored,
which pins are in TEMP and which code has been added, in blocks that each have the labels
of one element (`Laid`). `CodeInv` keeps this through the entry points. The
optimizer is proved on such code: noprem moves each label to the next instruction, which
has none or is a NOP that stays (`NopWalked`), lblrem removes those that no jump names, and
biefwd finds nothing to do (`NeverForwards`).

*FupProofs*. `RunInvCorrect` and `CompilerCorrect`, as general: the code does what the
diagram means (`Computes`), for every value of the inputs. It takes three steps more.

- *What a piece of code brings about.* The values at the pins are a recursive function
  over the ranks (`ValuesMean`). `Holds` says what the operands have for a progress of the
  compilation: its TEMP variables the values of their pins, its stored operands what is
  wired to them, its MOVEs their turn. `Effects(d, e, c, r, P, R)` says that the code
  added between the progress c and the progress r, executed with bits in P, leads from
  what holds for c to what holds for r, with bits related by R. It is composed
  (`DoesNext`), and proved of each piece: one instruction, a connection, a gate, a MOVE, a
  compare box. The induction on the rank has to be over every progress, since which
  elements are compiled in the middle of another depends on what has been compiled
  before (`NodesPlay`). `RunInv` carries it through the entry points. The grids that
  `Computes` excludes are those for which a piece depends on its place: a compare box of
  theirs is not `CmpPlain`, or an operand is `LoadBoth`, loaded and assigned.
- *The optimizer.* Code is gone through instruction by instruction; a jump that is taken
  skips what comes before its label (`Leads`). noprem has its place in the old code
  followed by one in the new, which may be looking for the label that has moved
  (`Follows`); lblrem changes no label that is looked for (`LabelRemoveRelabels`).
- *Running.* The CPU runs a program by the index of an instruction. All jumps go forward
  and a label is there once, so that going through the code is what the CPU does
  (`CameFurther`), and the program ends at its only BE.

*InstructionProofs.* Of `CpuTime`: `TypeCorrect`, `PhasesHold`, `TimerIsIdealTimer`. `ClockPhases`
needs that the count is the number of steps modulo 80, a multiple of every double
divider. The refinement views the timer at the current timestamp
(`CheckDeadline`), and needs that a timer's stored action fits its kind. It has no
assumption on the program: what looking does to an SE or SS is in `IdealTimer`.
Of the blocks and counters: `TimerTypeCorrect`, `TimersAreIec`, `CounterTypeCorrect`,
`CountersCountPulses`, for every modulus of a TIME and every range of an INT, all
values, and any number of calls. A reference is a function of all that has been done,
in part a recursive one, so that the proofs are by induction: `SetInduction` (a set of
numbers that has 0, and with a number the next one, has them all) follows
from the well-order of the naturals, and from it that a function
can be computed step by step (`Recursion`), which gives a recursive function its
values. Per reference there is a lemma that what it says of earlier calls stays, and
one that says what one call more changes. The invariant of a timer block is
`TimerFits`: which bits it has, ET, Q and STIME, in terms of the call its time began with
and of the one that ended it. That of a counter Z is `CountFits`: an instruction is in
`prevVKE` exactly if it has been there with VKE and no FR has released it since (`Held`).
Differences of TIMEs need that a time is shorter than the modulus (`IecTimerAssumption`).
Of the accumulators: `AccuTypeCorrect`, `CalculationsAreExact`, `OverflowStays` and
`JumpsAreRight`, for every width of a word, all values and all counts. `AccuInv` has two
halves. `Kept`: every value is in its accumulator, seen as a word of its type, of which
`ResultsAreExact` is the statement; what is new in it is that after ENT accumulators 2
and 3 are the same. `Told`: the status word tells what `verdict` and `lost` say. An
instruction is right if what it leaves and the exact result are the same modulo the
width (`Same`), and if the result fits, since then it is what `SignedOf` finds (`SignedIs`).
`QuoOf`, which divides absolute values, is the only quotient that satisfies the
definition (`QuotientUnique`). A shift is so many moves by one bit: `MovedTo` says in
closed form, with the powers of two, what k moves have made of a word, and `LeavesWith`
which bit has left it; both are carried by each move (`MoveOnce`), hence by all
(`ManyMoves`), and are what the code computes in one step (`ShiftIsMoved`), also where the
code takes a smaller count than it is given. `Pow2` is a recursive
function and not 2^n because the provers know of a power only that it is a number.
Of all together: `ProgramTypeCorrect`, `ProgramCorrect` and `ProgramTimerIsIdeal`, for
`ProgramSpec`.

*PlcProofs*, for all messages, any depth of `todo`, any modules and failing ones among
them. Of the server alone:
`TypeCorrect`; `ExitIsKept`, an action property; and `CyclesStarted`, that a cycle runs
only in a CPU that has been started. In EXIT, `setRunState` adds no step, so what
has to be known is that no other action adds the end of one: `StepsStay` says that the
sequences over a set of steps that holds the others (`Calm`) are kept by every action
but an entry into another state. `CyclesStarted` needs more of `todo`, `Shape`: in
which orders a reset, a load and a startup stand in it, and which except clauses stand
between them; and `FlagsFit`, what `needOB10x`, `started` and `project` say at
each of these places. The first except clause is a minimum, which comes from the
well-order of the naturals.
With the hardware: `PlcTypeCorrect`, `Reachable`, `DownWhenClosed` and
`CyclesFindHardware`. Inductive is that the list is a sequence of
modules, that all that are up are in it, and (`HardwareFits`) that a started CPU has
all of them up but those registered since. One lemma per operation of `Facade`, failing
or not, then one step per action of `Plc`. `DownWhenClosed` is the safety part of
`HardwareGoesDown`.
Of the program, with the handlers of all messages, failures and restarts: `ProgramTypeCorrect`,
`StartedCanRun`, `StartedHasNoRawBlocks` and `AcknowledgedSurvives`. `Fits` says what each
part of a build leaves, whether it raises or not: a program whose references belong to
sources, no manager that was not in the container, and the lists of the kinds translated
so far empty. `LoadingStops`, that a project is loaded into a CPU that has not been started, is
what `StartedIsBuilt` needs to be inductive. `AcknowledgedSurvives` needs, over the end of
a process, that a container has what was acknowledged and has blocks (`AckedIsLoaded`)
and that the file has what is in the container (`ContainerIsSaved`), and that no operation
on a program gives a source references it did not have (`Sheds`). Assumed are that libraries have FBs and
FCs only (the code asserts it), that a source defines blocks of the kinds it names
them, and that OB 1 is an OB.

*LStackOpsProofs.* What each operation of the allocator does to its value: the round-up
to bytes, a frame entered or left, bits charged. `LStackProofs` and
`CallStackProofs` rest on it.

*CallStackProofs.* Of every program: `CallStackTypeCorrect`, `StacksAgree`, `CallsRestore`
(an action property) and `InstancesAreSeen`. `CallInv` keeps the books: every bit that
is allocated is charged to one frame, so that a frame is there to be left when a block
ends, after an abandoned cycle too; and it chains the registers that each call found.
`Views` says, block by block, which instance a block sees while only calls have
changed DI and AR2. `ParametersAreReachable` and `OutputsComeBack`, an action property,
have no hypotheses on the program: what goes wrong is excepted in the properties, call by
call.

- `Layout` says that the records `entered` are the books of the L-stack, and that the
  base is that of the frame if the frame was entered at a byte boundary (`OnByte`):
  a return into a block computes `entered` of it (`ExitBooks`). If it was not, the base is
  a few bits too low, and so are the addresses of what the block copies next.
- `Offsets` says that an FC's output still has the offset of its copy, unless the
  instruction was executed again (`again`): the offset is kept in an object that all
  activations share.
- `ToTheCaller` excepts an output of `CALL FB, DB` to a static variable of the caller,
  which is stored in the callee's instance, and cycles that have changed DI or AR2
  themselves.

*MessageProofs*, of `ClientServer`. `MessagesTypeCorrect`, `CallsAreAnswered`, `FlagsAlwaysAgree`, for
any clients, requests, rooms and sequence numbers. `CSInv` says that each message under
way has the mark `live` exactly if it belongs to the call its client is in
(`MessagesFit`; with `SeqIsFree`, see section 3, no earlier message has the number of
a new call), that a client is registered once, and that subscriptions are those of
registered clients with flags that agree. `Selected`, the clients that remain in their order, exists
because no shortest sequence of clients lacks one: a least counterexample, in place of
an induction.

*MessageProofs*, of `Transceiver`. `TransceiverTypeCorrect`, `StaysInSync` and `SafelyImplementsStream`,
for all messages, lengths of the header and rooms. `InSync` speaks of a stream whose
sender is open; what is inductive is that the bytes read and under way are the
beginning of those of the messages not handled, with a rest that is lost when the sender
closes, and that a header is read only for the message whose turn it is (`InTurn`). The
lemmas before it are about `BytesOf`, a concatenation of sequences: it is split at any
message (`BytesOfConcat`) and at any byte (`Cuts`), again by least counterexamples.

`BooksBalance` has, besides `Balanced`, `NoLeak`: a cycle that is over has nothing
allocated.

Only model-checked:

- liveness, here and in `Transceiver`'s refinement: beyond the prover, like ENABLED.

## 6. Where the code departs from what it says

Each has a run that shows it (PROJECT.json, findings):

1. `server.py:643`: SIGTERM within `setRunState` is overwritten or leaves the server
   in EXIT running cycles, though the comment at its beginning says that in EXIT
   no other state can be set.
2. `fupcompiler/elemcmp.py:182`: the result of a compare box with ENO, read by an
   element that is compiled before the box's ENO is, is not the comparison: VKE
   is what the handling of ENO leaves.
3. `lstack.py:129`: after a return, a block that was called in the middle of a byte has
   a base that is not byte aligned; `memory.py:720` asserts it is for a fetch, and a
   store (line 760) drops the bits, so that it overwrites those of its caller.

Seen while modelling, without a run of their own:

- `callstack.py:419`: an output assigned to a static variable of the calling FB is
  written into the callee's instance, since DI is restored later. `callstack.py:140`: the
  output of a call that is active twice is read where the last one has put its own.
  `CopyBackToCaller` excepts both.
- `server.py:1623`: loading a project resets and rewrites the file it reads. A part that
  fails to load, or a crash in the middle, leaves a file without what was not loaded yet:
  sources that a client was told are loaded are lost. `AcknowledgedIsSaved` excepts
  these (`BrokenOff`), and no others.
- `timers.py:275`, `:297`: an SE or SS that is started again when its time is over, but
  nobody has looked at it since, begins with the status it had before: the program
  never sees it on. `IdealTimer` has this (`shown`).
- `client.py:856`: `getCpuStats`, `measStart` and `measStop` take any message for
  their answer.
- Raw blocks and UDTs of a source that is removed before it was built stay and
  enter the CPU with the next build (`server.py:857`, `:858`).
- A changed source that is built by a start, not by its download, leaves both
  versions in the project file, which a restart refuses to build (`server.py:919`).
- `removeSource` with a failing sanity check does not write the file, nor does
  `REMOVEBLK`; a library selection in RUN stops the CPU without a rebuild
  (`server.py:896`, `:1152`, `:982`).
- `__handleMemReadReqs` ends one-shot requests in the server instead of the client,
  so that they are repeated (`server.py:1538`).
- A client removed by an OB 100 dump can raise KeyError or ValueError out of the
  pass (`server.py:1449`, `:1878`).
- An `HWMOD` in RUN registers a module that the next cycle accesses without its
  startup (`server.py:962`); the docstring of the peripheral read names the last
  module that answers, the code returns the first (`main.py`).
- A payload that does not decode leaves a client with the same bytes for ever
  (`messages.py:2025`).
- A compare box without ENO that a box enables jumps over its own result
  (`fupcompiler/elemcmp.py:254`); a LOAD operand that is an input and assigned as
  well compiles or not depending on where it has been drawn: "has not been
  stored to a TEMP variable" (`fupcompiler/elemoper.py`). `Computes` excludes both
  by `EnabledByBox` and `LoadAssigned`.
- S on a counter looks at all 32 bits of accumulator 1 in the Python build, and at
  the low 16 in the Cython build (`counters.py:75`): a high word that is not zero
  raises in one and is ignored in the other. `Counting` has the former.
- A shift by more than the word has bits shifts by as many as it has, and A1 is that of
  this shift, which may be 1 where all bits that left last were filled in
  (`insn_slw.py:56`); a rotation by more than 32 is none (`insn_rld.py:56`).
  `Accumulators` leaves A1 open for the former and excludes the latter. `+` with a
  constant wraps around without a trace in the status word (`insn_pl.py`).
- The optimizer's `biefwd` matches no code that the FUP compiler makes today (`NeverForwards`); on
  code that it matches, BIE and NER are left different from the original.
- MCR zones survive the cycle, and so does the ninth that overflowed
  (`cpu.py:1862`); the `existing` check of the libraries reports the wrong kind of
  block (`cpu.py:206`); direct periphery access is off by one at the end of the
  process image (`cpu.py:2359`, `:2678`); `raise e` after an inner `except ... as e`
  is an UnboundLocalError (`server.py:1757`).

## 7. What is abstracted, and what is not modelled

- `Program`: reading the project file as a whole never fails, only one of its parts;
  symbol tables, FUP sources and hardware modules are left out; a source's text is
  the blocks it defines and calls.
- `CoreServer`, `Plc`: one SIGTERM; one pending project; a cycle succeeds, fails, or
  asks for maintenance. What a module reads and writes is left out, and an error
  of a module in a cycle, which the code logs.
- `ClientServer`: a broadcast reaches all its clients at once, requests fit the
  buffers, statistics, measurements and instruction dumps are left out; which
  OB 10x exists is left open, a startup may dump for any of the subscribers;
  one-shot and repeated memory requests are not told apart. That server and client
  block each other when both send into full buffers is excluded by this.
- `Transceiver`: one direction, so that the two do not block each other; a message is
  its size and what becomes of it at the other end.
- `IecTimer`: one instance, which nothing but its block writes to. A preset time
  that is within a gap of 2^31 ms is excluded by the assumption: the block cannot
  see it elapse.
- `Accumulators`: REAL arithmetic, BCD and the other conversions, the logic on words,
  TAW, TAD, INC, DEC, counts in accumulator 2, RLDA and RRDA, LOOP and SPL. A program
  divides and compares values of one type, and adds a constant only where the sum
  fits.
- `Fup`: XOR, S, R, SR, RS, FP and FN, the arithmetic, conversion, shift, timer and
  counter boxes, inline AWL, disabled elements, the declarations and the interface
  are left out. Data are one bit each: that a transfer happened, what a
  comparison has found.

Not modelled: operand access and memory, data types and interfaces (functions of data with little
control, which the unit tests of the repository cover one by one), the AWL
translator and the parsers of all file formats (text), the GUI (presentation; its
client is the one of `ClientServer`), the hardware back ends, the device libraries
under `libs` and process control (input and output of devices and of the operating
system), the other system blocks (queries and copies). More than half of the
lines of the implementation are in the GUI, the device libraries, the parsers and
the back ends, so that the models cannot cover most lines of the repository, though they
cover most of what its core keeps and decides.

## 8. Plan

What is next, in this order; what can be proved is checked by a run already.

1. `Accumulators` with BCD and the logic on words, and the remaining FUP boxes.
