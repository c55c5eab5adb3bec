# ePython in TLA+

ePython runs a Python dialect on the Epiphany co-processor: an interpreter on
each of up to 16 *physical cores*, a host program that compiles the source to
byte code, starts the cores and then serves them, and *virtual cores*, threads
of the host that run the same byte code. Cores share no locks. Everything they
do together rests on the order of single loads and stores to shared words, and
that is what these modules model first. The second half is the way of a program
from its files to its output: the layout of its text, the assembler, the
interpreter, and the library it calls.

    tlc -workers 2 -config CoreControl.cfg CoreControl      model checking
    tlapm CoreControl_proofs.tla                            proofs

`PROJECT.json` lists the components, runs, mutants, findings, hazards and
theorems, and maps every definition to its lines.

## The system

| Component | State | Operations | Talks to |
|---|---|---|---|
| core mailbox (`shared.h` `struct core_ctrl`, `device/device-functions.c`, `device/main.c`) | `core_run`, `core_busy`, `core_command`, `data[15]`, `active` of each core, in shared memory | print, input, error, string concatenation, maths; end of a core | host monitor, host threads |
| host monitor (`host/device-support.c`) | `active[]`, `totalActive`, `pb[]` | start the cores, go round them, execute commands, count the ended ones | every core's mailbox |
| messages between cores (`sendData` ... `sendRecvDataWithDeviceCore`) | a 6 byte slot per ordered pair, one sequence byte per pair and core, one copy buffer per core | send, non-blocking send, wait, test, recv, sendrecv, probe | the slot in the memory of the peer |
| barrier of the cores (`performBarrier`, `init_barrier`) | an array of flags per core, the lowest active core | set-up, arrive, poll, clear, release | the arrays of other cores |
| global sync (`syncCores` on both sides, `syncWithDevice`) | mailbox of the lowest core, flip and flop flags of the threads, a mutex | handshake of the lowest core and thread 0, barrier of the threads | mailbox, barrier of the cores |
| messages core - virtual core | mailbox, commands 5, 6, 7 | send, recv, sendrecv, probe | polled by host threads beside the monitor |
| messages between virtual cores (`host/host-functions.c`) | slots and sequence bytes in host memory | as between cores | the other threads |
| collectives (`bcastData`, `reduceData`) | none of their own | bcast, reduce | point-to-point calls |
| device heap | chunks with headers, in core and in shared memory; symbol table as roots | allocate, free, collect | symbol table, host string results |
| host heap list | linked list of blocks per thread | allocate, free, collect | symbol table |
| interpreter (`interpreter/interpreter.c`) | symbol table with levels, frames, program counter, `stopInterpreter` | one function per token | all native calls |
| assembler (`host/byteassembler.c`, `memorymanager.c`, `stack.c`) | memory chunks, variable and function tables, scopes | append, layout of if/while/for/function, patching of addresses | grammar actions |
| configuration, imports (`host/configuration.c`, `host/main.c`) | options, placement of processes, list of included files | parse options, include once | start-up |
| full Python bridge (`python_interoperability.c`, `modules/epython.py`) | two named pipes, argument lists | marshal, call, unmarshal | host threads, a Python process |
| library (`modules/*.py`) | per module | task farm, parallel wrappers, arrays | native calls |

What is hard here, and what must hold:

- **Order of unlocked words.** A command must be visible after its data and
  before the release of the mailbox, an answer before the core resumes. Correct
  means: each command is executed once, each call returns its own answer, the
  monitor writes only while the core waits, nobody is abandoned.
- **Byte copies that race.** A slot is copied byte by byte while the peer writes
  it. Correct means: a pair behaves as a rendezvous, also across the wrap of the
  sequence byte, and a probe's answer is still true when it is used.
- **Reused flags.** Both barriers use one set of flags round after round. Correct
  means: nobody leaves a round before all have entered it, and no round sticks.
- **Start-up.** `core_busy = 0` means "not booted" and "waiting", flags of an
  earlier run are still in memory, and cores run before all flags are set.
- **Two kinds of servers of one mailbox.** The monitor and several host threads
  poll the same words. Correct means: the right partner answers, once, with the
  right message.
- **The heap.** A long mix of allocating, freeing, collecting and calls that fail must
  not lose, overlap or orphan a block.
- **Places that move.** The assembler leaves addresses open and moves the places they go
  to with every concatenation. Correct means: in the end each holds the address of the
  place it was meant for, and the program prints what its source means.
- **Counts made elsewhere.** The assembler counts how many symbols the interpreter will
  need; leaving a function frees symbols by level and cuts the stack to an address.
  Correct means: the table is large enough, and a call leaves nothing behind.
- **Layout.** Blocks are recognised by a scanner that puts text back into its input.
  Correct means: the parser gets each line in its block, from the right file, once.
- **Protocols of the library.** Reductions of all with all in an order that makes threads
  wait for busy ones; a task farm whose two sides count messages. Correct means: the
  right results, each function run once, and everybody comes to the end.

## The modules

### CoreControl: mailbox and monitor

Variables carry the names of the code; `pc[c]` is the place of a core,
`hostPc`/`scan` that of the monitor. Each load or store another party can see is
an action of its own.

| Action | Code |
|---|---|
| `StartCore`, `StartWatch` | `startApplicableCores`, the rest of `loadCodeOntoEpiphany` |
| `Boot`, `End`, `Ended` | `main` on the core: `core_busy = 1`; at the end `core_busy = 0`, then `core_run = 0` |
| `Begin`, `Fill`, `Command`, `Remember`, `Release`, `Return` | the stores and the spin of `displayToUser`, `doGetInputFromUser`, `performMathsOp`, `performStringConcatenation`, `raiseError` (which stores the command before the data) |
| `Round`, `Look`, `Deactivate`, `NoCommand`, `Serve`, `GiveBack` | `monitorCores`, `checkStatusFlagsOfCore`, `deactivateCore` |

The data area is abstracted to "the request of call n" or "the answer to call n".
The conversions of values, the text printed and the mathematics are left out.
`calls`, `returned`, `served` and `result` are history the properties use;
`core_busy` and `pb` have their width (`BusyMax` is 2^32 - 1 in the code).
`main` stores `core_run = 1` a second time after `core_busy = 1`; it already has
that value and the store is left out.

### Rendezvous, Postbox, PostboxProgram: messages between cores

`Rendezvous` is the abstract specification of a pair: post, take, know, one
message under way. `Postbox` is the code: slots, sequence bytes with wrap
(`SyncMax`, 255 in the code), the buffer `communication_data` shared by all calls
of a core, and copies that move one cell per step with the sequence byte last.
The data bytes are one cell, the type another: two cells are enough to see a copy
that mixes two messages. `RendezvousSpec` says that `Postbox` implements
`Rendezvous`. What `Rendezvous` promises about payloads is weak on purpose, see
the findings. `PostboxProgram` adds programs, lists of matched transfers, for the
liveness of matched calls, that no circle of cores waits for each other
(`NobodyWaitsInACircle`), and for what a probe promises: `ProbeMissesNothing` is an invariant
about what a probe would answer (`Finds`) in every state in which a message waits for a
core that may probe. `CanGoOn` is the progress a core can make; looking at a slot again is none.

### SyncPoint, DeviceBarrier: start-up and barrier of the cores

`SyncPoint` is the abstract synchronisation. `DeviceBarrier` models the host that
lets a core run and then sets its active flag, the core that looks for the lowest
active core, `init_barrier`, and `performBarrier` with the master's three loops
one iteration a step. `main` sets up a second pair of arrays for collectives the
same way; no code uses it, and it is not modelled.

### GlobalSync: sync of cores and threads

Composes an instance of `SyncPoint` for the cores (which `DeviceBarrier`
implements) with the handshake of the lowest core and thread 0 over command 8, and
the barrier of the threads. A critical section is one step: what a thread does in
it concerns only flags written in critical sections, and a thread that polls acts
on a flag after it has the mutex. `NobodyIsStuck` says that until all are through all
synchronisations some spin, of a core (`CoreGoesOn`) or a thread (`ThreadGoesOn`), can end, with
one exception. Thread 0 looks at `core_command` alone, which the lowest core stores before
it clears `core_busy` (lines 799 and 800 of `device-functions.c`); an answer that comes in between is
cleared by the core that waits for it (`AnswerLost`). The model lets it happen. `HeldUp` says how
far such a run still comes: all threads are through that very synchronisation. Anything
else that stops a core or a thread violates `NobodyIsStuck` and `EverySyncReturns`.

### HostCalls: messages between cores and host threads

EXTENDS `CoreControl`: the core's calls with commands 5, 6, 7 are new actions, the
monitor and its calls are those of `CoreControl`, and host threads poll the same
mailboxes. Nothing keeps a thread from acting early: it looks at `core_command`, later
at the address, then serves and answers, and the core may be anywhere meanwhile. A thread
resets `core_command` and stores `core_busy = ++pb` in one action: a core it serves can
only clear `core_busy` between the two stores, with the same outcome as if it had done so before
both, and nobody finds a command to act on. The three parts of the data area that
matter (`data[0..3]` the partner, `data[5..9]`, `data[11..15]`) are separate
variables, the last byte being `core_ctrl.active`, which the compiler places right
after `data[15]` of `struct core_ctrl`.

Two things go wrong in such runs, and the properties say exactly where:

- `AnswerLost(c)`: the core cleared an answer that came before its `core_busy = 0`. It stays in its
  spin. `SomebodyGoesOn` and `MatchedCallsReturn` accept such a core as the reason that a run
  stops, if the first call of the list that has not returned is its call, and no other
  reason; everything else is claimed of these runs, too.
- `overtaken`: a thread saw the command of one call, and when it looked at the address the
  core had stored that of a later call, of the same kind, for this thread, whose message and
  command are not there yet. The history `seen` and `overtaken` record it and no guard
  reads them. Nothing is claimed of what follows but types, and that the monitor stays.
  `OnePartnerIsSafe` says that it cannot happen when a core has one partner for each
  kind of call.

`SomebodyGoesOn` says that no circle of cores and
threads waits for each other; `MonitorGoesOn`, `CoreGoesOn` and `ThreadGoesOn` are the steps
that bring a run on, without the rounds of the monitor that find nothing to do and without
the looks of a thread at a command that is not for it.

### DeviceHeap: the heaps of a core and their collection

`chunks` holds, for the heap in the memory of the core and the one in external
memory, the headers by their offset; `vars` is the symbol table as far as the
collector sees it (type and pointer). An action is a statement of the program with
all its heap calls, so that a statement that needs memory tries, collects, tries
again and turns to the other heap in one step, as `getHeapMemory` does; the host
allocates only while the core waits in the statement.

| Operator or action | Code |
|---|---|
| `Allocate`, `HostAllocate` | `allocateChunkInHeapMemory` (takes the end of a free chunk), `allocateChunkInSharedHeapMemory` on the host (takes its start) |
| `Merged`, `Consolidated`, `Freed`, `Collected`, `Roots` | `consolidateHeapChunks`, `freeMemoryInHeap`, `performGC`, `isMemoryAddressFound` |
| `TryHeap`, `GetHeap` | `getHeapMemory` |
| `LetArray`, `LetVar`, `LetNumber`, `Extend`, `Leave` | assignment, array extension, return from a function in the interpreter |
| `Display`, `Input`, `Concat`, `Collect`, `Free` | `print`, `input`, string `+`, `gc()`, `free(x)` |

Two things the code does that its names do not say are in the model as they are:
the end test at line 478 compares an address in external memory with a small
constant and is always true, so that chunks of the shared heap are never merged;
and the signed comparison at line 393 always picks the core's heap. The
bytes in a chunk are left out. So is what runs after an error (the statement goes
on with a null pointer until the interpreter stops), the mode in which all data is in
shared memory, and an array literal whose elements call functions that collect.

### ByteCode, Assembler, Interpreter, Meaning, CompileRun: from source to output

`ByteCode` has the memory containers of `memorymanager.c`: byte code as a sequence of cells,
one per byte, with the definitions of the places in it that are not known yet, how two
pieces are put together (`concatenateMemory`), and how places are resolved in the end.
`Assembler` has a definition for every function of `byteassembler.c` and, in
`Statement`, `Expression` and `Create`, the actions of the grammar in the order in
which the generated parser runs them, which decides the order of variable ids and labels. The
global variables of the assembler are the record `st` that each takes and gives back.
`Interpreter` has a definition for every function of `interpreter.c` as it is built for the
cores; the globals and the memory are the record of a machine. Both use RECURSIVE operators
and are for TLC only.

| Definition | Code |
|---|---|
| `Assemble`, `concatenateMemory`, `Resolved`, `Joined`, `UsedFunctions` | `appendStatement` ..., `concatenateMemory`, the loops of `compileMemory`, `determineUsedFunctions` |
| `appendFor`, `appendWhile`, `appendIf`, `appendNewFunction`, `createExpression`, ... | the functions of these names |
| `enterScope`, `leaveScope`, `ScopeOf`, `Id` | the scope stack and the variable lists |
| `getVariableSymbol`, `setVariableValue`, `clearVariablesToLevel`, `handleFnCall`, ... | the functions of these names |
| `Command` | one round of the loop of `processAssembledCode` |
| `Parse`, `compileMemory`, `runIntepreter`, `Step` (`CompileRun`) | `doParse`, `compileMemory`, `runIntepreter`, a command of the main code with the calls it makes |

`Meaning` is the specification it is compared with: what a program prints, defined on the
source, with a store, scopes and closures of names, without byte code, symbols or
stack. It takes from the documentation that arguments that are variables are passed by
reference, that blocks have scopes, and that a comparison or `is` yields a boolean.
Reals are whole numbers, strings are compared as values, and the natives that need other
cores are left to the modules above.

### Layout, LayoutRules, Layout_proofs: files, lines and blocks

`Layout` reads a program's files as `getSourceFileContents` does, one line a step, and then
scans the text: each rule of the generated scanner that has to do with
layout is an action, the rules for words are one (`Words`). The text is a sequence of
symbols, and what rule 11 puts back (`unput`) goes in front of it. A line is its
indentation, its kind and what stands behind its words.

| Action | Code |
|---|---|
| `CopyLine`, `DropComment`, `ImportFile`, `EndFile` | the branches of `getSourceFileContents` |
| `Open`, `Close` | rules 1 and 2, the marks `<<<` and `>>>` around a file |
| `Comment` ... `EndLineComment` | rules 3 to 7 and 76 |
| `IndentSpace`, `IndentTab`, `EmptyLine`, `Indent`, `Stay`, `Outdent`, `OutdentAtEnd` | rules 8 to 11 and the end of the text, in `INDENT_MODE` |
| `Words`, `Blank`, `EndLine`, `yyterminate` | rules 12 to 75, the end |

`LayoutRules` says what the layout of a program means (`Expected`): a line further in opens a
block, one further out closes those it is outside of, blank lines and comments do
not count, an imported file stands where it is imported first and ends its own
blocks. The scanner's tokens are compared with that up to the newlines the grammar takes
for empty lines.

### HostMessages, Library: programs on host threads

`HostMessages` has the slots and sequence bytes between threads, on a host that runs without
cores (`hostCoresBasePid` = 0). A slot of six bytes is copied with `memcpy` and nothing
orders its bytes, so a copy moves two halves, the value and the sequence byte, one after the
other and in either order: every message, every answer and every receive (`PutIn` and
`PutRest`, `BeginCopy` and `RecvMessage`; `CopyInVain` is a copy that finds another number and
is repeated). With the value goes, as history, the number it was sent with, so that a
receive that takes the value of another message is known (`torn`). A thread that waits for its
answer, or probes, looks at the sequence byte only.

`Library` adds the collectives and the task farm. A thread has a list of calls;
a call of the library is replaced by the calls its code makes (`bcastData` by sends or a
receive, `execFunction` by a wait, a mark and the sends of the arguments, `worker` by
a receive and a task), and `inbox` keeps what was received until the call it is for
ends. `sync` is the abstract `SyncPoint`, which the flags of the threads are shown to implement in
`GlobalSync`. `testFunctionFinish` answers at once; the program that calls it asks again
until it is told "true" (`Tested`), as the farm's users do. A run is followed to its first torn receive: any
mix of the bytes of two messages could come out of it. `ResultsRight` holds up to there, and
`EveryProgramEnds` says that a run without one comes to its end.

## What the runs show

| Run | Bounds | Shows |
|---|---|---|
| `core_control` | 3 cores, 2 of them used, 2 calls each, 87 thousand states | exactly-once execution, own answers, ownership of the mailbox, no core abandoned, every call returns, the run ends; the inductive invariant of the proofs, type correctness included |
| `postbox_any` | 2 cores, 2 messages each way, numbers modulo 4, 256 thousand states | any calls in any order, matched or not, starting from any even numbers: the pair refines `Rendezvous`, a probe's "yes" is stable |
| `postbox_program` | 3 cores, lists of 3 transfers of two cores and of 2 transfers of three, 1.03 million states | no circle of cores waits for each other, matched programs finish, a probe finds every message that waits |
| `device_barrier` | 4 cores, 1 to 3 in use, flags left set for 0 and 3, 3 rounds | the barrier implements `SyncPoint`, no round sticks; the inductive invariant of the proofs, type correctness included |
| `global_sync` | 2 cores, 4 threads, 2 rounds, 327 thousand states | threads' flags implement `SyncPoint`, what the handshake ties together, no cores and threads wait in a circle, no round sticks but for a lost answer |
| `host_calls` | 2 cores, 2 threads, 315 lists of 3 calls, 1.36 million states | the message reaches the right thread and the right call and is answered once unless a look was overtaken, no cores and threads wait in a circle, all calls return but for a lost answer |
| `device_heap` | 2 variables, chunks of 1 and 3 bytes, headers of 1 and 2, core heap of 6 bytes and shared heap of 13, 129 thousand states up to the names of the variables | both heaps stay rows of chunks, what variables refer to stays in use, the core's heap stays merged, memory runs out only when full; the inductive invariant of the proofs, type correctness included |
| `compile_run` | 1 800 programs: control statements nested three deep around each other, the same in a function, every pair of six functions, arrays, defaults, functions as values; 71 thousand states | no operand stays open and undefined functions are refused only where called, the program prints what it means, the symbol table is large enough, the stack holds exactly the live scalars |
| `layout` | 5 lines up to 3 blocks deep in every shape, two indentation styles and tabs, a blank line, comment or import at any place, three files; 182 thousand states | the parser gets the blocks of the layout; blocks nest |
| `library` | 4 threads, numbers modulo 4; all pairs of broadcasts, 5 pairs with reductions, two pipelines, 4 task farms and one between reductions; 471 thousand states | until a receive is torn: right results, each function executed once with its arguments; every other program ends |
| `global_sync_master`, `layout_comment` | as above or smaller | the findings below |

Why the bounds are enough: `SyncMax = 3` makes the sequence byte wrap in every
second call, so that three transfers cover a wrap with a call under way, and the
parity argument depends on `SyncMax` being odd only. The mailbox protocol treats
cores alike and the monitor looks at one at a time, so two used cores and an unused
one show every interleaving with the round; two calls show an answer followed by
the next call, the only pair of calls that touch. (For any number of both, see the
proofs.) Three rounds of the barrier are one more than the two that can overlap.
In `global_sync` four threads are two more than the cores, so that the master has
threads before and after it. In `host_calls` two cores and two threads are what a circle takes
(a core that waits for a thread that waits for the other core), and three calls let a core turn from one
thread to the other and back, or go to the monitor in between; lists that differ in the
names of cores or threads, or in the order of calls that have neither core nor thread in
common, count once, and at most one receive, one sendrecv and one call of the monitor are in a
list. Counting variables (`MaxCalls`, `MaxRounds`) are cut
off in the guards.

The heaps of `device_heap` have room for two and for three blocks of the smaller size, enough
for a split, a merge with free chunks on both sides, two copies beside each other or one
beside the answer of the host, and for every kind of failure.

The programs of `compile_run` end or run out of `Fuel` (400 commands), which none does: a
program that did would stop in `running` and be reported as a deadlock. Three levels of
nesting put each statement inside, before and behind each other one; two functions of which
one is not used show that code that is left out moves the rest. In `layout`, three
levels are what it takes for a line to end two blocks and stay in a third. In
`library`, four threads are the fewest for which a thread in a reduction waits for one that
waits for a third.

`postbox_any` does not check deadlock: two programs that both send to each other
stop, rightly. `global_sync` and `host_calls` do not check it
either, as a lost answer stops them; that nothing else does is what `NobodyIsStuck` and
`SomebodyGoesOn` are for. In the other passing runs the end is a state of its own
(`Finished`) and any other halt is reported as a deadlock.

### Assumptions, as constants

Each is a constant that may be set to FALSE (or to the larger set) to see what
happens without it.

| Constant | Meaning | Without it TLC finds |
|---|---|---|
| `BootBeforeWatch` | the cores have booted when the monitor first looks | a first command served before its core waits, so that the core waits for ever |
| `InitialSeq` even | an earlier run that completed left answers in the slots, which nothing clears | a `recv` that returns before any `send` (`NoPhantomReceive`) |
| `WaitsFirst` | a program waits for a non-blocking send before it uses that peer again | `wait` on the wrong number: the call never returns |
| `HostFirst` | the host has started all cores before one reads the flags | two masters (`OneMaster`), a core through the first barrier alone (`NobodyLeavesEarly`) |
| `SetupFirst` | all cores have cleared their arrays before one arrives | an arrival wiped out: the first sync never returns |
| `FoundInHeap` without 1 | `malloc` returns memory without a 1 where the flags are, as the loop that should clear them runs before `total_threads` is set | a thread that passes a barrier alone |
| `Leftover` without TRUE (`Library`) | `array(numcores())` gives the farm an array of zeros; nothing writes them | an `execFunction` that waits for a result nobody sends |
| `Programs` (`MCCompileRun`) without `Negation` | no program negates a call | an operand that is never filled in (`PlacesFilled`) |
| without `Retyping` | a variable keeps its type | a string changed by a number (`PrintsWhatItMeans`) |
| without `NestedCalls` | no function is called in an argument of itself | a wrong result (`PrintsWhatItMeans`) |
| without `Mutual` | functions do not call each other in turns | more symbols than were counted (`SymbolsFit`) |
| `Risks = {}` (`DeviceHeap`) without `"exact"` | the host never meets a free chunk with room for the bytes but not for the next header | the header of the next chunk overwritten (`Tiled`) |
| without `"midgc"` | the second operand of a concatenation is copied without a collection | the copy of the first collected, given to the result, and freed (`HeldInUse`) |
| without `"stale"` | uninitialised `tmpStr1`, `tmpStr2` hold no heap address | memory of a variable freed (`HeldInUse`) |
| without `"alias"` | an array that is extended is not referred to twice | the other variable refers to free memory (`HeldInUse`) |
| without `"retype"` | no number is stored in a variable that held an array or string | memory that another variable refers to, or that the number is in, collected (`HeldInUse`) |

Not assumed, but named in the properties, are an answer cleared by its own core (`AnswerLost` in
`GlobalSync` and `HostCalls`), an overtaken look (`overtaken` in `HostCalls`) and a torn receive
(`torn` in `HostMessages`): the runs have them, and the properties say what holds with and
without them. `LastBytes` in `HostCalls` is the last byte of the values a thread gives to a
sendrecv; it lands on the `active` flag (see the findings), and no other property depends on it.

`BootBeforeWatch`, `HostFirst`, `SetupFirst` and the flags found in memory concern start-up and are in practice
ensured by timing: the host takes a fraction of the time a core needs to boot the
interpreter, or the other way round. They are assumptions all the same.

### Fairness

A physical core is a processor that fetches instructions for ever: weak fairness
of each core's steps. The monitor and the host threads are POSIX threads: weak
fairness of each (in `Library` of all steps of a thread together; a copy that is repeated
until it finds its number is such a step). A program's decision to make a call rather than to end is not
fair in `CoreControl`, where it is the environment's; in `PostboxProgram` and
`HostCalls` the given list is executed. No strong fairness is used anywhere: a
spin on a flag sees it because nobody takes the flag down but the one who spins,
and the model checker confirms that.

## What is proved

`CoreControl_proofs` proves, for every number of cores, every choice of used cores
and every number of calls below the width of the counter (`MaxCalls < BusyMax`),
and with `BootBeforeWatch`:

| Theorem | States |
|---|---|
| `Invariance` | `Spec => []IndInv` |
| `TypeCorrect` | `Spec => []TypeOK` |
| `ExactlyOnce` | `Spec => []ServedOnce` |
| `OwnAnswers` | `Spec => []OwnAnswer` |
| `MailboxOwned` | `Spec => []HostOwnsMailbox` |
| `NoneAbandoned` | `Spec => []NobodyAbandoned` |

None of the last four is inductive. `HostOwnsMailbox`, for example, needs to know
that a core found with `core_busy = 0` between its load and the execution of the
command is in its spin, that it cannot leave the spin before the monitor has
answered, and that this answer is the next number; the numbers in turn depend on
each command being served once. `IndInv` ties all of it together per core: how
far the call has come (`CallInv`) determines `core_busy` and `pb` as functions of
the number of returned calls (`BusyInv`), the command word (`CommandInv`), the
data area (`DataInv`) and whether the monitor still watches the core (`WatchInv`);
`CountInv` says that `totalActive` counts the watched cores, which is why the
monitor leaves when all have ended and not before. The proof has one lemma per
group of actions and, in it, one step per conjunct the action can disturb. The
assumption `MaxCalls < BusyMax` is needed: after 2^32 - 2 calls the counter wraps
and the next call never returns, as TLC shows with a small `BusyMax`.

`DeviceBarrier_proofs` proves, for all sets of cores, numbers of rounds and flags
left in memory, from `HostFirst` and `SetupFirst`:

| Theorem | States |
|---|---|
| `Invariance` | `Spec => []IndInv` |
| `TypeCorrect` | `Spec => []TypeOK` |
| `SameMaster` | `Spec => []OneMaster` |
| `ImplementsSyncPoint` | `Spec => SyncPointSpec` |
| `NobodyEarly` | `Spec => []NobodyLeavesEarly` |
| `SomebodyPasses` | `Spec => []NobodyIsStuck` (defined in the proofs, in no run) |

The flags of the barrier say little by themselves: whether the flag of a core in
the master's array is up depends on where that core is and on how far the master
has come in its loops. `IndInv` therefore speaks of the master `m`, the lowest
started core, and of each other core `c`: by the place of `m` (waiting, clearing,
freeing, between rounds) it says where `c` can be, which of its two flags (arrived,
in the array of `m`; released, in its own) is up, and how many rounds `c` has left
compared with `m`. From it, the round numbers of two cores never differ by more
than the round under way, and a step of `performBarrier` maps to a step of
`SyncPoint` or to a stutter.

`SomebodyPasses` is the half of `EverySyncReturns` that is a safety property: an arrival or a
release that is lost, or wiped out by a set-up that comes late, would leave all cores in their
spins. `GoInv` adds what `IndInv` does not need: that the host lets every used core run, and
that the master finds its own flag up. A master that polls waits for a core that has
arrived, with its flag up, or for one that is outside; the latter may still arrive, as the
master has entered one round more and that round is within the bound.

`DeviceHeap_proofs` proves, for heaps, headers and sizes of any length and any
number of variables, from `Risks = {}`:

| Theorem | States |
|---|---|
| `Invariance` | `Spec => []IndInv` |
| `TypeCorrect` | `Spec => []TypeOK` |
| `HeapsTiled` | `Spec => []Tiled` |
| `NothingTaken` | `Spec => []HeldInUse` |
| `CoreStaysMerged` | `Spec => []CoreMerged` |
| `FullWhenError` | `Spec => []ErrorMeansFull` |

`HeldInUse` needs that what a variable refers to is a root (`VarInv`: it is still
an array or string), that splits and merges keep chunks in use where they are
(`Split`, `MergedKeeps`, which need `Tiled`), and that a new block was not in use
before. Above the lemmas on one heap, a heap is a set of blocks: a heap call adds
one, takes one away, or drops some that no variable refers to, and the proof of a
statement is a chain of such steps that starts and ends without temporary blocks.
`ErrorMeansFull` follows as the last try comes right after a collection; `print`
before the first assignment does not collect, and there `VarInv` says that nothing
is in use.

`Layout_proofs` proves, for any programs and any width of a tab:

| Theorem | States |
|---|---|
| `BlocksAlwaysNest` | `Spec => []BlocksNest` |

`BlocksNest` alone is not inductive: `Outdent` pops a block only because the line begins further
out than the top of `indent_stack`, which says nothing if the stack is empty and `peek`
gives -1. The invariant adds that the entries are positive and `line_indent` is a
natural number, so that the test implies that there is a block; the lemmas count tokens
when one is returned, and one says that all other rules leave stack and counts alone.

`Postbox_proofs` proves, for any number of cores, any odd `SyncMax`, and any calls of any
cores in any order, from `WaitsFirst` and `EvenStart` (no number in `InitialSeq` is odd):

| Theorem | States |
|---|---|
| `Invariance` | `Spec => []IndInv` |
| `TypeCorrect` | `Spec => []TypeOK` |
| `ProbesStayRight` | `Spec => []ProbeIsStable` |
| `ImplementsRendezvous` | `Spec => RendezvousSpec` |
| `OneMessageAtATime` | `Spec => [](Abstract!OneAtATime /\ Abstract!NothingFromTheFuture)` |
| `NoReceiveBeforeItsSend` | `Spec => []NoPhantomReceive` |

The calls need not match, so the numbers of the two cores may differ by anything, also by
the wrap: no invariant about numbers holds. What holds is about their parity. A core's
number is odd only while it is in a call that posts or takes (`ParityInv`), a slot's number is odd
exactly while a message waits or its answer is being copied (`ChannelInv`), and so a core
that finds the number it looks for finds a message if it takes and an answer if it waits,
whichever they are. `SlotCell` says for each payload cell whether the sender's copy, the
receiver's answer or neither has passed it, which is what a receiver's copy can pick up.

`PostboxProgram_proofs` proves, from the same two assumptions, for any lists of transfers
between any number of cores:

| Theorem | States |
|---|---|
| `ProgramInvariance` | `ProgramSpec => []ProgramInv` |
| `ProbesMissNothing` | `ProgramSpec => []ProbeMissesNothing` |
| `SomebodyGoesOn` | `ProgramSpec => []NobodyWaitsInACircle` |
| `ReceivesMatch` | `ProgramSpec => TakesTheMatchingMessage` |
| `ProgramsRendezvous` | `ProgramSpec => RendezvousSpec` |

When the calls match, the numbers say which message it is. `PairInv` relates two cores by
the transfers they share: `Past` says that a core has moved its number on behind a transfer,
`Sent` that its message of the transfer is in the slot. Nobody is behind a transfer whose
message is not sent, what is sent and not yet received waits in the slot, and the numbers
agree when both are behind the same transfers and differ by one transfer (two) when one has
sent what the other has not received. A sendrecv is where this is hardest: its core has sent
and has not moved on, and the peer may be a whole transfer ahead or not have begun it. It
follows that a waiting message carries the very number its receiver looks for next, so that
a probe finds every message that waits, and that a receive takes the message of the transfer
the program is at (`TakesTheMatchingMessage`, an action property no run checks).

`SomebodyGoesOn` is the safety half of `MatchedProgramsFinish`: a deadlock would be a circle of
cores each of which looks for a number the next one has not written. `GoInv` adds what
`ProgramInv` does not say of answers (`AnswerInv`): once the receiver is behind a transfer
and the sender still waits for its answer, the slot holds the very number the sender
looks for. Of all cores in a spin take one at the earliest transfer. If its partner is behind
that transfer, the message or answer is there and it goes on; if not, the partner is between
calls and starts its next one, or it waits too, at an earlier transfer (`WaitsForEarlier`), which
none does. The assumption `LongEnough` says that the lists are no longer than the model's
bound `MaxCalls` on the messages of a core, which the code does not have.

`GlobalSync_proofs` proves, for any number of cores and threads, from
`FlagsDown` (no 1 in `FoundInHeap`):

| Theorem | States |
|---|---|
| `Invariance` | `Spec => []IndInv` |
| `TypeCorrect` | `Spec => []TypeOK` |
| `Handshake` | `Spec => []HandshakeHolds` |
| `GroupsWait` | `Spec => []EachGroupWaits` |
| `ThreadsSynchronise` | `Spec => ThreadSyncSpec` |
| `SomebodyPasses` | `Spec => []NobodyIsStuck`, from `MasterExists` as well |

`flip` and `flop` are reused in every round with no barrier between the rounds. `IndInv`
gives a thread three places (`Waiting`, `Released`, `Outside`), each with its two flags and its
rounds relative to those the master has let go; that the master finds all flags up only when all
threads have arrived in this round follows, and is the refinement. `MailboxInv` gives
command and counters for each place of the lowest core, `PbInv` the host's counter from
the rounds of thread 0, and both together the handshake. `GroupsWait` is what remains of the
promise that all wait for all (see the findings); the cores' part comes from `SyncPoint`.

`SomebodyPasses` assumes that a thread has the number of the master (`MasterExists`), exactly
what the first finding lacks. In a state in which nobody can go on, a core that leaves would
wait for one a round behind it, and that one, leaving too, for one two rounds
behind, which the barrier excludes; so no core is inside. If the lowest core waits for thread 0,
thread 0 either has not answered it, and can, or has, and the answer is overwritten; in that case
(`OnlyALostAnswer`) thread 0 has entered that round, nobody can be inside without a thread that
can go on, and all threads are through the round, which is `HeldUp`. Otherwise core and thread 0
are through, and then so is everybody.

`HostCalls_proofs` proves, for any number of cores and threads and any lists of calls,
from the assumptions named, and with no restriction on when a thread or the monitor acts:

| Theorem | States | Assumes |
|---|---|---|
| `CallsTypeCorrect` | `CallsSpec => []CallsTypeOK` | nothing |
| `MonitorStays` | `CallsSpec => []NobodyAbandoned` | `BootBeforeWatch` |
| `Invariance` | `CallsSpec => []SafeInv` | `BootBeforeWatch`, `MaxCalls < BusyMax` |
| `OnePartnerSuffices` | `CallsSpec => []OnePartnerIsSafe` | the same |
| `ThreadGetsIts` | `CallsSpec => []ThreadGetsItsMessage` | the same |
| `CoreGetsIts` | `CallsSpec => []CoreGetsItsMessage` | the same |
| `EachAnsweredOnce` | `CallsSpec => []AnsweredOnce` | the same |
| `NobodyServesTwice` | `CallsSpec => []OneServesAMailbox` (defined in the proofs, in no run) | the same |
| `CallsGoOn` | `CallsSpec => []SomebodyGoesOn` | the same and `LongEnough` |

`SafeInv` says three things: what holds in every run (`RunsInv`, the types and what the monitor
counts); that no look is overtaken if the list gives each core one partner for each
kind of call; and that `CallsInv` holds until one is. So the theorems behind it hold without
exception for lists with one partner, and for others until the moment in which the code itself
goes wrong.

A thread decides that a mailbox is for it by its address, and acts on it several steps
later. `MailboxInv` is the invariant of `CoreControl` with the transfers: the words of the
mailbox as functions of the place of the core, with two places for a core whose answer came
before it cleared `core_busy`. `ThreadInv` says what a thread still knows of the mailbox
it has looked at. Neither says that two threads cannot serve one mailbox, or one thread the same call twice:
that is `PairInv`, a core and a thread have the same transfers behind them of those they share,
so the call whose address a thread found is the one it is to make. The monitor and a thread are
kept apart by the command alone. With one partner, a thread that has seen its command and not
yet looked at the address is the only one that can let the core go on, so the
call it looks into is still the one it saw.

`CallsGoOn` is the safety half of `MatchedCallsReturn`. A core that cannot go on has ended, or
waits for a party that has not answered it, or its answer is lost (`CoreWaits`). Take the first
call of the list that is open, for its core or for its thread (`FirstOpen`, `OpenItem`). All calls
before it are behind both, so its core and its thread are both at it (`PairInv`): the core
waits with the command stored, and the monitor, which watches a core until its end, or the thread
goes on, unless it has answered and the answer is lost (`ThreadWaits`). If no call is open, all
have ended with their lists and the monitor counts its last core out. `LongEnough` is the
assumption of `PostboxProgram_proofs`: no list is cut off by the bound `MaxCalls`.

The invariants of these four were checked by TLC on instances of up to 12 million
states before they were proved; they are in the proof modules and in no run.

Model-checked only:

- everything about liveness (each `...Returns`, `...Finish`, `RunEnds` and so on), and with it the fairness
  assumed: the prover has no rules for fairness and `ENABLED`. Of `MatchedProgramsFinish`,
  `MatchedCallsReturn` and both `EverySyncReturns` the part that is safety is proved
  (`SomebodyGoesOn`, `CallsGoOn`, `SomebodyPasses`): until all are done a step that brings the
  run on is there, or the exception named. That it is taken, and that there are finitely many of them, is left;
- `ResultsRight` of `Library`, whose statement folds over programs: induction over data;
- what is defined with RECURSIVE operators: the assembler, the interpreter and `TokensAreLayout`.

## Findings

Two runs expect a violation:

1. **No master** (`global_sync_master`, `host-functions.c:682`). The master of the
   threads is the thread whose number is `baseHostPid`, a process number. With no
   more threads than cores there is none and sync never returns.
2. **A comment behind code** (`layout_comment`, `lexer.c:1039`). The newline behind a `#` comment
   leads to `INITIAL`, not to `INDENT_MODE`: the block that begins or ends on the next
   line is lost.

The following have no run of their own; TLC shows each with the constant or the property
named.

- **A torn receive** (`ReceivesWhatWasSent` of `Postbox`, `device-functions.c:730`). Type,
  data and sequence byte are copied in the order in which the sender writes them. A copy
  that overtakes all writes but the last returns the previous payload.
- **Sync is two barriers** (`EveryCoreWaits` of `GlobalSync`, `host-functions.c:678`). Only
  thread 0 and the lowest core wait for the other side.
- **A lost answer** (`MatchedCallsReturn` without `AnswerLost`, `device-functions.c:616-617`; `EverySyncReturns`
  without `HeldUp`, `device-functions.c:799-800`). Host threads look at `core_command` alone, which
  is set before `core_busy` is cleared (`host-functions.c:760`, `665`). One that answers in between has its answer
  cleared by the core, which then waits for ever; line 599 says that a send "blocks on this
  being received", and it was.
- **An overtaken look** (`ThreadGetsItsMessage` without `~overtaken`, `host-functions.c:756-764`). A
  core sends to one thread and then to another. The second thread sees the command of the
  first send; the first thread answers, the core goes on and stores the second thread's address; the
  second thread reads it, and takes the message of the first.
- **A torn receive between threads** (`ResultsRight` without `~torn`, `host-functions.c:567, 777-780, 833-835`). A
  thread copies a slot while its partner does, and combines the old value with the new
  number, or an answer that is still being copied overwrites the next message.
  docs/tutorial2.md:20 says "core 1 will receive this value from core 0". Copies in the order of the
  bytes do not help, as sender and receiver move the number last; TLC finds no torn receive
  if the receiver loads the number first and the sender stores it last.
- **The active flag overwritten** (`RunningCoreIsActive` of `HostCalls`,
  `host-functions.c:496`). Four bytes are stored at `data[12]` of `data[15]`.
- **A negated call** (`Negation` of `MCCompileRun`, `byteassembler.c:910`). The definitions of
  places are taken over one byte short, and the address is written beside its operand.
- **A new type** (`Retyping` of `MCCompileRun`, `interpreter.c:435`). A number given to a variable
  that holds a string is stored over the string's characters.
- **Nested calls** (`NestedCalls` of `MCCompileRun`, `byteassembler.c:200`). The values of arguments go
  into variables named after the function, which the inner call of `f(1, f(2, 3))` shares.
- **Mutual recursion** (`Mutual` of `MCCompileRun`, `byteassembler.c:187`). Only a function that
  calls itself by name is counted ten times in the size of the symbol table.
- **The farm's array** (`Leftover` of `Library`, `taskfarm.py:10`). The states of the workers
  are not cleared.

Met while reading, outside the programs that are checked: `x = a and b` leaves the
interpreter behind its operand; a `for` over a variable declared outside leaves 0 in it;
`exit()` in a function only returns from it; `realloc` is given the address of the
pointer in `stack.c:105`, from the tenth element on; line numbers miss blank lines,
comments and imports.

## The plan

Done: `CoreControl`, `DeviceBarrier`, `DeviceHeap`, `Layout`, `Rendezvous`, `Postbox` and `PostboxProgram`,
`GlobalSync` and `HostCalls` with proofs; `SyncPoint`; `ByteCode`, `Assembler`,
`Interpreter`, `Meaning`, `CompileRun`; `HostMessages` and `Library`.

Left, in this order:

1. Proofs: that a thread in `HostMessages` sends and answers in turns.
2. `HostHeap`: the linked list of a host thread (removing an inner node leaves its
   predecessor's `next` behind, `host-functions.c:428`).
3. Collectives of physical cores over `Rendezvous`, and processes of both kinds.
4. The probe of a physical core in `HostCalls`.
5. `Configuration`: placement of processes from options in every order.

## Not modelled

- The tables of the generated scanner and parser: they are taken to do what `epython.l` and
  `epython.y` say. In the scanner, what the pattern of an import line matches inside other
  words, and the text piped in without a last newline; in the grammar, a statement behind
  the colon of an `if`.
- In the interpreter: fractions of reals, concatenation of strings (its memory is in
  `DeviceHeap`), the blocks freed when an array grows (also there), and the build for host
  threads, which differs in its indices by thread.
- The Python bridge (`python_interoperability.c`, `modules/epython.py`): text commands
  over two pipes to another program.
- Loading code onto the cores is calls of the vendor's library. The formatting of
  output, parsing of input and the mathematics are pure data.
- The rows marked `not_modelled` or `partly` in `PROJECT.json` name the rest.
