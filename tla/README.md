# xVMDebug in TLA+

Models, model checks and proofs for **xVMDebug**, the OllyDbg 2 plugin in
`src/32076/第5章/相关源代码/` of this repository (the companion code of a book
on code virtualisation), and for the sample virtualiser of chapter 2
(`src/32076/第2章/`). Line numbers below refer to the files of chapter 5 unless said otherwise.

Contents: [the system](#1-the-system), [the modules](#2-the-modules-and-the-code),
[the runs](#3-the-runs), [the proofs](#4-the-proofs), [what is left out](#5-what-is-not-modelled),
[the plan](#6-plan), [notes from reading the code](#7-notes-from-reading).

## 1. The system

xVMDebug lives in OllyDbg's process. It records what a thread of the debuggee
would execute (a *trace*), simplifies traces, and steers the debuggee. Two other
programs take part: `xVMRuntime`, a library injected into the debuggee, and
`xRemoteIDA`, a plugin of IDA. Neither `xVMRuntime` nor the libraries for pipes
(`nCom`, `nNetLib`), disassembly (`ncasm`) and emulation (`xHook_VMExec`) are in
the repository; what the plugin expects of them is read off their uses and marked
external in the map.

| component | state | operations | interacts with |
|---|---|---|---|
| packet channel (`ollydbg2_plugin.cpp` 230-330, 2200-2330, 2455-2500) | `glpNoticeStack`, `gPacketPending`, the addresses of the runtime | send a packet on a stack in the debuggee, acknowledge it at `outer`, reset | debuggee threads, runtime, options |
| notices and debug events (`ollydbg2_plugin.cpp` 1602-1879, 2504-2557) | `gLastPK`, `gvmodList`, notice pipe | read notices, answer requests, turn one byte debug strings into load and exception events | runtime, debug loop |
| API watch (`xApiWatch.cpp`, `ollydbg2_plugin.cpp` 2459-2468) | `gMemBks` | take execution from all other modules, recognise the first fault, give it back | page protections, debug loop |
| pattern compiler (`patternAsm.cpp` 20-768) | `m_Patterns` | `.pasm` text to tables | script files |
| pattern matcher (`patternAsm.cpp` 928-1845) | variables and templates of one pattern (`seqRuntime`) | match a line, evaluate expressions, generate replacements | compiler's tables, `ncasm` |
| pattern engine (`patternAsm.cpp` 770-930, 1328-1401) | list of patterns under test, `seqRuntime` of each | `initForTest`, `testInstruction` | matcher, CPU, trace frame |
| emulating CPU (`xvmdebugcpu.cpp`) | memory overlay, trace mode, branch statistics | record a trace, detect opaque branches, `doDeObfuscatePattern` | emulator, engine |
| trace frame (`xvmdebugframe.cpp`) | the trace and its history of versions | rule based deobfuscation, pattern rounds, editing, export | CPU, engine |
| block frame (`xvmblockframe.cpp`) | blocks, branches, execution log | find the handlers of a virtual machine, step by blocks | CPU, packet channel |
| IAT call frame (`xvmiatcallframe.cpp`) | rows of calls, cells of functions, export caches | find, trace and repair calls through a destroyed import table | CPU, debuggee memory |
| remote IDA (`ollydbg2_plugin.cpp` 592-757, 1882-1983, 2624-2640; `xRemoteIDA/`) | pipe slots, notice pipe; registry of debuggers, number of the server | bind a slot to an IDA's module, translate addresses both ways | IDA processes, module table |
| sample virtualiser (`第2章/simulateVM/simulateVM.cpp`, `第2章/VMCrt/VMCrt.cpp`) | opcodes under construction, the new section; saved registers, virtual registers, `lpop` | translate a block, put opcodes, machine and a jump into a new program; enter the machine, run opcodes, leave | the block of `第2章/vm1/main.cpp` that it replaces |
| system call numbers, options, menus | see `PROJECT.json` | decode, load and save, user interface | - |

What is hard here:

* **Several actors without a protocol.** OllyDbg's main loop, the debuggee's
  threads, the runtime, IDA processes and the person at the debugger act in any
  order. Most flags are set by one handler and cleared by another that depends on
  a thread coming by.
* **Restarts.** `ODBG2_Pluginreset` runs when the program is restarted and
  forgets some of the state.
* **Failing calls.** Reads and writes of the debuggee may fail halfway through a
  handler.
* **Options that change** between the two halves of an exchange.
* **In place data structures.** The engine unlinks list entries while it walks
  them, and the simplifier inserts records into the list it walks.
* **Layouts that must agree.** The sample machine finds its opcodes, its registers and the
  way back through addresses that two programs work out separately.
* **A small language with surprising semantics.** Greedy and lazy statements,
  variables that bind as they match and are rolled back on some paths.

What makes a component correct, in a sentence each: a packet is never written
over another, stacks are released, and the channel comes free; a watch gives
every page back what it had and stops at calls; variables of a pattern keep their
meaning and a match says what the script says; each pattern runs as if alone;
simplifying preserves what the trace does, ends, and leaves nothing to simplify;
addresses are translated with a base that is true; OllyDbg hears of each event of the
debuggee once, in order, and of none of an earlier program; a repaired call still calls
what it called and returns where it returned; a virtualised block does what the block did. `PROJECT.json` lists under
`hazards` where each of these could go wrong.

## 2. The modules and the code

```
PacketChannel  <- PacketChannelProofs
PatternOperand <- PatternMatching <- PatternMatchingProofs, MC_PatternMatching
PatternOperand <- PatternSequence <- PatternAsm <- PatternRewrite <- MC_PatternRewrite
                                     PatternAsm <- MC_PatternAsm
                  PatternRun  <......PatternAsm (refines)  <- PatternAsmProofs
                  PatternRewrite, PatternAsmProofs  <- PatternRewriteProofs
ApiWatch       <- ApiWatchProofs, MC_ApiWatch
RemoteIDA      <- RemoteIDAProofs, MC_RemoteIDA
Notices        <- NoticesProofs
Peephole       <- MC_Peephole
IATCalls       <- MC_IATCalls
Words          <- NativeBlock
Words          <- VMCrt (refines NativeBlock)  <- VMCrtProofs, MC_VMCrt
```

`<-` reads "is extended by".

**PacketChannel** models `SendPacketByCurrentThread`, its three callers
(`VMDebug_TraceInReal`, `VMDebug_DirectStepOver`, `runScript`), the breakpoint
branch of `ODBG2_Pluginmainloop`, `ODBG2_Pluginreset`, the init notice and the two
options `bFreeStkEach` and `scp_stackSize`. An action is a handler with all its
early returns: a send may find the channel busy, the stack too small, or fail at
each of its writes, and keeps what the code keeps in each case. The debuggee is
its threads (`loc`, `esp`, `running`), its allocations (`heap`) and the return
frame at the top of each stack (`frame`); the runtime is external and does nothing
but come back. Abstracted: the contents of packets (their size in pages matters),
registers other than the stack pointer.

**PatternOperand**, **PatternMatching**, **PatternSequence**, **PatternAsm**. The first
is the matcher as pure operators, `isMatchInst` and everything below it, on an
*environment* of variables and memory templates; the control flow, including the
rollbacks the code does and does not do, is the code's. Registers, sizes and
mnemonics are names, numbers are counted modulo `Imms`. `PatternMatching` calls it
on any line and any instruction, again and again. `PatternSequence` is
`testForSequence` and `testForInstruction`: how a statement takes a record, counts
it, gives way to the next, and how the statements that are no instructions are
executed. `PatternAsm` has the doubly linked list (`m_seqList`, `prev`, `next`),
`initForTest` as one action and `testInstruction` as one action per pattern, so
that the unlinking is done as in the code, pattern by pattern.

**PatternRun** is an abstract specification: one pattern that is given the records
of a scan in order until it fails or matches. `PatternAsm` implements it for each
of its patterns (`EachPatternAlone`); the mapping takes a pattern's run-time data
for its state and computes from the list position whether it has seen the last
record.

**PatternRewrite** is `doDeObfuscatePattern`, `deleteFlagedInSeq` and
`doDeObfuscatePatternAll`: passes in both directions over the trace, a scan from
each record, replacement at a match with the movements of the two cursors, and
rounds until one deletes nothing. It extends `PatternAsm`, so the engine's
variables are the real ones.

**ApiWatch** models "Run To Api Entry" and "Run To Call Ret": the walk over all
regions, the map of what was taken, the recognition of a fault, and the reset.
An address is the region it lies in; regions have modules, headers, guard pages
and protections. The program may change protections at any time, in a watch too: `setAllModuleNoneExec`
leaves the module executable in which the watch is begun (`xApiWatch.cpp` 78-87), which may be the
library that makes the system call, and a program may make system calls without one. What `gMemBks`
remembers is then out of date. The history variables `own`, `changed` and `spoiled` are no part of the code:
what each page has by the program's doing, the remembered pages it has changed since, and those that were given back
such a record. Regions keep their bounds: modules that are loaded or unloaded during a watch are not modelled, and neither is
a part of a region that gets a protection of its own.

**RemoteIDA** models both ends of the connection to IDA: the poll (drain the notice
pipe; every five seconds visit the slots; open, ask, read the answer, bind, look up
the base; reset a slot whose connection is gone), the restart, the option, and in
IDA the choice of a server name, the registry of debuggers, `getinfo` and the
broadcast. A poll is one thread but blocks in the round trip, so it is split where
IDA can act in between. IDA processes start, end and open other databases at any
time. Queries for names and comments change nothing and are left out; they go
through the slots that `TranslationIsTrue` is about. A packet's offset is carried
unchanged and so left out; the code ignores offset 0.

**Notices** models the two ways by which the debuggee reports: packets in the notice pipe, read
by `MyPeekMessageW` and `ProcessPendingPacket`, and debug events, seen by `ODBG2_Pluginmainloop`.
They meet in `gLastPK`: a `raiseexception` packet waits there for a debug string of one byte, which
it turns into a module load or an exception. Also the requests a script waits for
(`ProcessDbgFuncCall`), and the reset. The run time is external: it lets one thread ask at a time.
The whole program stands still during an event. `PeekMessage` and the debug loop run in one
thread of OllyDbg, so no event and no reset falls into the reading of a packet. Left out:
`gHasPacket` (it only saves a call), exceptions of chance, and what OllyDbg does with the modules.

**Peephole** is the rule based simplification of a trace: `doDeobfuscateNormal` with its catalogue
of windows of two to four records (`Rules`, one operator per first instruction), the pass
`doDeobfuscateTempPushPop`, which walks a pair `push r .. pop r` and computes what lies between
(one step per record), `deleteFlagedInSeq`, and the commands Y, N, V, B, C and Del, as
they are reached from the window. An instruction is a mnemonic and two operands of 32 bits;
memory is base and displacement. A stack slot is 1 for 4 bytes. The library that decodes and
encodes is external. `MC_Peephole` has a machine of registers, a stack and a memory on which a trace is run, and says
when two traces have the same effect.

**IATCalls** is the frame for calls through a destroyed import table: finding what looks like a
call in a block (`searchCallsInMemory`), emulating it until it enters a library (`traceIAT` with
the mode `vmexec_dob_iatrace` of the CPU), naming what was reached, learning the cells of the
import table (`setIATArea`), and writing calls in test mode (direct) or real mode (through the
cell). A row is a record of the table; rows live through a restart of the program, and are saved
and loaded. The image is a function from addresses to bytes, where a byte is an instruction and
the number of the byte in it, so that writing over a part of a call breaks it. Operands are
absolute. A stub is made of one byte instructions named for what they do. Abstracted: only the first
byte of a call looks like a call; half an instruction faults; the libraries of
two runs lie apart; the caches of exports are the exports (they are
cleared at the reset). `Trace` is the emulator with the loop of `traceIAT` around it, and serves
the properties too, as the meaning of a place in the image.

**VMCrt**, **NativeBlock**, **Words** are the sample of chapter 2. `NativeBlock` is the promise: the block
as a processor runs it, an instruction a step, between the program reaching it and going on behind it.
`VMCrt` is what is done instead. First the packer: `encodeOpcode`, an instruction a step, and the rest of
`_tmain` as one action, with its failures; what it writes is `image`, the opcodes as bytes and the
addresses it works out. Then the program that was written: the jump, `simVMEntry` with its pushes on a
stack of longs, the loop of the machine, an opcode a step, and the way out through `popad` and `ret`. An address that
does not come out right leads to `lost`. The mapping reads the native registers off where they are
at the moment: in the processor, in the machine, or on the stack. Abstracted: `popfd` and `pushfd` carry
the flags as one value; what the compiled machine leaves in the processor's registers does not
matter; `retaddr` is the address the block ends at or not. Longs are four bytes (`Words`), so that `add` wraps as in the
code.

The map in `PROJECT.json` gives the lines for each definition.

## 3. The runs

| run | shows | instance |
|---|---|---|
| `channel_any` | with writes that fail, restarts and options changing at any time: the stack kept is live, and a channel once wedged stays so | 2 threads, 2 addresses, 2 stack sizes |
| `channel_reliable` | without failures and restarts: no packet is written over, the flag is exact, no stack leaks, the channel comes free | same, fairness |
| `matching` | three scripts on 25 instructions: types, variables keep their meaning, what is accepted is what the line denotes, and the replacement reproduces what was matched | lines in any order |
| `engine` | five patterns side by side: list, verdict, refinement of `PatternRun`, meaning of a match | 7 kinds of records, up to 6 fed |
| `rewrite` | traces of up to five records simplified to the end: what is replaced is what was matched, same effect, nothing left, passes end | 4 patterns that rewrite |
| `apiwatch` | records are true, pages are forgotten by a second watch only, and then for good, calls are stopped at, the program's own faults are kept | 2 threads, 5 regions: 3 libraries, the program, private code; the program makes its code data and code again |
| `peephole` | 5900 traces in the shape of the rules and of the push/pop pass: a rewriting keeps the effect of the trace, the pair that is walked is open, a command ends and V leaves nothing | 4 registers, `esp`, `[esp+-4]`, memory; words modulo 16 |
| `notices` | at most one event comes from an earlier program, events come in the order of the notices, a module is announced once, a request to set a breakpoint is answered | 2 threads, 2 modules, 4 packets, 2 sessions |
| `notices_calls` (violated) | a request to remove a breakpoint is never answered | same |
| `iatcalls` | repairs keep what each call calls, its stack and its place of return, and write over no neighbour; what is shown as known is true; the cells learnt lead to their functions | 15 images of two calls and a caller, 2 functions, 2 bases, 5 commands; two images with 7 |
| `remoteida` | translation is true, a sent address lands in its module, an IDA that stays is bound | 2 IDAs competing for one slot, 2 modules, 2 bases |
| `vmcrt` | the virtualised program implements the native block; a block is translated and the machine is left in the end | blocks of two instructions, three constants, an unknown instruction, registers of two programs at two depths of a stack of 15 longs |

A run that is *violated* states what a comment, a menu text or the shape of the
code promises; TLC finds the behaviour in which the code does otherwise, and
`findings` quotes the promise.

**Bounds.** Two threads suffice for every conflict over one channel, as the
flag and the stack are single. Two addresses allow a stale stack beside a live
one. Six records allow the longest pattern of the engine run to be matched with
a record left over before and after, and patterns to overlap. The values of
`Imms` (2 and 4) tell equal, unequal and a sum that wraps. The five regions of `ApiWatch` put
libraries below the program's code, between it and a block of private code, and at
the top of the address space, and let the program's own code raise faults. `Requests`, the changes of protection
the program asks for, turn its code into writable data and back, which is what unpacking does; one page is enough for a record
to be out of date, given back, taken again and repaired by the program. Headers
and guarded pages, which are left alone, other changes and several pages changed at once occur in the proofs only. One
slot is the hard case of `RemoteIDA`: everyone competes for it; the invariant of the
proof was also checked with two slots and two packets. In `Notices` two sessions let
an event of the first reach the second, and four packets let three notices overlap a request.
The traces of `Peephole` are the product of the operand shapes that its rules tell apart, for the
windows of two and three, and for the push/pop pass bodies of up to four records between push
and pop; `Word` = 16 tells wrapping from not wrapping. The images of `IATCalls` have every kind
of protected call the code knows, next to a byte of the program, next to a second call, and called from
another block; five commands allow find, set the table, trace and a repair in both
modes. A repair from loaded records takes six (find, set, trace, save, load, repair) and with a restart before loading seven:
two images (`Reloads`) have that many, with fewer blocks and selections to choose from; both have a call that is repaired with the byte
behind it next to one that is repaired with the byte before it. `maxIATTraceLines` = 5 is
longer than every stub. The constants of `vmcrt` have a carry through each byte and out of the last; 15 longs
hold the twelve the machine uses with two and none to spare. `szOpbuf` = 20 is what two instructions need and a little
more; the 256 of the code allow forty, which `SampleAssumption` states. `MaxQueue`, `MaxWindow`, `MaxSent`, `MaxSessions`, `maxCommands`,
`MaxRounds` and `MaxBreaks` cap what is unbounded in the code or bounded by a large
number.

**Fairness.** `PacketChannel`: a thread that is runnable again and again comes back
through `outer` (strong fairness, since the debugger may stop it any number of
times); `ChannelFreed` in addition assumes that the program is let run again and
again, as the code cannot make the person press *run*. `RemoteIDA`: OllyDbg's message loop goes
on, a poll that has begun goes on, a running IDA answers, and from time to time five
seconds have passed when the pipe is empty (strong fairness of `BeginSlots`). `Notices`: a packet in
the pipe is read in the end (weak fairness of `ProcessPendingPacket`, which OllyDbg's message
loop calls). `Peephole`: a pass that has begun goes on (weak fairness of `Pass`; it is a loop). `VMCrt`: the packer and the processor go on (weak
fairness of `Pack` and `Virtual`; both are straight code and loops); nothing makes a program come to the block. Nothing is assumed of
menus, restarts, starts or exits.

**Deadlock** is checked everywhere except in `rewrite` and `peephole`, where simplification ends,
in `notices` and `iatcalls`, where the counters that bound packets and commands do, and in `vmcrt`,
where the packer may fail and end.

**What the properties leave out.** Some of the code's ways to go wrong are modelled and cannot be claimed away;
the properties name them and say what holds otherwise. `ApiWatch`: of a page whose protection the program
changes while it is remembered (`changed`) the record is false, and giving it back overwrites what the program wanted (`spoiled`).
`RecordIsTrue`, `OnlyExecutionTaken` and `OwnExceptionKept` are about all other pages; `CallsBelowTopStop` about all pages as far as
execution goes, and about the others as to their protection. A watch begun on top of another (`again`) makes the plugin forget pages; `ForgottenForGood` says that nothing else does, and that they
stay so. `peephole` and `iatcalls` compare effects, and the code is
known not to keep them in some cases, which are told apart by name so that everything else is
checked; each is described in section 7. `Plain`: no instruction has twice the
same operand or memory addressed by a register the window changes, `esp` moves by constants, and what lies
in the slot of a push is used as the slot only. `Displaced`: a `mov` to another slot than `[esp]`. `HalfDropped`:
an `xchg [esp],r` with a `mov` behind it. `OtherSlot`: the long form of a subtraction, where the inner `[esp]`
is not the outer one. `PairPlain`: the pop follows the push, the register addresses no memory and
is not stored in the pair's own slot, nor read when that slot is computed with. In `IATCalls`, `Sound` says which repair the table offers in
good faith, and `harmed` remembers that another one was made: then nothing is claimed. `meant` is what the calls did before
any repair, with which `MeaningKept` compares.

## 4. The proofs

All for arbitrary constants satisfying the named assumptions of the modules, which
TLC evaluates in the runs.

*PacketChannelProofs.* `TypeInv` is `TypeOK` with `NoticeStackLive` (the stack the plugin
remembers is committed): a packet reuses that stack and takes its size from the heap, so types
alone are not inductive. `TypeCorrect`, `StackLive` and `WedgeIsPermanent` rest on it.
`StackIsExclusive` (under `AlwaysFree`: the option stays on and the runtime has an `outer`) needs
`Exclusive`: at most one thread is between entry and `outer`, and then the flag is set. `FrameIntact`
speaks only of whose frame a stack holds and is not inductive without it. `PendingIsExact` (under
`Reliable`: in addition no failures and no restarts) uses `Exact`, which makes this an equivalence,
the same for the remembered stack, and adds that the breakpoint at `outer` is set as long as a
thread is on its way. `NothingLeaks` (under `~MayFail`): every committed stack is remembered or below a thread
on its way back. It is inductive with `TypeInv` and holds through restarts and changes of the option. A write that fails
leaks nothing, as the stack is remembered by then; what leaks is a read of the thread's state that fails at `outer`, after
which the stack is forgotten without being freed (`ReleaseStack`), and `channel_any` has that.

*PatternAsmProofs.* The list is described through the set `alive`: `next` and `prev` of
a live pattern are its neighbours in the set. `EngineListed` proves `ListInv`: types, the
list, the verdict, and that a call in progress stands on a live pattern. Unlinking
is shown correct for head, middle, last and only element by lemmas on neighbours
after removal. `EngineRunsEachAlone` adds `WindowInv` (which patterns have seen the last
record) and shows that each step is, for each pattern, a step of `PatternRun` or a
stutter: the refinement for any number of patterns and any scripts.
`MatchesDescribed` is `MatchIsDescribed`, for any records and any scripts that are `Describable`: no slot is a memory
template (a bracketed operand), no line reads a variable that the pattern computes, a statement with `{-}` may take none and the one behind it is content
with one record, and neither a NOT nor the lines of `a || b` ask about references of a variable. `MC_PatternAsm` asserts it of its patterns; of the shipped ones those without a bracketed
operand in a matched line satisfy it. `{-}` is shipped as `{*}{-}` only. With a minimum `n` above 0 the
next statement may take over the `n`-th record too, which leaves `n - 1`; and a statement that takes one over is passed at once, whatever its own
minimum: then the blocks would be none the script allows. The
difficulty is that a record is judged under the variables of its moment and the property under the final ones. `Knows` orders environments: what was
bound is bound to the same. `LineAgain`: a line that has accepted a record accepts it again under any environment that
knows more, and then binds nothing; this holds for what is accepted and not for what is refused, hence the conditions on NOT and on
alternatives. `Said` is that closure, and the invariant `Standing` says of each pattern under test that its records fall into
blocks each of which is `Said`, the last one as long as the run's counter. `SequenceStands` keeps it through every way a
record goes: taken, given to the next statement, taken over by it from a lazy one, refused with the bindings rolled back, and with assignments executed behind it.

*PatternMatchingProofs.* For any scripts and any instructions, the whole matcher down to expressions of
templates. `MatchingAssumption` says what a decoder and the compiler make: the kinds of operands an
instruction may have, the fields of a template, that template slots are numbered afresh. On top of it
two hypotheses on scripts. `PlainTemplates`: a template names its base and its displacement only and asks for a match; a
slot that names an index, or asks for `{r}` or `{!r}`, binds its names anew (section 7). `OwnOperands`: no `{*}` on a template slot.
The shipped scripts satisfy both, and `MC_PatternMatching` asserts them of the scripts it runs. The inductive
invariant `MatchInv` adds to the environment's types that values hold no names and templates only names of
the script. Each operator of the matcher is shown to lead to an environment that `Extends` the one it was given, whether
it succeeds or not: what was bound stays bound to the same operand, and only the type of a name in a template may change. That
order is reflexive and transitive, so the result for a line follows along the loops over operands and over
the alternatives, the latter by induction. `VariablesStand` is `BindingsKept`; `ReferencesAreKeptOut`: a line with `{!r}` or `{r}` accepts as its
comparison says; `MatchedIsMeant`: after a line was accepted, each of its slots, read in the environment
it left, denotes the operand of the instruction.

*PatternRewriteProofs.* `PassInv`, for any trace and any list of patterns: `ListInv` of the engine, types of the two cursors and of
the records, and `Scanning`: during a scan the records fed to the engine are the trace from one cursor to the other, and each pointer of a
match is a position among them. `WindowIsRight`: what a match replaces is what it matched, also after earlier
replacements of the pass have shifted the trace. `EngineInPass`: list and verdict stay right when the engine is started again and
again. `ScansEnd`: each scan leaves fewer records to start at, in both directions, though
replacements insert records; so a pass ends. `FlattenSeq`, with which the trace is put together, is a recursive
function chosen by `CHOOSE`: that it exists, and what elements and length it gives, is proved by induction. The induction
theorems of the library take a predicate and cannot be cited; `InductionBySet` is about a set of numbers
instead, and has its proof from the least number principle. `RewriteAssumption`: traces and scripts are sequences, a record has
its four fields, and a pattern is tried in one of the two directions.

`NothingIsLeft` is the result of the pattern rounds, `NothingLeft`: when they end because a round deleted nothing, no
enabled pattern matches from any record. Its hypothesis `Deleting` is on the scripts: each enabled pattern has a statement that must take a
record and is replaced by nop. `MC_PatternRewrite` asserts it of its patterns, and the shipped patterns satisfy it but for
two of `test.pasm` (`sub reg1,reg1 -> mov reg1,0`, and the one whose only replacement is `{mnem1}any op1,imm1`): if the new
instruction cannot be encoded, such a pattern matches, deletes nothing and matches again, and nothing is claimed. The invariant has three parts, beside `PassInv`.
`ScanInv` relates a scan to the reference `MatchesFrom`, step by step: `Trial` is the function that `MatchesFrom` evaluates, and each
selected pattern is where its trial is after as many records (`Follows`), or has failed in both; so a scan that ends
without a match has looked at all that follows, and none matches (`ScanDone`). `Timely`: a statement that must take a record has
done so or is not behind the one being tried, however lazy and repeated statements, sequences of expressions and
rollbacks move the pattern on; so in a match it points at a record, and the replacement marks that one (`ReplaceMarks`). `LeftInv` puts the passes together:
behind the scan no pattern of its direction matches, or a record is marked; what is marked is deleted and counted, and if nothing is, the trace has not
changed (`EndPassIs`), so that what the forward pass found still holds when the backward pass ends. Without `Deleting` the
second alternative fails at `Replace`; with it the record a pass skips behind each match does no harm.

*ApiWatchProofs.* For any layout, any number of threads and any changes of protections. The invariant `Inv` says that a page has what
the program gave it, or that without execution (`Halved`), and that what is remembered could be executed, is taken, and is what the
program gave (`Recorded`): the first for pages that are not spoiled, the second for those the program has not changed since, the third for those that
are neither. `RecordsAreTrue`, `OnlyExecutionIsTaken` and `NothingIsForgotten` follow. The central lemma is that taking execution never gives
back an executable protection (`NonExecIsNot`), so that a region already taken is not taken again; it is also why a page once forgotten stays so
(`ForgottenIsForGood`). `CallsStop` is `CallsBelowTopStop`, from `Inv` alone: a fault in a region that is taken is recognised unless that
region is the topmost of the map, and since even a record that is out of date is an executable protection, nothing is
left taken (`AllGivenBack`). `OwnExceptionsAreKept` needs to know, until the event is handled, that the fault of an exception
of the program's own lies in no region taken, unless its record is or was out of date (`OwnOutside`); this speaks of exceptions raised after the watch began
(`genuine` without `early`). `TypeCorrect` gives the types.

*RemoteIDAProofs.* `TypeCorrect`; then `Inv`, the conjunction of `Asking` (the answer under way is what IDA
has open, and is for a free slot), `PipesLead` (an open pipe leads to a running IDA, a bound
one to an IDA with the slot's module), `BasesTrue` and `PacketsFresh`: a packet sent over a bound
slot finds the slot bound to the same module, or free and already behind the poll. The last
is why the order in `CheckRemoteIDAConnect` is right: draining precedes binding, and a broken
slot is freed in one round and bound in the next. `TranslationAlwaysTrue` and `SyncAlwaysLands` follow.

*NoticesProofs.* `TypeCorrect`, for any number of threads, modules, packets and restarts. The other three need to know where a
notice can be: told, held in `gLastPK`, in the pipe; in that order, which the invariant `Inv` (`PipeInv`, `SlotInv`,
`ToldInv`) states as an order of numbers. What is in the pipe is of this session; only `gLastPK`
survives a restart, and only as long as nothing has been told in the new session: hence `StaleOnce`.
`ModulesOnce`: what OllyDbg has heard of in this session is exactly `gvmodList`.

*VMCrtProofs.* For blocks of any length and any registers. `Inv` has three parts: `EncodeInv`, the instructions before
`lpCode` are translated, six bytes for five; `ImageInv`, the section is the translation with the exit behind it, and the
jump and the address of the opcodes fit where things were put; `CpuInv`, the machine stands at the start of an opcode, has room
on the stack, and on leaving has the exit address in the slot for it. The lemma `LongHoldsNumber` (an address survives
being written as four bytes) lets the machine find its opcodes, `WriteSix` and `WriteFive` say what a write leaves alone. Each
step is then shown to keep `Inv` and to be a step of `NativeBlock` or none (`Simulates`): `TurnKeeps` for a turn of
the loop, from which `Op_mov` and `Op_add` follow. `VirtualIsAlwaysNative` is the refinement.

*Only model-checked.* Liveness (`ChannelFreed`, `BoundInTheEnd`, `CommandEnds`, `SettingReturns`, `LoopsEnd`), which the prover does not
support. `MeaningPreserved` of the pattern rounds, which is about the machine of `MC_PatternRewrite` and its four patterns;
`NothingLeft` for scripts that are not `Deleting`. `ReplacementRoundTrip`: it evaluates a replacement line by the inverse of the matcher's reading, for which
lines must be restricted further. `MatchIsDescribed` for scripts that are not `Describable`. `Peephole`, whose machine uses recursive operators and `Bitwise`. `IATCalls` (`KnownIsTrue`, `AreaIsTrue`,
`NeighboursKept`, `MeaningKept`): `Trace` is a loop on an image, and the
claims hold for images that are laid out as code is; a theory of both would be needed first.

## 5. What is not modelled

The pattern compiler, the emulating CPU and the block frame are in the plan below. Windows, drawing,
dialogs, clipboard and export have no behaviour of their own. `NativeSysCallID.cpp` is a fixed
sequence of decoding steps. `第4章` holds a copy of the pattern engine. The scripts of
chapters 9 to 12 and the headers of TinyCC run in the debuggee and belong to one
target each. `src/bochs` is a third party emulator.

In the modelled parts: bit operators, shifts and division of pattern expressions,
the operand size prefix of generated instructions, and values other than the ones a
property tells apart; notices that are only shown (records, logs, blocks, errors) and
`MyEnumProcessModules`, which changes no state; edits of the trace by hand other than deleting;
the order of the rows of the IAT table as sorted by the user.

## 6. Plan

In this order; each with the properties that make it worth doing.

1. **BlockFrame** (`xvmblockframe.cpp` 1073-1614, 1932-2164). Branch detection, the common
   part of branches, block stepping with its breakpoints over `PacketChannel`; the
   execution log whose cursor `m_hilSeqs` is left stale when the dispatcher is met twice with
   one address (1077, 1353) or other blocks are loaded.
2. **DebugCPU** (`xvmdebugcpu.cpp` 22-480). The memory overlay against a plain memory,
   trace modes, opaque branch detection.
3. **PatternCompiler** (`patternAsm.cpp` 20-768) on token sequences, so that the scripts of the
   runs are compiled and not written by hand.

BlockFrame and DebugCPU lean on libraries that are not in the repository (the execution log of the run time,
the emulator's memory and its hook); what is modelled of them first must be what the plugin itself decides.

Composition: BlockFrame with PacketChannel (`blockRun` sends packets), Notices with ApiWatch
(both turn debug events into other events), PatternCompiler with PatternAsm.

Proofs, next to the types of each new module: `MatchIsDescribed` with plain memory templates, which are resolved for good by their first match;
`ReplacementRoundTrip` for lines without expressions; that a repair of `IATCalls` stays within its region; the overlay
of DebugCPU as an implementation of plain memory.

## 7. Notes from reading

Seen while modelling. Where a property would be concerned it names the case and leaves it out, or
states what the code does.

* A last `{*}{-}::any`, with which the blocks of `codeDNA_Simple1.pasm` end, is left only when
  another statement follows: such a pattern never matches (`patternAsm.cpp` 1359).
* `{-}` assigns the flags of a statement where `{stack}` and `{eflags}` add to them (264).
* Two optional statements in a row are not both optional: if the first takes nothing and the
  second refuses the record, the third is not tried (1364). A `{+}{-}` statement may end with
  no record (1343).
* Variables bound by a failed attempt stay bound when the next statement is tried (1362-1368),
  although `patternAsm.h` 169 says that they are deleted; a base variable is not entered in
  `nvars` at all (1827).
* A failed alternative of a `||` line leaves its bindings to the next one, and a mnemonic that
  disagrees ends the line (975).
* `nvars` has 16 places and is not checked (`patternAsm.h` 169); `op` points at `opan` after it has gone out
  of scope (1162); `resolveVar` reads through a null `op1` (1751); expressions divide and shift without
  looking at the operand (1667); the switch over operand sizes falls through (1054); an unbound
  variable inside an expression counts as 0 (1632); `[reg1+reg2]` without a factor loses the index (493).
* A replacement copies the record it replaces with its ESP and EFLAGS change, and with the
  delete flag if another statement pointed at the same record (`xvmdebugcpu.cpp` 624); some records are
  never freed (618).
* A region that ends where the program's module begins counts as the program's (`xApiWatch.cpp` 84);
  execute-only pages are not watched, as the system refuses protection 0 (102).
* Without a database, `getinfo` sends a header that was never written (`XIDAServer.cpp` 115); the base of a slot
  is looked up once per binding (`ollydbg2_plugin.cpp` 1970); `wcsncpy` is bounded in bytes (1944); an error line of a script is copied unchecked (1729).
* `blockStepOver` and `blockRun` report success whether or not the packet was accepted
  (`xvmblockframe.cpp` 2135); the end of the common part of branches is the highest address met (2009).
* With `flagonly` set, rules that rewrite an opcode rewrite it anyway (`xvmdebugframe.cpp` 1134).
* After a failure the handles already closed stay in the object (`NativeSysCallID.cpp` 34).
* `{r}` refuses a register where it should ask for it: of four comparisons two are `!=`
  (`patternAsm.h` 67; `patternAsm.cpp` 1212, 1217, 1224). An index variable of a template
  resolves to no register. The record behind a match is not tried as the start of another.
* `upper_bound` is the end of the map for the topmost region, so that a call into it is not
  recognised (`xApiWatch.cpp` 38).
* A protection that the program changes during a watch is overwritten when the watch ends (`xApiWatch.cpp` 52): nothing
  looks at what the page has by then. An exception the program raises in such a page is taken for a call of
  another module. The watch leaves the module of the current address executable (78-87), so that one begun in
  `ntdll` lets the system calls through that change protections.
* Peephole: `push x  mov [esp+4],y` is taken for `mov [esp],y` and x is lost, as the displacement
  is not compared (`xvmdebugframe.cpp` 1304, whose comment says `[esp]`); `xchg [esp],r` with a `mov [esp],x` behind it
  drops the other half. The push/pop pass moves a constant that is stored into the pair's own slot
  below the stack; computes with a register while it still holds the old value; takes a pop
  that lies before the push for the end of the pair (2303); and leaves its temporary mark
  on a pair without anything in between. Some rewritings, and all of that pass, are not counted, so V may
  end a round early (1186). `udex_isref_reg` is taken to look at registers; deleting `rdtsc` is taken
  to be right.
* Notices: of thirteen functions a script may call three are answered (1870); the count of
  modules is unsigned and underflows (2054).
* IAT calls: a `nop` in front counts as the call's own byte (`xvmiatcallframe.cpp` 936, 968), also when it
  is the padding of the call before, which a repair then overwrites; at the start of a
  block both neighbours count as `nop` (1835). After real mode, test mode writes five bytes of a six byte
  call whose sixth is not padding (1034). A failed trace keeps the result of an earlier
  one, and after a restart test mode writes the address of the last run (869, 1034). An entry of an
  array repaired in real mode has `memoft` 0 and gets the address of the cell over its own pointer (1163). Merging
  follows the pointer of a row a second time and drops or changes it (1981). Setting the table leaves
  out the last pointer of the selection, adding an array does not (2123, 2105).
* `VMDebug_SetIAT` and the trace of an array differ in what they call success: the first also writes
  results that have no name (1242).
* Packet channel: the breakpoint at `outer` is there so that the stack can be released (comment at
  276), but `bFreeStkEach` is read again when it is hit (2471): if the option was cleared meanwhile, nothing is
  released and `gPacketPending` stays set.
* Sample virtualiser: the encoder has no default and hangs on an unknown byte (`simulateVM.cpp` 24), so
  `LoopsEnd` is stated for known instructions; the exit address is fixed (45), so the block must end
  there; the new section is 0x10000 bytes, `opbuf` 256 and the copied machine 1000, none of them checked (67, 73, 84). The
  machine's `add` sets no flags (`VMCrt.cpp` 50), and those of the program come back unchanged: code that
  tests flags behind the block goes another way than the original, and flags are no part of `NativeBlock`.
* Block frame: `m_skipNext` leaves `m_hilSeqs` stale (1077, 1353); neither loading nor resetting
  blocks clears it; `removeLastTempExecLogs` leaves rows of the table dangling. CPU: a read that the overlay covers in part is done
  again as a whole (`xvmdebugcpu.cpp` 99); the displacement of a short jump is unsigned (186).
