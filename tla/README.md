# A verification of the APEX out-of-order simulator

The program simulates an out-of-order processor cycle by cycle: fetch, decode with register
renaming, an issue queue, a load/store queue, integer, multiply, branch and memory units, and a
reorder buffer that commits in program order. It is one process without threads; everything that
is hard about it comes from the order of the handlers inside a cycle and from results that travel
between them by register number.

The modules here model all of that, from the text of a program to its HALT. TLC checks them on small
instances and on the real sizes. TLAPS proves for every size the invariants of the reorder buffer and
of the rename table and that the buffer implements an in-order queue, seven properties of the whole
pipeline (for every program the window of its buffer; for every program without branches that it
retires in order and that it neither loses nor duplicates an instruction after dispatch; as long as
none is lost before dispatch either, that its tags and its writer counts stay exact and that no
operand is missed; and for programs on registers that it implements the sequential machine), and what
the parser leaves in memory for every file.

## 1. Inventory

| component | source | state | operations | modelled by |
|---|---|---|---|---|
| reorder buffer | `rob.c`, `rob.h` | entries, commit and issue pointer, length | add, update, commit, clear | `RobOps`, `ReorderBuffer` |
| rename table | `rob.c`, `rob.h` | tag -> register and valid bit, last position | can rename, rename, look up, release, clear | `RenameOps`, `RenameTable` |
| issue queue, load/store queue | `ls_iq.c`, `ls_iq.h` | entries with operands, valid bits and ages | add, update by broadcast, choose what issues, clear | `QueueOps` |
| pipeline | `cpu.c`, `forwarding.c`, `cpu.h` | latches, register file, writer counts, zero flag, data memory | commit, issue, execute, writeback, dispatch, push, decode, fetch | `Pipeline` |
| function units, instruction set | `cpu.c` | - | what each instruction computes | `Alu`, `Isa` |
| branch target buffer, snapshots | `info/updates.md` only | - | - | not implemented by the program |
| unused forwarding logic | `forwarding.c` 191-347 | - | never called | - |
| assembly parser | `file_parser.c` | code memory, `tokens[]` on the stack | count lines, allocate, parse a line | `Parser`, `Session` |
| command line | `main.c`, `APEX_cpu_run` | clock, cycle limit, how it was called | simulate, display, exit, pause at the limit | `Session` |
| printing | `print_*`, `get_inst_name` | - | output only | - |

How they interact: `APEX_cpu_run` calls the handlers of a cycle in the order commit, issue,
execute (INT_ONE, INT_TWO, MUL_ONE, MUL_TWO, MUL_THREE, BRANCH, MEM, writeback), dispatch, push of
the front latches, decode, fetch, push of the unit latches. Commit runs first, so a result
written back in one cycle commits in the next at the earliest. An instruction is in one latch,
or in queues and in the reorder buffer at the same time; the copies are connected by address and
tag. A value reaches a waiting instruction through the broadcast of writeback, the broadcast of
commit, or the register file when the instruction is decoded. Before the first cycle the parser fills
the code memory that fetch reads; `main` calls `APEX_cpu_run` once for each command and the clock runs
on from one to the next.

What is hard here:

* *ordering*: results arrive at the buffer out of order, are matched by address, and have to leave
  in order;
* *interleaving of handlers*: an instruction in DRF has been renamed and is not in a queue yet when
  its producer writes back or commits;
* *one number, two meanings*: operands hold tags or architectural numbers in the same field;
* *limits*: two lazily wrapped pointers, a search that starts in the middle of a table and does not
  wrap, a capacity test that looks behind its array, full queues that stall two latches;
* *progress*: a branch, a jump or an operand that never becomes ready stops everything behind it;
* *stale memory*: the parser reads a line in the stack frame of a function that has returned, keeps the
  tokens of earlier lines, and writes only some fields of entries that nobody cleared;
* *long sessions*: a limit of cycles is compared by equality with a clock that earlier commands have
  moved.

`PROJECT.json` lists each hazard at its line with the properties that watch it.

## 2. Modules

    ApexTypes          the enumerations of cpu.h, as numbers
    RobOps             operators on a value of APEX_ROB            (rob.c)
    ReorderBuffer      the buffer and its callers                  (rob.c, cpu.c)
      InOrderRetire    abstract: a bounded in-order queue
      ReorderBufferProofs   theorems: types, the window, no stranded entry, the refinement
      RobOpsProofs          lemmas: window and order, for any caller
    RenameOps          operators on a value of APEX_RENAME         (rob.c)
    RenameTable        the table, decode and commit
      RenameTableProofs     theorems
    QueueOps           operators on the two queues                 (ls_iq.c)
    Alu                results and the zero flag                   (cpu.c)
    Isa                abstract: one instruction at a time
    Pipeline           all handlers, over the operators above      (cpu.c, forwarding.c)
      PipelineProperties    what is checked of it
      PipelineProofs        theorems: the buffer's window, retirement order, nothing dispatched
                            is lost or duplicated
      TagProofs             theorems: owners of tags, counts of writers
      DataflowProofs        theorem: whoever waits is fed
      IsaProofs             theorem: what retires is what the sequential machine computes
    Parser             a line of text to an entry of code memory   (file_parser.c)
    Session            load, commands, the loop around the cycles  (main.c, cpu.c)
      SessionProofs         theorems: types, the program in memory
    MC_*               instances for TLC

The operators of `RobOps`, `RenameOps` and `QueueOps` have the names of the C functions and map an
old value of the structure to the new one. Two kinds of module use them: the component's own module,
in which the rest of the machine is as free as the component's callers allow, and `Pipeline`, in
which the callers are the handlers.

**ReorderBuffer.** `rob` is the structure; `executing` stands for the queues and units: dispatched
instructions whose result has not come back, which finish in any order. `Dispatch`, `DispatchStalls`
(a refused instruction has still moved a pointer from `ROB_SIZE` to 0), `Writeback`, `Commit` and
`CommitWaits` are the uses dispatch, writeback and commit make of the buffer. HALT goes to no queue,
is ready at once and is dispatched again in every cycle. `inUnit` is the part of `executing` that has reached the unit
that delivers its result, and `Issue` is the way there: when, and whether at all, is left open, because an operand
may be missed; there is no way for a JUMP. `Reentry` says whether an address
may be dispatched again while it is in flight, as in a loop.

**RenameTable.** `outstanding` is the program order of the writers from decode to commit: `Decode` appends, `Dispatch` moves the
last one (`pending`) from the decode latch into the buffer of `ROB_SIZE` entries, `Commit` takes the head. `Drop` is what
becomes of a writer in the decode latch otherwise: a stalled latch is overwritten, the addition to a queue fails, or a taken branch
clears it. Nobody gives its tag back; `leaked` remembers such tags. When decode finds no tag the writer goes on under
the number of its architectural register (`owns` is FALSE), and its commit frees the tag of that number, whoever
has it; `misfreed` remembers that. Both are history variables: the code has no trace of a lost writer, and
after a wrong release nothing of the table can be relied on, which is why the invariants speak of the time before. The
assumption `ROB_SIZE < RENAME_TABLE_SIZE` is 12 against 24 in `rob.h`.

**Pipeline.** One action per handler, `step` is the next one. A latch is a record as in
`QueueOps!NoOp`; the latch is empty when its type is 0, which is when the code's `empty` flag is set.
`stalled` exists where it is ever set (F and DRF) and `executed` where it decides anything (DRF and
MEM). `Commit`, `Dispatch` and `Decode` are disjunctions over the instruction classes of their
switches; the other handlers are one action. The only choices are what lies behind the code memory (a fetch may
read there) and what `can_add_entry_in_ls_queue` finds behind its array of 6 entries when it reads 8.
`golden` is a history variable: the state of `Isa`, stepped at every commit. `Arch` maps
the pipeline to `Isa` with the register file and the last committed address of the *pipeline*, so
`ImplementsIsa` says that whatever retires is what the sequential machine does next and leaves the
same registers.

**Parser, Session.** A line is its mnemonic (as an instruction type, `Unknown` or `Blank`) and its operands; an
operand is a number and whether exactly one prefix character precedes it, because `get_num_from_string`
drops one character whatever it is. `Layout` lists the fields each instruction type fills, in the line's
order. `TokensFound` is what `strtok` may find of a line that `remove_escape_sequences` has left in its
dead stack frame: the line; for the first line also nothing, since the first call of `strtok` runs the
dynamic linker's binder over that frame; and for an unterminated line a spoilt last token. `Tokenize` keeps the tokens that a
short or blank line does not overwrite. `Garbage` is what a field of `malloc`ed memory may hold. The
actions are `Allocate` (first pass, with the exit for a missing or empty file), `ParseLine`, `Loaded`,
`Command` (the loop of `main`, which differs between two and four arguments), `Pause` (`APEX_cpu_run`
returns at the limit) and `Cycle`. What a cycle does is `Pipeline`'s subject: here HALT commits in
cycle `halt_cycle`, or never, and it can only if fetch gets past every entry before it
(`ReachesHalt`: fetch does not advance where the type is 0). Left out: a command without its number and an operand without text
(`atoi` of nothing), input that does not parse as two words, and lines longer than the buffers. The clock is 0
at the start as it is in the build; nothing assigns it.

The data are small: `WORD_BITS` is the width of `int` (8 or 16 instead of 32, so that sums overflow
and TLC's integers do not), memory is as long as the programs need, opcode strings and the flags
CF, OF and IF are left out because nothing reads them. `mul_two_stage` computes a product that
`mul_three_stage` computes again and is no action. `MaxAge` caps the waiting counters of queue entries at a value no
instruction of a run's programs reaches while it competes with another.

## 3. What is checked

Passing runs:

| run | instance | properties |
|---|---|---|
| `ReorderBuffer` | 3 slots, ADD, MUL, BZ, STORE, JUMP, HALT, 3 tags, fair commit and units | `WindowInv`, `NothingStranded`, `RetiresInOrder` (refinement of `InOrderRetire`), `EveryEntryRetires`, `TypeInv` |
| `RenameTable` | 5 tags, a buffer of 3 writers, 2 registers, lost writers | `TagsInCircle`, `TagsAccounted`, `BlockedOnlyByLeak`, `LookupNewestUnlessStraddling`, `TypeInv` |
| `Pipeline` | 729 programs, 4/6/3/2 entries, 8 bits, fair | `EntriesAtWork`, `WaitersFed`, `TagsOwned`, `WritersCounted`, `DecodedIsDispatched`, `ImplementsIsa`, `Halts`, `TypeInv` |
| `PipelinePrograms` | 12/24/8/6 entries, loads, stores, taken branches, programs of the repository, more writers than tags | `MemoryAtHalt`, `NewerTagIsHigher`, `ImplementsIsa`, `Halts` |
| `PipelineOverload` | 625 programs on 3/6/2/2 entries | `EntriesAtWork`, `BufferIsWindow`, `CommitsInProgramOrder` |
| `Session` | 201 files of up to three lines, limits 0 to 2, 2 to 4 arguments, fair | `ProgramAsWritten`, `LimitReached`, `TypeInv` |

Why these bounds. Three slots are the least with a slot that is neither first nor last; six
addresses and HALT's re-entry fill the buffer and wrap both pointers in every phase. Five tags with
a buffer of three writers let the tags in use pass the end of the table with two instances of one register among
them, and let lost writers use up all tags, or only the last one, so that decode fails in both ways; the registers 1 and 2 are
numbers of tags too, so the writers that then go on without a tag free those of others. 1,268,613 states: nothing is bounded
but the sizes, and every order of losses and commits is in them. The `Pipeline` run takes *all* sequences of three instructions out of nine behind a MOVC, over two
registers: with the MOVC that is every producer/consumer distance that fits into the time from decode
to commit, and a buffer of four entries that the HALTs fill and wrap. `PipelinePrograms` keeps the program's own sizes and takes
all sequences of three memory accesses whose data are settled, and branches that are taken one
instruction or more behind the one that sets the flag; one program has more writers than there are tags, so that
tags are used again, with two writers of a register in flight on the way (`NewerTagIsHigher`): outside those classes the program does not do what the
sequential machine does, which is what the runs below show. `PipelineOverload` makes no assumption
on the programs and asks only what survives the lost instructions. Its three slots keep the buffer
full, which is where `BufferIsWindow` could break.

The repository's programs and the taken branches run in `PipelinePrograms` as the parser leaves them (`Parsed`,
with `Parser`'s own operators) in memory that held 0 or 1000: the fields an instruction does not name
reach the latches, and nothing may depend on them. `Session` takes every pair out of ten lines, one of each
layout and one of each irregular kind (unknown, blank, short, a blank behind the comma), before a
HALT, with and without a last newline; three lines are the least with a line that is neither
first nor last, and two the least through which a stale token passes. Limits up to 2 rise, fall and
repeat over a session; `MaxClock` = 2 ends it.

A program in the pipeline is deterministic up to the two choices above; the breadth of a pipeline run is its set of
programs. `CHECK_DEADLOCK FALSE` stands in the pipeline's configurations because `APEX_cpu_run`
returns after HALT, and in `Session.cfg` because the program ends.

*Fairness.* `Pipeline`: weak fairness of `Next`: the loop of `APEX_cpu_run` calls its handlers as long
as it has not seen HALT, and every handler returns. That an instruction gets into a unit is not assumed, `Halts` depends on it.
`ReorderBuffer`: weak fairness of `Commit`, which is called in every cycle, and of the writeback of an instruction that is in
its unit, because a unit keeps an instruction for a fixed number of cycles. `Issue` has no fairness: a JUMP, a store whose
data were broadcast too early and a DIV or EXOR may stay in their queue for ever, and so may what waits for them. A memory access
at an address that is too large, which MEM never finishes, counts as queued. So `EveryEntryRetires` does not promise that everything
retires. It says that the buffer itself never blocks: what stays for ever stays behind a head that waits for ever in a
queue or is an untaken branch (`HeadWaits`). `Session`: weak fairness of the program's own steps together, never of `Command`: the user may
wait for ever.

Runs that show a disagreement (each checks one property, TLC finds it violated, `PROJECT.json` quotes
the sentence of the repository it contradicts):

| run | what the code does |
|---|---|
| `RenameTableWrap` | a source gets the tag of an older writer when the tags in use pass the end of the table |
| `PipelineUntaken` | a branch that is not taken never commits: the program never ends |
| `PipelineStall` | a stalled instruction in DRF is overwritten: a ninth load is lost |
| `PipelineNoTag` | the loads that stalls lose use up the tags, and decode sends writers on without one |
| `PipelineMemoryOrder` | a load passes an older store to the same address |
| `SessionFirstLine` | the first line of the file may be lost, and fetch then never passes the empty entry |

More limits bound the classes of programs in the passing runs. `MC_Pipeline` has a program for each;
put in place of `MCUntaken` in `PipelineUntaken.cfg`, with the property named here, TLC finds it violated:

| program | property | what the code does |
|---|---|---|
| `MCLoop` | `EntriesAtWork` | two iterations in the buffer: the result of the newer instance goes to the older entry |
| `MCJump` | `JumpsReachBranchUnit` | JUMP has no unit and never leaves the issue queue |
| `MCStaleFlag` | `ImplementsIsa` | a branch right behind an arithmetic instruction is decided on the flag before it |
| `MCTakenOverWriter` | `WaitersFed` | a taken branch drops a decoded writer and leaves its tag valid |
| `MCStoreData` | `WaitersFed` | a store in DRF misses the commit of its data register |
| `MCStoreNumbers` | `MemoryAtHalt` | a store's architectural register number takes a broadcast of the tag of the same number |
| `MCDivStatus` | `WaitersFed` | DIV and EXOR read the status of the wrong register and wait for ever |
| `MCStraddle` | `ImplementsIsa`, `NewerTagIsHigher` | the newer writer of a register gets tag 0, the older one has the last tag; the reader depends on the older |

Three more hold of a session only with their exemption; TLC violates `LastLineLoaded` in place of `FirstLineLoaded` in
`SessionFirstLine.cfg` (the last line may be lost when no newline ends it), and, as a
PROPERTY of `Session.cfg`, `EveryCommandSteps` (a command that repeats the limit of the one before it returns at once and
runs no cycle) and `EveryCommandEnds` (a command with a smaller number than the clock never meets it).

The model reproduces the compiled program where both were run, with symbols bound at start
(`LD_BIND_NOW=1`): `test_files/input_test_1.asm` halts in cycle 32 and `input_test_2.asm` in cycle 21
with the same registers, and the programs of `PipelineUntaken`, `PipelineMemoryOrder`, `MCJump`,
`MCLoop`, `MCStaleFlag`, `MCTakenOverWriter`, `MCStoreData` and `MCStraddle` behave as TLC says (the last one computes 15 for R3
in place of 7, and 7 without the writers in front that move the tags). The sixty loads of `PipelineNoTag` print "Cannot Rename Register R15 of pc(4120)", which is the
instruction at which TLC's trace ends, and `simulate 20` followed by `simulate 10` runs `input_test_1.asm` to its HALT in cycle 32. In the build of the
Makefile as it stands, with lazy binding, the first line is lost as in `SessionFirstLine`.

One branch of the code is in the model and reached by no program: the misprediction recovery of
commit (the exception flag is set only for an instruction type equal to the *stage* number BRANCH,
which is ADD). Two more are reached only after losses: decode without a free tag, as `PipelineNoTag` shows, and commit
of a tag that is not valid, which takes a writer without a tag first. `BlockedOnlyByLeak` says that the writers in flight alone never lead there.

`Quotient` wraps for `INT_MIN / -1`, where C is undefined and the usual hardware traps; no program of a run divides these two.

Definitions whose comment starts with "Faulty" are variants of the operator below them with a
plausible mistake; `PROJECT.json` pairs each property with one that violates it.

## 4. What is proved

`ReorderBufferProofs` proves, for every `ROB_SIZE > 0`, every code memory, every set of tags and
results, and with or without re-entry:

* `TypeCorrect`: `Spec => []TypeInv`. The pointers and the length stay in `0 .. ROB_SIZE`.
* `WindowCorrect`: `Spec => []WindowInv`. The allocated entries are exactly the `buffer_length` slots
  that start at `commit_ptr`, `issue_ptr` is behind the last of them, and an entry with `valid` set is
  allocated, so commit, which looks at nothing but `valid`, takes nothing out of an empty buffer.

Neither invariant is inductive alone: that the length does not pass `ROB_SIZE` or fall below 0 needs
the window (a free slot at `issue_ptr` means that the length is smaller; a valid head means that it is
not 0), and the window needs the ranges of the pointers for the arithmetic of the wrap. `IInv` is their
conjunction. `PositionBijective` (the offsets `0 .. ROB_SIZE - 1` from the commit pointer reach every
slot once) is the lemma the steps rest on; there is one lemma per kind of step (`DispatchIInv`,
`FoldIInv` for the two steps that only fold a pointer, `IssueIInv`, `WritebackIInv`, `CommitIInv`).

Its assumptions are `RobSizeAssumption`, `CodeAssumption` (instruction types are those dispatch has a case for) and
`DataAssumption` (addresses, tags and results are integers); the
code declares them all `int`.

It proves further, under the same assumptions and `~Reentry`:

* `NothingStrandedCorrect`: every allocated entry has its result, or is a branch, or its own instruction is executing.
* `RetiresInOrderCorrect`: `Spec => RetiresInOrder`. Under the refinement mapping `AbstractWindow` the circular
  array starts as the empty queue and every step is an arrival, a result, a departure of the oldest, or
  a stutter.

`update_reorder_buffer_entry_data` takes the first entry that has the address, so both need that no other
entry has it. `LinkInv` says so, that an executing instruction has an entry that waits for it, and
that an exception sits on an ADD only, which is why the recovery branch is never taken. `LInv` is `IInv`,
`LinkInv` and `NothingStranded` together; the last two need `IInv` and each other. The premise `~Reentry` is
not a convenience: in a loop the theorem is false, as `MCLoop` shows.

`RenameTableProofs` proves, for every `RENAME_TABLE_SIZE > 1`, every set of registers, every
`ROB_SIZE < RENAME_TABLE_SIZE`, and whatever writers are lost between decode and dispatch:

* `RenameTypeCorrect`: `Spec => []TypeInv`.
* `TagsInCircleCorrect`: an older writer's tag is farther back on the circle from the search position, and no tag between
  a writer's and the search position is free. This is what makes a search that never looks below its start safe.
* `TagsAccountedCorrect`: a tag is in use exactly if one writer in flight owns it or a lost writer leaked it, never both.
* `BlockedOnlyByLeakCorrect`: decode fails to find a tag only if some tag is leaked, and then because all are in use or the
  last one is leaked: only from the last index does the search start at 0, so once that tag is leaked the position cannot
  get back there, and decode is blocked as soon as the tags from the position on are in use.
* `LookupNewestCorrect`: a source gets the tag of its newest writer unless the tags in use lie on both sides of the search
  position or a writer of that register was lost or got no tag, although the search looks at indices and not at age.

All but the first speak of the time before a writer without a tag has freed somebody else's (`misfreed`).

The inductive invariant `IInv` is `TypeInv`, the bound of the buffer, `TagsInCircle` and `OwnerInv`, which is `TagsAccounted` from the
owners' side: each owner holds its register under its tag, nobody holds a leaked tag, every other tag is free. `TagsInCircle`
is stated with `Age`, how many places the search position has gone around since it was at a tag. The
search moves all ages by the same distance but for the tags it passes by, and those were older than the one it stops at
(`SearchShiftsAges`); it passes no owner by, because the free tag it stops at would be younger than that owner, which
`TagsInCircle` excludes (`DecodeRenamed`). Losses and commits free no tag between an owner and the search position
(`CircleKept`). That two owners never have one tag follows (`OwnersDiffer`), and with it that the writers in flight
cannot own all tags (`NotAllOwned`, the pigeonhole principle). For the look-up, `TagsRise` shows that tags rise with age as long as no owner's tag is above
the search position while another's is below, and `HighestTag` that the scan meets a highest matching index. The
assumptions are `RenameSizeAssumption` and `RenameUseAssumption`.

`RobOpsProofs` proves of the operators of `RobOps` alone, for any caller, that they keep the window (`RobInv`: a
buffer of the right shape that `IsWindow`) and the order of addresses (`RobOrder`). `PipelineProofs` lifts
both to the whole simulator, for arbitrary sizes, registers, word width and memory:

* `BufferIsWindowCorrect`: after every handler, of whatever program, the buffer is a window between its
  pointers. `RobInv` is inductive by itself: only commit, writeback and dispatch touch the buffer, with
  whatever arguments.
* `CommitsInProgramOrderCorrect`: addresses only rise at commit, whatever is lost in a stall, delayed in a
  queue or forwarded. `OrderInv`: addresses rise from the last one committed through the buffer, DRF and F
  to `pc`, and no branch is in the issue queue or in the branch unit. It assumes `StraightLine`: no conditional branch
  in the programs and behind them. JUMP may be there, since it never leaves the queue. With branches
  the statement is false, because a target may lie behind the branch.

It proves further `EntriesAtWorkCorrect`, again for all sizes and every program with `StraightLine`: the
entries without a result are the instructions in the queues and units, so every dispatched instruction
goes through them once, and its result finds its own entry. Two writebacks, the issue of three units, eight pushes
and dispatch move instructions, and a memory instruction is in two places at once; the invariant has to say where.

* `Place` names the places. Those in `Front` (issue queue, INT and MUL units) lead to a result or an address, those
  in `Rear` (load/store queue, MEM) are the memory path. `Work` is what each place holds, as what identifies an
  instruction. In the second half of a cycle INT_TWO, MUL_THREE and a MEM that has done its access still hold
  what writeback has taken: `Open` excludes them.
* `TrackInv` relates the places to the buffer: each instruction at work has an entry that waits for it
  (`WorkHasEntry`), each waiting entry is at work (`EntryHasWork`), no address is twice in front or twice in the rear, and in
  both only while the load/store queue waits for its address (`OnePlace`); a memory instruction in front is in
  the rear too (`MemoryPath`). Writeback matches by address alone, so entries differ in their addresses except HALTs,
  which wait for nothing (`EntriesDiffer`).
* `FrontOnce` is why entries differ: decode hands an instruction to dispatch once. F and DRF stall and are
  overwritten, but addresses rise strictly from the buffer through DRF and F to `pc` (`FetchedOnce`, `NotYetDispatched`), except at
  a HALT, which stays in DRF with F stalled behind it (`HaltStays`).
* `ResultsReady` and `MemoryFlag`: when writeback takes an instruction out of a unit, its result is there; otherwise
  the entry would stay without one and nothing would be at work for it. The flag of the memory stage
  outlives the latch it is about, so the invariant says in which steps it speaks of the present one.
* `IqShape`, `LsqShape`, `UnitShape`: which instruction types get where; a free queue entry holds none.

`WorkInv` is these and `OrderInv`. The lemmas `Track*` say what a move does to `TrackInv` whichever handler makes it
(a retirement, a result, an address, a move between places, an arrival in one or both); under them is one lemma per handler.
Issue needs no more of its order than that each unit gets at most one instruction and that what goes is removed. Lost
instructions do not disturb the theorem: a stall loses them before dispatch. `StraightLine` does matter, as `MCLoop` shows.

`TagProofs` proves of the whole simulator, for all sizes, `TagsOwnedCorrect` (between two cycles a tag is valid
exactly if one instruction owns it) and `WritersCountedCorrect` (`regs_invalid` is the number of writers of the
register that have left the issue queue and not retired). Their premises:

* `StraightLine`, as above: a taken branch drops a renamed instruction out of DRF (`MCTakenOverWriter`).
* `RegistersExist`: destinations are registers of the machine. The parser lets any number in, and the code
  then writes behind `regs` and `regs_invalid`.
* `EnoughTags`: `ROB_SIZE < RENAME_TABLE_SIZE`, 12 and 24 in `rob.h`.
* `DecodedIsDispatched`: no decoded instruction is overwritten in DRF. It is a premise about the run, because the
  code does not guarantee it: a stall loses the instruction, as `PipelineStall` shows, and with it its tag
  for ever. It is exactly what is needed (`Kept` is its step) and only PushFront uses it. The run `Pipeline`
  meets all four premises in all of its 729 programs.

The invariant `TagInv` is about age, since the free tag is searched from the last one taken and only as far as
the end of the table. `Age` is how many tags ago a tag was taken, if the table is not full; `Younger` how many
entries have come into the buffer behind an entry.

* `TagsInOrder`: an older writer has an older tag. `TagsRecent`: since a writer took its tag, no more tags were
  taken than instructions have come behind it, so all tags in use are among the last `ROB_SIZE` ones. Hence the tag behind the last one
  is free and the search finds it (`TagFound`), and a new tag keeps both (`RenameTags`, `AddTags`, `ReleaseTags`).
* `FrontTag`: a writer that waits in DRF (`Pending`) has the last tag. From dispatch to the push it is in DRF and
  in the buffer; `Pending` is false then, so it is counted once.
* Every valid tag belongs to a writer in the buffer or to the one in DRF, and names a register.
* `StallHolds`, `NotRenamed`: why F and DRF never bring a renamed instruction to decode a second time.

`CountInv` adds the counts: a writer in the buffer is counted (`Counted`) unless it `Waits`, in the issue
queue or, between issue and the handler that counts it, in INT_ONE or MUL_ONE (`Fresh`). `CountUnit` needs from
`WorkInv` that the writer in the unit has an entry and is nowhere else, and from `TagInv` that its tag is valid;
`CommitCountStep` needs that a finished writer is no longer waiting (`FinishedIsCounted`). In both steps
the register behind the tag is the one the instruction was renamed for, because decode overwrites free
tags only (`DecodeCountStep`) and commit leaves the number in place.

`DataflowProofs` proves `WaitersFedCorrect`: between two cycles whoever waits for an operand has its producer in the
buffer. A value is announced twice, at writeback by one of three units and again at commit, and kept in the register file
afterwards; an instruction passes from decode through dispatch into the issue
queue in between, and one that misses them all waits for ever. The premises are those of `TagProofs` and
`SourcesExist`: sources are registers of the machine, and no program has a store, DIV, EXOR or JUMP. These four read
an operand otherwise than the rest, and for stores, DIV and EXOR the statement is false (`MCStoreData`,
`MCDivStatus`). Loads are in.

`FedInv` is `Fed`, a missing operand names a tag that a writer in the buffer holds, of every entry of the issue queue
and of DRF from decode on, and what lets decode establish it: an instruction that comes to decode is `Unread`, its sources
are still registers. There `RegisterRead` needs all that is proved before. A tag of the table belongs to the buffer
(`TagInv`, because the instruction in DRF has none yet); a register without a tag has nobody in flight, so
its `regs_invalid` is 0 (`CountInv`) and the value is read. A commit takes a tag away and answers everybody who
asks for it in the same step (`FedHears`); writeback takes none away, and that an instruction is answered there
although its producer stays does no harm.

`IsaProofs` proves `ImplementsIsaCorrect`: the whole simulator implements the sequential machine `Isa`. With the register
file and the last committed address of the pipeline in place of the machine's (the mapping of `Arch`), its initial states are
initial states and every handler is one instruction of the machine or a stutter. The premises say where the
code does what an instruction set promises; the counterexample beyond a premise is named with it:

* `StraightLine`, `RegistersExist`, `EnoughTags`, `SourcesExist` and `DecodedIsDispatched`, as above.
* `RegisterPrograms`: code memory is filled from its start, has a HALT somewhere, and its other instructions are MOVC, MOV, ADD,
  ADDL, SUB, SUBL, MUL, AND, OR, NOP, or a line the parser could not read. Memory is left to TLC (a load passes a
  store, `PipelineMemoryOrder`), branches are decided on a flag that may be old (`MCStaleFlag`), and DIV may wait for ever (`MCDivStatus`).
* `[]NewerTagIsHigher`: of two writers of a register in the buffer the newer one has the higher tag. Decode reads a register through the
  highest tag that names it, and without this premise the theorem is false, as `MCStraddle` shows. Programs with
  fewer writers than tags have it, and longer ones if no two writers of one register lie around the
  end of the table together.

The 512 programs of the run `Pipeline` that have no DIV meet all of them, and so does `ManyWriters(<<>>)` in `PipelinePrograms`, in
which the tags come round.

The invariant is that of the theorems before (`WorkInv`, `TagInv`, `CountInv`, `FedInv`) and `IsaInv`: the sequential
machine has the pipeline's registers, last address and HALT (`Mach`), and until HALT has retired `Running`:

* *Which instructions.* `OriginInv`: what is in F, DRF and the buffer comes from the code, unchanged, and the table still
  knows the register behind each tag. `Covered`: from the machine's next instruction to `pc` everything but NOPs is in the
  buffer or in a front latch; `Overwritten` is why fetch, which replaces F without a look, drops nothing,
  and `StallInv` why a stalled DRF does not enter twice. `RetiredInv` links `retired` and the machine's next address.
  Together they say that what commit takes is what the machine executes (`HeadIsNext`).
* *Which values.* `ValueOf` is what a register holds in front of an address: the result of the last writer before it in the buffer, or
  the register file if there is none. `Producer` is that writer's tag. In `ValueInv` every operand, in the queue, a unit or DRF, is
  the value or the producer, and every result is `Correct`, computed from values in front of its own address.

Decode establishes the operands: by `NewerTagIsHigher` the highest tag that names the register is its last writer's (`SourceOfDecode`),
and the register is read only when there is no writer, which is what `TagInv` and `CountInv` were needed for. A writeback turns producers into values
(`KnowsValues`, `WriteUnitValues`), a dispatch adds a writer behind everybody (`DispatchValueStep`), and a commit moves the value of the
oldest writer into the register file, where the same readers find it (`RetiresValues`). Issue passes ready entries only; that its
sort, which is a recursive function, yields no others is `IssueOrderReady`, by the least round at which it would fail. When the
head retires, nobody is before it in the buffer, so its operands are what the register file held, and the machine gets the same
result (`CommitsResult`, `CommitMach`). What the units compute stays uninterpreted: the pipeline and `Isa`
share `Result`, so the theorem holds for any `WORD_BITS`, and says of arithmetic only that it is done on the right operands.

`SessionProofs` proves `TypeCorrect` (the load's line number stays in the file, and every entry and token has its type) and `ProgramAsWrittenCorrect` for files of every length, every content of fresh memory and
of the stack and every list of commands: an entry of code memory has the type and every field the
machine reads as its line gives them, if the line is complete and not the first or an unterminated last one.
`LayoutsAgree` compares, type by type, the operands the parser takes with those decode and
the units read; `CreateAsWritten` says that the tokens of earlier lines do not get into a complete one;
`ParseInv` is the invariant of the load. The assumption is `SessionAssumption` (files are sequences of lines of the
parser's alphabet).

Only model-checked: `MemoryAtHalt`, and `ImplementsIsa` for programs with memory accesses and taken branches, which hold for the
classes above and fail for others by single instructions (`MCStaleFlag`, `MCStoreData`); the type invariant of
`Pipeline`, which bounds results by powers of two and holds for programs whose operands and addresses are in
range. `DecodedIsDispatched` and `NewerTagIsHigher` are premises about a run: the code guarantees neither, and TLC checks them where
the programs meet them. `Halts` and the other liveness properties are out of the prover's reach, and so are
`ENABLED` and induction over data.

## 5. Plan

1. *Done.* Reorder buffer, its abstract queue, its first theorems; rename table and its theorems; queues as
   operators; the pipeline against the sequential machine.
2. *Done.* The parser and the command line driver, and the parser's theorem.
3. *Done.* `ReorderBuffer` implements `InOrderRetire`; `LookupNewestUnlessStraddling` for every size; window,
   retirement order, `EntriesAtWork`, `TagsOwned`, `WritersCounted` and `WaitersFed` of the whole pipeline; the types of a
   session; `ImplementsIsa` for programs on registers.
4. The queues as a component of their own (`IssueQueue`, `LoadStoreQueue`) with free callers. With free
   callers a ready entry can be overtaken for ever, because the order of issue is not by age alone; in
   the machine the full reorder buffer ends that, so the statement has to be made of both together.
5. Larger classes of programs for `PipelinePrograms`; loads, stores and branches in `ImplementsIsaCorrect`, for the classes
   in which the program does what the sequential machine does.

## 6. Not modelled

Printing (`print_*`, `get_inst_name`) changes nothing that a handler reads. The branch target buffer and the instruction snapshots of
`info/updates.md` have no code. `previous_arithmetic_check` and `get_cpu_forwarding_status` in
`forwarding.c` are never called.
