-------------------------- MODULE PipelineProperties --------------------------
(***************************************************************************)
(* What the whole simulator promises.  Where an instruction is, and what   *)
(* it waits for, is stated for the moment between two cycles, when commit  *)
(* is the next handler.                                                    *)
(***************************************************************************)
EXTENDS Pipeline

Flag     == {INVALID, VALID}
Register == Regs \cup TagIndex

OpType ==
  [inst_type : {0} \cup InstTypes, pc : Nat,
   rd : Register, rd_value : Word, rd_valid : Flag,
   rs1 : Register, rs1_value : Word, rs1_valid : Flag,
   rs2 : Register, rs2_value : Word, rs2_valid : Flag,
   buffer : Word, mem_address : Int, lsq_index : LsqIndex \cup {-1}]

\* Every latch, queue and table keeps its range: no result leaves the machine
\* word, no operand names a register that does not exist, no stage counter
\* passes the memory latency.
TypeInv ==
  /\ pc \in Nat /\ zf \in Flag /\ ret \in {0, HALT} /\ retired \in Nat
  /\ regs \in [Regs -> Word] /\ regs_invalid \in [Regs -> 0 .. ROB_SIZE + 1]
  /\ data_memory \in [Arch!Address -> Word]
  /\ fetch_stage \in [op : OpType, stalled : Flag]
  /\ drf \in [op : OpType, stalled : Flag, executed : Flag]
  /\ stage \in [Units -> OpType]
  /\ mem_stage \in [stage_cycle : 0 .. 3, executed : Flag]
  /\ iq \in [IqIndex -> [status : Flag, stage_cycle : 0 .. MaxAge, op : OpType]]
  /\ lsq \in [LsqIndex -> [status : Flag, stage_cycle : 0 .. MaxAge,
                           mem_valid : Flag, op : OpType]]
  /\ rob.issue_ptr \in 0 .. ROB_SIZE /\ rob.commit_ptr \in 0 .. ROB_SIZE
  /\ rename.last_rename_pos \in TagIndex
  /\ \A t \in TagIndex : rename.reg_rename[t].rename_tag \in Regs
-----------------------------------------------------------------------------
(***************************************************************************)
(* Program order.                                                          *)
(***************************************************************************)
\* The machine implements the sequential one: instructions retire in its order
\* and every retirement leaves its register file, although operands come from
\* three forwarding paths and results arrive out of order.
ImplementsIsa == Arch!Spec

\* At the end of the run the data memory is the sequential machine's.  Memory is
\* written before the store retires, so only the end can be compared.
MemoryAtHalt == ret = HALT => data_memory = golden.mem

\* Straight-line code retires by increasing address whatever was lost or
\* delayed before the reorder buffer: an instruction never overtakes another.
CommitsInProgramOrder == [][retired' # retired => retired' > retired]_vars

\* The reorder buffer stays a window between its two pointers whoever touches
\* it: dispatch adds and folds, writeback scans from index 0, commit removes
\* without looking at the length, and a misprediction empties it in mid-cycle.
BufferIsWindow == IsWindow(rob)

\* Every program that ends in HALT stops the simulation.
Halts == <>(ret = HALT)
-----------------------------------------------------------------------------
(***************************************************************************)
(* Instructions are neither lost nor duplicated on their way.              *)
(***************************************************************************)
BetweenCycles == step = "commit"

Window  == {i \in RobIndex : rob.rob_entry[i].status = VALID}
Waiting == {iq[i].op : i \in {j \in IqIndex : iq[j].status = VALID}}
Memory  == {lsq[i].op : i \in {j \in LsqIndex : lsq[j].status = VALID}}
InUnits == {stage[u] : u \in {v \in Units : ~Empty(v)}}
AtWork  == Waiting \cup Memory \cup InUnits

Matches(e, op) == e.inst_ptr = op.pc /\ e.rd = op.rd /\ e.inst_type = op.inst_type

\* A reorder buffer entry without a result has its instruction in a queue or a
\* unit, and whatever is in a queue or a unit has such an entry: the buffer and
\* the queues are filled, drained and emptied by different handlers.
EntriesAtWork ==
  BetweenCycles =>
    /\ \A i \in Window :
         \/ rob.rob_entry[i].valid = VALID
         \/ \E op \in AtWork : Matches(rob.rob_entry[i], op)
    /\ \A op \in AtWork :
         \E i \in Window : Matches(rob.rob_entry[i], op) /\ rob.rob_entry[i].valid = INVALID

\* What decode has handed to dispatch is in the reorder buffer before the next
\* instruction replaces it: a stall holds both front latches.
DecodedIsDispatched ==
  [][/\ step = "push_front"
     /\ drf.op.inst_type \in MemOps \cup (MOVC .. JUMP)
     /\ drf'.op # drf.op
     => \E i \in Window : Matches(rob.rob_entry[i], drf.op)]_vars
-----------------------------------------------------------------------------
(***************************************************************************)
(* Operands and tags.                                                      *)
(***************************************************************************)
IsWriter(i, tag) == rob.rob_entry[i].inst_type \in Writers /\ rob.rob_entry[i].rd = tag
Produced(tag)    == \E i \in Window : IsWriter(i, tag)

\* An operand that is still invalid will get its value: the instruction that
\* owns the tag has not left the reorder buffer, so at least the broadcast of
\* its commit is to come.  Three broadcasts and the register file can each be
\* missed by an instruction on its way from decode to the queues.
WaitersFed ==
  BetweenCycles =>
    \A op \in Waiting \cup Memory \cup {drf.op} :
      /\ (op \notin Memory /\ op.inst_type \in OneSource \cup TwoSource
                           /\ op.rs1_valid = INVALID) => Produced(op.rs1)
      /\ (op \notin Memory /\ op.inst_type \in TwoSource
                           /\ op.rs2_valid = INVALID) => Produced(op.rs2)
      /\ (op.inst_type \in Stores /\ op.rd_valid = INVALID) => Produced(op.rd)

Owners(tag) ==
  {i \in Window : IsWriter(i, tag)}
    \cup (IF drf.op.inst_type \in Writers /\ drf.op.rd = tag THEN {ROB_SIZE} ELSE {})

\* A tag is valid exactly while one instruction between decode and commit owns
\* it: decode takes tags, commit gives them back.
TagsOwned ==
  BetweenCycles =>
    \A t \in TagIndex :
      Cardinality(Owners(t)) = IF rename.reg_rename[t].tag_valid = VALID THEN 1 ELSE 0

\* regs_invalid counts the writers of a register that have left the issue queue
\* and have not committed: it is incremented in the first stage of two units
\* and decremented in commit, both through the rename table.
WritersCounted ==
  BetweenCycles =>
    \A r \in Regs :
      regs_invalid[r] =
        Cardinality({i \in Window :
          /\ rob.rob_entry[i].inst_type \in Writers
          /\ rename.reg_rename[rob.rob_entry[i].rd].rename_tag = r
          /\ \A op \in Waiting : ~Matches(rob.rob_entry[i], op)})

\* A writer leaves decode with a tag of its own, and waits there for as long as
\* none is free, as for any other resource (the project handout, dispatch).
EveryWriterRenamed ==
  [][step = "decode" /\ drf.stalled = INVALID /\ drf.op.inst_type \in Writers
     /\ drf'.executed = VALID
     => rename' # rename]_vars

\* Of two writers of a register in flight the newer one has the higher tag:
\* tags are taken in a circle, but decode reads a register through the highest
\* tag that names it.
NewerTagIsHigher ==
  \A i, j \in Window :
    /\ rob.rob_entry[i].inst_type \in Writers /\ rob.rob_entry[j].inst_type \in Writers
    /\ rename.reg_rename[rob.rob_entry[i].rd].rename_tag =
         rename.reg_rename[rob.rob_entry[j].rd].rename_tag
    /\ rob.rob_entry[i].inst_ptr < rob.rob_entry[j].inst_ptr
    => rob.rob_entry[i].rd < rob.rob_entry[j].rd
-----------------------------------------------------------------------------
(***************************************************************************)
(* What the project's documents ask of memory operations and jumps.        *)
(***************************************************************************)
\* A memory instruction waits until it is the head of the reorder buffer
\* (info/updates.md, questions and answers).
MemoryAtRobHead ==
  [][step = "issue" /\ stage'["MEM"] # stage["MEM"]
     => Head0.inst_ptr = stage'["MEM"].pc]_vars

\* A jump that waits in the issue queue gets to the branch unit, which computes
\* its target (info/updates.md).
JumpsReachBranchUnit ==
  (\E op \in Waiting : op.inst_type = JUMP) ~> stage["BRANCH"].inst_type = JUMP

=============================================================================
