------------------------------ MODULE QueueOps -------------------------------
(***************************************************************************)
(* The issue queue and the load/store queue (ls_iq.c).  An entry keeps the *)
(* instruction (`op', the operands with their valid bits) and the cycles   *)
(* it has waited; removing an entry resets every field.  MaxAge bounds the *)
(* wait counters: the program's only overflow.                             *)
(***************************************************************************)
EXTENDS ApexTypes
LOCAL INSTANCE FiniteSetsExt

CONSTANTS IQ_SIZE, LSQ_SIZE, MaxAge

ASSUME QueueSizeAssumption ==
  IQ_SIZE \in Nat \ {0} /\ LSQ_SIZE \in Nat \ {0} /\ MaxAge \in Nat \ {0}

IqIndex  == 0 .. IQ_SIZE - 1
LsqIndex == 0 .. LSQ_SIZE - 1

\* The fields a latch, a queue entry and a writeback have in common.
NoOp == [inst_type |-> 0, pc |-> 0, rd |-> 0, rd_value |-> 0, rd_valid |-> INVALID,
         rs1 |-> 0, rs1_value |-> 0, rs1_valid |-> INVALID,
         rs2 |-> 0, rs2_value |-> 0, rs2_valid |-> INVALID,
         buffer |-> 0, mem_address |-> 0, lsq_index |-> -1]

FreeIqEntry  == [status |-> INVALID, stage_cycle |-> 0, op |-> NoOp]
FreeLsqEntry == [status |-> INVALID, stage_cycle |-> 0, mem_valid |-> INVALID, op |-> NoOp]

init_issue_queue == [i \in IqIndex |-> FreeIqEntry]
init_ls_queue    == [i \in LsqIndex |-> FreeLsqEntry]

HasFree(q)   == \E i \in DOMAIN q : q[i].status = INVALID
FirstFree(q) == CHOOSE i \in DOMAIN q :
                  q[i].status = INVALID /\ \A j \in 0 .. i - 1 : q[j].status # INVALID
Older(age)   == IF age < MaxAge THEN age + 1 ELSE age

add_issue_queue_entry(iq, op, lsq_index) ==
  [iq EXCEPT ![FirstFree(iq)] =
     [status |-> VALID, stage_cycle |-> 0, op |-> [op EXCEPT !.lsq_index = lsq_index]]]

\* A load starts with data_ready (the op's rd_valid) INVALID.
add_ls_queue_entry(lsq, op) ==
  [lsq EXCEPT ![FirstFree(lsq)] =
     [status |-> VALID, stage_cycle |-> 0, mem_valid |-> INVALID,
      op |-> [op EXCEPT !.rd_valid = IF op.inst_type \in Stores THEN @ ELSE INVALID]]]

Awaits1(op, tag) == op.rs1 = tag /\ op.rs1_valid = INVALID
Awaits2(op, tag) == op.rs2 = tag /\ op.rs2_valid = INVALID

\* Faulty: data that is there is taken for data that is awaited.
AwaitsDataAgain(op, tag) == op.inst_type \in Stores /\ op.rd = tag

\* The data register of a store is a third source.
AwaitsData(op, tag) ==
  op.inst_type \in Stores /\ op.rd = tag /\ op.rd_valid = INVALID

\* Every waiting operand with this register number takes the value: tags and
\* architectural numbers are compared alike.
TakeValue(op, tag, value) ==
  [op EXCEPT
     !.rs1_value = IF Awaits1(op, tag) THEN value ELSE @,
     !.rs1_valid = IF Awaits1(op, tag) THEN VALID ELSE @,
     !.rs2_value = IF Awaits2(op, tag) THEN value ELSE @,
     !.rs2_valid = IF Awaits2(op, tag) THEN VALID ELSE @,
     !.rd_value  = IF AwaitsData(op, tag) THEN value ELSE @,
     !.rd_valid  = IF AwaitsData(op, tag) THEN VALID ELSE @]

update_issue_queue_entry(iq, tag, value) ==
  [i \in IqIndex |-> IF iq[i].status = INVALID THEN iq[i]
                     ELSE [iq[i] EXCEPT !.op = TakeValue(@, tag, value)]]

update_ls_queue_entry_reg(lsq, tag, value) ==
  [i \in LsqIndex |->
     IF lsq[i].status = VALID /\ AwaitsData(lsq[i].op, tag)
     THEN [lsq[i] EXCEPT !.op.rd_value = value, !.op.rd_valid = VALID]
     ELSE lsq[i]]

update_ls_queue_entry_mem_address(lsq, op) ==
  IF op.lsq_index >= 0 /\ lsq[op.lsq_index].op.pc = op.pc
  THEN [lsq EXCEPT ![op.lsq_index].op.mem_address = op.mem_address,
                   ![op.lsq_index].mem_valid = VALID]
  ELSE lsq

\* Faulty: one of two operands is enough.
ReadyWithOneOperand(op) ==
  \/ op.inst_type \in {MOVC, BZ, BNZ}
  \/ op.inst_type \in OneSource /\ op.rs1_valid = VALID
  \/ op.inst_type \in TwoSource /\ (op.rs1_valid = VALID \/ op.rs2_valid = VALID)

\* Faulty: MOV is forgotten among the instructions with one operand.
ReadyWithoutMov(op) ==
  \/ op.inst_type \in {MOVC, BZ, BNZ}
  \/ op.inst_type \in OneSource \ {MOV} /\ op.rs1_valid = VALID
  \/ op.inst_type \in TwoSource /\ op.rs1_valid = VALID /\ op.rs2_valid = VALID

\* The operands an instruction needs before it may leave the issue queue.
ReadyToIssue(op) ==
  \/ op.inst_type \in {MOVC, BZ, BNZ}
  \/ op.inst_type \in OneSource /\ op.rs1_valid = VALID
  \/ op.inst_type \in TwoSource /\ op.rs1_valid = VALID /\ op.rs2_valid = VALID

\* An entry that stays has waited one more cycle.
Aged(e) == IF e.status = VALID THEN [e EXCEPT !.stage_cycle = Older(@)] ELSE e

\* Faulty: what has left keeps its entry.
LeaveKept(q, gone, free) == [i \in DOMAIN q |-> Aged(q[i])]

\* A queue when the entries `gone' have left for a unit.
Leave(q, gone, free) == [i \in DOMAIN q |-> IF i \in gone THEN free ELSE Aged(q[i])]

\* issue_index after the sort: the ready entries, -1 for the others.  The sort
\* swaps issue_index by ages it never swaps, so it does not sort by age: round i
\* passes the value at i through every later position with a greater age and
\* brings the last one's to i, a rotation of those positions.
IssueOrder(iq) ==
  LET age      == [i \in IqIndex |-> IF iq[i].status = VALID
                                     THEN Older(iq[i].stage_cycle) ELSE -1]
      ready    == [i \in IqIndex |-> IF iq[i].status = VALID /\ ReadyToIssue(iq[i].op)
                                     THEN i ELSE -1]
      cycle(i) == {i} \cup {j \in i + 1 .. IQ_SIZE - 1 : age[j] > age[i]}
      before(c, k) == IF \E j \in c : j < k THEN Max({j \in c : j < k}) ELSE Max(c)
      round[i \in 0 .. IQ_SIZE] ==
        IF i = 0 THEN ready
        ELSE LET f == round[i - 1]
                 c == cycle(i - 1)
             IN  [k \in IqIndex |-> IF k \in c THEN f[before(c, k)] ELSE f[k]]
  IN  IF \A i \in IqIndex : ready[i] = -1 THEN ready ELSE round[IQ_SIZE]

\* What the memory stage may take: an address, and data for a store.
ReadyForMemory(e) ==
  /\ e.status = VALID
  /\ e.mem_valid = VALID
  /\ e.op.inst_type \in Stores => e.op.rd_valid = VALID

\* The longest-waiting ready entries that have waited a cycle; the first is taken.
LsqCandidates(lsq) ==
  {i \in LsqIndex : /\ ReadyForMemory(lsq[i]) /\ lsq[i].stage_cycle > 0
                    /\ \A j \in LsqIndex : ReadyForMemory(lsq[j]) =>
                         \/ lsq[j].stage_cycle < lsq[i].stage_cycle
                         \/ lsq[j].stage_cycle = lsq[i].stage_cycle /\ i <= j}

=============================================================================
