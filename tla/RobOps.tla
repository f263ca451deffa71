------------------------------- MODULE RobOps --------------------------------
(***************************************************************************)
(* The operations of the reorder buffer (rob.c) on a value of APEX_ROB.    *)
(* Return codes that callers only print are left out.                      *)
(***************************************************************************)
EXTENDS ApexTypes

CONSTANT ROB_SIZE

ASSUME RobSizeAssumption == ROB_SIZE \in Nat \ {0}

RobIndex == 0 .. ROB_SIZE - 1

FreeRobEntry == [status |-> INVALID, inst_type |-> 0, inst_ptr |-> 0, rd |-> 0,
                 rd_value |-> 0, exception |-> 0, valid |-> INVALID]

init_reorder_buffer ==
  [commit_ptr |-> 0, issue_ptr |-> 0, buffer_length |-> 0,
   rob_entry |-> [i \in RobIndex |-> FreeRobEntry]]

\* A pointer may rest on ROB_SIZE; each operation folds it back when it starts.
Slot(ptr) == IF ptr = ROB_SIZE THEN 0 ELSE ptr

\* What a refused can_add or add leaves behind.
WrapIssuePtr(rob) == [rob EXCEPT !.issue_ptr = Slot(@)]

\* Faulty: the full buffer is not noticed.
can_add_always(rob) == TRUE

can_add_entry_in_reorder_buffer(rob) ==
  /\ rob.buffer_length # ROB_SIZE
  /\ rob.rob_entry[Slot(rob.issue_ptr)].status = INVALID

\* Faulty: the entry starts with its valid field set.
NewRobEntryValid(u) ==
  [status |-> VALID, inst_type |-> u.inst_type, inst_ptr |-> u.pc, rd |-> u.rd,
   rd_value |-> -1, exception |-> 0, valid |-> VALID]

NewRobEntry(u) ==
  [status |-> VALID, inst_type |-> u.inst_type, inst_ptr |-> u.pc, rd |-> u.rd,
   rd_value |-> -1, exception |-> 0,
   valid |-> IF u.inst_type = HALT THEN VALID ELSE INVALID]

add_reorder_buffer_entry(rob, u) ==
  IF can_add_entry_in_reorder_buffer(rob)
  THEN [rob EXCEPT !.rob_entry[Slot(rob.issue_ptr)] = NewRobEntry(u),
                   !.buffer_length = @ + 1,
                   !.issue_ptr = Slot(@) + 1]
  ELSE WrapIssuePtr(rob)

\* Faulty: the result goes to the oldest entry.
FirstMatchOldest(rob, pc, i) == i = Slot(rob.commit_ptr)

\* Faulty: the scan starts at index 1.
FirstMatchFromOne(rob, pc, i) ==
  /\ i # 0 /\ rob.rob_entry[i].status = VALID /\ rob.rob_entry[i].inst_ptr = pc

\* The scan starts at index 0, not at the oldest entry, and stops at the first
\* allocated entry with the address of the instruction that finished.
FirstMatch(rob, pc, i) ==
  LET Matches(j) == /\ rob.rob_entry[j].status = VALID
                    /\ rob.rob_entry[j].inst_ptr = pc
  IN  Matches(i) /\ \A j \in 0 .. i - 1 : ~Matches(j)

\* Only an instruction type equal to the stage number BRANCH sets exception.
FinishedEntry(e, u) ==
  [e EXCEPT !.rd_value = u.rd_value, !.valid = u.rd_valid,
            !.exception = IF u.inst_type = BRANCH THEN u.rd_valid ELSE @]

update_reorder_buffer_entry_data(rob, u) ==
  [rob EXCEPT !.rob_entry =
     [i \in RobIndex |-> IF FirstMatch(rob, u.pc, i) /\ @[i].rd = u.rd
                         THEN FinishedEntry(@[i], u)
                         ELSE @[i]]]

RobHead(rob) == rob.rob_entry[Slot(rob.commit_ptr)]

\* Faulty: the entry keeps its valid field.
commit_keeps_valid(rob) ==
  IF RobHead(rob).valid = INVALID
  THEN [rob EXCEPT !.commit_ptr = Slot(@)]
  ELSE [rob EXCEPT !.rob_entry[Slot(rob.commit_ptr)].status = INVALID,
                   !.buffer_length = @ - 1,
                   !.commit_ptr = Slot(@) + 1]

\* Looks at the head's valid field alone, never at buffer_length.
commit_reorder_buffer_entry(rob) ==
  IF RobHead(rob).valid = INVALID
  THEN [rob EXCEPT !.commit_ptr = Slot(@)]
  ELSE [rob EXCEPT !.rob_entry[Slot(rob.commit_ptr)] = FreeRobEntry,
                   !.buffer_length = @ - 1,
                   !.commit_ptr = Slot(@) + 1]

clear_reorder_buffer == init_reorder_buffer
-----------------------------------------------------------------------------
\* For the properties: the j-th slot from the commit pointer.
PositionIn(rob, j) ==
  LET c == Slot(rob.commit_ptr)
  IN  IF c + j < ROB_SIZE THEN c + j ELSE c + j - ROB_SIZE

\* The allocated entries are the buffer_length slots from commit_ptr on, the
\* issue pointer is just behind them, and what may commit is allocated.
IsWindow(rob) ==
  /\ Slot(rob.issue_ptr) = PositionIn(rob, rob.buffer_length)
  /\ \A j \in RobIndex :
       (rob.rob_entry[PositionIn(rob, j)].status = VALID) <=> (j < rob.buffer_length)
  /\ \A i \in RobIndex :
       rob.rob_entry[i].valid # INVALID => rob.rob_entry[i].status = VALID

=============================================================================
