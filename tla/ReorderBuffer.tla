---------------------------- MODULE ReorderBuffer ----------------------------
(***************************************************************************)
(* The reorder buffer and its callers: dispatch_instruction adds,          *)
(* writeback_stage updates, commit_instruction removes the head.  The rest *)
(* of the pipeline is `executing': instructions dispatched to a queue or a *)
(* function unit whose result has not reached the buffer.  Those `inUnit'  *)
(* are in the unit that delivers it; they finish in any order.  HALT goes  *)
(* to no queue and JUMP to no unit.                                        *)
(***************************************************************************)
EXTENDS RobOps, FiniteSets, Sequences

CONSTANTS Code,      \* instruction memory: address -> instruction type
          Tags,      \* physical registers
          Values,    \* results
          Reentry    \* may an address be dispatched again while it is in flight?

\* dispatch_instruction has no case for NOP.
ASSUME CodeAssumption == \A pc \in DOMAIN Code : Code[pc] \in InstTypes \ {NOP}
ASSUME DataAssumption ==
  /\ DOMAIN Code \subseteq Int /\ Tags \subseteq Int /\ Values \subseteq Int
  /\ Reentry \in BOOLEAN

Pcs == DOMAIN Code

VARIABLES rob, executing, inUnit

vars == <<rob, executing, inUnit>>

Uop == [pc : Pcs, rd : Tags \cup {0}, inst_type : InstTypes]

Allocated == {i \in RobIndex : rob.rob_entry[i].status = VALID}

Init == rob = init_reorder_buffer /\ executing = {} /\ inUnit = {}

\* HALT stays in the decode latch and is dispatched again every cycle.
MayDispatch(pc) ==
  \/ Reentry
  \/ Code[pc] = HALT
  \/ /\ \A i \in Allocated : rob.rob_entry[i].inst_ptr # pc
     /\ \A u \in executing : u.pc # pc

\* Decode gave a writer a tag that no instruction in flight owns.
TagFor(type) ==
  IF type \in Writers THEN Tags \ {rob.rob_entry[i].rd : i \in Allocated} ELSE {0}

Dispatch(pc, rd) ==
  LET u == [pc |-> pc, rd |-> rd, inst_type |-> Code[pc]] IN
  /\ MayDispatch(pc)
  /\ can_add_entry_in_reorder_buffer(rob)
  /\ rob' = add_reorder_buffer_entry(rob, u)
  /\ executing' = IF u.inst_type = HALT THEN executing ELSE executing \cup {u}
  /\ UNCHANGED inUnit

\* The instruction is refused; asking has folded the pointer.
DispatchStalls ==
  /\ ~can_add_entry_in_reorder_buffer(rob)
  /\ rob' = WrapIssuePtr(rob)
  /\ UNCHANGED <<executing, inUnit>>

\* From the issue queue, or the load-store queue for a memory access.  When it
\* is ready is not modelled: a missed operand may keep it queued for ever, and
\* an access behind the data memory, which MEM never finishes, counts as queued.
Issue(u) ==
  /\ u \in executing \ inUnit /\ u.inst_type # JUMP
  /\ inUnit' = inUnit \cup {u}
  /\ UNCHANGED <<rob, executing>>

\* branch_stage leaves rd_valid INVALID when a branch is not taken.
Writeback(u, v, ok) ==
  /\ u \in inUnit
  /\ u.inst_type \in Branches \/ ok = VALID
  /\ rob' = update_reorder_buffer_entry_data(rob,
              [pc |-> u.pc, rd |-> u.rd, inst_type |-> u.inst_type,
               rd_value |-> v, rd_valid |-> ok])
  /\ executing' = executing \ {u} /\ inUnit' = inUnit \ {u}

\* The recovery branch of commit_instruction; zf is the zero flag of that cycle.
Recovers(e, zf) ==
  /\ e.exception # 0
  /\ \/ e.inst_type = BZ  /\ zf = VALID
     \/ e.inst_type = BNZ /\ zf = INVALID

Commit ==
  /\ RobHead(rob).valid # INVALID
  /\ \E zf \in {INVALID, VALID} :
       rob' = IF Recovers(RobHead(rob), zf) THEN clear_reorder_buffer
              ELSE commit_reorder_buffer_entry(rob)
  /\ UNCHANGED <<executing, inUnit>>

CommitWaits ==
  /\ RobHead(rob).valid = INVALID
  /\ rob' = commit_reorder_buffer_entry(rob)
  /\ UNCHANGED <<executing, inUnit>>

SomeDispatch  == \E pc \in Pcs : \E rd \in TagFor(Code[pc]) : Dispatch(pc, rd)
SomeIssue     == \E u \in executing : Issue(u)
SomeWriteback ==
  \E u \in inUnit, v \in Values, ok \in {INVALID, VALID} : Writeback(u, v, ok)

Next == SomeDispatch \/ DispatchStalls \/ SomeIssue \/ SomeWriteback \/ Commit \/ CommitWaits

Spec == Init /\ [][Next]_vars

(***************************************************************************)
(* APEX_cpu_run calls commit_instruction in every cycle, and a unit works  *)
(* on an instruction for a fixed number of cycles.  Nothing makes sure     *)
(* that a queued instruction ever reaches a unit, so Issue has no fairness.*)
(***************************************************************************)
FairSpec ==
  /\ Spec
  /\ WF_vars(Commit)
  /\ \A pc \in Pcs :
       WF_vars(\E u \in {e \in inUnit : e.pc = pc}, v \in Values,
                  ok \in {INVALID, VALID} : Writeback(u, v, ok))
-----------------------------------------------------------------------------
(***************************************************************************)
(* Properties.                                                             *)
(***************************************************************************)
RobEntry ==
  [status : {INVALID, VALID}, inst_type : {0} \cup InstTypes, inst_ptr : Pcs \cup {0},
   rd : Tags \cup {0}, rd_value : Values \cup {-1, 0}, exception : {0, 1},
   valid : {INVALID, VALID}]

\* Every field of the buffer keeps its range; the pointers may rest on ROB_SIZE.
TypeInv ==
  /\ rob \in [commit_ptr : 0 .. ROB_SIZE, issue_ptr : 0 .. ROB_SIZE,
              buffer_length : 0 .. ROB_SIZE, rob_entry : [RobIndex -> RobEntry]]
  /\ executing \subseteq Uop /\ inUnit \subseteq executing

\* The j-th slot from the commit pointer, around the end of the array.
Position(j) ==
  LET c == Slot(rob.commit_ptr)
  IN  IF c + j < ROB_SIZE THEN c + j ELSE c + j - ROB_SIZE

\* The allocated entries are the buffer_length slots from commit_ptr on, the
\* issue pointer is just behind them, and nothing outside them can commit:
\* rob.c keeps status, valid, the length and two lazily folded pointers apart
\* and commit trusts the valid field alone.
WindowInv ==
  /\ Slot(rob.issue_ptr) = Position(rob.buffer_length)
  /\ \A j \in RobIndex :
       (rob.rob_entry[Position(j)].status = VALID) <=> (j < rob.buffer_length)
  /\ \A i \in RobIndex :
       rob.rob_entry[i].valid = VALID => rob.rob_entry[i].status = VALID

\* An entry without a result still has its own instruction at work, or is a
\* branch: no update reaches the wrong entry while addresses are not re-entered.
\* (An untaken branch is written back with valid INVALID and stays so.)
NothingStranded ==
  \A i \in Allocated :
    LET e == rob.rob_entry[i] IN
    \/ e.valid = VALID
    \/ e.inst_type \in Branches
    \/ \E u \in executing : u.pc = e.inst_ptr /\ u.rd = e.rd

AbstractEntry(e) ==
  [pc |-> e.inst_ptr, rd |-> e.rd, inst_type |-> e.inst_type,
   value |-> e.rd_value, valid |-> e.valid]

\* The abstract queue: the allocated entries, oldest first.
AbstractWindow ==
  [k \in 1 .. rob.buffer_length |-> AbstractEntry(rob.rob_entry[Position(k - 1)])]

EnteringEntries ==
  {[pc |-> pc, rd |-> rd, inst_type |-> Code[pc], value |-> -1,
    valid |-> IF Code[pc] = HALT THEN VALID ELSE INVALID] :
     pc \in Pcs, rd \in Tags \cup {0}}

Retirement == INSTANCE InOrderRetire
                WITH Capacity <- ROB_SIZE, Entries <- EnteringEntries,
                     Results <- Values, window <- AbstractWindow

\* The circular buffer is an in-order queue: results arrive once, instructions
\* leave oldest first, and the misprediction recovery never empties it.
RetiresInOrder == Retirement!Spec

\* A branch that was not taken: written back, and never allowed to commit.
Untaken(i) ==
  LET e == rob.rob_entry[i] IN
  /\ e.inst_type \in Branches /\ e.valid = INVALID
  /\ \A u \in executing : u.pc # e.inst_ptr

\* The oldest entry has no result, and for a reason outside the buffer: its
\* instruction is still queued, or it is an untaken branch.
HeadWaits ==
  LET h == Slot(rob.commit_ptr)
  IN  /\ h \in Allocated /\ rob.rob_entry[h].valid = INVALID
      /\ \/ Untaken(h)
         \/ \E u \in executing \ inUnit : u.pc = rob.rob_entry[h].inst_ptr

InBuffer(pc) == \E i \in Allocated : rob.rob_entry[i].inst_ptr = pc

\* Nothing stays in the buffer for ever unless the oldest instruction waits for
\* ever in front of the units or is an untaken branch: the buffer itself never
\* blocks, since no result goes to a wrong entry and no entry is skipped.
\* HALT is left out: its copies follow each other without a gap.
EveryEntryRetires ==
  \A pc \in Pcs :
    Code[pc] # HALT => ([]<>~InBuffer(pc) \/ <>[]HeadWaits)

=============================================================================
