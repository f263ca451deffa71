---------------------------- MODULE PipelineProofs ----------------------------
(***************************************************************************)
(* What holds of the whole simulator for every program: the reorder buffer *)
(* stays a window; and for every program without conditional branches:     *)
(* instructions retire by address, and none is lost or duplicated between  *)
(* dispatch and retirement.  Sizes, registers and word are arbitrary.      *)
(***************************************************************************)
EXTENDS PipelineProperties, RobOpsProofs, WellFoundedInduction

(***************************************************************************)
(* The window.  Only commit, writeback and dispatch touch the buffer.      *)
(***************************************************************************)
\* What writeback does for one unit: nothing, deliver an address, finish a
\* branch, or broadcast a result.
Idles(u)     == Empty(u) \/ (u = "MEM" /\ mem_stage.executed = INVALID)
Delivers(u)  == u = "INT_TWO" /\ stage[u].inst_type \in MemOps
Delivered(w, u) == [w EXCEPT !.lsq = update_ls_queue_entry_mem_address(w.lsq, stage[u])]
Finished(w, u)  == [w EXCEPT !.rob = update_reorder_buffer_entry_data(w.rob, stage[u])]
Broadcast(f, u) ==
  [f EXCEPT
     !.iq  = update_issue_queue_entry(f.iq, stage[u].rd, stage[u].rd_value),
     !.lsq = update_ls_queue_entry_reg(f.lsq, stage[u].rd, stage[u].rd_value),
     !.drf = ForwardToDecode(f.drf, stage[u].rd, stage[u].rd_value, stage[u].rd_valid)]

LEMMA WriteUnitIs ==
  ASSUME NEW w, NEW u
  PROVE  WriteUnit(w, u) = IF Idles(u) THEN w ELSE IF Delivers(u) THEN Delivered(w, u)
                           ELSE IF u = "BRANCH" THEN Finished(w, u) ELSE Broadcast(Finished(w, u), u)
  BY Zenon DEF WriteUnit, Idles, Delivers, Delivered, Finished, Broadcast

LEMMA WriteUnitIdle ==
  ASSUME NEW w, NEW u, Empty(u) \/ (u = "MEM" /\ mem_stage.executed = INVALID)
  PROVE  WriteUnit(w, u) = w
  BY WriteUnitIs DEF Idles

LEMMA WriteUnitAddress ==
  ASSUME NEW w, NEW u, ~ (Empty(u) \/ (u = "MEM" /\ mem_stage.executed = INVALID)),
         u = "INT_TWO", stage[u].inst_type \in MemOps
  PROVE  WriteUnit(w, u) = [w EXCEPT !.lsq = update_ls_queue_entry_mem_address(w.lsq, stage[u])]
<1>1. WriteUnit(w, u) = Delivered(w, u)
  BY WriteUnitIs DEF Idles, Delivers
<1> QED BY <1>1 DEF Delivered

LEMMA WriteUnitResult ==
  ASSUME NEW w, NEW u, ~ (Empty(u) \/ (u = "MEM" /\ mem_stage.executed = INVALID)),
         ~ (u = "INT_TWO" /\ stage[u].inst_type \in MemOps)
  PROVE  LET op       == stage[u]
             finished == [w EXCEPT !.rob = update_reorder_buffer_entry_data(w.rob, op)]
         IN  /\ u = "BRANCH" => WriteUnit(w, u) = finished
             /\ u # "BRANCH" => WriteUnit(w, u) =
                  [finished EXCEPT
                     !.iq  = update_issue_queue_entry(w.iq, op.rd, op.rd_value),
                     !.lsq = update_ls_queue_entry_reg(w.lsq, op.rd, op.rd_value),
                     !.drf = ForwardToDecode(w.drf, op.rd, op.rd_value, op.rd_valid)]
<1> DEFINE f == Finished(w, u)
<1>1. /\ u = "BRANCH" => WriteUnit(w, u) = f
      /\ u # "BRANCH" => WriteUnit(w, u) = Broadcast(f, u)
  BY WriteUnitIs DEF Idles, Delivers
<1>2. f.iq = w.iq /\ f.lsq = w.lsq /\ f.drf = w.drf
  <2> DEFINE r == update_reorder_buffer_entry_data(w.rob, stage[u])
  <2> HIDE DEF r
  <2> QED BY DEF Finished, r
<1> HIDE DEF f
<1>3. Broadcast(f, u) =
        [f EXCEPT
           !.iq  = update_issue_queue_entry(w.iq, stage[u].rd, stage[u].rd_value),
           !.lsq = update_ls_queue_entry_reg(w.lsq, stage[u].rd, stage[u].rd_value),
           !.drf = ForwardToDecode(w.drf, stage[u].rd, stage[u].rd_value, stage[u].rd_valid)]
  BY <1>2, Zenon DEF Broadcast
<1> QED BY <1>1, <1>3, Zenon DEF f, Finished

\* Writeback hands the buffer nothing but results.
LEMMA WriteUnitRobInv ==
  ASSUME NEW w, "rob" \in DOMAIN w, RobInv(w.rob), NEW u
  PROVE  "rob" \in DOMAIN WriteUnit(w, u) /\ RobInv(WriteUnit(w, u).rob)
<1> DEFINE new == update_reorder_buffer_entry_data(w.rob, stage[u])
<1>1. RobInv(new)
  BY UpdateRobInv
<1>2. /\ "rob" \in DOMAIN WriteUnit(w, u)
      /\ WriteUnit(w, u).rob = w.rob \/ WriteUnit(w, u).rob = new
  <2> DEFINE idle == Empty(u) \/ (u = "MEM" /\ mem_stage.executed = INVALID)
             addr == u = "INT_TWO" /\ stage[u].inst_type \in MemOps
             finished == [w EXCEPT !.rob = new]
  <2>1. "rob" \in DOMAIN finished /\ finished.rob = new
    OBVIOUS
  <2>2. CASE idle
    BY <2>2, WriteUnitIdle
  <2>3. CASE ~idle /\ addr
    BY <2>3, WriteUnitAddress
  <2>4. CASE ~idle /\ ~addr /\ u = "BRANCH"
    <3>1. WriteUnit(w, u) = finished
      BY <2>4, WriteUnitResult
    <3> HIDE DEF finished
    <3> QED BY <2>1, <3>1
  <2>5. CASE ~idle /\ ~addr /\ u # "BRANCH"
    <3> DEFINE op == stage[u]
               i == update_issue_queue_entry(w.iq, op.rd, op.rd_value)
               l == update_ls_queue_entry_reg(w.lsq, op.rd, op.rd_value)
               d == ForwardToDecode(w.drf, op.rd, op.rd_value, op.rd_valid)
    <3>1. WriteUnit(w, u) = [finished EXCEPT !.iq = i, !.lsq = l, !.drf = d]
      BY <2>5, WriteUnitResult
    <3> HIDE DEF finished, i, l, d
    <3> QED BY <2>1, <3>1
  <2> QED BY <2>2, <2>3, <2>4, <2>5
<1> QED BY <1>1, <1>2

LEMMA CommitRobStep == ASSUME RobInv(rob), Commit PROVE RobInv(rob')
<1>1. rob' = commit_reorder_buffer_entry(rob) \/ rob' = init_reorder_buffer
  BY DEF Commit, CommitNothing, CommitHalt, CommitStoreOrJump, CommitBranch, CommitResult,
         clear_reorder_buffer
<1> QED BY <1>1, CommitRobInv, InitRobInv

LEMMA WritebackRobStep == ASSUME RobInv(rob), Writeback PROVE RobInv(rob')
<1> DEFINE start  == [rob |-> rob, iq |-> iq, lsq |-> lsq, drf |-> drf]
           int    == WriteUnit(start, "INT_TWO")
           mul    == WriteUnit(int, "MUL_THREE")
           branch == WriteUnit(mul, "BRANCH")
           w      == WriteUnit(branch, "MEM")
<1>1. "rob" \in DOMAIN start /\ RobInv(start.rob)
  OBVIOUS
<1>2. rob' = w.rob
  BY DEF Writeback
<1> HIDE DEF start
<1>3. "rob" \in DOMAIN int /\ RobInv(int.rob)
  BY <1>1, WriteUnitRobInv
<1> HIDE DEF int
<1>4. "rob" \in DOMAIN mul /\ RobInv(mul.rob)
  BY <1>3, WriteUnitRobInv
<1> HIDE DEF mul
<1>5. "rob" \in DOMAIN branch /\ RobInv(branch.rob)
  BY <1>4, WriteUnitRobInv
<1> HIDE DEF branch
<1>6. RobInv(w.rob)
  BY <1>5, WriteUnitRobInv
<1> QED BY <1>2, <1>6

\* What dispatch may leave behind.
LEMMA DispatchRob ==
  ASSUME Dispatch
  PROVE  \/ rob' = rob
         \/ rob' = WrapIssuePtr(rob)
         \/ rob' = add_reorder_buffer_entry(rob, drf.op)
<1>1. CASE drf.executed = VALID /\ drf.op.inst_type \in MemOps \cup (MOVC .. HALT)
  <2>1. CASE DispatchMemory
    BY <2>1 DEF DispatchMemory
  <2>2. CASE DispatchOther
    BY <2>2 DEF DispatchOther
  <2>3. CASE DispatchHalt
    BY <2>3 DEF DispatchHalt
  <2> QED BY <1>1, <2>1, <2>2, <2>3 DEF Dispatch
<1>2. CASE ~(drf.executed = VALID /\ drf.op.inst_type \in MemOps \cup (MOVC .. HALT))
  BY <1>2 DEF Dispatch, queueVars
<1> QED BY <1>1, <1>2

LEMMA DispatchRobStep == ASSUME RobInv(rob), Dispatch PROVE RobInv(rob')
<1>1. RobInv(WrapIssuePtr(rob))
  BY FoldKeeps, SameBufferRobInv DEF WrapIssuePtr
<1>2. RobInv(add_reorder_buffer_entry(rob, drf.op))
  BY AddRobInv
<1> QED BY <1>1, <1>2, DispatchRob

\* For every program and all sizes the reorder buffer is a window between its
\* pointers after every handler.
THEOREM BufferIsWindowCorrect == Spec => []BufferIsWindow
<1>1. Init => RobInv(rob)
  BY InitRobInv DEF Init
<1>2. RobInv(rob) /\ [Next]_vars => RobInv(rob)'
  <2> SUFFICES ASSUME RobInv(rob), [Next]_vars PROVE RobInv(rob')
    OBVIOUS
  <2>1. CASE Commit
    BY <2>1, CommitRobStep
  <2>2. CASE Writeback
    BY <2>2, WritebackRobStep
  <2>3. CASE Dispatch
    BY <2>3, DispatchRobStep
  <2>4. CASE \/ Issue \/ IntOne \/ IntTwo \/ MulOne \/ MulThree \/ Branch \/ Mem
             \/ PushFront \/ Decode \/ Fetch \/ PushUnits
    <3>1. rob' = rob
      BY <2>4 DEF Issue, IntOne, IntTwo, MulOne, MulThree, Branch, Mem, PushFront, Decode,
                  Fetch, PushUnits, execKeeps, queueVars
    <3> QED BY <3>1
  <2>5. CASE UNCHANGED vars
    BY <2>5 DEF vars, queueVars
  <2> QED BY <2>1, <2>2, <2>3, <2>4, <2>5 DEF Next
<1>3. RobInv(rob) => BufferIsWindow
  BY DEF RobInv, BufferIsWindow
<1> QED BY <1>1, <1>2, <1>3, PTL DEF Spec

-----------------------------------------------------------------------------
(***************************************************************************)
(* Retirement order.  A program without conditional branches never goes    *)
(* back: jumps have no unit.  So addresses rise from the buffer through    *)
(* the two front latches to pc, whatever is lost, delayed or forwarded.    *)
(***************************************************************************)
\* No instruction that can be read is a conditional branch.
StraightLine ==
  /\ \A c \in Programs : \A i \in DOMAIN c : c[i].inst_type \notin Branches
  /\ \A in \in BeyondCode : in.inst_type \notin Branches

PlainOp(op) ==
  /\ {"inst_type", "pc"} \subseteq DOMAIN op
  /\ op.pc \in Int /\ op.inst_type \notin Branches

Latch(l) == "op" \in DOMAIN l /\ PlainOp(l.op)

\* DRF is not younger than F, F not younger than the next fetch.
FrontInv ==
  /\ Latch(drf) /\ Latch(fetch_stage) /\ pc \in Int
  /\ drf.op.pc <= fetch_stage.op.pc /\ fetch_stage.op.pc <= pc

PlainQueue(q) ==
  /\ IqIndex \subseteq DOMAIN q
  /\ \A i \in IqIndex : /\ "op" \in DOMAIN q[i] /\ "inst_type" \in DOMAIN q[i].op
                        /\ q[i].op.inst_type \notin Branches

BranchUnitIdle == Units \subseteq DOMAIN stage /\ stage["BRANCH"].inst_type = 0

OrderInv ==
  /\ code \in Programs
  /\ FrontInv
  /\ PlainQueue(iq)
  /\ BranchUnitIdle
  /\ RobInv(rob)
  /\ RobOrder(rob, retired, drf.op.pc)

\* A value that reaches DRF changes neither the instruction nor its address.
LEMMA ForwardKeepsLatch ==
  ASSUME NEW d, Latch(d), NEW tag, NEW value, NEW valid
  PROVE  LET e == ForwardToDecode(d, tag, value, valid)
         IN  Latch(e) /\ e.op.pc = d.op.pc
<1> DEFINE o == ForwardToDecode(d, tag, value, valid).op
<1>1. PlainOp(o) /\ o.pc = d.op.pc
  BY DEF ForwardToDecode, Latch, PlainOp
<1>2. "op" \in DOMAIN ForwardToDecode(d, tag, value, valid)
  BY DEF ForwardToDecode, Latch
<1> QED BY <1>1, <1>2 DEF Latch

\* Nor does it bring a branch into the issue queue.
LEMMA BroadcastKeepsQueue ==
  ASSUME NEW q, PlainQueue(q), NEW tag, NEW value
  PROVE  PlainQueue(update_issue_queue_entry(q, tag, value))
<1> DEFINE new == update_issue_queue_entry(q, tag, value)
<1>1. DOMAIN new = IqIndex
  BY DEF update_issue_queue_entry
<1>2. ASSUME NEW i \in IqIndex
      PROVE  /\ "op" \in DOMAIN new[i] /\ "inst_type" \in DOMAIN new[i].op
             /\ new[i].op.inst_type \notin Branches
  <2> DEFINE o == TakeValue(q[i].op, tag, value)
  <2>1. new[i] = q[i] \/ new[i] = [q[i] EXCEPT !.op = o]
    BY DEF update_issue_queue_entry
  <2>2. "inst_type" \in DOMAIN o /\ o.inst_type = q[i].op.inst_type
    BY DEF TakeValue, PlainQueue
  <2> HIDE DEF o, new
  <2> QED BY <2>1, <2>2 DEF PlainQueue
<1> QED BY <1>1, <1>2 DEF PlainQueue

\* Writeback: the buffer and DRF keep their addresses, the queue its types.
WriteInv(w, low, high) ==
  /\ {"rob", "iq", "lsq", "drf"} \subseteq DOMAIN w
  /\ RobInv(w.rob) /\ RobOrder(w.rob, low, high)
  /\ PlainQueue(w.iq)
  /\ Latch(w.drf) /\ w.drf.op.pc = high

LEMMA WriteUnitKeeps ==
  ASSUME NEW w, NEW low, NEW high, WriteInv(w, low, high), NEW u
  PROVE  WriteInv(WriteUnit(w, u), low, high)
<1> DEFINE op == stage[u]
           buffer == update_reorder_buffer_entry_data(w.rob, op)
           queue  == update_issue_queue_entry(w.iq, op.rd, op.rd_value)
           decode == ForwardToDecode(w.drf, op.rd, op.rd_value, op.rd_valid)
           idle == Empty(u) \/ (u = "MEM" /\ mem_stage.executed = INVALID)
           addr == u = "INT_TWO" /\ op.inst_type \in MemOps
           finished == [w EXCEPT !.rob = buffer]
<1>1. RobInv(buffer) /\ RobOrder(buffer, low, high)
  BY UpdateRobInv, UpdateRobOrder DEF WriteInv
<1>2. PlainQueue(queue)
  BY BroadcastKeepsQueue DEF WriteInv
<1>3. Latch(decode) /\ decode.op.pc = high
  BY ForwardKeepsLatch DEF WriteInv
<1>4. CASE idle
  BY <1>4, WriteUnitIdle
<1>5. CASE ~idle /\ addr
  <2> DEFINE l == update_ls_queue_entry_mem_address(w.lsq, op)
  <2>1. WriteUnit(w, u) = [w EXCEPT !.lsq = l]
    BY <1>5, WriteUnitAddress
  <2> HIDE DEF l
  <2> QED BY <2>1 DEF WriteInv
<1>6. CASE ~idle /\ ~addr /\ u = "BRANCH"
  <2>1. WriteUnit(w, u) = finished
    BY <1>6, WriteUnitResult
  <2> HIDE DEF buffer, queue, decode
  <2> QED BY <1>1, <2>1 DEF WriteInv
<1>7. CASE ~idle /\ ~addr /\ u # "BRANCH"
  <2> DEFINE l == update_ls_queue_entry_reg(w.lsq, op.rd, op.rd_value)
  <2>1. WriteUnit(w, u) = [finished EXCEPT !.iq = queue, !.lsq = l, !.drf = decode]
    BY <1>7, WriteUnitResult
  <2> HIDE DEF buffer, queue, decode, l
  <2> QED BY <1>1, <1>2, <1>3, <2>1 DEF WriteInv
<1> QED BY <1>4, <1>5, <1>6, <1>7

LEMMA WritebackOrderStep == ASSUME OrderInv, Writeback PROVE OrderInv' /\ retired' = retired
<1> DEFINE start  == [rob |-> rob, iq |-> iq, lsq |-> lsq, drf |-> drf]
           int    == WriteUnit(start, "INT_TWO")
           mul    == WriteUnit(int, "MUL_THREE")
           branch == WriteUnit(mul, "BRANCH")
           w      == WriteUnit(branch, "MEM")
           Keeps(v) == WriteInv(v, retired, drf.op.pc)
<1>1. Keeps(start)
  BY DEF OrderInv, FrontInv, WriteInv
<1>2. rob' = w.rob /\ iq' = w.iq /\ drf' = w.drf
  BY DEF Writeback
<1> HIDE DEF start
<1>3. Keeps(int)
  BY <1>1, WriteUnitKeeps
<1> HIDE DEF int
<1>4. Keeps(mul)
  BY <1>3, WriteUnitKeeps
<1> HIDE DEF mul
<1>5. Keeps(branch)
  BY <1>4, WriteUnitKeeps
<1> HIDE DEF branch
<1>6. Keeps(w)
  BY <1>5, WriteUnitKeeps
<1>7. UNCHANGED <<code, retired, stage, fetch_stage, pc>>
  BY DEF Writeback, frontVars, backVars, histVars
<1> HIDE DEF w
<1> QED BY <1>2, <1>6, <1>7 DEF OrderInv, WriteInv, FrontInv, BranchUnitIdle

\* Commit takes the least address; without branches it discards nothing.
LEMMA CommitOrderStep == ASSUME OrderInv, Commit PROVE OrderInv' /\ retired <= retired'
<1>1. UNCHANGED <<code, stage>>
  BY DEF Commit, CommitNothing, CommitHalt, CommitStoreOrJump, CommitBranch, CommitResult,
         backVars, histVars
<1>2. RobInv(rob) /\ RobOrder(rob, retired, drf.op.pc) /\ retired \in Int
  BY DEF OrderInv, RobOrder
<1>3. CASE CommitNothing
  <2>1. rob' = [rob EXCEPT !.commit_ptr = Slot(@)]
    BY <1>3 DEF CommitNothing, commit_reorder_buffer_entry, Head0
  <2>2. RobInv(rob') /\ RobOrder(rob', retired, drf.op.pc)
    BY <1>2, <2>1, FoldKeeps, SameBufferRobInv, FoldRobOrder
  <2>3. UNCHANGED <<retired, fetch_stage, pc, drf, iq>>
    BY <1>3 DEF CommitNothing, frontVars, histVars
  <2> QED BY <1>1, <1>2, <2>2, <2>3 DEF OrderInv, FrontInv, BranchUnitIdle
<1>4. CASE CommitHalt \/ CommitStoreOrJump \/ CommitBranch \/ CommitResult
  <2>1. Head0.valid # INVALID /\ retired' = Head0.inst_ptr
    BY <1>4 DEF CommitHalt, CommitStoreOrJump, CommitBranch, CommitResult, Retire
  <2>2. /\ retired <= retired' /\ retired' \in Int
        /\ Head0.inst_type \notin Branches
        /\ RobOrder(commit_reorder_buffer_entry(rob), retired', drf.op.pc)
        /\ RobInv(commit_reorder_buffer_entry(rob))
    BY <1>2, <2>1, CommitRobOrder, CommitRobInv DEF Head0
  <2>3. rob' = commit_reorder_buffer_entry(rob) /\ UNCHANGED <<fetch_stage, pc>>
    BY <1>4, <2>2 DEF CommitHalt, CommitStoreOrJump, CommitBranch, CommitResult, frontVars
  <2>4. \/ UNCHANGED <<iq, drf>>
        \/ /\ iq' = update_issue_queue_entry(iq, Head0.rd, Head0.rd_value)
           /\ drf' = ForwardToDecode(drf, Head0.rd, Head0.rd_value, Head0.valid)
    BY <1>4, <2>2 DEF CommitHalt, CommitStoreOrJump, CommitBranch, CommitResult
  <2>5. PlainQueue(iq') /\ Latch(drf') /\ drf'.op.pc = drf.op.pc
    BY <2>4, BroadcastKeepsQueue, ForwardKeepsLatch DEF OrderInv, FrontInv
  <2> QED BY <1>1, <2>2, <2>3, <2>5 DEF OrderInv, FrontInv, BranchUnitIdle
<1> QED BY <1>3, <1>4 DEF Commit

\* Dispatch appends what DRF holds, or nothing.
LEMMA DispatchOrderStep == ASSUME OrderInv, Dispatch PROVE OrderInv' /\ retired' = retired
<1>1. RobInv(rob) /\ RobOrder(rob, retired, drf.op.pc) /\ drf.op.inst_type \notin Branches
  BY DEF OrderInv, FrontInv, Latch, PlainOp
<1>2. RobInv(rob') /\ RobOrder(rob', retired, drf.op.pc)
  <2>1. RobInv(WrapIssuePtr(rob)) /\ RobOrder(WrapIssuePtr(rob), retired, drf.op.pc)
    BY <1>1, FoldKeeps, SameBufferRobInv, FoldRobOrder DEF WrapIssuePtr
  <2>2. /\ RobInv(add_reorder_buffer_entry(rob, drf.op))
        /\ RobOrder(add_reorder_buffer_entry(rob, drf.op), retired, drf.op.pc)
    BY <1>1, AddRobInv, AddRobOrder
  <2> QED BY <1>1, <2>1, <2>2, DispatchRob
<1>3. Latch(drf') /\ drf'.op = drf.op /\ Latch(fetch_stage') /\ fetch_stage'.op = fetch_stage.op
  <2>1. \/ UNCHANGED <<drf, fetch_stage>>
        \/ StallFront
    <3>1. CASE DispatchMemory
      BY <3>1 DEF DispatchMemory
    <3>2. CASE DispatchOther
      BY <3>2 DEF DispatchOther
    <3>3. CASE DispatchHalt
      BY <3>3 DEF DispatchHalt
    <3>4. CASE ~(DispatchMemory \/ DispatchOther \/ DispatchHalt)
      BY <3>4 DEF Dispatch
    <3> QED BY <3>1, <3>2, <3>3, <3>4
  <2> QED BY <2>1 DEF StallFront, OrderInv, FrontInv, Latch
<1>4. PlainQueue(iq')
  <2>1. iq' = iq \/ \E k : iq' = add_issue_queue_entry(iq, drf.op, k)
    <3>1. CASE DispatchMemory
      BY <3>1 DEF DispatchMemory
    <3>2. CASE DispatchOther
      BY <3>2 DEF DispatchOther
    <3>3. CASE DispatchHalt
      BY <3>3 DEF DispatchHalt
    <3>4. CASE ~(DispatchMemory \/ DispatchOther \/ DispatchHalt)
      BY <3>4 DEF Dispatch, queueVars
    <3> QED BY <3>1, <3>2, <3>3, <3>4
  <2>2. ASSUME NEW k PROVE PlainQueue(add_issue_queue_entry(iq, drf.op, k))
    <3> DEFINE o == [drf.op EXCEPT !.lsq_index = k]
               e == [status |-> VALID, stage_cycle |-> 0, op |-> o]
    <3>1. "inst_type" \in DOMAIN o /\ o.inst_type \notin Branches
      BY DEF OrderInv, FrontInv, Latch, PlainOp
    <3>2. add_issue_queue_entry(iq, drf.op, k) = [iq EXCEPT ![FirstFree(iq)] = e]
      BY DEF add_issue_queue_entry
    <3>3. "op" \in DOMAIN e /\ e.op = o
      OBVIOUS
    <3> HIDE DEF e, o
    <3> QED BY <3>1, <3>2, <3>3 DEF OrderInv, PlainQueue
  <2> QED BY <2>1, <2>2 DEF OrderInv
<1>5. UNCHANGED <<code, retired, stage, pc>>
  BY DEF Dispatch, backVars, histVars
<1> QED BY <1>2, <1>3, <1>4, <1>5 DEF OrderInv, FrontInv, BranchUnitIdle

\* Nothing in the queue is a branch: the branch unit is never filled.
LEMMA IssueOrderStep == ASSUME OrderInv, Issue PROVE OrderInv' /\ retired' = retired
<1> DEFINE toMem == IF MemFree THEN LsqCandidates(lsq) ELSE {}
           filled(u) == {i \in IqIndex \cap Issued : UnitOf(iq[i].op.inst_type) = u}
<1>1. UNCHANGED <<code, retired, rob, drf, fetch_stage, pc>>
  BY DEF Issue, frontVars, histVars
<1>2. PlainQueue(iq')
  <2>1. \A i \in IqIndex : iq'[i] = IF i \in Issued THEN FreeIqEntry ELSE Aged(iq[i])
    BY DEF Issue, Leave, OrderInv, PlainQueue
  <2>2. IqIndex \subseteq DOMAIN iq'
    BY DEF Issue, Leave, OrderInv, PlainQueue
  <2>3. /\ "op" \in DOMAIN FreeIqEntry /\ "inst_type" \in DOMAIN FreeIqEntry.op
        /\ FreeIqEntry.op.inst_type \notin Branches
    BY DEF FreeIqEntry, NoOp, Branches, BZ, BNZ
  <2>4. \A i \in IqIndex : "op" \in DOMAIN Aged(iq[i]) /\ Aged(iq[i]).op = iq[i].op
    BY DEF Aged, OrderInv, PlainQueue
  <2> QED BY <2>1, <2>2, <2>3, <2>4 DEF OrderInv, PlainQueue
<1>3. filled("BRANCH") = {}
  <2>1. ASSUME NEW i \in IqIndex PROVE UnitOf(iq[i].op.inst_type) # "BRANCH"
    <3>1. iq[i].op.inst_type \notin Branches
      BY DEF OrderInv, PlainQueue
    <3> QED BY <3>1 DEF UnitOf, MemOps, Stores, Loads, Branches, MOVC, EXOR, MUL, STORE, STR,
                        LOAD, LDR, BZ, BNZ
  <2> QED BY <2>1
<1>4. BranchUnitIdle'
  <2>1. stage' = [u \in Units |->
                    IF u = "MEM" /\ toMem # {} THEN lsq[CHOOSE i \in toMem : TRUE].op
                    ELSE IF filled(u) = {} THEN stage[u]
                    ELSE IssuedOp(iq[CHOOSE i \in filled(u) : TRUE].op)]
    BY DEF Issue
  <2>2. "BRANCH" \in Units
    BY DEF Units
  <2> HIDE DEF toMem, filled
  <2>3. DOMAIN stage' = Units /\ stage'["BRANCH"] = stage["BRANCH"]
    BY <1>3, <2>1, <2>2
  <2> QED BY <2>3 DEF OrderInv, BranchUnitIdle
<1> QED BY <1>1, <1>2, <1>4 DEF OrderInv, FrontInv

\* The units change their own latches; an empty branch unit redirects nothing.
LEMMA UnitsOrderStep ==
  ASSUME OrderInv, IntOne \/ IntTwo \/ MulOne \/ MulThree \/ Branch \/ Mem \/ PushUnits
  PROVE  OrderInv' /\ retired' = retired
<1>1. UNCHANGED <<code, retired, rob, iq>>
  BY DEF IntOne, IntTwo, MulOne, MulThree, Branch, Mem, PushUnits, execKeeps, queueVars, histVars
<1>2. Units \subseteq DOMAIN stage /\ stage["BRANCH"].inst_type = 0
  BY DEF OrderInv, BranchUnitIdle
<1>3. ~Redirects(stage["BRANCH"])
  BY <1>2 DEF Redirects, BZ, BNZ, JUMP
<1>4. UNCHANGED <<drf, fetch_stage, pc>>
  BY <1>3 DEF IntOne, IntTwo, MulOne, MulThree, Branch, Mem, PushUnits, execKeeps, frontVars
<1>5. BranchUnitIdle'
  <2>1. {"BRANCH", "INT_TWO", "MUL_THREE", "MEM"} \subseteq DOMAIN stage
    BY <1>2 DEF Units
  <2>2. CASE IntOne \/ MulOne \/ Branch
    BY <1>2, <1>3, <2>2 DEF IntOne, MulOne, Branch, backVars, BranchUnitIdle
  <2>3. CASE IntTwo \/ MulThree \/ Mem
    <3>1. DOMAIN stage' = DOMAIN stage /\ stage'["BRANCH"] = stage["BRANCH"]
      <4>1. CASE IntTwo
        BY <2>1, <4>1 DEF IntTwo
      <4>2. CASE MulThree
        BY <2>1, <4>2 DEF MulThree
      <4>3. CASE Mem
        BY <2>1, <4>3 DEF Mem
      <4> QED BY <2>3, <4>1, <4>2, <4>3
    <3> QED BY <1>2, <3>1 DEF BranchUnitIdle
  <2>4. CASE PushUnits
    <3>1. DOMAIN stage' = DOMAIN stage /\ stage'["BRANCH"] = NoOp
      BY <2>1, <2>4 DEF PushUnits
    <3> QED BY <1>2, <3>1 DEF BranchUnitIdle, NoOp
  <2> QED BY <2>2, <2>3, <2>4
<1> QED BY <1>1, <1>4, <1>5 DEF OrderInv, FrontInv

\* The latches move on: the next instruction to enter the buffer is younger.
LEMMA PushFrontOrderStep == ASSUME OrderInv, PushFront PROVE OrderInv' /\ retired' = retired
<1>1. UNCHANGED <<code, retired, rob, iq, stage, pc>>
  BY DEF PushFront, backVars, queueVars, histVars
<1>2. CASE fetch_stage.stalled = INVALID
  <2>1. drf'.op = fetch_stage.op /\ Latch(drf') /\ UNCHANGED fetch_stage
    BY <1>2 DEF PushFront, OrderInv, FrontInv, Latch
  <2>2. RobOrder(rob, retired, fetch_stage.op.pc)
    BY RaiseRobOrder DEF OrderInv, FrontInv, Latch, PlainOp
  <2> QED BY <1>1, <2>1, <2>2 DEF OrderInv, FrontInv, BranchUnitIdle, Latch, PlainOp
<1>3. CASE fetch_stage.stalled # INVALID
  <2>1. UNCHANGED drf
    BY <1>3 DEF PushFront
  <2>2. fetch_stage'.op = fetch_stage.op /\ Latch(fetch_stage')
    BY <1>3 DEF PushFront, OrderInv, FrontInv, Latch
  <2> QED BY <1>1, <2>1, <2>2 DEF OrderInv, FrontInv, BranchUnitIdle
<1> QED BY <1>2, <1>3

\* Reading and renaming operands keeps the instruction and its address.
LEMMA ReadKeepsOp ==
  ASSUME NEW op, PlainOp(op)
  PROVE  /\ PlainOp(Read1(op)) /\ Read1(op).pc = op.pc
         /\ \A test : PlainOp(Read2(op, test)) /\ Read2(op, test).pc = op.pc
         /\ PlainOp(ReadData(op)) /\ ReadData(op).pc = op.pc
<1>1. PlainOp(Read1(op)) /\ Read1(op).pc = op.pc
  BY DEF Read1, PlainOp
<1>2. ASSUME NEW test PROVE PlainOp(Read2(op, test)) /\ Read2(op, test).pc = op.pc
  BY DEF Read2, PlainOp
<1>3. PlainOp(ReadData(op)) /\ ReadData(op).pc = op.pc
  BY DEF ReadData, PlainOp
<1> QED BY <1>1, <1>2, <1>3

LEMMA DecodedKeeps ==
  ASSUME Latch(drf), NEW op, PlainOp(op), op.pc = drf.op.pc, Decoded(op)
  PROVE  Latch(drf') /\ drf'.op.pc = drf.op.pc
  BY DEF Decoded, Latch

LEMMA RenameDestKeeps ==
  ASSUME Latch(drf), NEW op, PlainOp(op), op.pc = drf.op.pc, RenameDest(op)
  PROVE  Latch(drf') /\ drf'.op.pc = drf.op.pc
<1> DEFINE renamed == [op EXCEPT !.rd = FirstFreeTag(rename)]
<1>1. PlainOp(renamed) /\ renamed.pc = op.pc
  BY DEF PlainOp
<1>2. Decoded(renamed) \/ Decoded(op)
  BY DEF RenameDest
<1> HIDE DEF renamed
<1> QED BY <1>1, <1>2, DecodedKeeps

LEMMA DecodeKeepsLatch ==
  ASSUME Latch(drf), Decode
  PROVE  Latch(drf') /\ drf'.op.pc = drf.op.pc
<1> DEFINE op == drf.op
           one == Read1(op)
<1>1. PlainOp(op) /\ PlainOp(one) /\ one.pc = op.pc
  BY ReadKeepsOp DEF Latch
<1>2. \A test : PlainOp(Read2(one, test)) /\ Read2(one, test).pc = op.pc
  BY <1>1, ReadKeepsOp
<1>3. CASE DecodeStalled
  BY <1>3 DEF DecodeStalled, Latch
<1>4. CASE DecodeStore
  <2>1. PICK o \in {one, Read2(one, one.rs2)} : Decoded(ReadData(o))
    BY <1>4 DEF DecodeStore
  <2>2. PlainOp(ReadData(o)) /\ ReadData(o).pc = op.pc
    BY <1>1, <1>2, ReadKeepsOp
  <2> QED BY <2>1, <2>2, DecodedKeeps
<1>5. CASE DecodeLoad \/ DecodeMove \/ DecodeLiteral \/ DecodeTwoSource \/ DecodeDivExor
  <2>1. \/ RenameDest(op) \/ RenameDest(one)
        \/ \E test : RenameDest(Read2(one, test))
    BY <1>5 DEF DecodeLoad, DecodeMove, DecodeLiteral, DecodeTwoSource, DecodeDivExor
  <2> HIDE DEF one
  <2> QED BY <1>1, <1>2, <2>1, RenameDestKeeps
<1>6. CASE DecodeJump
  <2> DEFINE o == IF check_if_reg_renamed(rename, op.rs1)
                  THEN [op EXCEPT !.rs1 = get_reg_renamed_tag(rename, @)]
                  ELSE IF regs_invalid[op.rs1] = 0
                       THEN [op EXCEPT !.rs2_value = regs[op.rs2], !.rs2_valid = VALID] ELSE op
  <2>1. Decoded(o)
    BY <1>6 DEF DecodeJump
  <2>2. PlainOp(o) /\ o.pc = op.pc
    BY <1>1 DEF PlainOp
  <2> QED BY <2>1, <2>2, DecodedKeeps
<1>7. CASE DecodeHalt \/ DecodePlain
  BY <1>1, <1>7, DecodedKeeps DEF DecodeHalt, DecodePlain
<1> QED BY <1>3, <1>4, <1>5, <1>6, <1>7 DEF Decode

LEMMA DecodeOrderStep == ASSUME OrderInv, Decode PROVE OrderInv' /\ retired' = retired
<1>1. UNCHANGED <<code, retired, rob, iq, stage, pc>>
  BY DEF Decode, backVars, queueVars, histVars
<1>2. Latch(drf') /\ drf'.op.pc = drf.op.pc
  BY DecodeKeepsLatch DEF OrderInv, FrontInv
<1>3. Latch(fetch_stage') /\ fetch_stage'.op = fetch_stage.op
  <2>1. UNCHANGED fetch_stage \/ fetch_stage' = [fetch_stage EXCEPT !.stalled = VALID]
    BY DEF Decode, DecodeStalled, DecodeStore, DecodeLoad, DecodeMove, DecodeLiteral,
           DecodeTwoSource, DecodeDivExor, DecodeJump, DecodeHalt, DecodePlain
  <2> QED BY <2>1 DEF OrderInv, FrontInv, Latch
<1> QED BY <1>1, <1>2, <1>3 DEF OrderInv, FrontInv, BranchUnitIdle

\* What is fetched carries pc, and pc only rises.
LEMMA FetchOrderStep ==
  ASSUME StraightLine, OrderInv, Fetch
  PROVE  OrderInv' /\ retired' = retired
<1>1. UNCHANGED <<code, retired, rob, iq, stage, drf>>
  BY DEF Fetch, backVars, queueVars, histVars
<1>2. pc \in Int /\ code \in Programs /\ Latch(fetch_stage)
  BY DEF OrderInv, FrontInv
<1>3. ASSUME NEW in \in Fetchable PROVE PlainOp(FetchedOp(in)) /\ FetchedOp(in).pc = pc
  <2>1. in.inst_type \notin Branches
    BY <1>2, <1>3 DEF StraightLine, Fetchable
  <2>2. FetchedOp(in).inst_type = in.inst_type /\ FetchedOp(in).pc = pc
    BY DEF FetchedOp, NoOp
  <2>3. {"inst_type", "pc"} \subseteq DOMAIN FetchedOp(in)
    BY DEF FetchedOp, NoOp
  <2> QED BY <1>2, <2>1, <2>2, <2>3 DEF PlainOp
<1>4. \/ UNCHANGED <<fetch_stage, pc>>
      \/ \E in \in Fetchable : /\ fetch_stage' = [fetch_stage EXCEPT !.op = FetchedOp(in)]
                               /\ pc' = pc \/ pc' = pc + 4
  BY DEF Fetch
<1>5. CASE UNCHANGED <<fetch_stage, pc>>
  BY <1>1, <1>5 DEF OrderInv, FrontInv, BranchUnitIdle
<1>6. CASE \E in \in Fetchable : /\ fetch_stage' = [fetch_stage EXCEPT !.op = FetchedOp(in)]
                                 /\ pc' = pc \/ pc' = pc + 4
  <2>1. PICK in \in Fetchable : /\ fetch_stage' = [fetch_stage EXCEPT !.op = FetchedOp(in)]
                                /\ pc' = pc \/ pc' = pc + 4
    BY <1>6
  <2>2. Latch(fetch_stage') /\ fetch_stage'.op.pc = pc
    BY <1>2, <1>3, <2>1 DEF Latch
  <2>3. drf.op.pc \in Int /\ drf.op.pc <= pc
    BY DEF OrderInv, FrontInv, Latch, PlainOp
  <2> QED BY <1>1, <1>2, <2>1, <2>2, <2>3 DEF OrderInv, FrontInv, BranchUnitIdle
<1> QED BY <1>4, <1>5, <1>6

LEMMA InitOrder == Init => OrderInv
<1> SUFFICES ASSUME Init PROVE OrderInv
  OBVIOUS
<1>1. /\ "op" \in DOMAIN drf /\ drf.op = NoOp /\ "op" \in DOMAIN fetch_stage
      /\ fetch_stage.op = NoOp /\ pc = CodeBase /\ retired = 0
  BY DEF Init
<1>2. PlainOp(NoOp) /\ NoOp.pc = 0
  BY DEF PlainOp, NoOp, Branches, BZ, BNZ
<1>3. FrontInv
  BY <1>1, <1>2 DEF FrontInv, Latch, CodeBase
<1>4. PlainQueue(iq)
  BY <1>2 DEF Init, init_issue_queue, FreeIqEntry, PlainQueue, PlainOp, NoOp
<1>5. BranchUnitIdle
  BY DEF Init, BranchUnitIdle, Units, NoOp
<1>6. RobInv(rob) /\ RobOrder(rob, retired, drf.op.pc)
  BY <1>1, <1>2, InitRobInv, InitRobOrder DEF Init
<1> QED BY <1>3, <1>4, <1>5, <1>6 DEF Init, OrderInv

LEMMA NextOrder ==
  ASSUME StraightLine, OrderInv, [Next]_vars
  PROVE  OrderInv' /\ retired <= retired'
<1>1. retired \in Int
  BY DEF OrderInv, RobOrder
<1>2. CASE Commit
  BY <1>2, CommitOrderStep
<1>3. CASE Issue
  BY <1>1, <1>3, IssueOrderStep
<1>4. CASE IntOne \/ IntTwo \/ MulOne \/ MulThree \/ Branch \/ Mem \/ PushUnits
  BY <1>1, <1>4, UnitsOrderStep
<1>5. CASE Writeback
  BY <1>1, <1>5, WritebackOrderStep
<1>6. CASE Dispatch
  BY <1>1, <1>6, DispatchOrderStep
<1>7. CASE PushFront
  BY <1>1, <1>7, PushFrontOrderStep
<1>8. CASE Decode
  BY <1>1, <1>8, DecodeOrderStep
<1>9. CASE Fetch
  BY <1>1, <1>9, FetchOrderStep
<1>10. CASE UNCHANGED vars
  BY <1>1, <1>10 DEF vars, frontVars, backVars, queueVars, histVars, OrderInv, FrontInv,
                     BranchUnitIdle
<1> QED BY <1>2, <1>3, <1>4, <1>5, <1>6, <1>7, <1>8, <1>9, <1>10 DEF Next

\* Every program without conditional branches, of whatever length and with
\* whatever behind it, retires by address in a machine of whatever size.
THEOREM CommitsInProgramOrderCorrect ==
  ASSUME StraightLine
  PROVE  Spec => CommitsInProgramOrder
<1>1. Init => OrderInv
  BY InitOrder
<1>2. OrderInv /\ [Next]_vars => OrderInv'
  BY NextOrder
<1>3. OrderInv /\ [Next]_vars => [retired' # retired => retired' > retired]_vars
  <2> SUFFICES ASSUME OrderInv, [Next]_vars, retired' # retired
               PROVE  retired' > retired
    OBVIOUS
  <2>1. retired <= retired' /\ retired \in Int /\ retired' \in Int
    BY NextOrder DEF OrderInv, RobOrder
  <2> QED BY <2>1
<1> QED BY <1>1, <1>2, <1>3, PTL DEF Spec, CommitsInProgramOrder

-----------------------------------------------------------------------------
(***************************************************************************)
(* Instructions are neither lost nor duplicated between dispatch and       *)
(* retirement: EntriesAtWork, for every program without conditional        *)
(* branches and every size of the buffer, the queues and the memory.       *)
(*                                                                         *)
(* Where an instruction may be.  An instruction is in one place in front   *)
(* of its address generation or result, and a memory instruction in one    *)
(* place of the memory path besides or after that.                         *)
(***************************************************************************)
FrontUnits == {"INT_ONE", "INT_TWO", "MUL_ONE", "MUL_TWO", "MUL_THREE"}

IqPlace(i)   == <<"iq", i>>
LsqPlace(k)  == <<"lsq", k>>
UnitPlace(u) == <<"unit", u>>

Front == {IqPlace(i) : i \in IqIndex} \cup {UnitPlace(u) : u \in FrontUnits}
Rear  == {LsqPlace(k) : k \in LsqIndex} \cup {UnitPlace("MEM")}
Place == Front \cup Rear

\* What identifies an instruction on its way.
NoInst   == [inst_type |-> 0, pc |-> 0, rd |-> 0]
Inst(op) == IF op.inst_type = 0 THEN NoInst
            ELSE [inst_type |-> op.inst_type, pc |-> op.pc, rd |-> op.rd]

\* `open' are the units whose result has not been written back.
Work(q, l, st, open) ==
  [p \in Place |->
     IF p[1] = "iq" THEN Inst(q[p[2]].op)
     ELSE IF p[1] = "lsq" THEN Inst(l[p[2]].op)
     ELSE IF p[2] \in open THEN Inst(st[p[2]]) ELSE NoInst]

\* The places of the load/store queue whose address has not arrived.
Unaddressed(l) == {LsqPlace(k) : k \in {j \in LsqIndex : l[j].mem_valid = INVALID}}

(***************************************************************************)
(* The entries e of the buffer against the instructions W at work.         *)
(***************************************************************************)
EntryFields == {"status", "inst_type", "inst_ptr", "rd", "valid"}

EntryShape(e) ==
  /\ RobIndex \subseteq DOMAIN e
  /\ \A i \in RobIndex : /\ EntryFields \subseteq DOMAIN e[i]
                         /\ e[i].status \in Flag /\ e[i].valid \in Flag
                         /\ e[i].inst_ptr \in Int

\* Only HALT is in the buffer more than once, and it never waits for a result.
EntriesDiffer(e) ==
  \A i \in RobIndex : e[i].status = VALID =>
    /\ e[i].inst_type = HALT => e[i].valid = VALID
    /\ \A j \in RobIndex : e[j].status = VALID /\ e[j].inst_ptr = e[i].inst_ptr =>
         i = j \/ e[i].inst_type = HALT

Holds(W, p) == W[p].inst_type # 0

Unfinished(e, i) == e[i].status = VALID /\ e[i].valid = INVALID

Awaits(e, i, x) == Unfinished(e, i) /\ Matches(e[i], x)

\* Whatever is at work has an entry that waits for it.
WorkHasEntry(e, W) ==
  \A p \in Place : Holds(W, p) => \E i \in RobIndex : Awaits(e, i, W[p])

\* An entry without a result has its instruction at work.
EntryHasWork(e, W) ==
  \A i \in RobIndex : Unfinished(e, i) => \E p \in Place : Holds(W, p) /\ Matches(e[i], W[p])

\* One place in front, one on the memory path; both only until the address is there.
OnePlace(W, unaddressed) ==
  /\ \A p, q \in Front : Holds(W, p) /\ Holds(W, q) /\ W[p].pc = W[q].pc => p = q
  /\ \A p, q \in Rear  : Holds(W, p) /\ Holds(W, q) /\ W[p].pc = W[q].pc => p = q
  /\ \A p \in Front, q \in Rear :
       Holds(W, p) /\ Holds(W, q) /\ W[p].pc = W[q].pc => q \in unaddressed

\* The memory path holds the memory instructions, those in front of their
\* address generation included.
MemoryPath(W) ==
  /\ \A q \in Rear : Holds(W, q) => W[q].inst_type \in MemOps
  /\ \A p \in Front : W[p].inst_type \in MemOps => \E q \in Rear : W[q] = W[p]

TrackInv(e, W, unaddressed) ==
  /\ EntryShape(e) /\ EntriesDiffer(e)
  /\ WorkHasEntry(e, W) /\ EntryHasWork(e, W)
  /\ OnePlace(W, unaddressed) /\ MemoryPath(W)

(***************************************************************************)
(* The shapes of queues and units.                                         *)
(***************************************************************************)
HasInst(op) == {"inst_type", "pc", "rd", "rd_valid"} \subseteq DOMAIN op

Queued   == MemOps \cup (MOVC .. JUMP)
IntTypes == MemOps \cup ((MOVC .. EXOR) \ {MUL})

IqShape(q) ==
  /\ DOMAIN q = IqIndex
  /\ \A i \in IqIndex :
       /\ {"status", "stage_cycle", "op"} \subseteq DOMAIN q[i] /\ HasInst(q[i].op)
       /\ q[i].status \in Flag
       /\ q[i].op.inst_type \in IF q[i].status = VALID THEN Queued ELSE {0}

LsqShape(l) ==
  /\ DOMAIN l = LsqIndex
  /\ \A k \in LsqIndex :
       /\ {"status", "stage_cycle", "mem_valid", "op"} \subseteq DOMAIN l[k] /\ HasInst(l[k].op)
       /\ l[k].status \in Flag /\ l[k].mem_valid \in Flag /\ l[k].stage_cycle \in Int
       /\ l[k].op.inst_type \in IF l[k].status = VALID THEN MemOps ELSE {0}

UnitTypes(u) ==
  {0} \cup (CASE u \in {"INT_ONE", "INT_TWO"}              -> IntTypes
              [] u \in {"MUL_ONE", "MUL_TWO", "MUL_THREE"} -> {MUL}
              [] u = "MEM"                                 -> MemOps
              [] OTHER                                     -> {})

UnitShape(st) ==
  /\ DOMAIN st = Units
  /\ \A u \in Units : HasInst(st[u]) /\ st[u].inst_type \in UnitTypes(u)

\* A result is there when writeback reads it.
ResultsReady ==
  /\ step \in {"mul_one", "mul_three", "branch", "mem", "writeback"} =>
       stage["INT_TWO"].inst_type \in {0} \cup MemOps \/ stage["INT_TWO"].rd_valid = VALID
  /\ step \in {"branch", "mem", "writeback"} =>
       stage["MUL_THREE"].inst_type = 0 \/ stage["MUL_THREE"].rd_valid = VALID
  /\ step = "writeback" /\ mem_stage.executed = VALID => stage["MEM"].rd_valid = VALID

\* The second half of a cycle: writeback has drained the units.
Drained == step \in {"dispatch", "push_front", "decode", "fetch", "push_units"}

\* The flag of the memory stage: set with the access, it outlives the push that
\* empties the latch.
MemoryFlag ==
  /\ {"stage_cycle", "executed"} \subseteq DOMAIN mem_stage
  /\ mem_stage.stage_cycle \in Int /\ mem_stage.executed \in Flag
  /\ mem_stage.executed = VALID =>
       IF Drained \/ step = "writeback" THEN ~Empty("MEM") /\ mem_stage.stage_cycle >= 3
       ELSE Empty("MEM")

Open ==
  IF ~Drained THEN Units
  ELSE {"INT_ONE", "MUL_ONE", "MUL_TWO"} \cup (IF mem_stage.executed = VALID THEN {} ELSE {"MEM"})

(***************************************************************************)
(* The front: DRF is dispatched at most once, unless it holds HALT.        *)
(***************************************************************************)
FrontShape ==
  /\ {"op", "stalled", "executed"} \subseteq DOMAIN drf /\ HasInst(drf.op)
  /\ {"op", "stalled"} \subseteq DOMAIN fetch_stage /\ HasInst(fetch_stage.op)
  /\ fetch_stage.stalled \in Flag

\* HALT stays in DRF, with F stalled in every cycle from decode on.
HaltStays ==
  /\ drf.op.inst_type = HALT =>
       drf.stalled # VALID /\ (step # "decode" => fetch_stage.stalled = VALID)
  /\ step = "decode" => fetch_stage.stalled = INVALID
  /\ step # "push_front" => fetch_stage.stalled = INVALID \/ drf.op.inst_type = HALT

\* Addresses rise strictly: what has been fetched is not fetched again, unless
\* it was no instruction or F is behind a HALT.
FetchedOnce ==
  /\ drf.op.inst_type # 0 => drf.op.pc < pc
  /\ fetch_stage.op.inst_type \in {0} \/ fetch_stage.op.pc < pc \/ drf.op.inst_type = HALT
  /\ step \notin {"decode", "fetch"} => drf.op.inst_type = 0 \/ drf.op.pc < fetch_stage.op.pc

Below(e, op) ==
  \A i \in RobIndex : e[i].status = VALID =>
    e[i].inst_ptr < op.pc \/ (e[i].inst_type = HALT /\ op.inst_type = HALT)

\* What is to be dispatched next is younger than everything in the buffer.
NotYetDispatched ==
  IF step = "push_front" /\ fetch_stage.stalled = INVALID
  THEN \A i \in RobIndex : rob.rob_entry[i].status = VALID =>
         rob.rob_entry[i].inst_ptr < fetch_stage.op.pc
  ELSE Below(rob.rob_entry, drf.op)

FrontOnce == FrontShape /\ HaltStays /\ FetchedOnce /\ NotYetDispatched

PlacesInv ==
  /\ IqShape(iq) /\ LsqShape(lsq) /\ UnitShape(stage) /\ ResultsReady /\ MemoryFlag
  /\ TrackInv(rob.rob_entry, Work(iq, lsq, stage, Open), Unaddressed(lsq))

WorkInv == OrderInv /\ FrontOnce /\ PlacesInv

-----------------------------------------------------------------------------
(***************************************************************************)
(* What may happen to the instructions at work, whichever handler does it. *)
(***************************************************************************)
LEMMA PlacesApart == Front \cap Rear = {}
  BY DEF Front, Rear, IqPlace, LsqPlace, UnitPlace, FrontUnits

LEMMA NotWork == ~ (0 \in MemOps) /\ HALT \notin MemOps /\ VALID # INVALID /\ NoInst.inst_type = 0
  BY DEF MemOps, Stores, Loads, STORE, STR, LOAD, LDR, HALT, VALID, INVALID, NoInst

\* An entry with the address of an instruction at work is the one that waits for it.
LEMMA EntryOfWork ==
  ASSUME NEW e, NEW W, NEW U, TrackInv(e, W, U), NEW p \in Place, Holds(W, p)
  PROVE  \E i \in RobIndex :
           /\ Awaits(e, i, W[p])
           /\ \A j \in RobIndex : e[j].status = VALID /\ e[j].inst_ptr = W[p].pc => j = i
<1>1. PICK i \in RobIndex : Awaits(e, i, W[p])
  BY DEF TrackInv, WorkHasEntry
<1>2. e[i].status = VALID /\ e[i].inst_ptr = W[p].pc /\ e[i].inst_type # HALT
  BY <1>1, NotWork DEF Awaits, Unfinished, Matches, TrackInv, EntriesDiffer
<1>3. \A j \in RobIndex : e[j].status = VALID /\ e[j].inst_ptr = W[p].pc => j = i
  BY <1>2 DEF TrackInv, EntriesDiffer
<1> QED BY <1>1, <1>3

\* Retirement takes an entry that has its result.
LEMMA TrackCommit ==
  ASSUME NEW e, NEW W, NEW U, TrackInv(e, W, U), NEW c \in RobIndex, e[c].valid = VALID
  PROVE  TrackInv([e EXCEPT ![c] = FreeRobEntry], W, U)
<1> DEFINE f == [e EXCEPT ![c] = FreeRobEntry]
<1>1. /\ \A i \in RobIndex : f[i] = IF i = c THEN FreeRobEntry ELSE e[i]
      /\ RobIndex \subseteq DOMAIN f
  BY DEF TrackInv, EntryShape
<1>2. /\ EntryFields \subseteq DOMAIN FreeRobEntry
      /\ FreeRobEntry.status = INVALID /\ FreeRobEntry.valid = INVALID
      /\ FreeRobEntry.inst_ptr \in Int
  BY DEF EntryFields, FreeRobEntry
<1> HIDE DEF f
<1>3. EntryShape(f)
  BY <1>1, <1>2 DEF TrackInv, EntryShape, Flag
<1>4. EntriesDiffer(f)
  BY <1>1, <1>2, NotWork DEF TrackInv, EntriesDiffer
<1>5. WorkHasEntry(f, W)
  BY <1>1, NotWork DEF TrackInv, WorkHasEntry, Awaits, Unfinished
<1>6. EntryHasWork(f, W)
  BY <1>1, <1>2, NotWork DEF TrackInv, EntryHasWork, Unfinished
<1> QED BY <1>3, <1>4, <1>5, <1>6 DEF TrackInv, f

\* A result arrives: the instruction was in its last place.
LEMMA TrackFinish ==
  ASSUME NEW e, NEW W, NEW U, TrackInv(e, W, U),
         NEW p \in Place, Holds(W, p),
         p \in Front => W[p].inst_type \notin MemOps,
         p \in Rear => p \notin U,
         NEW f, RobIndex \subseteq DOMAIN f, NEW u, u.rd_valid = VALID,
         \A i \in RobIndex :
           f[i] = IF e[i].status = VALID /\ e[i].inst_ptr = W[p].pc
                  THEN FinishedEntry(e[i], u) ELSE e[i],
         NEW V, \A q \in Place : V[q] = IF q = p THEN NoInst ELSE W[q]
  PROVE  TrackInv(f, V, U)
<1>1. PICK i \in RobIndex :
        /\ Awaits(e, i, W[p])
        /\ \A j \in RobIndex : e[j].status = VALID /\ e[j].inst_ptr = W[p].pc => j = i
  BY EntryOfWork
<1>2. /\ e[i].status = VALID /\ e[i].inst_ptr = W[p].pc /\ e[i].inst_type = W[p].inst_type
      /\ EntryFields \subseteq DOMAIN e[i]
  BY <1>1 DEF Awaits, Unfinished, Matches, TrackInv, EntryShape
<1> DEFINE n == FinishedEntry(e[i], u)
<1>3. /\ EntryFields \subseteq DOMAIN n /\ n.status = e[i].status /\ n.inst_ptr = e[i].inst_ptr
      /\ n.inst_type = e[i].inst_type /\ n.rd = e[i].rd /\ n.valid = VALID
  BY <1>2 DEF FinishedEntry, EntryFields
<1>4. \A j \in RobIndex : f[j] = IF j = i THEN n ELSE e[j]
  BY <1>1, <1>2
<1> HIDE DEF n
<1>6. \A q \in Place : Holds(V, q) => q # p /\ V[q] = W[q] /\ Holds(W, q)
  BY NotWork DEF Holds
<1>7. EntryShape(f)
  BY <1>3, <1>4 DEF TrackInv, EntryShape, Flag
<1>8. EntriesDiffer(f)
  BY <1>3, <1>4 DEF TrackInv, EntriesDiffer
<1>9. ASSUME NEW q \in Place, Holds(W, q), W[q].pc = W[p].pc, W[q].inst_type = W[p].inst_type
      PROVE  q = p
  <2>1. CASE p \in Front /\ q \in Front
    BY <1>9, <2>1 DEF TrackInv, OnePlace
  <2>2. CASE p \in Rear /\ q \in Rear
    BY <1>9, <2>2 DEF TrackInv, OnePlace
  <2>3. CASE p \in Front /\ q \in Rear
    BY <1>9, <2>3 DEF TrackInv, MemoryPath
  <2>4. CASE p \in Rear /\ q \in Front
    BY <1>9, <2>4 DEF TrackInv, OnePlace
  <2> QED BY <2>1, <2>2, <2>3, <2>4 DEF Place
<1>10. WorkHasEntry(f, V)
  <2> SUFFICES ASSUME NEW q \in Place, Holds(V, q)
               PROVE  \E j \in RobIndex : Awaits(f, j, V[q])
    BY DEF WorkHasEntry
  <2>1. q # p /\ V[q] = W[q] /\ Holds(W, q)
    BY <1>6
  <2>2. PICK j \in RobIndex : Awaits(e, j, W[q])
    BY <2>1 DEF TrackInv, WorkHasEntry
  <2>3. j # i
    BY <1>2, <1>9, <2>1, <2>2 DEF Awaits, Matches
  <2> QED BY <1>4, <2>1, <2>2, <2>3 DEF Awaits, Unfinished
<1>11. EntryHasWork(f, V)
  <2> SUFFICES ASSUME NEW j \in RobIndex, Unfinished(f, j)
               PROVE  \E q \in Place : Holds(V, q) /\ Matches(f[j], V[q])
    BY DEF EntryHasWork
  <2>1. j # i /\ f[j] = e[j] /\ Unfinished(e, j)
    BY <1>3, <1>4, NotWork DEF Unfinished
  <2>2. PICK q \in Place : Holds(W, q) /\ Matches(e[j], W[q])
    BY <2>1 DEF TrackInv, EntryHasWork
  <2>3. q # p
    BY <1>1, <2>1, <2>2 DEF Matches, Unfinished
  <2> QED BY <2>1, <2>2, <2>3 DEF Holds
<1>12. OnePlace(V, U)
  <2>1. Front \subseteq Place /\ Rear \subseteq Place
    BY DEF Place
  <2> QED BY <1>6, <2>1 DEF TrackInv, OnePlace
<1>13. MemoryPath(V)
  <2>1. Front \subseteq Place /\ Rear \subseteq Place
    BY DEF Place
  <2>2. \A q \in Rear : Holds(V, q) => V[q].inst_type \in MemOps
    BY <1>6, <2>1 DEF TrackInv, MemoryPath
  <2>3. ASSUME NEW q \in Front, V[q].inst_type \in MemOps
        PROVE  \E m \in Rear : V[m] = V[q]
    <3>1. q # p /\ V[q] = W[q] /\ Holds(W, q)
      BY <1>6, <2>1, <2>3, NotWork DEF Holds
    <3>2. PICK m \in Rear : W[m] = W[q]
      BY <2>3, <3>1 DEF TrackInv, MemoryPath
    <3>3. m # p
      BY <3>1, <3>2 DEF TrackInv, OnePlace, Holds
    <3> QED BY <2>1, <3>1, <3>2, <3>3
  <2> QED BY <2>2, <2>3 DEF MemoryPath
<1> QED BY <1>7, <1>8, <1>10, <1>11, <1>12, <1>13 DEF TrackInv

\* An address arrives: the instruction goes on in the load/store queue alone.
LEMMA TrackAddressed ==
  ASSUME NEW e, NEW W, NEW U, TrackInv(e, W, U),
         NEW p \in Front, W[p].inst_type \in MemOps,
         NEW T, \A q \in U : q \in T \/ ~Holds(W, q) \/ W[q].pc = W[p].pc,
         NEW V, \A q \in Place : V[q] = IF q = p THEN NoInst ELSE W[q]
  PROVE  TrackInv(e, V, T)
<1>1. Front \subseteq Place /\ Rear \subseteq Place
  BY DEF Place
<1>2. \A q \in Place : Holds(V, q) => q # p /\ V[q] = W[q] /\ Holds(W, q)
  BY <1>1, NotWork DEF Holds
<1>3. \A q \in Rear : V[q] = W[q]
  BY <1>1, PlacesApart
<1>4. PICK m \in Rear : W[m] = W[p]
  BY DEF TrackInv, MemoryPath
<1>5. WorkHasEntry(e, V)
  BY <1>1, <1>2 DEF TrackInv, WorkHasEntry
<1>6. EntryHasWork(e, V)
  <2> SUFFICES ASSUME NEW i \in RobIndex, Unfinished(e, i)
               PROVE  \E q \in Place : Holds(V, q) /\ Matches(e[i], V[q])
    BY DEF EntryHasWork
  <2>1. PICK q \in Place : Holds(W, q) /\ Matches(e[i], W[q])
    BY DEF TrackInv, EntryHasWork
  <2>2. CASE q # p
    BY <1>1, <2>1, <2>2 DEF Holds
  <2>3. CASE q = p
    BY <1>1, <1>3, <1>4, <2>1, <2>3 DEF Holds
  <2> QED BY <2>2, <2>3
<1>7. OnePlace(V, T)
  <2>1. ASSUME NEW q \in Front, NEW r \in Rear, Holds(V, q), Holds(V, r), V[q].pc = V[r].pc
        PROVE  r \in T
    <3>1. q # p /\ V[q] = W[q] /\ Holds(W, q) /\ V[r] = W[r] /\ Holds(W, r)
      BY <1>1, <1>2, <2>1
    <3>2. r \in U /\ W[q].pc # W[p].pc
      BY <2>1, <3>1, NotWork DEF TrackInv, OnePlace, Holds
    <3> QED BY <2>1, <3>1, <3>2
  <2> QED BY <1>1, <1>2, <2>1 DEF TrackInv, OnePlace
<1>8. MemoryPath(V)
  <2>1. \A q \in Front : V[q].inst_type \in MemOps => q # p /\ V[q] = W[q]
    BY <1>1, NotWork
  <2> QED BY <1>3, <2>1 DEF TrackInv, MemoryPath, Holds
<1> QED BY <1>5, <1>6, <1>7, <1>8 DEF TrackInv

\* An instruction moves on; one that leaves the load/store queue has its address.
LEMMA TrackMove ==
  ASSUME NEW e, NEW W, NEW U, TrackInv(e, W, U),
         NEW p \in Place, NEW q \in Place, p # q, ~Holds(W, q),
         (p \in Front /\ q \in Front) \/ (p \in Rear /\ q \in Rear /\ (Holds(W, p) => p \notin U)),
         NEW V,
         \A r \in Place : V[r] = IF r = q THEN W[p] ELSE IF r = p THEN NoInst ELSE W[r],
         NEW T, U \subseteq T
  PROVE  TrackInv(e, V, T)
<1>1. Front \subseteq Place /\ Rear \subseteq Place /\ NoInst.inst_type = 0
  BY NotWork DEF Place
\* Every instruction was somewhere before, on the same side.
<1>2. ASSUME NEW r \in Place, Holds(V, r)
      PROVE  \E o \in Place : /\ V[r] = W[o] /\ Holds(W, o) /\ o = IF r = q THEN p ELSE r
                              /\ o \in Front <=> r \in Front
                              /\ o \in Rear <=> r \in Rear
                              /\ o # q /\ r # p
  BY <1>1, <1>2, PlacesApart DEF Holds
<1>3. ASSUME NEW o \in Place, Holds(W, o)
      PROVE  \E r \in Place : /\ V[r] = W[o] /\ Holds(V, r) /\ r = IF o = p THEN q ELSE o
                              /\ o \in Front <=> r \in Front
                              /\ o \in Rear <=> r \in Rear
  BY <1>1, <1>3, PlacesApart DEF Holds
<1>4. WorkHasEntry(e, V)
  BY <1>2 DEF TrackInv, WorkHasEntry
<1>5. EntryHasWork(e, V)
  BY <1>3 DEF TrackInv, EntryHasWork
<1>6. OnePlace(V, T)
  <2>1. ASSUME NEW r \in Front, NEW s \in Front, Holds(V, r), Holds(V, s), V[r].pc = V[s].pc
        PROVE  r = s
    BY <1>1, <1>2, <2>1 DEF TrackInv, OnePlace
  <2>2. ASSUME NEW r \in Rear, NEW s \in Rear, Holds(V, r), Holds(V, s), V[r].pc = V[s].pc
        PROVE  r = s
    BY <1>1, <1>2, <2>2 DEF TrackInv, OnePlace
  <2>3. ASSUME NEW r \in Front, NEW s \in Rear, Holds(V, r), Holds(V, s), V[r].pc = V[s].pc
        PROVE  s \in T
    <3>1. PICK o \in Front : V[r] = W[o] /\ Holds(W, o)
      BY <1>1, <1>2, <2>3
    <3>2. PICK t \in Rear : V[s] = W[t] /\ Holds(W, t) /\ t = IF s = q THEN p ELSE s
      BY <1>1, <1>2, <2>3
    <3>3. t \in U
      BY <2>3, <3>1, <3>2 DEF TrackInv, OnePlace
    <3> QED BY <3>2, <3>3, PlacesApart
  <2> QED BY <2>1, <2>2, <2>3 DEF OnePlace
<1>7. MemoryPath(V)
  <2>1. \A r \in Rear : Holds(V, r) => V[r].inst_type \in MemOps
    BY <1>1, <1>2 DEF TrackInv, MemoryPath
  <2>2. ASSUME NEW r \in Front, V[r].inst_type \in MemOps
        PROVE  \E m \in Rear : V[m] = V[r]
    <3>1. Holds(V, r)
      BY <2>2, NotWork DEF Holds
    <3>2. PICK o \in Front : V[r] = W[o] /\ Holds(W, o)
      BY <1>1, <1>2, <3>1
    <3>3. PICK t \in Rear : W[t] = W[o]
      BY <2>2, <3>2 DEF TrackInv, MemoryPath
    <3>4. Holds(W, t)
      BY <3>2, <3>3 DEF Holds
    <3> QED BY <1>1, <1>3, <3>2, <3>3, <3>4
  <2> QED BY <2>1, <2>2 DEF MemoryPath
<1> QED BY <1>4, <1>5, <1>6, <1>7 DEF TrackInv

\* Dispatch: an instruction younger than the buffer enters it and the queues.
LEMMA TrackAdd ==
  ASSUME NEW e, NEW W, NEW U, TrackInv(e, W, U),
         NEW u, u.inst_type \notin {0, HALT}, u.pc \in Int, Below(e, u),
         NEW s \in RobIndex, e[s].status # VALID,
         NEW p \in Front, ~Holds(W, p),
         NEW q \in Rear, u.inst_type \in MemOps => ~Holds(W, q),
         NEW V,
         \A r \in Place : V[r] = IF r = p \/ (r = q /\ u.inst_type \in MemOps)
                                 THEN Inst(u) ELSE W[r],
         NEW T, U \subseteq T, u.inst_type \in MemOps => q \in T
  PROVE  TrackInv([e EXCEPT ![s] = NewRobEntry(u)], V, T)
<1> DEFINE n == NewRobEntry(u)
           x == Inst(u)
           f == [e EXCEPT ![s] = n]
<1>1. /\ Front \subseteq Place /\ Rear \subseteq Place /\ NoInst.inst_type = 0 /\ p # q
      /\ p \notin Rear /\ q \notin Front
  BY NotWork, PlacesApart DEF Place
<1>2. /\ \A i \in RobIndex : f[i] = IF i = s THEN n ELSE e[i]
      /\ RobIndex \subseteq DOMAIN f
  BY DEF TrackInv, EntryShape
<1>3. /\ EntryFields \subseteq DOMAIN n /\ n.status = VALID /\ n.valid = INVALID
      /\ n.inst_ptr = u.pc /\ n.inst_type = u.inst_type /\ n.rd = u.rd
  BY DEF NewRobEntry, EntryFields
<1>4. x.inst_type = u.inst_type /\ x.pc = u.pc /\ x.rd = u.rd
  BY DEF Inst
<1>5. Matches(n, x)
  BY <1>3, <1>4 DEF Matches
<1> HIDE DEF n, x, f
<1>6. \A i \in RobIndex : e[i].status = VALID => e[i].inst_ptr # u.pc /\ i # s
  BY DEF Below
<1>7. ASSUME NEW r \in Place, Holds(W, r)
      PROVE  W[r].pc # u.pc /\ V[r] = W[r] /\ Holds(V, r)
  <2>1. PICK i \in RobIndex : Awaits(e, i, W[r])
    BY <1>7 DEF TrackInv, WorkHasEntry
  <2> QED BY <1>6, <1>7, <2>1 DEF Awaits, Unfinished, Matches, Holds
<1>8. ASSUME NEW r \in Place, Holds(V, r)
      PROVE  \/ Holds(W, r) /\ V[r] = W[r]
             \/ r = p /\ V[r] = x
             \/ r = q /\ V[r] = x /\ u.inst_type \in MemOps
  BY <1>8 DEF Holds, x
<1>9. EntryShape(f)
  BY <1>2, <1>3 DEF TrackInv, EntryShape, Flag
<1>10. EntriesDiffer(f)
  BY <1>2, <1>3, <1>6 DEF TrackInv, EntriesDiffer
<1>11. WorkHasEntry(f, V)
  <2> SUFFICES ASSUME NEW r \in Place, Holds(V, r)
               PROVE  \E i \in RobIndex : Awaits(f, i, V[r])
    BY DEF WorkHasEntry
  <2>1. CASE V[r] = x
    BY <1>2, <1>3, <1>5, <2>1 DEF Awaits, Unfinished
  <2>2. CASE Holds(W, r) /\ V[r] = W[r]
    BY <1>2, <1>6, <2>2 DEF TrackInv, WorkHasEntry, Awaits, Unfinished
  <2> QED BY <1>8, <2>1, <2>2
<1>12. EntryHasWork(f, V)
  <2> SUFFICES ASSUME NEW i \in RobIndex, Unfinished(f, i)
               PROVE  \E r \in Place : Holds(V, r) /\ Matches(f[i], V[r])
    BY DEF EntryHasWork
  <2>1. CASE i = s
    <3>1. V[p] = x /\ Holds(V, p)
      BY <1>1, <1>4 DEF Holds, x
    <3> QED BY <1>1, <1>2, <1>5, <2>1, <3>1
  <2>2. CASE i # s
    BY <1>2, <1>7, <2>2 DEF TrackInv, EntryHasWork, Unfinished
  <2> QED BY <2>1, <2>2
<1>13. OnePlace(V, T)
  <2>1. ASSUME NEW r \in Front, NEW t \in Front, Holds(V, r), Holds(V, t), V[r].pc = V[t].pc
        PROVE  r = t
    BY <1>1, <1>4, <1>7, <1>8, <2>1 DEF TrackInv, OnePlace
  <2>2. ASSUME NEW r \in Rear, NEW t \in Rear, Holds(V, r), Holds(V, t), V[r].pc = V[t].pc
        PROVE  r = t
    BY <1>1, <1>4, <1>7, <1>8, <2>2 DEF TrackInv, OnePlace
  <2>3. ASSUME NEW r \in Front, NEW t \in Rear, Holds(V, r), Holds(V, t), V[r].pc = V[t].pc
        PROVE  t \in T
    BY <1>1, <1>4, <1>7, <1>8, <2>3 DEF TrackInv, OnePlace
  <2> QED BY <2>1, <2>2, <2>3 DEF OnePlace
<1>14. MemoryPath(V)
  <2>1. ASSUME NEW r \in Rear, Holds(V, r) PROVE V[r].inst_type \in MemOps
    BY <1>1, <1>4, <1>8, <2>1 DEF TrackInv, MemoryPath
  <2>2. ASSUME NEW r \in Front, V[r].inst_type \in MemOps
        PROVE  \E m \in Rear : V[m] = V[r]
    <3>1. Holds(V, r)
      BY <2>2, NotWork DEF Holds
    <3>2. CASE r = p /\ V[r] = x
      <4>1. V[q] = x
        BY <1>1, <1>4, <2>2, <3>2 DEF x
      <4> QED BY <3>2, <4>1
    <3>3. CASE Holds(W, r) /\ V[r] = W[r]
      <4>1. PICK m \in Rear : W[m] = W[r]
        BY <2>2, <3>3 DEF TrackInv, MemoryPath
      <4> QED BY <1>1, <1>7, <3>3, <4>1 DEF Holds
    <3> QED BY <1>1, <1>8, <3>1, <3>2, <3>3
  <2> QED BY <2>1, <2>2 DEF MemoryPath
<1> QED BY <1>9, <1>10, <1>11, <1>12, <1>13, <1>14 DEF TrackInv, f, n

\* HALT enters with its result: it waits for nobody.
LEMMA TrackAddHalt ==
  ASSUME NEW e, NEW W, NEW U, TrackInv(e, W, U),
         NEW u, u.inst_type = HALT, u.pc \in Int, Below(e, u),
         NEW s \in RobIndex, e[s].status # VALID
  PROVE  TrackInv([e EXCEPT ![s] = NewRobEntry(u)], W, U)
<1> DEFINE n == NewRobEntry(u)
           f == [e EXCEPT ![s] = n]
<1>1. /\ \A i \in RobIndex : f[i] = IF i = s THEN n ELSE e[i]
      /\ RobIndex \subseteq DOMAIN f
  BY DEF TrackInv, EntryShape
<1>2. /\ EntryFields \subseteq DOMAIN n /\ n.status = VALID /\ n.valid = VALID
      /\ n.inst_ptr = u.pc /\ n.inst_type = HALT
  BY DEF NewRobEntry, EntryFields
<1> HIDE DEF n, f
<1>3. EntryShape(f)
  BY <1>1, <1>2 DEF TrackInv, EntryShape, Flag
<1>4. EntriesDiffer(f)
  <2> SUFFICES ASSUME NEW i \in RobIndex, f[i].status = VALID
               PROVE  /\ f[i].inst_type = HALT => f[i].valid = VALID
                      /\ \A j \in RobIndex :
                           f[j].status = VALID /\ f[j].inst_ptr = f[i].inst_ptr =>
                             i = j \/ f[i].inst_type = HALT
    BY DEF EntriesDiffer
  <2>1. CASE i = s
    BY <1>1, <1>2, <2>1
  <2>2. CASE i # s
    BY <1>1, <1>2, <2>2 DEF TrackInv, EntriesDiffer, Below
  <2> QED BY <2>1, <2>2
<1>5. WorkHasEntry(f, W)
  BY <1>1 DEF TrackInv, WorkHasEntry, Awaits, Unfinished
<1>6. EntryHasWork(f, W)
  BY <1>1, <1>2, NotWork DEF TrackInv, EntryHasWork, Unfinished
<1> QED BY <1>3, <1>4, <1>5, <1>6 DEF TrackInv, f, n

\* Nothing moves; more places may be without an address.
LEMMA TrackSame ==
  ASSUME NEW e, NEW W, NEW U, TrackInv(e, W, U),
         NEW V, \A r \in Place : V[r] = W[r],
         NEW T, U \subseteq T
  PROVE  TrackInv(e, V, T)
<1>1. Front \subseteq Place /\ Rear \subseteq Place
  BY DEF Place
<1>2. \A r \in Place : Holds(V, r) <=> Holds(W, r)
  BY DEF Holds
<1>3. WorkHasEntry(e, V) /\ EntryHasWork(e, V)
  BY <1>2 DEF TrackInv, WorkHasEntry, EntryHasWork
<1>4. OnePlace(V, T)
  BY <1>1, <1>2 DEF TrackInv, OnePlace
<1>5. MemoryPath(V)
  BY <1>1, <1>2 DEF TrackInv, MemoryPath
<1> QED BY <1>3, <1>4, <1>5 DEF TrackInv

\* A unit takes what is in F, at most one place, into q.
LEMMA TrackTake ==
  ASSUME NEW e, NEW W, NEW U, TrackInv(e, W, U),
         NEW F, F \subseteq Place, \A p, o \in F : p = o,
         NEW q \in Place, q \notin F, F # {} => ~Holds(W, q),
         (F \subseteq Front /\ q \in Front) \/ (F \subseteq Rear /\ q \in Rear /\ F \cap U = {}),
         NEW V,
         \A r \in Place : V[r] = IF r = q /\ F # {} THEN W[CHOOSE p \in F : TRUE]
                                 ELSE IF r \in F THEN NoInst ELSE W[r],
         NEW T, U \subseteq T
  PROVE  TrackInv(e, V, T)
<1>1. CASE F = {}
  BY <1>1, TrackSame
<1>2. CASE F # {}
  <2>1. PICK p \in F : TRUE
    BY <1>2
  <2>2. F = {p} /\ (CHOOSE o \in F : TRUE) = p
    BY <2>1
  <2>3. \A r \in Place : V[r] = IF r = q THEN W[p] ELSE IF r = p THEN NoInst ELSE W[r]
    BY <2>2
  <2>4. /\ p \in Place /\ p # q /\ ~Holds(W, q)
        /\ (p \in Front /\ q \in Front) \/ (p \in Rear /\ q \in Rear /\ p \notin U)
    BY <1>2, <2>1
  <2> QED BY <2>3, <2>4, TrackMove
<1> QED BY <1>1, <1>2

-----------------------------------------------------------------------------
(***************************************************************************)
(* The places of the machine.                                              *)
(***************************************************************************)
\* Different numbers and units are different places.
LEMMA PlacesDiffer ==
  /\ \A i, j : IqPlace(i) = IqPlace(j) => i = j
  /\ \A i, j : LsqPlace(i) = LsqPlace(j) => i = j
  /\ \A u, v : UnitPlace(u) = UnitPlace(v) => u = v
  /\ \A i, j : IqPlace(i) # LsqPlace(j) /\ IqPlace(i) # UnitPlace(j) /\ LsqPlace(i) # UnitPlace(j)
  BY DEF IqPlace, LsqPlace, UnitPlace

LEMMA PlacesOf ==
  /\ \A i \in IqIndex : IqPlace(i) \in Front /\ IqPlace(i) \in Place
  /\ \A k \in LsqIndex : LsqPlace(k) \in Rear /\ LsqPlace(k) \in Place
  /\ \A u \in FrontUnits : UnitPlace(u) \in Front /\ UnitPlace(u) \in Place
  /\ UnitPlace("MEM") \in Rear /\ UnitPlace("MEM") \in Place
  /\ \A r \in Place : \/ \E i \in IqIndex : r = IqPlace(i)
                      \/ \E k \in LsqIndex : r = LsqPlace(k)
                      \/ \E u \in FrontUnits : r = UnitPlace(u)
                      \/ r = UnitPlace("MEM")
  BY DEF Front, Rear, Place

\* What is where.
LEMMA WorkAt ==
  ASSUME NEW q, NEW l, NEW st, NEW open
  PROVE  /\ \A i \in IqIndex : Work(q, l, st, open)[IqPlace(i)] = Inst(q[i].op)
         /\ \A k \in LsqIndex : Work(q, l, st, open)[LsqPlace(k)] = Inst(l[k].op)
         /\ \A u \in FrontUnits \cup {"MEM"} :
              Work(q, l, st, open)[UnitPlace(u)] = IF u \in open THEN Inst(st[u]) ELSE NoInst
<1>1. ASSUME NEW i \in IqIndex PROVE Work(q, l, st, open)[IqPlace(i)] = Inst(q[i].op)
  <2>1. IqPlace(i) \in Place
    BY PlacesOf
  <2>2. IqPlace(i)[1] = "iq" /\ IqPlace(i)[2] = i
    BY DEF IqPlace
  <2> QED BY <2>1, <2>2 DEF Work
<1>2. ASSUME NEW k \in LsqIndex PROVE Work(q, l, st, open)[LsqPlace(k)] = Inst(l[k].op)
  <2>1. LsqPlace(k) \in Place
    BY PlacesOf
  <2>2. LsqPlace(k)[1] = "lsq" /\ LsqPlace(k)[2] = k
    BY DEF LsqPlace
  <2> QED BY <2>1, <2>2 DEF Work
<1>3. ASSUME NEW u \in FrontUnits \cup {"MEM"}
      PROVE  Work(q, l, st, open)[UnitPlace(u)] = IF u \in open THEN Inst(st[u]) ELSE NoInst
  <2>1. UnitPlace(u) \in Place
    BY PlacesOf
  <2>2. UnitPlace(u)[1] = "unit" /\ UnitPlace(u)[2] = u
    BY DEF UnitPlace
  <2> QED BY <2>1, <2>2 DEF Work
<1> QED BY <1>1, <1>2, <1>3

LEMMA InstFields ==
  ASSUME NEW op
  PROVE  /\ Inst(op).inst_type = op.inst_type
         /\ op.inst_type # 0 => Inst(op).pc = op.pc /\ Inst(op).rd = op.rd
         /\ op.inst_type = 0 => Inst(op) = NoInst
  BY DEF Inst, NoInst

\* The same instructions in the same places.
LEMMA SameWork ==
  ASSUME NEW q, NEW l, NEW st, NEW open, NEW q2, NEW l2, NEW st2, NEW open2,
         \A i \in IqIndex : Inst(q2[i].op) = Inst(q[i].op),
         \A k \in LsqIndex : Inst(l2[k].op) = Inst(l[k].op),
         \A u \in FrontUnits \cup {"MEM"} :
           (IF u \in open2 THEN Inst(st2[u]) ELSE NoInst) = IF u \in open THEN Inst(st[u]) ELSE NoInst
  PROVE  \A r \in Place : Work(q2, l2, st2, open2)[r] = Work(q, l, st, open)[r]
<1> SUFFICES ASSUME NEW r \in Place
             PROVE  Work(q2, l2, st2, open2)[r] = Work(q, l, st, open)[r]
  OBVIOUS
<1>1. CASE \E i \in IqIndex : r = IqPlace(i)
  BY <1>1, WorkAt
<1>2. CASE \E k \in LsqIndex : r = LsqPlace(k)
  BY <1>2, WorkAt
<1>3. CASE \E u \in FrontUnits \cup {"MEM"} : r = UnitPlace(u)
  <2>1. PICK u \in FrontUnits \cup {"MEM"} : r = UnitPlace(u)
    BY <1>3
  <2> DEFINE here  == IF u \in open THEN Inst(st[u]) ELSE NoInst
             there == IF u \in open2 THEN Inst(st2[u]) ELSE NoInst
  <2>2. here = there
    OBVIOUS
  <2>3. Work(q, l, st, open)[r] = here /\ Work(q2, l2, st2, open2)[r] = there
    BY <2>1, WorkAt
  <2> QED BY <2>2, <2>3
<1> QED BY <1>1, <1>2, <1>3, PlacesOf

\* The search for a free entry finds one if there is one.
LEMMA FreeFound ==
  ASSUME NEW n \in Nat, NEW q, DOMAIN q = 0 .. n - 1, HasFree(q)
  PROVE  FirstFree(q) \in DOMAIN q /\ q[FirstFree(q)].status = INVALID
<1> DEFINE F == {i \in 0 .. n - 1 : q[i].status = INVALID}
<1>1. F \subseteq Nat /\ F # {}
  BY DEF HasFree
<1>2. PICK i \in F : \A j \in F : ~ (<<j, i>> \in OpToRel(<, Nat))
  BY <1>1, NatLessThanWellFounded, WFMin
<1>3. \A j \in F : ~ (j < i)
  BY <1>1, <1>2 DEF OpToRel
<1>4. i \in DOMAIN q /\ q[i].status = INVALID /\ \A j \in 0 .. i - 1 : q[j].status # INVALID
  <2>1. ASSUME NEW j \in 0 .. i - 1 PROVE j \in 0 .. n - 1 /\ j < i
    OBVIOUS
  <2> QED BY <1>3, <2>1
<1> QED BY <1>4 DEF FirstFree

-----------------------------------------------------------------------------
(***************************************************************************)
(* What the operations of the queues keep.                                 *)
(***************************************************************************)
\* Two instructions in different stages of their way.
SameInst(o, op) ==
  HasInst(o) /\ o.inst_type = op.inst_type /\ o.pc = op.pc /\ o.rd = op.rd

LEMMA SameInstInst == ASSUME NEW o, NEW op, SameInst(o, op) PROVE Inst(o) = Inst(op)
  BY DEF SameInst, Inst

\* A broadcast changes operands only.
LEMMA BroadcastIq ==
  ASSUME NEW q, IqShape(q), NEW tag, NEW value
  PROVE  /\ IqShape(update_issue_queue_entry(q, tag, value))
         /\ \A i \in IqIndex :
              Inst(update_issue_queue_entry(q, tag, value)[i].op) = Inst(q[i].op)
<1> DEFINE new == update_issue_queue_entry(q, tag, value)
<1>1. DOMAIN new = IqIndex
  BY DEF update_issue_queue_entry
<1>2. ASSUME NEW i \in IqIndex
      PROVE  /\ {"status", "stage_cycle", "op"} \subseteq DOMAIN new[i]
             /\ new[i].status = q[i].status /\ SameInst(new[i].op, q[i].op)
  <2> DEFINE o == TakeValue(q[i].op, tag, value)
  <2>1. /\ {"status", "stage_cycle", "op"} \subseteq DOMAIN q[i] /\ HasInst(q[i].op)
    BY DEF IqShape
  <2>2. SameInst(o, q[i].op)
    BY <2>1 DEF TakeValue, HasInst, SameInst
  <2>3. new[i] = q[i] \/ new[i] = [q[i] EXCEPT !.op = o]
    BY DEF update_issue_queue_entry
  <2> HIDE DEF o, new
  <2>4. SameInst(q[i].op, q[i].op)
    BY <2>1 DEF SameInst
  <2> QED BY <2>1, <2>2, <2>3, <2>4
<1> HIDE DEF new
<1>3. IqShape(new)
  BY <1>1, <1>2 DEF IqShape, SameInst
<1>4. \A i \in IqIndex : Inst(new[i].op) = Inst(q[i].op)
  BY <1>2, SameInstInst
<1> QED BY <1>3, <1>4 DEF new

LEMMA BroadcastLsq ==
  ASSUME NEW l, LsqShape(l), NEW tag, NEW value
  PROVE  /\ LsqShape(update_ls_queue_entry_reg(l, tag, value))
         /\ \A k \in LsqIndex :
              Inst(update_ls_queue_entry_reg(l, tag, value)[k].op) = Inst(l[k].op)
         /\ Unaddressed(update_ls_queue_entry_reg(l, tag, value)) = Unaddressed(l)
<1> DEFINE new == update_ls_queue_entry_reg(l, tag, value)
<1>1. DOMAIN new = LsqIndex
  BY DEF update_ls_queue_entry_reg
<1>2. ASSUME NEW k \in LsqIndex
      PROVE  /\ {"status", "stage_cycle", "mem_valid", "op"} \subseteq DOMAIN new[k]
             /\ new[k].status = l[k].status /\ new[k].stage_cycle = l[k].stage_cycle
             /\ new[k].mem_valid = l[k].mem_valid /\ SameInst(new[k].op, l[k].op)
  <2> DEFINE o == [l[k].op EXCEPT !.rd_value = value, !.rd_valid = VALID]
  <2>1. {"status", "stage_cycle", "mem_valid", "op"} \subseteq DOMAIN l[k] /\ HasInst(l[k].op)
    BY DEF LsqShape
  <2>2. SameInst(o, l[k].op)
    BY <2>1 DEF HasInst, SameInst
  <2>3. new[k] = l[k] \/ new[k] = [l[k] EXCEPT !.op = o]
    BY <2>1 DEF update_ls_queue_entry_reg
  <2> HIDE DEF o, new
  <2>4. SameInst(l[k].op, l[k].op)
    BY <2>1 DEF SameInst
  <2> QED BY <2>1, <2>2, <2>3, <2>4
<1> HIDE DEF new
<1>3. LsqShape(new)
  BY <1>1, <1>2 DEF LsqShape, SameInst
<1>4. \A k \in LsqIndex : Inst(new[k].op) = Inst(l[k].op)
  BY <1>2, SameInstInst
<1>5. Unaddressed(new) = Unaddressed(l)
  BY <1>2 DEF Unaddressed
<1> QED BY <1>3, <1>4, <1>5 DEF new

\* The instruction in DRF, before and after it has heard of a value.
SameLatch(d, c) ==
  /\ {"op", "stalled", "executed"} \subseteq DOMAIN d
  /\ SameInst(d.op, c.op) /\ d.stalled = c.stalled

LEMMA ForwardSame ==
  ASSUME NEW d, NEW c, SameLatch(d, c), NEW tag, NEW value, NEW valid
  PROVE  SameLatch(ForwardToDecode(d, tag, value, valid), c)
<1> DEFINE e == ForwardToDecode(d, tag, value, valid)
<1>1. /\ {"op", "stalled", "executed"} \subseteq DOMAIN e
      /\ e.stalled = d.stalled
  BY DEF ForwardToDecode, SameLatch
<1>2. HasInst(e.op) /\ e.op.inst_type = d.op.inst_type /\ e.op.pc = d.op.pc /\ e.op.rd = d.op.rd
  BY DEF ForwardToDecode, SameLatch, SameInst, HasInst
<1> QED BY <1>1, <1>2 DEF SameLatch, SameInst

\* An address that arrives marks the entry of its own instruction, if any.
LEMMA AddressLsq ==
  ASSUME NEW l, LsqShape(l), NEW op
  PROVE  LET new == update_ls_queue_entry_mem_address(l, op)
         IN  /\ LsqShape(new)
             /\ \A k \in LsqIndex : Inst(new[k].op) = Inst(l[k].op)
             /\ \A k \in LsqIndex : LsqPlace(k) \in Unaddressed(l) =>
                  LsqPlace(k) \in Unaddressed(new) \/ l[k].op.pc = op.pc
<1> DEFINE new == update_ls_queue_entry_mem_address(l, op)
           n == op.lsq_index
           e == [l[n] EXCEPT !.op.mem_address = op.mem_address, !.mem_valid = VALID]
<1>1. CASE new = l
  BY <1>1
<1>2. CASE l[n].op.pc = op.pc /\ new = [l EXCEPT ![n] = e]
  <2>1. \A k \in LsqIndex : new[k] = IF k = n THEN e ELSE l[k]
    BY <1>2 DEF LsqShape
  <2>2. DOMAIN new = LsqIndex
    BY <1>2 DEF LsqShape
  <2>3. n \in LsqIndex =>
          /\ {"status", "stage_cycle", "mem_valid", "op"} \subseteq DOMAIN e
          /\ e.status = l[n].status /\ e.stage_cycle = l[n].stage_cycle
          /\ e.mem_valid = VALID /\ SameInst(e.op, l[n].op)
    BY DEF LsqShape, HasInst, SameInst
  <2> HIDE DEF new, e
  <2>4. LsqShape(new)
    BY <2>1, <2>2, <2>3 DEF LsqShape, SameInst, Flag
  <2>5. \A k \in LsqIndex : Inst(new[k].op) = Inst(l[k].op)
    BY <2>1, <2>3, SameInstInst
  <2>6. ASSUME NEW k \in LsqIndex, LsqPlace(k) \in Unaddressed(l)
        PROVE  LsqPlace(k) \in Unaddressed(new) \/ l[k].op.pc = op.pc
    <3>1. l[k].mem_valid = INVALID
      BY <2>6, PlacesDiffer DEF Unaddressed
    <3>2. CASE k = n
      BY <1>2, <3>2
    <3>3. CASE k # n
      BY <2>1, <3>1, <3>3 DEF Unaddressed
    <3> QED BY <3>2, <3>3
  <2> QED BY <2>4, <2>5, <2>6 DEF new
<1>3. new = l \/ (l[n].op.pc = op.pc /\ new = [l EXCEPT ![n] = e])
  BY DEF update_ls_queue_entry_mem_address
<1> QED BY <1>1, <1>2, <1>3

\* The first entry with the address of an instruction at work is its own.
LEMMA UpdateHits ==
  ASSUME NEW r, "rob_entry" \in DOMAIN r,
         NEW e, e = r.rob_entry, NEW W, NEW U, TrackInv(e, W, U),
         NEW p \in Place, Holds(W, p),
         NEW u, u.pc = W[p].pc, u.rd = W[p].rd,
         NEW f, f = update_reorder_buffer_entry_data(r, u).rob_entry
  PROVE  /\ RobIndex \subseteq DOMAIN f
         /\ \A i \in RobIndex :
              f[i] = IF e[i].status = VALID /\ e[i].inst_ptr = W[p].pc
                     THEN FinishedEntry(e[i], u) ELSE e[i]
<1> DEFINE g == [i \in RobIndex |-> IF FirstMatch(r, u.pc, i) /\ e[i].rd = u.rd
                                    THEN FinishedEntry(e[i], u) ELSE e[i]]
           Hit(i) == e[i].status = VALID /\ e[i].inst_ptr = W[p].pc
<1>1. update_reorder_buffer_entry_data(r, u) = [r EXCEPT !.rob_entry = g]
  BY DEF update_reorder_buffer_entry_data
<1>2. PICK i \in RobIndex : Awaits(e, i, W[p]) /\ \A j \in RobIndex : Hit(j) => j = i
  BY EntryOfWork
<1>3. Hit(i) /\ e[i].rd = u.rd
  BY <1>2 DEF Awaits, Unfinished, Matches
<1>4. ASSUME NEW j \in RobIndex PROVE (FirstMatch(r, u.pc, j) /\ e[j].rd = u.rd) <=> Hit(j)
  <2>1. ASSUME NEW k \in 0 .. i - 1 PROVE k \in RobIndex /\ k # i
    BY RobSizeAssumption DEF RobIndex
  <2>2. \A k \in 0 .. i - 1 : ~Hit(k)
    BY <1>2, <2>1
  <2>3. Hit(j) => j = i
    BY <1>2
  <2>4. FirstMatch(r, u.pc, j) <=> Hit(j) /\ \A k \in 0 .. j - 1 : ~Hit(k)
    BY DEF FirstMatch
  <2> HIDE DEF Hit
  <2> QED BY <1>3, <2>2, <2>3, <2>4
<1> HIDE DEF Hit
<1>5. \A j \in RobIndex : g[j] = IF Hit(j) THEN FinishedEntry(e[j], u) ELSE e[j]
  BY <1>4
<1> HIDE DEF g
<1>6. f = g
  BY <1>1
<1> QED BY <1>5, <1>6 DEF Hit, g

-----------------------------------------------------------------------------
(***************************************************************************)
(* Writeback, unit by unit.                                                *)
(***************************************************************************)
SameEntries(f, e) ==
  \A i \in RobIndex : /\ f[i].status = e[i].status /\ f[i].inst_ptr = e[i].inst_ptr
                      /\ f[i].inst_type = e[i].inst_type /\ f[i].rd = e[i].rd

WriteWork(w, open) ==
  /\ {"rob", "iq", "lsq", "drf"} \subseteq DOMAIN w
  /\ RobInv(w.rob) /\ w.rob.issue_ptr = rob.issue_ptr
  /\ SameEntries(w.rob.rob_entry, rob.rob_entry)
  /\ IqShape(w.iq) /\ LsqShape(w.lsq)
  /\ \A i \in IqIndex : Inst(w.iq[i].op) = Inst(iq[i].op)
  /\ SameLatch(w.drf, drf)
  /\ TrackInv(w.rob.rob_entry, Work(w.iq, w.lsq, stage, open), Unaddressed(w.lsq))

\* A unit that is drained is done with.
LEMMA WriteUnitWork ==
  ASSUME UnitShape(stage),
         NEW open, NEW w, WriteWork(w, open),
         NEW u \in {"INT_TWO", "MUL_THREE", "MEM"}, u \in open,
         \/ Empty(u) \/ stage[u].rd_valid = VALID
         \/ u = "INT_TWO" /\ stage[u].inst_type \in MemOps
         \/ u = "MEM" /\ mem_stage.executed = INVALID
  PROVE  WriteWork(WriteUnit(w, u),
                   IF u = "MEM" /\ mem_stage.executed = INVALID THEN open ELSE open \ {u})
<1> DEFINE op   == stage[u]
           p    == UnitPlace(u)
           next == open \ {u}
           W    == Work(w.iq, w.lsq, stage, open)
           busy == u = "MEM" /\ mem_stage.executed = INVALID
           addr == u = "INT_TWO" /\ op.inst_type \in MemOps
<1>0. /\ u \in Units /\ u \in FrontUnits \cup {"MEM"} /\ p \in Place /\ u # "BRANCH"
      /\ HasInst(op) /\ op.inst_type \in UnitTypes(u)
      /\ u = "MEM" => p \in Rear /\ p \notin Front
      /\ u # "MEM" => p \in Front /\ p \notin Rear
  BY PlacesOf, PlacesApart DEF Units, FrontUnits, UnitShape
<1>1. W[p] = Inst(op)
  BY <1>0, WorkAt
<1>2. ASSUME NEW q, NEW l, \A i \in IqIndex : Inst(q[i].op) = Inst(w.iq[i].op),
             \A k \in LsqIndex : Inst(l[k].op) = Inst(w.lsq[k].op)
      PROVE  \A r \in Place : Work(q, l, stage, next)[r] = IF r = p THEN NoInst ELSE W[r]
  <2> SUFFICES ASSUME NEW r \in Place
               PROVE  Work(q, l, stage, next)[r] = IF r = p THEN NoInst ELSE W[r]
    OBVIOUS
  <2>1. CASE \E i \in IqIndex : r = IqPlace(i)
    BY <1>2, <2>1, WorkAt, PlacesDiffer
  <2>2. CASE \E k \in LsqIndex : r = LsqPlace(k)
    BY <1>2, <2>2, WorkAt, PlacesDiffer
  <2>3. ASSUME NEW v \in FrontUnits \cup {"MEM"}, r = UnitPlace(v)
        PROVE  Work(q, l, stage, next)[r] = IF r = p THEN NoInst ELSE W[r]
    <3>1. r = p <=> v = u
      BY <2>3, PlacesDiffer
    <3>2. /\ Work(q, l, stage, next)[r] = IF v \in next THEN Inst(stage[v]) ELSE NoInst
          /\ W[r] = IF v \in open THEN Inst(stage[v]) ELSE NoInst
      BY <2>3, WorkAt
    <3> QED BY <3>1, <3>2
  <2> QED BY <2>1, <2>2, <2>3, PlacesOf
<1> HIDE DEF p, next, W
<1>3. CASE busy
  BY <1>3, WriteUnitIdle
<1>4. CASE ~busy /\ Empty(u)
  <2>1. WriteUnit(w, u) = w
    BY <1>4, WriteUnitIdle
  <2>2. op.inst_type = 0 /\ W[p] = NoInst
    BY <1>1, <1>4, InstFields DEF Empty
  <2>3. \A r \in Place : Work(w.iq, w.lsq, stage, next)[r] = W[r]
    BY <1>2, <2>2
  <2>4. TrackInv(w.rob.rob_entry, Work(w.iq, w.lsq, stage, next), Unaddressed(w.lsq))
    BY <2>3, TrackSame DEF WriteWork, W
  <2> QED BY <1>4, <2>1, <2>4 DEF WriteWork, next
<1>5. CASE ~busy /\ ~Empty(u) /\ addr
  <2> DEFINE l == update_ls_queue_entry_mem_address(w.lsq, op)
  <2>1. WriteUnit(w, u) = [w EXCEPT !.lsq = l]
    BY <1>5, WriteUnitAddress
  <2>2. /\ LsqShape(l)
        /\ \A k \in LsqIndex : Inst(l[k].op) = Inst(w.lsq[k].op)
        /\ \A k \in LsqIndex : LsqPlace(k) \in Unaddressed(w.lsq) =>
             LsqPlace(k) \in Unaddressed(l) \/ w.lsq[k].op.pc = op.pc
    BY AddressLsq DEF WriteWork
  <2> HIDE DEF l
  <2>3. \A r \in Place : Work(w.iq, l, stage, next)[r] = IF r = p THEN NoInst ELSE W[r]
    BY <1>2, <2>2
  <2>4. W[p].inst_type \in MemOps /\ W[p].pc = op.pc
    BY <1>1, <1>5, InstFields DEF Empty
  <2>5. \A q \in Unaddressed(w.lsq) : q \in Unaddressed(l) \/ ~Holds(W, q) \/ W[q].pc = W[p].pc
    <3> SUFFICES ASSUME NEW k \in LsqIndex, LsqPlace(k) \in Unaddressed(w.lsq),
                        Holds(W, LsqPlace(k)), w.lsq[k].op.pc = op.pc
                 PROVE  W[LsqPlace(k)].pc = W[p].pc
      BY <2>2 DEF Unaddressed
    <3>1. W[LsqPlace(k)] = Inst(w.lsq[k].op)
      BY WorkAt DEF W
    <3>2. w.lsq[k].op.inst_type # 0
      BY <3>1, InstFields DEF Holds
    <3> QED BY <2>4, <3>1, <3>2, InstFields
  <2>6. p \in Front /\ TrackInv(w.rob.rob_entry, W, Unaddressed(w.lsq))
    BY <1>0, <1>5 DEF WriteWork, W
  <2>7. TrackInv(w.rob.rob_entry, Work(w.iq, l, stage, next), Unaddressed(l))
    BY <2>3, <2>4, <2>5, <2>6, TrackAddressed
  <2> QED BY <1>5, <2>1, <2>2, <2>7 DEF WriteWork, next
<1>6. CASE ~busy /\ ~Empty(u) /\ ~addr
  <2> DEFINE buffer == update_reorder_buffer_entry_data(w.rob, op)
             queue  == update_issue_queue_entry(w.iq, op.rd, op.rd_value)
             memory == update_ls_queue_entry_reg(w.lsq, op.rd, op.rd_value)
             decode == ForwardToDecode(w.drf, op.rd, op.rd_value, op.rd_valid)
             finished == [w EXCEPT !.rob = buffer]
  <2>1. WriteUnit(w, u) =
          [finished EXCEPT !.iq = queue, !.lsq = memory, !.drf = decode]
    <3>1. u # "BRANCH"
      BY <1>0
    <3> QED BY <1>6, <3>1, WriteUnitResult
  <2>2. /\ IqShape(queue) /\ LsqShape(memory) /\ SameLatch(decode, drf)
        /\ \A i \in IqIndex : Inst(queue[i].op) = Inst(w.iq[i].op)
        /\ \A k \in LsqIndex : Inst(memory[k].op) = Inst(w.lsq[k].op)
        /\ Unaddressed(memory) = Unaddressed(w.lsq)
    BY BroadcastIq, BroadcastLsq, ForwardSame DEF WriteWork
  <2>3. RobInv(buffer) /\ buffer.issue_ptr = rob.issue_ptr
    BY UpdateRobInv, UpdateFields DEF WriteWork
  <2>4. /\ W[p].inst_type = op.inst_type /\ W[p].pc = op.pc /\ W[p].rd = op.rd
        /\ Holds(W, p) /\ op.rd_valid = VALID
    BY <1>1, <1>6, InstFields DEF Empty, Holds
  <2>5. /\ p \in Front => W[p].inst_type \notin MemOps
        /\ p \in Rear => p \notin Unaddressed(w.lsq)
    <3>1. ASSUME p \in Front PROVE W[p].inst_type \notin MemOps
      <4>1. u = "INT_TWO" \/ u = "MUL_THREE"
        BY <1>0, <3>1
      <4> QED BY <1>0, <1>6, <2>4, <4>1 DEF UnitTypes, MUL, MemOps, Stores, Loads, STORE, STR, LOAD, LDR,
              Empty
    <3> QED BY <3>1, PlacesDiffer DEF Unaddressed, p
  <2>6. TrackInv(w.rob.rob_entry, W, Unaddressed(w.lsq)) /\ "rob_entry" \in DOMAIN w.rob
    BY DEF WriteWork, W, RobInv, RobShape
  <2> DEFINE f == buffer.rob_entry
  <2>7. /\ RobIndex \subseteq DOMAIN f
        /\ \A i \in RobIndex :
             f[i] = IF w.rob.rob_entry[i].status = VALID /\ w.rob.rob_entry[i].inst_ptr = W[p].pc
                    THEN FinishedEntry(w.rob.rob_entry[i], op) ELSE w.rob.rob_entry[i]
    <3> HIDE DEF queue, memory, decode, finished, op
    <3>1. op.pc = W[p].pc /\ op.rd = W[p].rd /\ Holds(W, p) /\ p \in Place
      BY <1>0, <2>4
    <3> QED BY <2>6, <3>1, UpdateHits
  <2>8. SameEntries(f, rob.rob_entry)
    <3> DEFINE e == w.rob.rob_entry
    <3>1. \A i \in RobIndex :
            /\ FinishedEntry(e[i], op).status = e[i].status
            /\ FinishedEntry(e[i], op).inst_ptr = e[i].inst_ptr
            /\ FinishedEntry(e[i], op).inst_type = e[i].inst_type
            /\ FinishedEntry(e[i], op).rd = e[i].rd
      BY DEF FinishedEntry
    <3> HIDE DEF f, op
    <3> QED BY <2>7, <3>1 DEF WriteWork, SameEntries
  <2> HIDE DEF buffer, queue, memory, decode, f
  <2>9. \A r \in Place : Work(queue, memory, stage, next)[r] = IF r = p THEN NoInst ELSE W[r]
    BY <1>2, <2>2
  <2>10. TrackInv(f, Work(queue, memory, stage, next), Unaddressed(w.lsq))
    BY <1>0, <2>4, <2>5, <2>6, <2>7, <2>9, TrackFinish
  <2>11. WriteWork([finished EXCEPT !.iq = queue, !.lsq = memory, !.drf = decode], next)
    BY <2>2, <2>3, <2>10, <2>8 DEF WriteWork, f
  <2> QED BY <1>6, <2>1, <2>11 DEF next
<1> QED BY <1>3, <1>4, <1>5, <1>6

LEMMA WritebackWorkStep ==
  ASSUME WorkInv, Writeback
  PROVE  /\ PlacesInv' /\ SameLatch(drf', drf)
         /\ SameEntries(rob'.rob_entry, rob.rob_entry) /\ rob'.issue_ptr = rob.issue_ptr
         /\ \A i \in IqIndex : Inst(iq'[i].op) = Inst(iq[i].op)
<1> DEFINE start  == [rob |-> rob, iq |-> iq, lsq |-> lsq, drf |-> drf]
           int    == WriteUnit(start, "INT_TWO")
           mul    == WriteUnit(int, "MUL_THREE")
           branch == WriteUnit(mul, "BRANCH")
           w      == WriteUnit(branch, "MEM")
           Left   == (Units \ {"INT_TWO"}) \ {"MUL_THREE"}
           Last   == IF mem_stage.executed = INVALID THEN Left ELSE Left \ {"MEM"}
<1>1. rob' = w.rob /\ iq' = w.iq /\ lsq' = w.lsq /\ drf' = w.drf
  BY DEF Writeback
<1>2. step = "writeback" /\ step' = "dispatch" /\ UNCHANGED <<stage, mem_stage>>
  BY DEF Writeback, Turn, backVars
<1>3. UnitShape(stage) /\ stage["BRANCH"].inst_type = 0 /\ mem_stage.executed \in Flag
  BY DEF WorkInv, PlacesInv, MemoryFlag, OrderInv, BranchUnitIdle
<1>4. /\ stage["INT_TWO"].inst_type \in {0} \cup MemOps \/ stage["INT_TWO"].rd_valid = VALID
      /\ stage["MUL_THREE"].inst_type = 0 \/ stage["MUL_THREE"].rd_valid = VALID
      /\ mem_stage.executed = INVALID \/ stage["MEM"].rd_valid = VALID
  BY <1>2, <1>3 DEF WorkInv, PlacesInv, ResultsReady, Flag
<1>5. WriteWork(start, Units)
  <2>1. Open = Units
    BY <1>2 DEF Open, Drained
  <2>2. SameLatch(drf, drf)
    BY DEF WorkInv, FrontOnce, FrontShape, SameLatch, SameInst
  <2>3. RobInv(rob) /\ IqShape(iq) /\ LsqShape(lsq)
    BY DEF WorkInv, PlacesInv, OrderInv
  <2>4. TrackInv(rob.rob_entry, Work(iq, lsq, stage, Units), Unaddressed(lsq))
    BY <2>1 DEF WorkInv, PlacesInv
  <2> QED BY <2>2, <2>3, <2>4 DEF WriteWork, SameEntries
<1> HIDE DEF start
<1>6. WriteWork(int, Units \ {"INT_TWO"})
  <2>1. "INT_TWO" \in Units /\ "INT_TWO" # "MEM"
    BY DEF Units
  <2> QED BY <1>3, <1>4, <1>5, <2>1, WriteUnitWork DEF Empty
<1> HIDE DEF int
<1>7. WriteWork(mul, Left)
  <2>1. "MUL_THREE" \in Units \ {"INT_TWO"} /\ "MUL_THREE" # "MEM"
    BY DEF Units
  <2> QED BY <1>3, <1>4, <1>6, <2>1, WriteUnitWork DEF Empty
<1> HIDE DEF mul
<1>8. branch = mul
  BY <1>3, WriteUnitIdle DEF Empty
<1> HIDE DEF branch
<1>9. WriteWork(w, Last)
  <2>1. "MEM" \in Left
    BY DEF Units
  <2> QED BY <1>3, <1>4, <1>7, <1>8, <2>1, WriteUnitWork
<1> HIDE DEF w, Left
<1>10. TrackInv(rob'.rob_entry, Work(iq', lsq', stage', Open'), Unaddressed(lsq'))
  <2>1. \A u \in FrontUnits \cup {"MEM"} : u \in Open' <=> u \in Last
    BY <1>2, <1>3 DEF Open, Drained, Left, Units, FrontUnits, Flag, VALID, INVALID
  <2>2. \A r \in Place : Work(w.iq, w.lsq, stage, Open')[r] = Work(w.iq, w.lsq, stage, Last)[r]
    BY <2>1, SameWork
  <2>3. TrackInv(w.rob.rob_entry, Work(w.iq, w.lsq, stage, Last), Unaddressed(w.lsq))
    BY <1>9 DEF WriteWork
  <2>4. TrackInv(w.rob.rob_entry, Work(w.iq, w.lsq, stage, Open'), Unaddressed(w.lsq))
    BY <2>2, <2>3, TrackSame
  <2> QED BY <1>1, <1>2, <2>4
<1>11. ResultsReady' /\ MemoryFlag'
  BY <1>2 DEF WorkInv, PlacesInv, ResultsReady, MemoryFlag, Drained, Empty
<1>12. IqShape(iq') /\ LsqShape(lsq') /\ UnitShape(stage')
  BY <1>1, <1>2, <1>3, <1>9 DEF WriteWork
<1>13. /\ SameLatch(drf', drf) /\ SameEntries(rob'.rob_entry, rob.rob_entry)
       /\ rob'.issue_ptr = rob.issue_ptr
       /\ \A i \in IqIndex : Inst(iq'[i].op) = Inst(iq[i].op)
  BY <1>1, <1>9 DEF WriteWork
<1> QED BY <1>10, <1>11, <1>12, <1>13 DEF PlacesInv

-----------------------------------------------------------------------------
(***************************************************************************)
(* The front two latches.                                                  *)
(***************************************************************************)
\* What no handler of the front end touches stays in order.
LEMMA QuietFront ==
  ASSUME WorkInv, {step, step'} \cap {"push_front", "decode", "fetch"} = {},
         SameLatch(drf', drf), UNCHANGED <<fetch_stage, pc>>,
         \A i \in RobIndex :
           rob'.rob_entry[i].status = VALID =>
             /\ rob.rob_entry[i].status = VALID
             /\ rob'.rob_entry[i].inst_ptr = rob.rob_entry[i].inst_ptr
             /\ rob'.rob_entry[i].inst_type = rob.rob_entry[i].inst_type
  PROVE  FrontOnce'
<1>1. FrontOnce /\ /\ {"op", "stalled", "executed"} \subseteq DOMAIN drf' /\ HasInst(drf'.op)
                   /\ drf'.op.inst_type = drf.op.inst_type /\ drf'.op.pc = drf.op.pc
                   /\ drf'.stalled = drf.stalled
  BY DEF WorkInv, SameLatch, SameInst
<1>2. FrontShape'
  BY <1>1 DEF FrontOnce, FrontShape
<1>3. HaltStays'
  BY <1>1 DEF FrontOnce, HaltStays
<1>4. FetchedOnce'
  BY <1>1 DEF FrontOnce, FetchedOnce
<1>5. NotYetDispatched'
  BY <1>1 DEF FrontOnce, NotYetDispatched, Below
<1> QED BY <1>2, <1>3, <1>4, <1>5 DEF FrontOnce

LEMMA PushFrontFront == ASSUME WorkInv, PushFront PROVE FrontOnce'
<1>1. /\ FrontOnce /\ step = "push_front" /\ step' = "decode" /\ UNCHANGED <<pc, rob>>
      /\ Empty("BRANCH")
  BY DEF WorkInv, PushFront, Turn, queueVars, OrderInv, BranchUnitIdle, Empty
<1>2. CASE fetch_stage.stalled = INVALID
  <2>1. /\ drf' = [op |-> fetch_stage.op, stalled |-> INVALID, executed |-> INVALID]
        /\ fetch_stage' = fetch_stage /\ drf.op.inst_type # HALT
    BY <1>1, <1>2, NotWork DEF PushFront, FrontOnce, HaltStays
  <2>2. FrontShape' /\ HaltStays'
    BY <1>1, <1>2, <2>1, NotWork DEF FrontOnce, FrontShape, HaltStays
  <2>3. FetchedOnce'
    BY <1>1, <2>1 DEF FrontOnce, FetchedOnce
  <2>4. NotYetDispatched'
    BY <1>1, <1>2, <2>1 DEF FrontOnce, NotYetDispatched, Below
  <2> QED BY <2>2, <2>3, <2>4 DEF FrontOnce
<1>3. CASE fetch_stage.stalled # INVALID
  <2>1. drf' = drf /\ fetch_stage' = [fetch_stage EXCEPT !.stalled = INVALID]
    BY <1>1, <1>3 DEF PushFront
  <2>2. fetch_stage'.op = fetch_stage.op /\ fetch_stage'.stalled = INVALID
        /\ {"op", "stalled"} \subseteq DOMAIN fetch_stage'
    BY <1>1, <2>1 DEF FrontOnce, FrontShape
  <2>3. FrontShape' /\ HaltStays'
    BY <1>1, <2>1, <2>2, NotWork DEF FrontOnce, FrontShape, HaltStays, Flag
  <2>4. FetchedOnce'
    BY <1>1, <2>1, <2>2 DEF FrontOnce, FetchedOnce
  <2>5. NotYetDispatched'
    BY <1>1, <1>3, <2>1 DEF FrontOnce, NotYetDispatched
  <2> QED BY <2>3, <2>4, <2>5 DEF FrontOnce
<1> QED BY <1>2, <1>3

LEMMA FetchFront == ASSUME WorkInv, Fetch PROVE FrontOnce'
<1>1. /\ FrontOnce /\ step = "fetch" /\ step' = "push_units" /\ UNCHANGED <<rob, drf>>
      /\ pc \in Int /\ drf.op.pc \in Int /\ fetch_stage.stalled \in Flag
  BY DEF WorkInv, Fetch, Turn, queueVars, OrderInv, FrontInv, Latch, PlainOp, FrontOnce, FrontShape
<1>2. drf.op.inst_type = HALT <=> fetch_stage.stalled = VALID
  BY <1>1, NotWork DEF FrontOnce, HaltStays
<1>3. PICK in : /\ fetch_stage' = [fetch_stage EXCEPT !.op = FetchedOp(in)]
                /\ \/ drf.op.inst_type = HALT /\ pc' = pc
                   \/ pc' = IF in.inst_type = 0 THEN pc ELSE pc + 4
  BY <1>1, <1>2 DEF Fetch, Flag
<1>4. /\ fetch_stage'.op = FetchedOp(in) /\ fetch_stage'.stalled = fetch_stage.stalled
      /\ {"op", "stalled"} \subseteq DOMAIN fetch_stage'
  BY <1>1, <1>3 DEF FrontOnce, FrontShape
<1>5. FetchedOp(in).inst_type = in.inst_type /\ FetchedOp(in).pc = pc /\ HasInst(FetchedOp(in))
  BY DEF FetchedOp, NoOp, HasInst
<1>6. FrontShape' /\ HaltStays'
  BY <1>1, <1>4, <1>5 DEF FrontOnce, FrontShape, HaltStays
<1>7. FetchedOnce'
  BY <1>1, <1>3, <1>4, <1>5, NotWork DEF FrontOnce, FetchedOnce, HALT
<1>8. NotYetDispatched'
  BY <1>1 DEF FrontOnce, NotYetDispatched
<1> QED BY <1>6, <1>7, <1>8 DEF FrontOnce

\* Decode reads and renames operands.
SameFront(o, op) == HasInst(o) /\ o.inst_type = op.inst_type /\ o.pc = op.pc

LEMMA ReadSameFront ==
  ASSUME NEW op, NEW base, SameFront(op, base)
  PROVE  /\ SameFront(Read1(op), base)
         /\ \A test : SameFront(Read2(op, test), base)
         /\ SameFront(ReadData(op), base)
<1>1. SameFront(Read1(op), base)
  BY DEF Read1, SameFront, HasInst
<1>2. ASSUME NEW test PROVE SameFront(Read2(op, test), base)
  BY DEF Read2, SameFront, HasInst
<1>3. SameFront(ReadData(op), base)
  BY DEF ReadData, SameFront, HasInst
<1> QED BY <1>1, <1>2, <1>3

LEMMA DecodedOp ==
  ASSUME HasInst(drf.op), Decode
  PROVE  \/ DecodeStalled
         \/ \E op : SameFront(op, drf.op) /\ Decoded(op)
<1> DEFINE base == drf.op
           one == Read1(base)
<1>1. SameFront(base, base) /\ SameFront(one, base)
  BY ReadSameFront DEF SameFront
<1>2. \A test : SameFront(Read2(one, test), base)
  BY <1>1, ReadSameFront
<1>3. CASE DecodeStore
  <2>1. PICK o \in {one, Read2(one, one.rs2)} : Decoded(ReadData(o))
    BY <1>3 DEF DecodeStore
  <2> QED BY <1>1, <1>2, <2>1, ReadSameFront
<1>4. CASE DecodeLoad \/ DecodeMove \/ DecodeLiteral \/ DecodeTwoSource \/ DecodeDivExor
  <2>1. PICK o : SameFront(o, base) /\ RenameDest(o)
    <3>1. \/ RenameDest(base) \/ RenameDest(one)
          \/ \E test : RenameDest(Read2(one, test))
      BY <1>4 DEF DecodeLoad, DecodeMove, DecodeLiteral, DecodeTwoSource, DecodeDivExor
    <3> HIDE DEF one
    <3> QED BY <1>1, <1>2, <3>1
  <2> DEFINE renamed == [o EXCEPT !.rd = FirstFreeTag(rename)]
  <2>2. SameFront(renamed, base)
    BY <2>1 DEF SameFront, HasInst
  <2>3. Decoded(renamed) \/ Decoded(o)
    BY <2>1 DEF RenameDest
  <2> HIDE DEF renamed
  <2> QED BY <2>1, <2>2, <2>3
<1>5. CASE DecodeJump
  <2> DEFINE o == IF check_if_reg_renamed(rename, base.rs1)
                  THEN [base EXCEPT !.rs1 = get_reg_renamed_tag(rename, @)]
                  ELSE IF regs_invalid[base.rs1] = 0
                       THEN [base EXCEPT !.rs2_value = regs[base.rs2], !.rs2_valid = VALID] ELSE base
  <2>1. Decoded(o)
    BY <1>5 DEF DecodeJump
  <2>2. SameFront(o, base)
    BY <1>1 DEF SameFront, HasInst
  <2> QED BY <2>1, <2>2
<1>6. CASE DecodeHalt \/ DecodePlain
  BY <1>1, <1>6 DEF DecodeHalt, DecodePlain
<1> QED BY <1>3, <1>4, <1>5, <1>6 DEF Decode

LEMMA DecodeFront == ASSUME WorkInv, Decode PROVE FrontOnce'
<1>1. /\ FrontOnce /\ step = "decode" /\ step' = "fetch" /\ UNCHANGED <<pc, rob>>
      /\ {"op", "stalled", "executed"} \subseteq DOMAIN drf /\ HasInst(drf.op)
      /\ {"op", "stalled"} \subseteq DOMAIN fetch_stage
      /\ fetch_stage.stalled = INVALID
  BY DEF WorkInv, Decode, Turn, queueVars, FrontOnce, FrontShape, HaltStays
<1>2. /\ {"op", "stalled", "executed"} \subseteq DOMAIN drf' /\ SameFront(drf'.op, drf.op)
      /\ drf'.stalled = drf.stalled
  <2>1. CASE DecodeStalled
    BY <1>1, <2>1 DEF DecodeStalled, SameFront
  <2>2. CASE \E op : SameFront(op, drf.op) /\ Decoded(op)
    BY <1>1, <2>2 DEF Decoded
  <2> QED BY <1>1, <2>1, <2>2, DecodedOp
<1>3. IF drf.op.inst_type = HALT THEN fetch_stage' = [fetch_stage EXCEPT !.stalled = VALID]
      ELSE fetch_stage' = fetch_stage
  <2>1. CASE drf.op.inst_type = HALT
    <3>1. drf.stalled # VALID
      BY <1>1, <2>1 DEF FrontOnce, HaltStays
    <3>2. DecodeHalt
      BY <2>1, <3>1 DEF Decode, DecodeStore, DecodeLoad, DecodeMove, DecodeLiteral, DecodeTwoSource,
                  DecodeDivExor, DecodeJump, DecodePlain, Stores, Loads, Branches, HALT, STORE, STR,
                  LOAD, LDR, MOVC, MOV, ADDL, SUBL, ADD, SUB, MUL, AND, OR, DIV, EXOR, JUMP, BZ, BNZ,
                  NOP
    <3> QED BY <2>1, <3>2 DEF DecodeHalt
  <2>2. CASE drf.op.inst_type # HALT
    <3>1. ~DecodeHalt
      BY <2>2 DEF DecodeHalt
    <3> QED BY <2>2, <3>1 DEF Decode, DecodeStalled, DecodeStore, DecodeLoad, DecodeMove, DecodeLiteral,
                        DecodeTwoSource, DecodeDivExor, DecodeJump, DecodePlain
  <2> QED BY <2>1, <2>2
<1>4. /\ fetch_stage'.op = fetch_stage.op /\ {"op", "stalled"} \subseteq DOMAIN fetch_stage'
      /\ fetch_stage'.stalled = IF drf.op.inst_type = HALT THEN VALID ELSE INVALID
  BY <1>1, <1>3
<1>5. FrontShape' /\ HaltStays'
  BY <1>1, <1>2, <1>4, NotWork DEF FrontOnce, FrontShape, HaltStays, SameFront, Flag
<1>6. FetchedOnce'
  BY <1>1, <1>2, <1>4 DEF FrontOnce, FetchedOnce, SameFront
<1>7. NotYetDispatched'
  BY <1>1, <1>2 DEF FrontOnce, NotYetDispatched, Below, SameFront
<1> QED BY <1>5, <1>6, <1>7 DEF FrontOnce

-----------------------------------------------------------------------------
(***************************************************************************)
(* The handlers.  Commit: an entry goes, its value is broadcast.           *)
(***************************************************************************)
LEMMA CommitWorkStep == ASSUME WorkInv, Commit PROVE PlacesInv' /\ FrontOnce'
<1> DEFINE e == rob.rob_entry
           W == Work(iq, lsq, stage, Units)
           U == Unaddressed(lsq)
<1>1. step = "commit" /\ step' = "issue" /\ UNCHANGED <<stage, mem_stage>>
  BY DEF Commit, Turn, backVars
<1>2. Open = Units /\ Open' = Units
  BY <1>1 DEF Open, Drained
<1>3. /\ IqShape(iq) /\ LsqShape(lsq) /\ UnitShape(stage) /\ TrackInv(e, W, U) /\ RobInv(rob)
      /\ SameLatch(drf, drf)
  BY <1>2 DEF WorkInv, PlacesInv, OrderInv, FrontOnce, FrontShape, SameLatch, SameInst
<1>4. UnitShape(stage') /\ ResultsReady' /\ MemoryFlag'
  BY <1>1 DEF WorkInv, PlacesInv, ResultsReady, MemoryFlag, Drained, Empty
<1> HIDE DEF W, U
<1>5. CASE CommitNothing
  <2>1. rob'.rob_entry = e /\ UNCHANGED <<iq, lsq, drf, fetch_stage, pc>>
    BY <1>3, <1>5 DEF CommitNothing, commit_reorder_buffer_entry, Head0, frontVars, RobInv, RobShape
  <2>2. FrontOnce'
    BY <1>1, <1>3, <2>1, QuietFront
  <2> QED BY <1>1, <1>2, <1>3, <1>4, <2>1, <2>2 DEF PlacesInv, W, U
<1>6. CASE CommitHalt \/ CommitStoreOrJump \/ CommitBranch \/ CommitResult
  <2> DEFINE c == Slot(rob.commit_ptr)
             f == [e EXCEPT ![c] = FreeRobEntry]
  <2>1. Head0.valid # INVALID /\ Head0 = e[c]
    BY <1>6 DEF CommitHalt, CommitStoreOrJump, CommitBranch, CommitResult, Retire, Head0, RobHead
  <2>2. Head0.inst_type \notin Branches /\ c \in RobIndex
    BY <2>1, CommitRobOrder, SlotIsIndex DEF WorkInv, OrderInv, RobInv, RobShape, Head0
  <2>3. rob'.rob_entry = f /\ UNCHANGED <<fetch_stage, pc>>
    <3>1. rob' = commit_reorder_buffer_entry(rob)
      BY <1>6, <2>2 DEF CommitHalt, CommitStoreOrJump, CommitBranch, CommitResult
    <3>2. UNCHANGED <<fetch_stage, pc>>
      BY <1>6, <2>2 DEF CommitHalt, CommitStoreOrJump, CommitBranch, CommitResult, frontVars
    <3> QED BY <1>3, <2>1, <3>1, <3>2, CommitFields DEF Head0
  <2>4. \/ UNCHANGED <<iq, lsq, drf>>
        \/ /\ iq' = update_issue_queue_entry(iq, Head0.rd, Head0.rd_value)
           /\ lsq' = update_ls_queue_entry_reg(lsq, Head0.rd, Head0.rd_value)
           /\ drf' = ForwardToDecode(drf, Head0.rd, Head0.rd_value, Head0.valid)
    BY <1>6, <2>2 DEF CommitHalt, CommitStoreOrJump, CommitBranch, CommitResult
  <2>5. /\ IqShape(iq') /\ LsqShape(lsq') /\ SameLatch(drf', drf)
        /\ \A i \in IqIndex : Inst(iq'[i].op) = Inst(iq[i].op)
        /\ \A k \in LsqIndex : Inst(lsq'[k].op) = Inst(lsq[k].op)
        /\ Unaddressed(lsq') = U
    BY <1>3, <2>4, BroadcastIq, BroadcastLsq, ForwardSame DEF U
  <2>6. /\ \A i \in RobIndex : f[i] = IF i = c THEN FreeRobEntry ELSE e[i]
        /\ FreeRobEntry.status = INVALID
    BY <1>3, <2>2 DEF TrackInv, EntryShape, FreeRobEntry
  <2>7. TrackInv(f, W, U)
    <3>1. e[c].valid = VALID
      BY <1>3, <2>1, <2>2 DEF TrackInv, EntryShape, Flag
    <3> HIDE DEF c, e
    <3> QED BY <1>3, <2>2, <3>1, TrackCommit
  <2> HIDE DEF f, c
  <2>8. FrontOnce'
    BY <1>1, <2>3, <2>5, <2>6, QuietFront, NotWork
  <2>9. TrackInv(f, Work(iq', lsq', stage, Units), Unaddressed(lsq'))
    <3>1. \A r \in Place : Work(iq', lsq', stage, Units)[r] = W[r]
      BY <2>5, SameWork DEF W
    <3> QED BY <2>5, <2>7, <3>1, TrackSame
  <2> QED BY <1>1, <1>2, <1>4, <2>3, <2>5, <2>8, <2>9 DEF PlacesInv
<1> QED BY <1>5, <1>6 DEF Commit

-----------------------------------------------------------------------------
(***************************************************************************)
(* The function units keep their instructions until writeback.             *)
(***************************************************************************)
\* Same instructions in the same units.
LEMMA UnitsKeep ==
  ASSUME WorkInv, {step, step'} \cap ({"push_front", "decode", "fetch"} \cup {"dispatch", "push_units"}) = {},
         UNCHANGED <<drf, fetch_stage, pc, rob, iq, lsq>>,
         DOMAIN stage' = Units, \A u \in Units : SameInst(stage'[u], stage[u])
  PROVE  /\ FrontOnce' /\ IqShape(iq') /\ LsqShape(lsq') /\ UnitShape(stage')
         /\ TrackInv(rob'.rob_entry, Work(iq', lsq', stage', Open'), Unaddressed(lsq'))
<1>1. Open = Units /\ Open' = Units
  BY DEF Open, Drained
<1>2. SameLatch(drf, drf)
  BY DEF WorkInv, FrontOnce, FrontShape, SameLatch, SameInst
<1>3. FrontOnce'
  BY <1>2, QuietFront
<1>4. UnitShape(stage')
  BY DEF WorkInv, PlacesInv, UnitShape, SameInst
<1>5. \A r \in Place : Work(iq, lsq, stage', Units)[r] = Work(iq, lsq, stage, Units)[r]
  <2>1. \A u \in Units : Inst(stage'[u]) = Inst(stage[u])
    BY SameInstInst
  <2>2. FrontUnits \cup {"MEM"} \subseteq Units
    BY DEF FrontUnits, Units
  <2> QED BY <2>1, <2>2, SameWork
<1>6. TrackInv(rob.rob_entry, Work(iq, lsq, stage', Units), Unaddressed(lsq))
  BY <1>1, <1>5, TrackSame DEF WorkInv, PlacesInv
<1> QED BY <1>1, <1>3, <1>4, <1>6 DEF WorkInv, PlacesInv

\* A unit works on what it holds.
Puts(u, n) ==
  /\ DOMAIN stage' = Units /\ stage'[u] = n
  /\ \A v \in Units : v # u => stage'[v] = stage[v]

LEMMA UnitsWorkStep ==
  ASSUME WorkInv, IntOne \/ IntTwo \/ MulOne \/ MulThree \/ Branch \/ Mem
  PROVE  PlacesInv' /\ FrontOnce'
<1>1. /\ UnitShape(stage) /\ stage["BRANCH"].inst_type = 0 /\ ResultsReady /\ MemoryFlag
      /\ DOMAIN stage = Units /\ {"BRANCH", "INT_TWO", "MUL_THREE", "MEM"} \subseteq Units
      /\ \A u \in Units : HasInst(stage[u]) /\ SameInst(stage[u], stage[u])
  BY DEF WorkInv, PlacesInv, OrderInv, BranchUnitIdle, UnitShape, SameInst, Units
<1>2. ~Redirects(stage["BRANCH"])
  BY <1>1 DEF Redirects, BZ, BNZ, JUMP
<1>3. UNCHANGED <<drf, fetch_stage, pc, rob, iq, lsq>>
  BY <1>2 DEF IntOne, IntTwo, MulOne, MulThree, Branch, Mem, execKeeps, frontVars, queueVars
<1>4. CASE IntOne \/ MulOne \/ Branch
  <2>1. UNCHANGED <<stage, mem_stage>>
    BY <1>2, <1>4 DEF IntOne, MulOne, Branch, backVars
  <2>2. \/ step = "int_one" /\ step' = "int_two"
        \/ step = "mul_one" /\ step' = "mul_three"
        \/ step = "branch" /\ step' = "mem"
    BY <1>4 DEF IntOne, MulOne, Branch, Turn
  <2>3. ResultsReady' /\ MemoryFlag'
    BY <1>1, <2>1, <2>2 DEF ResultsReady, MemoryFlag, Drained, Empty
  <2> QED BY <1>1, <1>3, <2>1, <2>2, <2>3, UnitsKeep DEF PlacesInv
<1>5. CASE IntTwo
  <2> DEFINE op == stage["INT_TWO"]
  <2>1. step = "int_two" /\ step' = "mul_one" /\ UNCHANGED mem_stage
    BY <1>5 DEF IntTwo, Turn
  <2>2. PICK n : /\ Puts("INT_TWO", n) /\ SameInst(n, op)
                 /\ op.inst_type \in {0} \cup MemOps \/ n.rd_valid = VALID
    <3>1. CASE op.inst_type \in MemOps
      <4>1. PICK a : stage' = [stage EXCEPT !["INT_TWO"].mem_address = a]
        BY <1>5, <3>1 DEF IntTwo
      <4> DEFINE m == [op EXCEPT !.mem_address = a]
      <4>2. Puts("INT_TWO", m)
        BY <1>1, <4>1 DEF Puts
      <4>3. SameInst(m, op)
        BY <1>1 DEF SameInst, HasInst
      <4> HIDE DEF m
      <4> QED BY <3>1, <4>2, <4>3
    <3>2. CASE op.inst_type = 0
      <4>1. stage' = stage
        BY <1>5, <3>2, NotWork DEF IntTwo
      <4>2. Puts("INT_TWO", op)
        BY <1>1, <4>1 DEF Puts
      <4> QED BY <1>1, <3>2, <4>2
    <3>3. CASE op.inst_type \notin {0} \cup MemOps
      <4>1. PICK v : stage' = [stage EXCEPT !["INT_TWO"].rd_value = v, !["INT_TWO"].rd_valid = VALID]
        BY <1>5, <3>3 DEF IntTwo
      <4> DEFINE m == [op EXCEPT !.rd_value = v, !.rd_valid = VALID]
      <4>2. Puts("INT_TWO", m)
        BY <1>1, <4>1 DEF Puts
      <4>3. SameInst(m, op) /\ m.rd_valid = VALID
        BY <1>1 DEF SameInst, HasInst
      <4> HIDE DEF m
      <4> QED BY <4>2, <4>3
    <3> QED BY <3>1, <3>2, <3>3
  <2>3. /\ DOMAIN stage' = Units /\ stage'["INT_TWO"] = n
        /\ \A u \in Units : u # "INT_TWO" => stage'[u] = stage[u]
    BY <2>2 DEF Puts
  <2>4. ResultsReady' /\ MemoryFlag'
    BY <1>1, <2>1, <2>2, <2>3 DEF ResultsReady, MemoryFlag, Drained, Empty, SameInst
  <2>5. \A u \in Units : SameInst(stage'[u], stage[u])
    BY <1>1, <2>2, <2>3
  <2> QED BY <1>3, <2>1, <2>3, <2>4, <2>5, UnitsKeep DEF PlacesInv
<1>6. CASE MulThree
  <2> DEFINE op == stage["MUL_THREE"]
  <2>1. step = "mul_three" /\ step' = "branch" /\ UNCHANGED mem_stage
    BY <1>6 DEF MulThree, Turn
  <2>2. op.inst_type \in {0, MUL}
    BY <1>1 DEF UnitShape, UnitTypes
  <2>3. PICK n : /\ Puts("MUL_THREE", n) /\ SameInst(n, op)
                 /\ op.inst_type = 0 \/ n.rd_valid = VALID
    <3>1. CASE op.inst_type = MUL
      <4>1. PICK v : stage' = [stage EXCEPT !["MUL_THREE"].rd_value = v, !["MUL_THREE"].rd_valid = VALID]
        BY <1>6, <3>1 DEF MulThree
      <4> DEFINE m == [op EXCEPT !.rd_value = v, !.rd_valid = VALID]
      <4>2. Puts("MUL_THREE", m)
        BY <1>1, <4>1 DEF Puts
      <4>3. SameInst(m, op) /\ m.rd_valid = VALID
        BY <1>1 DEF SameInst, HasInst
      <4> HIDE DEF m
      <4> QED BY <4>2, <4>3
    <3>2. CASE op.inst_type # MUL
      <4>1. stage' = stage
        BY <1>6, <3>2 DEF MulThree
      <4>2. Puts("MUL_THREE", op)
        BY <1>1, <4>1 DEF Puts
      <4> QED BY <1>1, <2>2, <3>2, <4>2
    <3> QED BY <3>1, <3>2
  <2>4. /\ DOMAIN stage' = Units /\ stage'["MUL_THREE"] = n
        /\ \A u \in Units : u # "MUL_THREE" => stage'[u] = stage[u]
    BY <2>3 DEF Puts
  <2>5. ResultsReady' /\ MemoryFlag'
    BY <1>1, <2>1, <2>3, <2>4 DEF ResultsReady, MemoryFlag, Drained, Empty, SameInst
  <2>6. \A u \in Units : SameInst(stage'[u], stage[u])
    BY <1>1, <2>3, <2>4
  <2> QED BY <1>3, <2>1, <2>4, <2>5, <2>6, UnitsKeep DEF PlacesInv
<1>7. CASE Mem
  <2> DEFINE op   == stage["MEM"]
             done == /\ mem_stage.stage_cycle >= 3 /\ op.mem_address <= DATA_MEMORY_SIZE
                     /\ op.inst_type \in Stores => op.rd_valid = VALID
  <2>1. step = "mem" /\ step' = "writeback"
    BY <1>7 DEF Mem, Turn
  <2>2. op.inst_type \in {0} \cup MemOps
    BY <1>1 DEF UnitShape, UnitTypes
  <2>3. PICK n : /\ Puts("MEM", n) /\ SameInst(n, op)
                 /\ done /\ op.inst_type \in MemOps => n.rd_valid = VALID
    <3>1. CASE done /\ op.inst_type \in Loads
      <4>1. PICK v : stage' = [stage EXCEPT !["MEM"].rd_value = v, !["MEM"].rd_valid = VALID]
        BY <1>7, <3>1 DEF Mem
      <4> DEFINE m == [op EXCEPT !.rd_value = v, !.rd_valid = VALID]
      <4>2. Puts("MEM", m)
        BY <1>1, <4>1 DEF Puts
      <4>3. SameInst(m, op) /\ m.rd_valid = VALID
        BY <1>1 DEF SameInst, HasInst
      <4> HIDE DEF m
      <4> QED BY <4>2, <4>3
    <3>2. CASE ~(done /\ op.inst_type \in Loads)
      <4>1. stage' = stage
        BY <1>7, <3>2 DEF Mem
      <4>2. Puts("MEM", op)
        BY <1>1, <4>1 DEF Puts
      <4>3. done /\ op.inst_type \in MemOps => op.rd_valid = VALID
        BY <3>2 DEF MemOps
      <4> QED BY <1>1, <4>2, <4>3
    <3> QED BY <3>1, <3>2
  <2>4. /\ DOMAIN stage' = Units /\ stage'["MEM"] = n
        /\ \A u \in Units : u # "MEM" => stage'[u] = stage[u]
    BY <2>3 DEF Puts
  <2>5. /\ {"stage_cycle", "executed"} \subseteq DOMAIN mem_stage'
        /\ mem_stage'.stage_cycle \in Int /\ mem_stage'.executed \in Flag
        /\ mem_stage'.executed = VALID => ~Empty("MEM") /\ mem_stage'.stage_cycle >= 3 /\ done
    <3>1. /\ {"stage_cycle", "executed"} \subseteq DOMAIN mem_stage
          /\ mem_stage.stage_cycle \in Int
      BY <1>1 DEF MemoryFlag
    <3>2. mem_stage' =
              IF Empty("MEM") THEN [mem_stage EXCEPT !.executed = INVALID]
              ELSE IF mem_stage.stage_cycle < 3
                   THEN [stage_cycle |-> mem_stage.stage_cycle + 1, executed |-> INVALID]
                   ELSE [mem_stage EXCEPT !.executed = IF done THEN VALID ELSE INVALID]
      BY <1>7 DEF Mem
    <3>3. CASE Empty("MEM")
      BY <3>1, <3>2, <3>3, NotWork DEF Flag
    <3>4. CASE ~Empty("MEM") /\ mem_stage.stage_cycle < 3
      BY <3>1, <3>2, <3>4, NotWork DEF Flag
    <3>5. CASE ~Empty("MEM") /\ ~(mem_stage.stage_cycle < 3)
      <4>1. mem_stage' = [mem_stage EXCEPT !.executed = IF done THEN VALID ELSE INVALID]
        BY <3>2, <3>5
      <4> HIDE DEF done
      <4> QED BY <3>1, <3>5, <4>1, NotWork DEF Flag
    <3> QED BY <3>3, <3>4, <3>5
  <2>6. mem_stage'.executed = VALID => stage'["MEM"].rd_valid = VALID /\ ~Empty("MEM")'
    BY <2>2, <2>3, <2>4, <2>5 DEF Empty, SameInst
  <2>7. ResultsReady' /\ MemoryFlag'
    BY <1>1, <2>1, <2>4, <2>5, <2>6 DEF ResultsReady, MemoryFlag, Drained, Units
  <2>8. \A u \in Units : SameInst(stage'[u], stage[u])
    BY <1>1, <2>3, <2>4
  <2> QED BY <1>3, <2>1, <2>4, <2>7, <2>8, UnitsKeep DEF PlacesInv
<1> QED BY <1>4, <1>5, <1>6, <1>7

\* The units advance into what writeback has emptied.
LEMMA PushUnitsWorkStep == ASSUME WorkInv, PushUnits PROVE PlacesInv' /\ FrontOnce'
<1> DEFINE W == Work(iq, lsq, stage, Open)
           U == Unaddressed(lsq)
           e == rob.rob_entry
           Moved(V, p, q) == [r \in Place |-> IF r = q THEN V[p] ELSE IF r = p THEN NoInst ELSE V[r]]
           three == UnitPlace("MUL_THREE")
           two   == UnitPlace("MUL_TWO")
           one   == UnitPlace("MUL_ONE")
           itwo  == UnitPlace("INT_TWO")
           ione  == UnitPlace("INT_ONE")
           memDone == mem_stage.executed = VALID /\ mem_stage.stage_cycle >= 3
<1>1. step = "push_units" /\ step' = "commit" /\ UNCHANGED <<drf, fetch_stage, pc, rob, iq, lsq>>
  BY DEF PushUnits, Turn, frontVars, queueVars
<1>2. /\ IqShape(iq) /\ LsqShape(lsq) /\ UnitShape(stage) /\ MemoryFlag /\ TrackInv(e, W, U)
      /\ SameLatch(drf, drf) /\ DOMAIN stage = Units
  BY DEF WorkInv, PlacesInv, FrontOnce, FrontShape, SameLatch, SameInst, UnitShape
<1>3. FrontOnce'
  BY <1>1, <1>2, QuietFront
<1>4. /\ Open = {"INT_ONE", "MUL_ONE", "MUL_TWO"} \cup (IF mem_stage.executed = VALID THEN {} ELSE {"MEM"})
      /\ Open' = Units
  BY <1>1 DEF Open, Drained
<1>5. /\ memDone <=> mem_stage.executed = VALID
      /\ mem_stage.executed \in Flag /\ {"stage_cycle", "executed"} \subseteq DOMAIN mem_stage
      /\ mem_stage.stage_cycle \in Int
  BY <1>1, <1>2 DEF MemoryFlag, Drained
<1>6. /\ DOMAIN stage' = Units
      /\ stage'["MUL_THREE"] = stage["MUL_TWO"] /\ stage'["MUL_TWO"] = stage["MUL_ONE"]
      /\ stage'["INT_TWO"] = stage["INT_ONE"]
      /\ stage'["MUL_ONE"] = NoOp /\ stage'["INT_ONE"] = NoOp /\ stage'["BRANCH"] = NoOp
      /\ stage'["MEM"] = IF memDone THEN NoOp ELSE stage["MEM"]
  <2>1. stage' = [stage EXCEPT !["MUL_THREE"] = stage["MUL_TWO"],
                               !["MUL_TWO"]   = stage["MUL_ONE"],
                               !["INT_TWO"]   = stage["INT_ONE"],
                               !["MUL_ONE"] = NoOp, !["INT_ONE"] = NoOp,
                               !["BRANCH"] = NoOp,
                               !["MEM"] = IF memDone THEN NoOp ELSE @]
    BY DEF PushUnits
  <2> HIDE DEF memDone
  <2> QED BY <1>2, <2>1 DEF Units
<1> HIDE DEF memDone
<1>7. HasInst(NoOp) /\ NoOp.inst_type = 0
  BY DEF NoOp, HasInst
<1>8. UnitShape(stage')
  BY <1>2, <1>6, <1>7 DEF UnitShape, UnitTypes, Units
<1>9. MemoryFlag' /\ ResultsReady'
  <2>1. mem_stage' = IF memDone THEN [mem_stage EXCEPT !.stage_cycle = 0] ELSE mem_stage
    BY DEF PushUnits, memDone
  <2>2. memDone => Empty("MEM")'
    BY <1>6, <1>7 DEF Empty
  <2>3. /\ {"stage_cycle", "executed"} \subseteq DOMAIN mem_stage' /\ mem_stage'.stage_cycle \in Int
        /\ mem_stage'.executed = mem_stage.executed
    BY <1>5, <2>1
  <2> QED BY <1>1, <1>5, <2>2, <2>3 DEF MemoryFlag, ResultsReady, Drained
<1>10. /\ {three, two, one, itwo, ione} \subseteq Front /\ Front \subseteq Place
       /\ three # two /\ two # one /\ three # one /\ itwo # ione
       /\ {three, two, one} \cap {itwo, ione} = {}
  BY PlacesDiffer, PlacesOf DEF FrontUnits, Place
<1>11. ~Holds(W, three) /\ ~Holds(W, itwo)
  <2>1. W[three] = NoInst /\ W[itwo] = NoInst
    BY <1>4, WorkAt DEF FrontUnits
  <2> QED BY <2>1, NotWork DEF Holds
<1> HIDE DEF three, two, one, itwo, ione
<1> DEFINE V1 == Moved(W, two, three)
           V2 == Moved(V1, one, two)
           V3 == Moved(V2, ione, itwo)
<1>12. TrackInv(e, V1, U) /\ ~Holds(V1, two)
  <2>1. TrackInv(e, V1, U)
    BY <1>2, <1>10, <1>11, TrackMove
  <2>2. V1[two] = NoInst
    BY <1>10
  <2> QED BY <2>1, <2>2, NotWork DEF Holds
<1>13. TrackInv(e, V2, U)
  <2> HIDE DEF V1
  <2> QED BY <1>10, <1>12, TrackMove
<1>14. ~Holds(V2, itwo)
  <2>1. V2[itwo] = W[itwo]
    BY <1>10
  <2> QED BY <1>11, <2>1 DEF Holds
<1>15. TrackInv(e, V3, U)
  <2> HIDE DEF V2
  <2> QED BY <1>10, <1>13, <1>14, TrackMove
<1>16. \A r \in Place : V3[r] = IF r = itwo THEN W[ione] ELSE IF r = ione THEN NoInst
                                ELSE IF r = three THEN W[two] ELSE IF r = two THEN W[one]
                                ELSE IF r = one THEN NoInst ELSE W[r]
  BY <1>10
<1> HIDE DEF V1, V2, V3
<1>17. \A r \in Place : Work(iq, lsq, stage', Units)[r] = V3[r]
  <2> SUFFICES ASSUME NEW r \in Place PROVE Work(iq, lsq, stage', Units)[r] = V3[r]
    OBVIOUS
  <2>1. CASE (\E i \in IqIndex : r = IqPlace(i)) \/ (\E k \in LsqIndex : r = LsqPlace(k))
    <3>1. r \notin {three, two, one, itwo, ione}
      BY <2>1, PlacesDiffer DEF three, two, one, itwo, ione
    <3>2. W[r] = Work(iq, lsq, stage', Units)[r]
      BY <2>1, WorkAt
    <3> QED BY <1>16, <3>1, <3>2
  <2>2. CASE r = UnitPlace("MEM")
    <3>1. r \notin {three, two, one, itwo, ione}
      BY <2>2, PlacesDiffer DEF three, two, one, itwo, ione
    <3>2. /\ W[r] = IF mem_stage.executed = VALID THEN NoInst ELSE Inst(stage["MEM"])
          /\ Work(iq, lsq, stage', Units)[r] = Inst(stage'["MEM"])
      BY <1>4, <2>2, WorkAt DEF Units
    <3>3. Inst(NoOp) = NoInst
      BY <1>7, InstFields
    <3> QED BY <1>5, <1>6, <1>16, <3>1, <3>2, <3>3
  <2>3. ASSUME NEW u \in FrontUnits, r = UnitPlace(u)
        PROVE  Work(iq, lsq, stage', Units)[r] = V3[r]
    <3>1. Work(iq, lsq, stage', Units)[r] = Inst(stage'[u])
      BY <2>3, WorkAt DEF FrontUnits, Units
    <3>2. /\ W[ione] = Inst(stage["INT_ONE"]) /\ W[two] = Inst(stage["MUL_TWO"])
          /\ W[one] = Inst(stage["MUL_ONE"])
      BY <1>4, WorkAt DEF FrontUnits, ione, two, one
    <3>3. Inst(NoOp) = NoInst
      BY <1>7, InstFields
    <3>4. CASE u = "INT_TWO"
      BY <1>6, <1>16, <2>3, <3>1, <3>2, <3>4 DEF itwo
    <3>5. CASE u = "INT_ONE"
      BY <1>6, <1>10, <1>16, <2>3, <3>1, <3>3, <3>5 DEF ione
    <3>6. CASE u = "MUL_THREE"
      BY <1>6, <1>10, <1>16, <2>3, <3>1, <3>2, <3>6 DEF three
    <3>7. CASE u = "MUL_TWO"
      BY <1>6, <1>10, <1>16, <2>3, <3>1, <3>2, <3>7 DEF two
    <3>8. CASE u = "MUL_ONE"
      BY <1>6, <1>10, <1>16, <2>3, <3>1, <3>3, <3>8 DEF one
    <3> QED BY <3>4, <3>5, <3>6, <3>7, <3>8 DEF FrontUnits
  <2> QED BY <2>1, <2>2, <2>3, PlacesOf
<1>18. TrackInv(e, Work(iq, lsq, stage', Units), U)
  BY <1>15, <1>17, TrackSame
<1> QED BY <1>1, <1>2, <1>3, <1>4, <1>8, <1>9, <1>18 DEF PlacesInv

-----------------------------------------------------------------------------
(***************************************************************************)
(* Issue: each unit takes at most one instruction, and only if it is free. *)
(***************************************************************************)
Filled(u) == {i \in IqIndex \cap Issued : UnitOf(iq[i].op.inst_type) = u}
ToMem     == IF MemFree THEN LsqCandidates(lsq) ELSE {}

LEMMA IssueSteps ==
  ASSUME Issue
  PROVE  /\ iq' = Leave(iq, Issued, FreeIqEntry)
         /\ lsq' = Leave(lsq, ToMem, FreeLsqEntry)
         /\ stage' = [u \in Units |->
                        IF u = "MEM" /\ ToMem # {} THEN lsq[CHOOSE i \in ToMem : TRUE].op
                        ELSE IF Filled(u) = {} THEN stage[u]
                        ELSE IssuedOp(iq[CHOOSE i \in Filled(u) : TRUE].op)]
         /\ mem_stage' = IF ToMem = {} THEN mem_stage ELSE [mem_stage EXCEPT !.executed = INVALID]
<1> DEFINE toMem     == IF MemFree THEN LsqCandidates(lsq) ELSE {}
           filled(u) == {i \in IqIndex \cap Issued : UnitOf(iq[i].op.inst_type) = u}
<1>1. iq' = Leave(iq, Issued, FreeIqEntry) /\ lsq' = Leave(lsq, toMem, FreeLsqEntry)
  BY DEF Issue
<1>2. stage' = [u \in Units |->
                  IF u = "MEM" /\ toMem # {} THEN lsq[CHOOSE i \in toMem : TRUE].op
                  ELSE IF filled(u) = {} THEN stage[u]
                  ELSE IssuedOp(iq[CHOOSE i \in filled(u) : TRUE].op)]
  BY DEF Issue
<1>3. mem_stage' = IF toMem = {} THEN mem_stage ELSE [mem_stage EXCEPT !.executed = INVALID]
  BY DEF Issue
<1>4. stage' = [u \in Units |->
                  IF u = "MEM" /\ ToMem # {} THEN lsq[CHOOSE i \in ToMem : TRUE].op
                  ELSE IF Filled(u) = {} THEN stage[u]
                  ELSE IssuedOp(iq[CHOOSE i \in Filled(u) : TRUE].op)]
  BY <1>2 DEF ToMem, Filled
<1>5. toMem = ToMem
  BY DEF ToMem
<1> HIDE DEF toMem, filled
<1> QED BY <1>1, <1>3, <1>4, <1>5

LEMMA FilledOnce ==
  ASSUME NEW u
  PROVE  /\ \A i, j \in Filled(u) : i = j
         /\ Filled(u) # {} => u # "none" /\ Empty(u)
<1> DEFINE order   == IssueOrder(iq)
           unit(k) == IF order[k] = -1 THEN "none" ELSE UnitOf(iq[order[k]].op.inst_type)
           Takes(k) == /\ unit(k) # "none" /\ Empty(unit(k))
                       /\ \A m \in 0 .. k - 1 : unit(m) # unit(k)
<1>1. Issued = {order[k] : k \in {n \in IqIndex : Takes(n)}}
  BY DEF Issued
<1>2. ASSUME NEW i \in Filled(u)
      PROVE  \E k \in IqIndex : order[k] = i /\ Takes(k) /\ unit(k) = u
  <2> HIDE DEF order
  <2>1. PICK k \in IqIndex : i = order[k] /\ Takes(k)
    <3> HIDE DEF Takes
    <3> QED BY <1>1 DEF Filled
  <2>2. i # -1
    BY QueueSizeAssumption DEF Filled, IqIndex
  <2> QED BY <2>1, <2>2 DEF Filled
<1> HIDE DEF unit
<1>3. ASSUME NEW i \in Filled(u), NEW j \in Filled(u) PROVE i = j
  <2>1. PICK k \in IqIndex : order[k] = i /\ Takes(k) /\ unit(k) = u
    BY <1>2
  <2>2. PICK m \in IqIndex : order[m] = j /\ Takes(m) /\ unit(m) = u
    BY <1>2
  <2>3. k \in Int /\ m \in Int /\ 0 <= k /\ 0 <= m
    BY QueueSizeAssumption DEF IqIndex
  <2>4. ~(k < m) /\ ~(m < k)
    BY <2>1, <2>2, <2>3
  <2> QED BY <2>1, <2>2, <2>3, <2>4
<1> QED BY <1>2, <1>3

LEMMA UnitsFilled ==
  ASSUME IqShape(iq), PlainQueue(iq), NEW i \in IqIndex, i \in Issued
  PROVE  \/ i \in Filled("INT_ONE") /\ iq[i].op.inst_type \in IntTypes
         \/ i \in Filled("MUL_ONE") /\ iq[i].op.inst_type = MUL
<1> DEFINE u == UnitOf(iq[i].op.inst_type)
<1>1. i \in Filled(u)
  BY DEF Filled
<1>2. u # "none"
  BY <1>1, FilledOnce
<1>3. iq[i].op.inst_type \notin Branches
  BY DEF PlainQueue
<1> QED BY <1>1, <1>2, <1>3 DEF UnitOf, IntTypes

\* The memory stage takes one instruction that has its address, if it is free.
LEMMA MemoryTaken ==
  ASSUME WorkInv, step = "issue"
  PROVE  /\ \A i, j \in ToMem : i = j
         /\ ToMem # {} => Empty("MEM")
         /\ \A k \in ToMem : /\ k \in LsqIndex /\ lsq[k].status = VALID /\ lsq[k].mem_valid = VALID
                             /\ lsq[k].op.inst_type \in MemOps
<1>1. LsqShape(lsq) /\ MemoryFlag
  BY DEF WorkInv, PlacesInv
<1>2. ASSUME NEW k \in ToMem
      PROVE  /\ k \in LsqIndex /\ ReadyForMemory(lsq[k]) /\ Empty("MEM")
             /\ \A j \in LsqIndex : ReadyForMemory(lsq[j]) =>
                         \/ lsq[j].stage_cycle < lsq[k].stage_cycle
                         \/ lsq[j].stage_cycle = lsq[k].stage_cycle /\ k <= j
  BY <1>1 DEF ToMem, MemFree, MemoryFlag, Drained, LsqCandidates
<1>3. ASSUME NEW i \in ToMem, NEW j \in ToMem PROVE i = j
  <2>1. i \in Int /\ j \in Int /\ lsq[i].stage_cycle \in Int /\ lsq[j].stage_cycle \in Int
    BY <1>1, <1>2, QueueSizeAssumption DEF LsqShape, LsqIndex
  <2> QED BY <1>2, <2>1
<1>4. ASSUME NEW k \in ToMem
      PROVE  /\ lsq[k].status = VALID /\ lsq[k].mem_valid = VALID
             /\ lsq[k].op.inst_type \in MemOps
  BY <1>1, <1>2 DEF ReadyForMemory, LsqShape
<1> QED BY <1>2, <1>3, <1>4

\* What stays in a queue ages.
LEMMA LeaveShapes ==
  ASSUME IqShape(iq), LsqShape(lsq), NEW gone, NEW taken
  PROVE  LET q == Leave(iq, gone, FreeIqEntry)
             l == Leave(lsq, taken, FreeLsqEntry)
         IN  /\ IqShape(q) /\ LsqShape(l)
             /\ \A i \in IqIndex : q[i].op = IF i \in gone THEN NoOp ELSE iq[i].op
             /\ \A k \in LsqIndex : l[k].op = IF k \in taken THEN NoOp ELSE lsq[k].op
             /\ \A k \in LsqIndex : k \notin taken => l[k].mem_valid = lsq[k].mem_valid
<1> DEFINE q == Leave(iq, gone, FreeIqEntry)
           l == Leave(lsq, taken, FreeLsqEntry)
<1>1. HasInst(NoOp) /\ NoOp.inst_type = 0
  BY DEF HasInst, NoOp
<1>2. /\ {"status", "stage_cycle", "op"} \subseteq DOMAIN FreeIqEntry
      /\ FreeIqEntry.op = NoOp /\ FreeIqEntry.status = INVALID
      /\ {"status", "stage_cycle", "mem_valid", "op"} \subseteq DOMAIN FreeLsqEntry
      /\ FreeLsqEntry.op = NoOp /\ FreeLsqEntry.status = INVALID
      /\ FreeLsqEntry.mem_valid = INVALID /\ FreeLsqEntry.stage_cycle \in Int
  BY DEF FreeIqEntry, FreeLsqEntry
<1>3. /\ DOMAIN q = IqIndex /\ DOMAIN l = LsqIndex
      /\ \A i \in IqIndex : q[i] = IF i \in gone THEN FreeIqEntry ELSE Aged(iq[i])
      /\ \A k \in LsqIndex : l[k] = IF k \in taken THEN FreeLsqEntry ELSE Aged(lsq[k])
  BY DEF Leave, IqShape, LsqShape
<1>4. ASSUME NEW i \in IqIndex
      PROVE  /\ {"status", "stage_cycle", "op"} \subseteq DOMAIN Aged(iq[i])
             /\ Aged(iq[i]).op = iq[i].op /\ Aged(iq[i]).status = iq[i].status
  BY DEF Aged, IqShape
<1>5. ASSUME NEW k \in LsqIndex
      PROVE  /\ {"status", "stage_cycle", "mem_valid", "op"} \subseteq DOMAIN Aged(lsq[k])
             /\ Aged(lsq[k]).op = lsq[k].op /\ Aged(lsq[k]).status = lsq[k].status
             /\ Aged(lsq[k]).mem_valid = lsq[k].mem_valid /\ Aged(lsq[k]).stage_cycle \in Int
  BY DEF Aged, LsqShape, Older
<1> HIDE DEF q, l
<1>6. IqShape(q)
  BY <1>1, <1>2, <1>3, <1>4, NotWork DEF IqShape, Flag
<1>7. LsqShape(l)
  BY <1>1, <1>2, <1>3, <1>5, NotWork DEF LsqShape, Flag
<1> QED BY <1>2, <1>3, <1>4, <1>5, <1>6, <1>7 DEF q, l

\* The one place a unit takes its instruction from.
LEMMA ChosenPlace ==
  ASSUME NEW G, G # {}, \A i, j \in G : i = j
  PROVE  /\ (CHOOSE i \in G : TRUE) \in G
         /\ (CHOOSE p \in {IqPlace(i) : i \in G} : TRUE) = IqPlace(CHOOSE i \in G : TRUE)
         /\ (CHOOSE p \in {LsqPlace(i) : i \in G} : TRUE) = LsqPlace(CHOOSE i \in G : TRUE)
<1>1. PICK c \in G : TRUE
  OBVIOUS
<1>2. G = {c}
  BY <1>1
<1>3. {IqPlace(i) : i \in G} = {IqPlace(c)} /\ {LsqPlace(i) : i \in G} = {LsqPlace(c)}
  BY <1>2
<1> QED BY <1>2, <1>3

LEMMA IssueWorkStep == ASSUME WorkInv, Issue PROVE PlacesInv' /\ FrontOnce'
<1> DEFINE e == rob.rob_entry
           W == Work(iq, lsq, stage, Units)
           U == Unaddressed(lsq)
           Int1 == Filled("INT_ONE")
           Mul1 == Filled("MUL_ONE")
           Taken(V, F, q) ==
             [r \in Place |-> IF r = q /\ F # {} THEN V[CHOOSE p \in F : TRUE]
                              ELSE IF r \in F THEN NoInst ELSE V[r]]
           F1 == {IqPlace(i) : i \in Int1}
           F2 == {IqPlace(i) : i \in Mul1}
           F3 == {LsqPlace(k) : k \in ToMem}
           q1 == UnitPlace("INT_ONE")
           q2 == UnitPlace("MUL_ONE")
           q3 == UnitPlace("MEM")
           V1 == Taken(W, F1, q1)
           V2 == Taken(V1, F2, q2)
           V3 == Taken(V2, F3, q3)
<1>1. step = "issue" /\ step' = "int_one" /\ UNCHANGED <<drf, fetch_stage, pc, rob>>
  BY DEF Issue, Turn, frontVars
<1>2. Open = Units /\ Open' = Units
  BY <1>1 DEF Open, Drained
<1>3. /\ IqShape(iq) /\ LsqShape(lsq) /\ UnitShape(stage) /\ TrackInv(e, W, U) /\ PlainQueue(iq)
      /\ SameLatch(drf, drf) /\ MemoryFlag
  BY <1>2 DEF WorkInv, PlacesInv, OrderInv, FrontOnce, FrontShape, SameLatch, SameInst
<1>4. FrontOnce'
  BY <1>1, <1>3, QuietFront
<1>5. /\ \A i, j \in ToMem : i = j
      /\ ToMem # {} => Empty("MEM")
      /\ \A k \in ToMem : /\ k \in LsqIndex /\ lsq[k].status = VALID /\ lsq[k].mem_valid = VALID
                          /\ lsq[k].op.inst_type \in MemOps
  BY <1>1, MemoryTaken
<1>6. /\ \A i, j \in Int1 : i = j
      /\ \A i, j \in Mul1 : i = j
      /\ Int1 # {} => Empty("INT_ONE")
      /\ Mul1 # {} => Empty("MUL_ONE")
      /\ Int1 \cap Mul1 = {} /\ Int1 \subseteq IqIndex \cap Issued /\ Mul1 \subseteq IqIndex \cap Issued
      /\ \A i \in IqIndex : i \in Issued => i \in Int1 \cup Mul1
      /\ \A i \in Int1 : iq[i].op.inst_type \in IntTypes
      /\ \A i \in Mul1 : iq[i].op.inst_type = MUL
  <2>1. Int1 \cap Mul1 = {} /\ Int1 \subseteq IqIndex \cap Issued /\ Mul1 \subseteq IqIndex \cap Issued
    BY DEF Filled
  <2> QED BY <1>3, <2>1, FilledOnce, UnitsFilled
<1>7. \A u \in Units : u \notin {"INT_ONE", "MUL_ONE"} => Filled(u) = {}
  <2> SUFFICES ASSUME NEW u \in Units, NEW i \in Filled(u) PROVE u \in {"INT_ONE", "MUL_ONE"}
    OBVIOUS
  <2>1. i \in IqIndex /\ i \in Issued /\ UnitOf(iq[i].op.inst_type) = u
    BY DEF Filled
  <2> QED BY <1>6, <2>1 DEF Filled
<1>8. /\ IqShape(iq') /\ LsqShape(lsq')
      /\ \A i \in IqIndex : iq'[i].op = IF i \in Issued THEN NoOp ELSE iq[i].op
      /\ \A k \in LsqIndex : lsq'[k].op = IF k \in ToMem THEN NoOp ELSE lsq[k].op
      /\ \A k \in LsqIndex : k \notin ToMem => lsq'[k].mem_valid = lsq[k].mem_valid
  BY <1>3, IssueSteps, LeaveShapes
\* The latches the units get.
<1>9. /\ DOMAIN stage' = Units
      /\ stage'["INT_ONE"] = IF Int1 = {} THEN stage["INT_ONE"]
                             ELSE IssuedOp(iq[CHOOSE i \in Int1 : TRUE].op)
      /\ stage'["MUL_ONE"] = IF Mul1 = {} THEN stage["MUL_ONE"]
                             ELSE IssuedOp(iq[CHOOSE i \in Mul1 : TRUE].op)
      /\ stage'["MEM"] = IF ToMem = {} THEN stage["MEM"] ELSE lsq[CHOOSE k \in ToMem : TRUE].op
      /\ \A u \in Units : u \notin {"INT_ONE", "MUL_ONE", "MEM"} => stage'[u] = stage[u]
  BY <1>7, IssueSteps DEF Units
<1>10. ASSUME NEW i \in IqIndex PROVE SameInst(IssuedOp(iq[i].op), iq[i].op)
  BY <1>3 DEF IqShape, IssuedOp, SameInst, HasInst
<1>11. /\ Int1 # {} => (CHOOSE i \in Int1 : TRUE) \in Int1
       /\ Mul1 # {} => (CHOOSE i \in Mul1 : TRUE) \in Mul1
       /\ ToMem # {} => (CHOOSE k \in ToMem : TRUE) \in ToMem
  BY <1>5, <1>6, ChosenPlace
<1> HIDE DEF Int1, Mul1
<1>12. UnitShape(stage')
  <2>1. HasInst(stage'["INT_ONE"]) /\ stage'["INT_ONE"].inst_type \in UnitTypes("INT_ONE")
    BY <1>3, <1>6, <1>9, <1>10, <1>11 DEF UnitShape, UnitTypes, Units, SameInst
  <2>2. HasInst(stage'["MUL_ONE"]) /\ stage'["MUL_ONE"].inst_type \in UnitTypes("MUL_ONE")
    BY <1>3, <1>6, <1>9, <1>10, <1>11 DEF UnitShape, UnitTypes, Units, SameInst
  <2>3. HasInst(stage'["MEM"]) /\ stage'["MEM"].inst_type \in UnitTypes("MEM")
    BY <1>3, <1>5, <1>9, <1>11 DEF UnitShape, UnitTypes, Units, LsqShape
  <2> QED BY <1>3, <1>9, <2>1, <2>2, <2>3 DEF UnitShape
<1>13. MemoryFlag' /\ ResultsReady'
  <2>1. mem_stage' = IF ToMem = {} THEN mem_stage ELSE [mem_stage EXCEPT !.executed = INVALID]
    BY IssueSteps
  <2>2. /\ {"stage_cycle", "executed"} \subseteq DOMAIN mem_stage' /\ mem_stage'.stage_cycle \in Int
        /\ mem_stage'.executed \in Flag
        /\ mem_stage'.executed = VALID => ToMem = {} /\ mem_stage.executed = VALID
    BY <1>3, <2>1, NotWork DEF MemoryFlag, Flag
  <2> QED BY <1>1, <1>3, <1>9, <2>2 DEF MemoryFlag, ResultsReady, Drained, Empty
<1>14. /\ {q1, q2} \subseteq Front /\ q3 \in Rear /\ F1 \subseteq Front /\ F2 \subseteq Front
       /\ F3 \subseteq Rear /\ Front \subseteq Place /\ Rear \subseteq Place
       /\ {q1, q2, q3} \cap (F1 \cup F2 \cup F3) = {} /\ q1 # q2
       /\ F1 \cap F2 = {}
  <2>1. {q1, q2} \subseteq Front /\ q3 \in Rear /\ Front \subseteq Place /\ Rear \subseteq Place
    BY PlacesOf DEF FrontUnits, Place
  <2>2. F1 \subseteq Front /\ F2 \subseteq Front /\ F3 \subseteq Rear
    BY <1>5, <1>6, PlacesOf
  <2>3. F1 \cap F2 = {}
    BY <1>6, PlacesDiffer
  <2>4. q1 # q2
    BY PlacesDiffer
  <2>5. {q1, q2, q3} \cap (F1 \cup F2 \cup F3) = {}
    BY PlacesDiffer
  <2> HIDE DEF F1, F2, F3, q1, q2, q3
  <2> QED BY <2>1, <2>2, <2>3, <2>4, <2>5
<1>15. F3 \cap U = {}
  BY <1>5, PlacesDiffer, NotWork DEF Unaddressed
<1>16. /\ \A p, o \in F1 : p = o
       /\ \A p, o \in F2 : p = o
       /\ \A p, o \in F3 : p = o
  BY <1>5, <1>6
<1>17. /\ F1 # {} => ~Holds(W, q1)
       /\ F2 # {} => ~Holds(W, q2)
       /\ F3 # {} => ~Holds(W, q3)
  <2>1. /\ W[q1] = Inst(stage["INT_ONE"]) /\ W[q2] = Inst(stage["MUL_ONE"])
        /\ W[q3] = Inst(stage["MEM"])
    BY WorkAt DEF FrontUnits, Units
  <2> QED BY <1>5, <1>6, <2>1, InstFields DEF Empty, Holds
\* Where everything is afterwards.
<1>18. /\ \A i \in IqIndex : W[IqPlace(i)] = Inst(iq[i].op)
       /\ \A k \in LsqIndex : W[LsqPlace(k)] = Inst(lsq[k].op)
       /\ \A u \in FrontUnits \cup {"MEM"} : W[UnitPlace(u)] = Inst(stage[u])
  BY WorkAt DEF FrontUnits, Units
<1>19. /\ F1 # {} => W[CHOOSE p \in F1 : TRUE] = Inst(stage'["INT_ONE"])
       /\ F2 # {} => W[CHOOSE p \in F2 : TRUE] = Inst(stage'["MUL_ONE"])
       /\ F3 # {} => W[CHOOSE p \in F3 : TRUE] = Inst(stage'["MEM"])
  <2>1. ASSUME F1 # {} PROVE W[CHOOSE p \in F1 : TRUE] = Inst(stage'["INT_ONE"])
    <3>1. Int1 # {}
      BY <2>1
    <3>2. (CHOOSE p \in F1 : TRUE) = IqPlace(CHOOSE i \in Int1 : TRUE)
      BY <1>6, <3>1, ChosenPlace
    <3> QED BY <1>6, <1>9, <1>10, <1>11, <1>18, <3>1, <3>2, SameInstInst
  <2>2. ASSUME F2 # {} PROVE W[CHOOSE p \in F2 : TRUE] = Inst(stage'["MUL_ONE"])
    <3>1. Mul1 # {}
      BY <2>2
    <3>2. (CHOOSE p \in F2 : TRUE) = IqPlace(CHOOSE i \in Mul1 : TRUE)
      BY <1>6, <3>1, ChosenPlace
    <3> QED BY <1>6, <1>9, <1>10, <1>11, <1>18, <3>1, <3>2, SameInstInst
  <2>3. ASSUME F3 # {} PROVE W[CHOOSE p \in F3 : TRUE] = Inst(stage'["MEM"])
    <3>1. ToMem # {}
      BY <2>3
    <3>2. (CHOOSE p \in F3 : TRUE) = LsqPlace(CHOOSE k \in ToMem : TRUE)
      BY <1>5, <3>1, ChosenPlace
    <3> QED BY <1>5, <1>9, <1>11, <1>18, <3>1, <3>2
  <2> QED BY <2>1, <2>2, <2>3
<1> HIDE DEF W
<1>20. \A r \in Place : r \in F1 \cup F2 \cup F3 => r \notin {q1, q2, q3}
  BY <1>14
<1> DEFINE New(r) == Work(iq', lsq', stage', Units)[r]
<1>21. /\ New(q1) = (IF F1 # {} THEN W[CHOOSE p \in F1 : TRUE] ELSE W[q1])
       /\ New(q2) = (IF F2 # {} THEN W[CHOOSE p \in F2 : TRUE] ELSE W[q2])
       /\ New(q3) = (IF F3 # {} THEN W[CHOOSE p \in F3 : TRUE] ELSE W[q3])
  <2>1. /\ New(q1) = Inst(stage'["INT_ONE"]) /\ New(q2) = Inst(stage'["MUL_ONE"])
        /\ New(q3) = Inst(stage'["MEM"])
        /\ W[q1] = Inst(stage["INT_ONE"]) /\ W[q2] = Inst(stage["MUL_ONE"])
        /\ W[q3] = Inst(stage["MEM"])
    BY <1>18, WorkAt DEF FrontUnits, Units
  <2>2. /\ F1 = {} => stage'["INT_ONE"] = stage["INT_ONE"]
        /\ F2 = {} => stage'["MUL_ONE"] = stage["MUL_ONE"]
        /\ F3 = {} => stage'["MEM"] = stage["MEM"]
    BY <1>9
  <2> HIDE DEF New, F1, F2, F3, q1, q2, q3
  <2> QED BY <1>19, <2>1, <2>2
<1>22. \A r \in Place : r \notin {q1, q2, q3} =>
         New(r) = IF r \in F1 \cup F2 \cup F3 THEN NoInst ELSE W[r]
  <2> SUFFICES ASSUME NEW r \in Place, r \notin {q1, q2, q3}
               PROVE  New(r) = IF r \in F1 \cup F2 \cup F3 THEN NoInst ELSE W[r]
    OBVIOUS
  <2>0. Inst(NoOp) = NoInst
    BY InstFields DEF NoOp
  <2>1. ASSUME NEW i \in IqIndex, r = IqPlace(i)
        PROVE  New(r) = IF r \in F1 \cup F2 \cup F3 THEN NoInst ELSE W[r]
    <3>1. r \in F1 \cup F2 \cup F3 <=> i \in Issued
      BY <1>6, <2>1, PlacesDiffer
    <3>2. New(r) = Inst(iq'[i].op) /\ W[r] = Inst(iq[i].op)
      BY <1>18, <2>1, WorkAt
    <3> HIDE DEF F1, F2, F3, New
    <3> QED BY <1>8, <2>0, <3>1, <3>2
  <2>2. ASSUME NEW k \in LsqIndex, r = LsqPlace(k)
        PROVE  New(r) = IF r \in F1 \cup F2 \cup F3 THEN NoInst ELSE W[r]
    <3>1. r \in F1 \cup F2 \cup F3 <=> k \in ToMem
      BY <2>2, PlacesDiffer
    <3>2. New(r) = Inst(lsq'[k].op) /\ W[r] = Inst(lsq[k].op)
      BY <1>18, <2>2, WorkAt
    <3> HIDE DEF F1, F2, F3, New
    <3> QED BY <1>8, <2>0, <3>1, <3>2
  <2>3. ASSUME NEW u \in FrontUnits, r = UnitPlace(u)
        PROVE  New(r) = IF r \in F1 \cup F2 \cup F3 THEN NoInst ELSE W[r]
    <3>1. r \notin F1 \cup F2 \cup F3
      BY <2>3, PlacesDiffer
    <3>2. u \in Units /\ u \notin {"INT_ONE", "MUL_ONE", "MEM"}
      BY <2>3 DEF FrontUnits, Units
    <3>3. New(r) = Inst(stage'[u]) /\ W[r] = Inst(stage[u])
      BY <1>18, <2>3, <3>2, WorkAt
    <3> HIDE DEF F1, F2, F3, New
    <3> QED BY <1>9, <3>1, <3>2, <3>3
  <2> HIDE DEF New, F1, F2, F3
  <2> QED BY <2>1, <2>2, <2>3, PlacesOf
<1> HIDE DEF F1, F2, F3, q1, q2, q3, New
\* One unit after the other.
<1>23. TrackInv(e, V1, U) /\ \A r \in Place : r \notin F1 \cup {q1} => V1[r] = W[r]
  <2>1. TrackInv(e, V1, U)
    BY <1>3, <1>14, <1>16, <1>17, TrackTake
  <2> QED BY <2>1
<1>24. TrackInv(e, V2, U) /\ \A r \in Place : r \notin F1 \cup F2 \cup {q1, q2} => V2[r] = W[r]
  <2>1. F2 # {} => ~Holds(V1, q2)
    BY <1>14, <1>17, <1>23 DEF Holds
  <2>2. TrackInv(e, V2, U)
    <3> HIDE DEF V1
    <3> QED BY <1>14, <1>16, <1>23, <2>1, TrackTake
  <2> QED BY <1>23, <2>2
<1>25. TrackInv(e, V3, Unaddressed(lsq'))
  <2>1. F3 # {} => ~Holds(V2, q3)
    BY <1>14, <1>17, <1>24, PlacesApart DEF Holds
  <2>2. U \subseteq Unaddressed(lsq')
    BY <1>5, <1>8, NotWork DEF Unaddressed
  <2> HIDE DEF V2, U
  <2> QED BY <1>14, <1>15, <1>16, <1>24, <2>1, <2>2, TrackTake
<1>26. \A r \in Place : V3[r] =
         IF r = q3 /\ F3 # {} THEN W[CHOOSE p \in F3 : TRUE]
         ELSE IF r = q2 /\ F2 # {} THEN W[CHOOSE p \in F2 : TRUE]
         ELSE IF r = q1 /\ F1 # {} THEN W[CHOOSE p \in F1 : TRUE]
         ELSE IF r \in F1 \cup F2 \cup F3 THEN NoInst ELSE W[r]
  <2>1. F2 # {} => V1[CHOOSE p \in F2 : TRUE] = W[CHOOSE p \in F2 : TRUE]
    <3>1. F2 # {} => (CHOOSE p \in F2 : TRUE) \in F2
      OBVIOUS
    <3> QED BY <1>14, <1>23, <3>1
  <2>2. F3 # {} => V2[CHOOSE p \in F3 : TRUE] = W[CHOOSE p \in F3 : TRUE]
    <3>1. F3 # {} => (CHOOSE p \in F3 : TRUE) \in F3
      OBVIOUS
    <3> QED BY <1>14, <1>24, <3>1, PlacesApart
  <2> QED BY <1>14, <1>20, <2>1, <2>2, PlacesApart
<1> HIDE DEF V1, V2, V3
<1>27. \A r \in Place : Work(iq', lsq', stage', Units)[r] = V3[r]
  <2> SUFFICES ASSUME NEW r \in Place PROVE New(r) = V3[r]
    BY DEF New
  <2>1. q1 # q3 /\ q2 # q3
    BY <1>14, PlacesApart
  <2>2. CASE r \in {q1, q2, q3}
    BY <1>14, <1>21, <1>26, <2>1, <2>2
  <2>3. CASE r \notin {q1, q2, q3}
    BY <1>22, <1>26, <2>3
  <2> QED BY <2>2, <2>3
<1>28. TrackInv(e, Work(iq', lsq', stage', Units), Unaddressed(lsq'))
  BY <1>25, <1>27, TrackSame
<1> QED BY <1>1, <1>2, <1>4, <1>8, <1>12, <1>13, <1>28 DEF PlacesInv

-----------------------------------------------------------------------------
(***************************************************************************)
(* Dispatch.                                                               *)
(***************************************************************************)
Stalls == drf.op.inst_type # HALT /\ StallFront

Adds == can_add_entry_in_reorder_buffer(rob) /\ rob' = add_reorder_buffer_entry(rob, drf.op)

\* What dispatch does: nothing that counts, or one instruction enters the buffer.
LEMMA DispatchCases ==
  ASSUME RobInv(rob), Dispatch
  PROVE  \/ /\ rob'.rob_entry = rob.rob_entry /\ UNCHANGED <<iq, lsq>>
            /\ Stalls \/ UNCHANGED <<drf, fetch_stage>>
         \/ /\ drf.op.inst_type \in MemOps /\ Adds /\ UNCHANGED <<drf, fetch_stage>>
            /\ HasFree(iq) /\ HasFree(lsq)
            /\ iq' = add_issue_queue_entry(iq, drf.op, FirstFree(lsq))
            /\ lsq' = add_ls_queue_entry(lsq, drf.op)
         \/ /\ drf.op.inst_type \in MOVC .. JUMP /\ Adds /\ UNCHANGED <<drf, fetch_stage, lsq>>
            /\ HasFree(iq)
            /\ iq' = add_issue_queue_entry(iq, drf.op, -1)
         \/ drf.op.inst_type = HALT /\ Adds /\ UNCHANGED <<drf, fetch_stage, iq, lsq>>
<1>1. WrapIssuePtr(rob).rob_entry = rob.rob_entry
  BY DEF WrapIssuePtr, RobInv, RobShape
<1>2. CASE DispatchMemory
  <2>1. drf.op.inst_type \in MemOps /\ drf.op.inst_type # HALT
    BY <1>2, NotWork DEF DispatchMemory
  <2>2. PICK behind \in BOOLEAN :
       LET room == HasFree(iq) /\ (HasFree(lsq) \/ behind)
           ok   == room /\ can_add_entry_in_reorder_buffer(rob)
       IN  IF ~ok
           THEN /\ rob' = IF room THEN WrapIssuePtr(rob) ELSE rob
                /\ StallFront
                /\ UNCHANGED <<iq, lsq>>
           ELSE /\ UNCHANGED <<drf, fetch_stage>>
                /\ IF HasFree(lsq)
                   THEN /\ lsq' = add_ls_queue_entry(lsq, drf.op)
                        /\ iq'  = add_issue_queue_entry(iq, drf.op, FirstFree(lsq))
                        /\ rob' = add_reorder_buffer_entry(rob, drf.op)
                   ELSE rob' = WrapIssuePtr(rob) /\ UNCHANGED <<iq, lsq>>
    BY <1>2 DEF DispatchMemory
  <2> DEFINE room == HasFree(iq) /\ (HasFree(lsq) \/ behind)
  <2>3. CASE ~(room /\ can_add_entry_in_reorder_buffer(rob))
    BY <1>1, <2>1, <2>2, <2>3 DEF Stalls
  <2>4. CASE room /\ can_add_entry_in_reorder_buffer(rob) /\ ~HasFree(lsq)
    BY <1>1, <2>2, <2>4
  <2>5. CASE room /\ can_add_entry_in_reorder_buffer(rob) /\ HasFree(lsq)
    BY <2>1, <2>2, <2>5 DEF Adds
  <2> QED BY <2>3, <2>4, <2>5
<1>3. CASE DispatchOther
  <2>1. drf.op.inst_type \in MOVC .. JUMP /\ drf.op.inst_type # HALT /\ UNCHANGED lsq
    BY <1>3 DEF DispatchOther, MOVC, JUMP, HALT
  <2>2. CASE HasFree(iq) /\ can_add_entry_in_reorder_buffer(rob)
    BY <1>3, <2>1, <2>2 DEF DispatchOther, Adds
  <2>3. CASE ~(HasFree(iq) /\ can_add_entry_in_reorder_buffer(rob))
    BY <1>1, <1>3, <2>1, <2>3 DEF DispatchOther, Stalls
  <2> QED BY <2>2, <2>3
<1>4. CASE DispatchHalt
  <2>1. CASE can_add_entry_in_reorder_buffer(rob)
    BY <1>4, <2>1 DEF DispatchHalt, Adds
  <2>2. CASE ~can_add_entry_in_reorder_buffer(rob)
    BY <1>1, <1>4, <2>2 DEF DispatchHalt, add_reorder_buffer_entry
  <2> QED BY <2>1, <2>2
<1>5. CASE ~(drf.executed = VALID /\ drf.op.inst_type \in MemOps \cup (MOVC .. HALT))
  BY <1>5 DEF Dispatch, queueVars
<1> QED BY <1>2, <1>3, <1>4, <1>5 DEF Dispatch

\* An added entry is the youngest, and DRF is not dispatched again.
LEMMA DispatchFront == ASSUME WorkInv, Dispatch PROVE FrontOnce'
<1> DEFINE e == rob.rob_entry
           f == rob'.rob_entry
<1>1. step = "dispatch" /\ step' = "push_front" /\ UNCHANGED pc
  BY DEF Dispatch, Turn
<1>2. FrontOnce /\ RobInv(rob) /\ Below(e, drf.op)
  BY <1>1 DEF WorkInv, OrderInv, FrontOnce, NotYetDispatched
<1>3. /\ drf.op.pc \in Int /\ fetch_stage.op.pc \in Int /\ drf.op.pc <= fetch_stage.op.pc
      /\ fetch_stage.stalled \in Flag
      /\ {"op", "stalled", "executed"} \subseteq DOMAIN drf
      /\ {"op", "stalled"} \subseteq DOMAIN fetch_stage
      /\ \A i \in RobIndex : e[i].inst_ptr \in Int
  <2>1. \A i \in RobIndex : e[i].inst_ptr \in Int
    BY DEF WorkInv, PlacesInv, TrackInv, EntryShape
  <2> QED BY <2>1 DEF WorkInv, OrderInv, FrontInv, Latch, PlainOp, FrontOnce, FrontShape
<1>4. \/ Stalls
      \/ UNCHANGED <<drf, fetch_stage>>
  BY <1>2, DispatchCases
<1>5. /\ drf'.op = drf.op /\ fetch_stage'.op = fetch_stage.op
      /\ {"op", "stalled", "executed"} \subseteq DOMAIN drf'
      /\ {"op", "stalled"} \subseteq DOMAIN fetch_stage' /\ fetch_stage'.stalled \in Flag
      /\ drf.op.inst_type = HALT => UNCHANGED <<drf, fetch_stage>>
      /\ fetch_stage'.stalled = INVALID => fetch_stage.stalled = INVALID
  BY <1>3, <1>4, NotWork DEF Stalls, StallFront, Flag
<1>6. FrontShape' /\ HaltStays'
  BY <1>1, <1>2, <1>5 DEF FrontOnce, FrontShape, HaltStays
<1>7. FetchedOnce'
  BY <1>1, <1>2, <1>5 DEF FrontOnce, FetchedOnce
\* The entries, and whether DRF has become one.
<1>8. \/ f = e
      \/ /\ UNCHANGED <<drf, fetch_stage>> /\ drf.op.inst_type # 0
         /\ \A i \in RobIndex :
              \/ f[i] = e[i]
              \/ f[i].inst_ptr = drf.op.pc /\ f[i].inst_type = drf.op.inst_type
  <2>1. CASE ~Adds
    BY <1>2, <2>1, DispatchCases
  <2>2. CASE Adds
    <3>1. f = [e EXCEPT ![Slot(rob.issue_ptr)] = NewRobEntry(drf.op)]
      BY <1>2, <2>2, AddFields DEF Adds
    <3>2. /\ NewRobEntry(drf.op).inst_ptr = drf.op.pc
          /\ NewRobEntry(drf.op).inst_type = drf.op.inst_type
      BY DEF NewRobEntry
    <3>3. \A i \in RobIndex : f[i] = e[i] \/ f[i] = NewRobEntry(drf.op)
      BY <1>2, <3>1 DEF RobInv, RobShape
    <3>4. f = e \/ (UNCHANGED <<drf, fetch_stage>> /\ drf.op.inst_type # 0)
      BY <1>2, DispatchCases, NotWork DEF MOVC, JUMP, HALT
    <3> QED BY <3>2, <3>3, <3>4
  <2> QED BY <2>1, <2>2
<1>9. NotYetDispatched'
  <2>1. CASE fetch_stage'.stalled = INVALID
    <3>1. drf.op.inst_type # HALT
      BY <1>1, <1>2, <1>5, <2>1, NotWork DEF FrontOnce, HaltStays
    <3>2. \A i \in RobIndex : e[i].status = VALID => e[i].inst_ptr < drf.op.pc
      BY <1>2, <3>1 DEF Below
    <3>3. drf.op.inst_type = 0 \/ drf.op.pc < fetch_stage.op.pc
      BY <1>1, <1>2 DEF FrontOnce, FetchedOnce
    <3>4. \A i \in RobIndex : f[i].status = VALID => f[i].inst_ptr < fetch_stage.op.pc
      BY <1>3, <1>8, <3>2, <3>3
    <3> QED BY <1>1, <1>5, <2>1, <3>4 DEF NotYetDispatched
  <2>2. CASE fetch_stage'.stalled # INVALID
    <3>1. Below(f, drf.op)
      <4>1. CASE f = e
        BY <1>2, <4>1
      <4>2. CASE f # e
        <5>1. drf.op.inst_type = HALT
          BY <1>1, <1>2, <1>8, <2>2, <4>2 DEF FrontOnce, HaltStays
        <5> QED BY <1>2, <1>8, <4>2, <5>1 DEF Below
      <4> QED BY <4>1, <4>2
    <3> QED BY <1>1, <1>5, <2>2, <3>1 DEF NotYetDispatched
  <2> QED BY <2>1, <2>2
<1> QED BY <1>6, <1>7, <1>9 DEF FrontOnce

\* An instruction takes the first free entry of the issue queue.
LEMMA AddIqShape ==
  ASSUME IqShape(iq), HasFree(iq), HasInst(drf.op), drf.op.inst_type \in Queued, NEW k
  PROVE  LET q == add_issue_queue_entry(iq, drf.op, k)
             n == FirstFree(iq)
         IN  /\ n \in IqIndex /\ Inst(iq[n].op) = NoInst /\ IqShape(q)
             /\ \A i \in IqIndex : Inst(q[i].op) = IF i = n THEN Inst(drf.op) ELSE Inst(iq[i].op)
<1> DEFINE n == FirstFree(iq)
           o == [drf.op EXCEPT !.lsq_index = k]
           new == [status |-> VALID, stage_cycle |-> 0, op |-> o]
           q == [iq EXCEPT ![n] = new]
<1>1. n \in IqIndex /\ iq[n].status = INVALID
  <2>1. DOMAIN iq = 0 .. IQ_SIZE - 1 /\ IQ_SIZE \in Nat
    BY QueueSizeAssumption DEF IqShape, IqIndex
  <2> QED BY <2>1, FreeFound DEF IqIndex
<1>2. SameInst(o, drf.op)
  BY DEF SameInst, HasInst
<1>3. /\ {"status", "stage_cycle", "op"} \subseteq DOMAIN new
      /\ new.op = o /\ new.status = VALID
  OBVIOUS
<1>4. DOMAIN q = IqIndex /\ \A i \in IqIndex : q[i] = IF i = n THEN new ELSE iq[i]
  BY DEF IqShape
<1>5. q = add_issue_queue_entry(iq, drf.op, k)
  BY DEF add_issue_queue_entry
<1> HIDE DEF n, o, new, q
<1>6. IqShape(q)
  BY <1>2, <1>3, <1>4 DEF IqShape, SameInst, Flag
<1>7. Inst(o) = Inst(drf.op)
  BY <1>2, SameInstInst
<1>8. Inst(iq[n].op) = NoInst
  BY <1>1, InstFields, NotWork DEF IqShape
<1> QED BY <1>1, <1>3, <1>4, <1>5, <1>6, <1>7, <1>8 DEF n

LEMMA AddLsqShape ==
  ASSUME LsqShape(lsq), HasFree(lsq), HasInst(drf.op), drf.op.inst_type \in MemOps
  PROVE  LET l == add_ls_queue_entry(lsq, drf.op)
             n == FirstFree(lsq)
         IN  /\ n \in LsqIndex /\ Inst(lsq[n].op) = NoInst /\ LsqShape(l)
             /\ \A k \in LsqIndex : Inst(l[k].op) = IF k = n THEN Inst(drf.op) ELSE Inst(lsq[k].op)
             /\ LsqPlace(n) \in Unaddressed(l) /\ Unaddressed(lsq) \subseteq Unaddressed(l)
<1> DEFINE n == FirstFree(lsq)
           o == [drf.op EXCEPT !.rd_valid = IF drf.op.inst_type \in Stores THEN @ ELSE INVALID]
           new == [status |-> VALID, stage_cycle |-> 0, mem_valid |-> INVALID, op |-> o]
           l == [lsq EXCEPT ![n] = new]
<1>1. n \in LsqIndex /\ lsq[n].status = INVALID
  <2>1. DOMAIN lsq = 0 .. LSQ_SIZE - 1 /\ LSQ_SIZE \in Nat
    BY QueueSizeAssumption DEF LsqShape, LsqIndex
  <2> QED BY <2>1, FreeFound DEF LsqIndex
<1>2. SameInst(o, drf.op)
  BY DEF SameInst, HasInst
<1>3. /\ {"status", "stage_cycle", "mem_valid", "op"} \subseteq DOMAIN new
      /\ new.op = o /\ new.status = VALID /\ new.mem_valid = INVALID /\ new.stage_cycle \in Int
  OBVIOUS
<1>4. DOMAIN l = LsqIndex /\ \A k \in LsqIndex : l[k] = IF k = n THEN new ELSE lsq[k]
  BY DEF LsqShape
<1>5. l = add_ls_queue_entry(lsq, drf.op)
  BY DEF add_ls_queue_entry
<1> HIDE DEF n, o, new, l
<1>6. LsqShape(l)
  BY <1>2, <1>3, <1>4 DEF LsqShape, SameInst, Flag
<1>7. Inst(o) = Inst(drf.op)
  BY <1>2, SameInstInst
<1>8. Inst(lsq[n].op) = NoInst
  BY <1>1, InstFields, NotWork DEF LsqShape
<1>9. LsqPlace(n) \in Unaddressed(l) /\ Unaddressed(lsq) \subseteq Unaddressed(l)
  BY <1>1, <1>3, <1>4 DEF Unaddressed
<1> QED BY <1>1, <1>3, <1>4, <1>5, <1>6, <1>7, <1>8, <1>9 DEF n

LEMMA DispatchWorkStep == ASSUME WorkInv, Dispatch PROVE PlacesInv'
<1> DEFINE e == rob.rob_entry
           u == drf.op
           s == Slot(rob.issue_ptr)
           W == Work(iq, lsq, stage, Open)
           U == Unaddressed(lsq)
           V == Work(iq', lsq', stage, Open)
<1>1. step = "dispatch" /\ step' = "push_front" /\ UNCHANGED <<stage, mem_stage>>
  BY DEF Dispatch, Turn, backVars
<1>2. Open' = Open
  BY <1>1 DEF Open, Drained
<1>3. /\ IqShape(iq) /\ LsqShape(lsq) /\ UnitShape(stage) /\ TrackInv(e, W, U) /\ RobInv(rob)
      /\ HasInst(u) /\ u.pc \in Int /\ Below(e, u)
  BY <1>1 DEF WorkInv, PlacesInv, OrderInv, FrontInv, Latch, PlainOp, FrontOnce, FrontShape,
              NotYetDispatched
<1>4. ResultsReady' /\ MemoryFlag'
  BY <1>1 DEF WorkInv, PlacesInv, ResultsReady, MemoryFlag, Drained, Empty
<1>5. Adds => /\ rob'.rob_entry = [e EXCEPT ![s] = NewRobEntry(u)] /\ s \in RobIndex
              /\ e[s].status # VALID
  BY <1>3, AddFields, NotWork DEF Adds, can_add_entry_in_reorder_buffer
<1> HIDE DEF s, U
<1>6. CASE rob'.rob_entry = e /\ UNCHANGED <<iq, lsq>>
  BY <1>1, <1>2, <1>3, <1>4, <1>6 DEF PlacesInv, U
<1>7. CASE u.inst_type = HALT /\ Adds /\ UNCHANGED <<iq, lsq>>
  <2>1. TrackInv(rob'.rob_entry, W, U)
    <3> HIDE DEF e, u, W
    <3> QED BY <1>3, <1>5, <1>7, TrackAddHalt
  <2> QED BY <1>1, <1>2, <1>3, <1>4, <1>7, <2>1 DEF PlacesInv, U
<1> DEFINE p == IqPlace(FirstFree(iq))
\* Whatever the load/store queue does.
<1>8. ASSUME u.inst_type \in Queued, Adds, HasFree(iq),
             NEW k, iq' = add_issue_queue_entry(iq, u, k), LsqShape(lsq'), NEW q \in Rear,
             u.inst_type \in MemOps => ~Holds(W, q),
             \A r \in Rear : V[r] = IF r = q /\ u.inst_type \in MemOps THEN Inst(u) ELSE W[r],
             U \subseteq Unaddressed(lsq'), u.inst_type \in MemOps => q \in Unaddressed(lsq')
      PROVE  PlacesInv'
  <2> DEFINE n == FirstFree(iq)
  <2>1. /\ n \in IqIndex /\ Inst(iq[n].op) = NoInst /\ IqShape(iq')
        /\ \A i \in IqIndex : Inst(iq'[i].op) = IF i = n THEN Inst(u) ELSE Inst(iq[i].op)
    BY <1>3, <1>8, AddIqShape
  <2> HIDE DEF n
  <2>2. p \in Front /\ p = IqPlace(n) /\ Front \subseteq Place /\ Rear \subseteq Place
    BY <2>1, PlacesOf DEF n, Place
  <2>3. ~Holds(W, p)
    BY <2>1, <2>2, WorkAt, NotWork DEF Holds
  <2>4. \A r \in Front : V[r] = IF r = p THEN Inst(u) ELSE W[r]
    <3> SUFFICES ASSUME NEW r \in Front PROVE V[r] = IF r = p THEN Inst(u) ELSE W[r]
      OBVIOUS
    <3>1. ASSUME NEW i \in IqIndex, r = IqPlace(i) PROVE V[r] = IF r = p THEN Inst(u) ELSE W[r]
      BY <2>1, <2>2, <3>1, WorkAt, PlacesDiffer
    <3>2. ASSUME NEW v \in FrontUnits, r = UnitPlace(v) PROVE V[r] = IF r = p THEN Inst(u) ELSE W[r]
      <4>1. r # p
        BY <2>2, <3>2, PlacesDiffer
      <4>2. V[r] = W[r]
        BY <3>2, WorkAt
      <4> QED BY <4>1, <4>2
    <3> QED BY <3>1, <3>2 DEF Front
  <2> HIDE DEF V, W, p
  <2>5. \A r \in Place : V[r] = IF r = p \/ (r = q /\ u.inst_type \in MemOps)
                                THEN Inst(u) ELSE W[r]
    BY <1>8, <2>2, <2>4, PlacesApart DEF Place
  <2>6. u.inst_type \notin {0, HALT}
    BY <1>8, NotWork DEF Queued, MOVC, JUMP, HALT
  <2>7. TrackInv(rob'.rob_entry, V, Unaddressed(lsq'))
    <3> HIDE DEF e, u
    <3> QED BY <1>3, <1>5, <1>8, <2>2, <2>3, <2>5, <2>6, TrackAdd
  <2> QED BY <1>1, <1>2, <1>3, <1>4, <1>8, <2>1, <2>7 DEF PlacesInv, V
<1>9. CASE /\ u.inst_type \in MemOps /\ Adds /\ HasFree(iq) /\ HasFree(lsq)
           /\ iq' = add_issue_queue_entry(iq, u, FirstFree(lsq))
           /\ lsq' = add_ls_queue_entry(lsq, u)
  <2> DEFINE n == FirstFree(lsq)
             q == LsqPlace(n)
  <2>1. /\ n \in LsqIndex /\ Inst(lsq[n].op) = NoInst /\ LsqShape(lsq')
        /\ \A k \in LsqIndex : Inst(lsq'[k].op) = IF k = n THEN Inst(u) ELSE Inst(lsq[k].op)
        /\ LsqPlace(n) \in Unaddressed(lsq') /\ Unaddressed(lsq) \subseteq Unaddressed(lsq')
    BY <1>3, <1>9, AddLsqShape
  <2> HIDE DEF n
  <2>2. q \in Rear /\ ~Holds(W, q)
    BY <2>1, PlacesOf, WorkAt, NotWork DEF Holds
  <2>3. \A r \in Rear : V[r] = IF r = q THEN Inst(u) ELSE W[r]
    <3> SUFFICES ASSUME NEW r \in Rear PROVE V[r] = IF r = q THEN Inst(u) ELSE W[r]
      OBVIOUS
    <3>1. ASSUME NEW k \in LsqIndex, r = LsqPlace(k) PROVE V[r] = IF r = q THEN Inst(u) ELSE W[r]
      BY <2>1, <3>1, WorkAt, PlacesDiffer
    <3>2. CASE r = UnitPlace("MEM")
      <4>1. r # q
        BY <3>2, PlacesDiffer
      <4>2. V[r] = W[r]
        BY <3>2, WorkAt
      <4> QED BY <4>1, <4>2
    <3> QED BY <3>1, <3>2 DEF Rear
  <2>4. u.inst_type \in Queued
    BY <1>9 DEF Queued
  <2> HIDE DEF V, W, q
  <2>5. q \in Unaddressed(lsq') /\ U \subseteq Unaddressed(lsq')
    BY <2>1 DEF U, q
  <2> QED BY <1>8, <1>9, <2>1, <2>2, <2>3, <2>4, <2>5
<1>10. CASE /\ u.inst_type \in MOVC .. JUMP /\ Adds /\ HasFree(iq) /\ UNCHANGED lsq
            /\ iq' = add_issue_queue_entry(iq, u, -1)
  <2> DEFINE q == UnitPlace("MEM")
  <2>1. u.inst_type \in Queued /\ u.inst_type \notin MemOps
    BY <1>10 DEF Queued, MemOps, Stores, Loads, STORE, STR, LOAD, LDR, MOVC, JUMP
  <2>2. q \in Rear
    BY PlacesOf
  <2>3. \A r \in Rear : V[r] = W[r]
    BY <1>10, WorkAt DEF Rear
  <2> HIDE DEF V, W, q
  <2>4. LsqShape(lsq') /\ U \subseteq Unaddressed(lsq')
    BY <1>3, <1>10 DEF U
  <2> QED BY <1>8, <1>10, <2>1, <2>2, <2>3, <2>4
<1> QED BY <1>3, <1>6, <1>7, <1>9, <1>10, DispatchCases

-----------------------------------------------------------------------------
(***************************************************************************)
(* The invariant.                                                          *)
(***************************************************************************)
\* The front end leaves queues and units alone.
LEMMA FrontWorkStep == ASSUME WorkInv, PushFront \/ Decode \/ Fetch PROVE PlacesInv'
<1>1. UNCHANGED <<stage, mem_stage, rob, iq, lsq>>
  BY DEF PushFront, Decode, Fetch, backVars, queueVars
<1>2. /\ step \in {"push_front", "decode", "fetch"}
      /\ step' \in {"decode", "fetch", "push_units"}
  BY DEF PushFront, Decode, Fetch, Turn
<1>3. Open' = Open
  BY <1>1, <1>2 DEF Open, Drained
<1>4. ResultsReady' /\ MemoryFlag'
  BY <1>1, <1>2 DEF WorkInv, PlacesInv, ResultsReady, MemoryFlag, Drained, Empty
<1> QED BY <1>1, <1>3, <1>4 DEF WorkInv, PlacesInv

LEMMA InitWork == Init => WorkInv
<1> SUFFICES ASSUME Init PROVE WorkInv
  OBVIOUS
<1>1. /\ step = "commit" /\ pc = CodeBase
      /\ fetch_stage = [op |-> NoOp, stalled |-> INVALID]
      /\ drf = [op |-> NoOp, stalled |-> INVALID, executed |-> INVALID]
      /\ stage = [u \in Units |-> NoOp]
      /\ mem_stage = [stage_cycle |-> 0, executed |-> INVALID]
      /\ iq = [i \in IqIndex |-> FreeIqEntry] /\ lsq = [i \in LsqIndex |-> FreeLsqEntry]
      /\ rob.rob_entry = [i \in RobIndex |-> FreeRobEntry]
  BY DEF Init, init_issue_queue, init_ls_queue, init_reorder_buffer
<1>2. HasInst(NoOp) /\ NoOp.inst_type = 0 /\ NoOp.pc = 0
  BY DEF NoOp, HasInst
<1>3. FrontShape /\ HaltStays
  BY <1>1, <1>2, NotWork DEF FrontShape, HaltStays, Flag, HALT
<1>4. FetchedOnce
  BY <1>1, <1>2 DEF FetchedOnce
<1>5. \A i \in RobIndex : /\ EntryFields \subseteq DOMAIN rob.rob_entry[i]
                          /\ rob.rob_entry[i].status = INVALID /\ rob.rob_entry[i].valid = INVALID
                          /\ rob.rob_entry[i].inst_ptr \in Int
  BY <1>1 DEF FreeRobEntry, EntryFields
<1>6. NotYetDispatched
  BY <1>1, <1>5, NotWork DEF NotYetDispatched, Below
<1>7. IqShape(iq) /\ LsqShape(lsq)
  BY <1>1, <1>2, NotWork DEF IqShape, LsqShape, FreeIqEntry, FreeLsqEntry, Flag
<1>8. UnitShape(stage)
  BY <1>1, <1>2 DEF UnitShape, UnitTypes
<1>9. ResultsReady /\ MemoryFlag
  BY <1>1, NotWork DEF ResultsReady, MemoryFlag, Flag
<1> DEFINE W == Work(iq, lsq, stage, Open)
<1>10. \A r \in Place : ~Holds(W, r) /\ W[r].inst_type = 0
  <2>1. Inst(NoOp) = NoInst
    BY <1>2, InstFields
  <2>2. Open = Units
    BY <1>1 DEF Open, Drained
  <2>3. \A i \in IqIndex : W[IqPlace(i)] = NoInst
    BY <1>1, <2>1, WorkAt DEF FreeIqEntry
  <2>4. \A k \in LsqIndex : W[LsqPlace(k)] = NoInst
    BY <1>1, <2>1, WorkAt DEF FreeLsqEntry
  <2>5. \A u \in FrontUnits \cup {"MEM"} : W[UnitPlace(u)] = NoInst
    BY <1>1, <2>1, <2>2, WorkAt DEF FrontUnits, Units
  <2> HIDE DEF W
  <2>6. \A r \in Place : W[r] = NoInst
    BY <2>3, <2>4, <2>5, PlacesOf
  <2> QED BY <2>6, NotWork DEF Holds
<1> HIDE DEF W
<1>11. TrackInv(rob.rob_entry, W, Unaddressed(lsq))
  <2>1. EntryShape(rob.rob_entry)
    BY <1>1, <1>5 DEF EntryShape, Flag
  <2>2. EntriesDiffer(rob.rob_entry) /\ EntryHasWork(rob.rob_entry, W)
    BY <1>5, NotWork DEF EntriesDiffer, EntryHasWork, Unfinished
  <2>3. WorkHasEntry(rob.rob_entry, W) /\ OnePlace(W, Unaddressed(lsq)) /\ MemoryPath(W)
    BY <1>10, NotWork DEF WorkHasEntry, OnePlace, MemoryPath, Place
  <2> QED BY <2>1, <2>2, <2>3 DEF TrackInv
<1> QED BY <1>3, <1>4, <1>6, <1>7, <1>8, <1>9, <1>11, InitOrder DEF WorkInv, FrontOnce, PlacesInv, W

LEMMA NextWork == ASSUME StraightLine, WorkInv, [Next]_vars PROVE WorkInv'
<1>1. OrderInv'
  BY NextOrder DEF WorkInv
<1>2. CASE Commit
  BY <1>1, <1>2, CommitWorkStep DEF WorkInv
<1>3. CASE Issue
  BY <1>1, <1>3, IssueWorkStep DEF WorkInv
<1>4. CASE IntOne \/ IntTwo \/ MulOne \/ MulThree \/ Branch \/ Mem
  BY <1>1, <1>4, UnitsWorkStep DEF WorkInv
<1>5. CASE Writeback
  <2>1. /\ step = "writeback" /\ step' = "dispatch" /\ UNCHANGED <<fetch_stage, pc>>
    BY <1>5 DEF Writeback, Turn, frontVars
  <2>2. PlacesInv' /\ SameLatch(drf', drf) /\ SameEntries(rob'.rob_entry, rob.rob_entry)
    BY <1>5, WritebackWorkStep
  <2>3. FrontOnce'
    BY <2>1, <2>2, QuietFront DEF SameEntries
  <2> QED BY <1>1, <2>2, <2>3 DEF WorkInv
<1>6. CASE Dispatch
  BY <1>1, <1>6, DispatchFront, DispatchWorkStep DEF WorkInv
<1>7. CASE PushFront
  BY <1>1, <1>7, PushFrontFront, FrontWorkStep DEF WorkInv
<1>8. CASE Decode
  BY <1>1, <1>8, DecodeFront, FrontWorkStep DEF WorkInv
<1>9. CASE Fetch
  BY <1>1, <1>9, FetchFront, FrontWorkStep DEF WorkInv
<1>10. CASE PushUnits
  BY <1>1, <1>10, PushUnitsWorkStep DEF WorkInv
<1>11. CASE UNCHANGED vars
  <2>1. /\ UNCHANGED <<pc, fetch_stage, drf, stage, mem_stage, iq, lsq, rob, step>>
    BY <1>11 DEF vars, frontVars, backVars, queueVars
  <2>2. FrontOnce'
    BY <2>1 DEF WorkInv, FrontOnce, FrontShape, HaltStays, FetchedOnce, NotYetDispatched
  <2>3. PlacesInv'
    BY <2>1 DEF WorkInv, PlacesInv, ResultsReady, MemoryFlag, Drained, Empty, Open
  <2> QED BY <1>1, <2>2, <2>3 DEF WorkInv
<1> QED BY <1>2, <1>3, <1>4, <1>5, <1>6, <1>7, <1>8, <1>9, <1>10, <1>11 DEF Next

\* Between two cycles everything at work is in one of the sets of EntriesAtWork.
LEMMA WorkGivesEntries == ASSUME WorkInv PROVE EntriesAtWork
<1> SUFFICES ASSUME step = "commit"
             PROVE  /\ \A i \in Window :
                         \/ rob.rob_entry[i].valid = VALID
                         \/ \E op \in AtWork : Matches(rob.rob_entry[i], op)
                    /\ \A op \in AtWork :
                         \E i \in Window : Matches(rob.rob_entry[i], op)
                                           /\ rob.rob_entry[i].valid = INVALID
  BY DEF EntriesAtWork, BetweenCycles
<1> DEFINE e == rob.rob_entry
           W == Work(iq, lsq, stage, Units)
<1>1. /\ IqShape(iq) /\ LsqShape(lsq) /\ UnitShape(stage) /\ TrackInv(e, W, Unaddressed(lsq))
      /\ stage["BRANCH"].inst_type = 0
  <2>1. Open = Units
    BY DEF Open, Drained
  <2> QED BY <2>1 DEF WorkInv, PlacesInv, OrderInv, BranchUnitIdle
<1>2. /\ \A i \in IqIndex : W[IqPlace(i)] = Inst(iq[i].op)
      /\ \A k \in LsqIndex : W[LsqPlace(k)] = Inst(lsq[k].op)
      /\ \A u \in FrontUnits \cup {"MEM"} : W[UnitPlace(u)] = Inst(stage[u])
  BY WorkAt DEF FrontUnits, Units
<1> HIDE DEF W
\* A place that holds an instruction is a member, and the other way round.
<1>3. ASSUME NEW r \in Place, Holds(W, r)
      PROVE  \E op \in AtWork : op.inst_type # 0 /\ W[r] = Inst(op)
  <2>1. ASSUME NEW i \in IqIndex, r = IqPlace(i) PROVE \E op \in AtWork : op.inst_type # 0 /\ W[r] = Inst(op)
    <3>1. iq[i].op.inst_type # 0
      BY <1>2, <1>3, <2>1, InstFields DEF Holds
    <3>2. iq[i].status = VALID
      BY <1>1, <3>1 DEF IqShape
    <3> QED BY <1>2, <2>1, <3>1, <3>2 DEF AtWork, Waiting
  <2>2. ASSUME NEW k \in LsqIndex, r = LsqPlace(k) PROVE \E op \in AtWork : op.inst_type # 0 /\ W[r] = Inst(op)
    <3>1. lsq[k].op.inst_type # 0
      BY <1>2, <1>3, <2>2, InstFields DEF Holds
    <3>2. lsq[k].status = VALID
      BY <1>1, <3>1 DEF LsqShape
    <3> QED BY <1>2, <2>2, <3>1, <3>2 DEF AtWork, Memory
  <2>3. ASSUME NEW u \in FrontUnits \cup {"MEM"}, r = UnitPlace(u)
        PROVE  \E op \in AtWork : op.inst_type # 0 /\ W[r] = Inst(op)
    <3>1. stage[u].inst_type # 0
      BY <1>2, <1>3, <2>3, InstFields DEF Holds
    <3>2. u \in Units
      BY DEF FrontUnits, Units
    <3> QED BY <1>2, <2>3, <3>1, <3>2 DEF AtWork, InUnits, Empty
  <2> QED BY <2>1, <2>2, <2>3, PlacesOf
<1>4. ASSUME NEW op \in AtWork
      PROVE  op.inst_type # 0 /\ \E r \in Place : Holds(W, r) /\ W[r] = Inst(op)
  <2>1. CASE op \in Waiting
    <3>1. PICK i \in IqIndex : iq[i].status = VALID /\ op = iq[i].op
      BY <2>1 DEF Waiting
    <3>2. op.inst_type # 0
      BY <1>1, <3>1, NotWork DEF IqShape, Queued, MOVC, JUMP
    <3> QED BY <1>2, <3>1, <3>2, PlacesOf, InstFields DEF Holds
  <2>2. CASE op \in Memory
    <3>1. PICK k \in LsqIndex : lsq[k].status = VALID /\ op = lsq[k].op
      BY <2>2 DEF Memory
    <3>2. op.inst_type # 0
      BY <1>1, <3>1, NotWork DEF LsqShape
    <3> QED BY <1>2, <3>1, <3>2, PlacesOf, InstFields DEF Holds
  <2>3. CASE op \in InUnits
    <3>1. PICK u \in Units : ~Empty(u) /\ op = stage[u]
      BY <2>3 DEF InUnits
    <3>2. op.inst_type # 0 /\ u \in FrontUnits \cup {"MEM"}
      BY <1>1, <3>1 DEF Empty, Units, FrontUnits
    <3> QED BY <1>2, <3>1, <3>2, PlacesOf, InstFields DEF Holds
  <2> QED BY <2>1, <2>2, <2>3 DEF AtWork
<1>5. ASSUME NEW op, op.inst_type # 0, NEW x PROVE Matches(x, Inst(op)) <=> Matches(x, op)
  BY <1>5, InstFields DEF Matches
<1>6. ASSUME NEW i \in Window, e[i].valid # VALID
      PROVE  \E op \in AtWork : Matches(e[i], op)
  <2>1. i \in RobIndex /\ Unfinished(e, i)
    BY <1>1, <1>6 DEF Window, Unfinished, TrackInv, EntryShape, Flag
  <2>2. PICK r \in Place : Holds(W, r) /\ Matches(e[i], W[r])
    BY <1>1, <2>1 DEF TrackInv, EntryHasWork
  <2> QED BY <1>3, <1>5, <2>2
<1>7. ASSUME NEW op \in AtWork
      PROVE  \E i \in Window : Matches(e[i], op) /\ e[i].valid = INVALID
  <2>1. PICK r \in Place : Holds(W, r) /\ W[r] = Inst(op)
    BY <1>4
  <2>2. PICK i \in RobIndex : Awaits(e, i, W[r])
    BY <1>1, <2>1 DEF TrackInv, WorkHasEntry
  <2>3. i \in Window /\ e[i].valid = INVALID /\ Matches(e[i], Inst(op))
    BY <2>1, <2>2 DEF Awaits, Unfinished, Window
  <2> QED BY <1>4, <1>5, <2>3
<1> QED BY <1>6, <1>7

\* Between two cycles the reorder buffer and the instructions in the queues and
\* units agree: no handler loses or duplicates one, whatever the sizes, for
\* every program without conditional branches.
THEOREM EntriesAtWorkCorrect ==
  ASSUME StraightLine
  PROVE  Spec => []EntriesAtWork
<1>1. Init => WorkInv
  BY InitWork
<1>2. WorkInv /\ [Next]_vars => WorkInv'
  BY NextWork
<1>3. WorkInv => EntriesAtWork
  BY WorkGivesEntries
<1> QED BY <1>1, <1>2, <1>3, PTL DEF Spec

=============================================================================
