---------------------------- MODULE DataflowProofs -----------------------------
(***************************************************************************)
(* Operands of the whole simulator: whoever waits for a value has its      *)
(* producer in the reorder buffer, so no broadcast was missed.             *)
(***************************************************************************)
EXTENDS TagProofs

\* What a fetch may read.
Readable == BeyondCode \cup UNION {{c[i] : i \in DOMAIN c} : c \in Programs}

(***************************************************************************)
(* An operand that is missing has a writer of its tag in the buffer.       *)
(***************************************************************************)
Sourced1 == OneSource \cup TwoSource

Fed(e, op) ==
  /\ op.inst_type \in Sourced1 /\ op.rs1_valid = INVALID => InBuffer(e, op.rs1)
  /\ op.inst_type \in TwoSource /\ op.rs2_valid = INVALID => InBuffer(e, op.rs2)

\* DRF holds an instruction that has been through decode.
IsDecoded == step = "decode" => drf.stalled = VALID

\* The types whose operands decode may miss: the data register of a store, the
\* second source of DIV and EXOR, the address of JUMP.
MissingTypes == Stores \cup {DIV, EXOR, JUMP}

OperandFields ==
  {"rs1", "rs1_value", "rs1_valid", "rs2", "rs2_value", "rs2_valid", "rd_value", "buffer"}

Asking(op) == HasInst(op) /\ OperandFields \subseteq DOMAIN op /\ op.inst_type \notin MissingTypes

\* Sources are registers of the machine.
Unread(op) ==
  /\ op.inst_type \in Sourced1  => op.rs1 \in Regs
  /\ op.inst_type \in TwoSource => op.rs2 \in Regs

FedInv ==
  /\ Asking(fetch_stage.op) /\ Asking(drf.op)
  /\ \A i \in IqIndex : Asking(iq[i].op) /\ Fed(rob.rob_entry, iq[i].op)
  /\ \A k \in LsqIndex : Asking(lsq[k].op)
  /\ Unread(fetch_stage.op)
  /\ IF IsDecoded THEN Fed(rob.rob_entry, drf.op) ELSE Unread(drf.op)

\* What can be read is of no such type, and reads registers of the machine.
SourcesExist == \A in \in Readable : in.inst_type \notin MissingTypes /\ Unread(in)

-----------------------------------------------------------------------------
(***************************************************************************)
(* What an instruction hears.                                              *)
(***************************************************************************)
\* The same instruction with the same operands.
SameOperands(o, op) ==
  /\ Asking(o)
  /\ o.inst_type = op.inst_type /\ o.pc = op.pc /\ o.rd = op.rd /\ o.rd_value = op.rd_value
  /\ o.buffer = op.buffer
  /\ o.rs1 = op.rs1 /\ o.rs1_value = op.rs1_value /\ o.rs1_valid = op.rs1_valid
  /\ o.rs2 = op.rs2 /\ o.rs2_value = op.rs2_value /\ o.rs2_valid = op.rs2_valid

\* Instruction op has heard that `tag' has `value'; only operands it reads count.
Hears(o, op, tag, value) ==
  /\ Asking(o)
  /\ o.inst_type = op.inst_type /\ o.pc = op.pc /\ o.rd = op.rd /\ o.rd_value = op.rd_value
  /\ o.buffer = op.buffer
  /\ o.rs1 = op.rs1 /\ o.rs2 = op.rs2
  /\ op.inst_type \in Sourced1 =>
       /\ o.rs1_value = IF Awaits1(op, tag) THEN value ELSE op.rs1_value
       /\ o.rs1_valid = IF Awaits1(op, tag) THEN VALID ELSE op.rs1_valid
  /\ op.inst_type \in TwoSource =>
       /\ o.rs2_value = IF Awaits2(op, tag) THEN value ELSE op.rs2_value
       /\ o.rs2_valid = IF Awaits2(op, tag) THEN VALID ELSE op.rs2_valid

LEMMA TakeHears ==
  ASSUME NEW op, Asking(op), NEW tag, NEW value
  PROVE  Hears(TakeValue(op, tag, value), op, tag, value)
<1>1. ~AwaitsData(op, tag)
  BY DEF Asking, MissingTypes, AwaitsData
<1> QED BY <1>1 DEF TakeValue, Hears, Asking, HasInst, OperandFields

LEMMA ForwardHears ==
  ASSUME NEW d, "op" \in DOMAIN d, Asking(d.op), NEW tag, NEW value
  PROVE  Hears(ForwardToDecode(d, tag, value, VALID).op, d.op, tag, value)
  BY DEF ForwardToDecode, Hears, Asking, HasInst, OperandFields, Sourced1

\* A broadcast reaches every entry of the issue queue.
LEMMA QueueHears ==
  ASSUME NEW q, IqShape(q), NEW tag, NEW value, NEW i \in IqIndex
  PROVE  LET new == update_issue_queue_entry(q, tag, value)[i]
         IN  /\ new.status = q[i].status
             /\ new.op = IF q[i].status = INVALID THEN q[i].op ELSE TakeValue(q[i].op, tag, value)
  BY DEF update_issue_queue_entry, IqShape

\* Nothing in the load/store queue is a store that waits for its data.
LEMMA LsqAsks ==
  ASSUME NEW l, LsqShape(l), NEW k \in LsqIndex, Asking(l[k].op)
  PROVE  /\ \A tag, value : Asking(update_ls_queue_entry_reg(l, tag, value)[k].op)
         /\ \A op : Asking(update_ls_queue_entry_mem_address(l, op)[k].op)
<1>1. \A tag, value : update_ls_queue_entry_reg(l, tag, value)[k] = l[k]
  BY DEF update_ls_queue_entry_reg, AwaitsData, Asking, MissingTypes
<1>2. ASSUME NEW op PROVE Asking(update_ls_queue_entry_mem_address(l, op)[k].op)
  <2>1. \/ update_ls_queue_entry_mem_address(l, op)[k].op = l[k].op
        \/ update_ls_queue_entry_mem_address(l, op)[k].op = [l[k].op EXCEPT !.mem_address = op.mem_address]
    BY DEF update_ls_queue_entry_mem_address, LsqShape
  <2> QED BY <2>1 DEF Asking, HasInst, OperandFields
<1> QED BY <1>1, <1>2

LEMMA SourceTypes ==
  /\ TwoSource \subseteq Sourced1
  /\ Sourced1 \cap {0, HALT, NOP, MOVC} = {}
  BY DEF TwoSource, Sourced1, OneSource, HALT, NOP, STORE, LOAD, MOV, ADDL, SUBL, JUMP, STR, LDR, ADD, SUB,
         MUL, DIV, AND, OR, EXOR, MOVC

LEMMA FedSame ==
  ASSUME NEW e, NEW op, Fed(e, op), NEW o, SameOperands(o, op) PROVE Fed(e, o)
  BY DEF Fed, SameOperands

\* Whoever has not heard of the tag that is gone asks for another.
LEMMA FedHears ==
  ASSUME NEW e, NEW op, Fed(e, op), NEW o, NEW tag, NEW value, Hears(o, op, tag, value),
         NEW f, \A t : InBuffer(e, t) /\ t # tag => InBuffer(f, t)
  PROVE  Fed(f, o)
  BY SourceTypes, NotWork DEF Fed, Hears, Awaits1, Awaits2

LEMMA FedMore ==
  ASSUME NEW e, NEW op, Fed(e, op), NEW f, \A t : InBuffer(e, t) => InBuffer(f, t)
  PROVE  Fed(f, op)
  BY DEF Fed

LEMMA FedNothing == ASSUME NEW e, NEW op, op.inst_type \notin Sourced1 PROVE Fed(e, op)
  BY SourceTypes DEF Fed
-----------------------------------------------------------------------------
(***************************************************************************)
(* Nobody is left waiting, whichever handler runs.                         *)
(***************************************************************************)
\* The units change nothing but their latches and what is behind them.
LEMMA UnitsQuiet ==
  ASSUME WorkInv, IntOne \/ IntTwo \/ MulOne \/ MulThree \/ Branch \/ Mem \/ PushUnits
  PROVE  /\ UNCHANGED <<drf, fetch_stage, pc, rename, rob, iq, lsq, regs, code, ret, retired, golden>>
         /\ {step, step'} \cap {"push_front", "decode"} = {}
<1>1. ~Redirects(stage["BRANCH"])
  BY DEF WorkInv, OrderInv, BranchUnitIdle, Redirects, BZ, BNZ, JUMP
<1>2. UNCHANGED <<drf, fetch_stage, pc, rename, rob, iq, lsq, regs, code, ret, retired, golden>>
  BY <1>1 DEF IntOne, IntTwo, MulOne, MulThree, Branch, Mem, PushUnits, execKeeps, frontVars, archVars,
              queueVars, histVars
<1> QED BY <1>2 DEF IntOne, IntTwo, MulOne, MulThree, Branch, Mem, PushUnits, Turn

LEMMA UnitsFedStep ==
  ASSUME WorkInv, FedInv, IntOne \/ IntTwo \/ MulOne \/ MulThree \/ Branch \/ Mem \/ PushUnits
  PROVE  FedInv'
<1>1. UNCHANGED <<drf, fetch_stage, rob, iq, lsq>> /\ {step, step'} \cap {"push_front", "decode"} = {}
  BY UnitsQuiet
<1>2. IsDecoded' /\ IsDecoded
  BY <1>1 DEF IsDecoded
<1> QED BY <1>1, <1>2 DEF FedInv

LEMMA NoOpAsks == /\ Asking(NoOp) /\ NoOp.inst_type = 0 /\ Unread(NoOp)
                  /\ \A e : Fed(e, NoOp)
<1>1. Asking(NoOp) /\ NoOp.inst_type = 0
  BY DEF Asking, HasInst, OperandFields, NoOp, MissingTypes, Stores, STORE, STR, DIV, EXOR, JUMP
<1>2. 0 \notin Sourced1 /\ 0 \notin TwoSource
  BY SourceTypes
<1> QED BY <1>1, <1>2 DEF Fed, Unread

LEMMA IssueFedStep == ASSUME WorkInv, FedInv, Issue PROVE FedInv'
<1>1. UNCHANGED <<drf, fetch_stage, rob>> /\ IsDecoded' /\ IsDecoded
  BY DEF Issue, Turn, frontVars, IsDecoded
<1>2. /\ \A i \in IqIndex : iq'[i].op = NoOp \/ iq'[i].op = iq[i].op
      /\ \A k \in LsqIndex : lsq'[k].op = NoOp \/ lsq'[k].op = lsq[k].op
  BY IssueSteps, LeaveShapes DEF WorkInv, PlacesInv
<1> QED BY <1>1, <1>2, NoOpAsks DEF FedInv

\* What a commit does.
CommitIdles ==
  /\ UNCHANGED <<regs, rename, drf, iq, lsq, ret, retired, golden>>
  /\ rob'.rob_entry = rob.rob_entry

Removes(c) ==
  LET e == rob.rob_entry IN
  /\ c \in RobIndex /\ e[c].status = VALID /\ e[c].valid = VALID
  /\ \A i \in RobIndex : rob'.rob_entry[i] = IF i = c THEN FreeRobEntry ELSE e[i]
  /\ retired' = e[c].inst_ptr
  /\ golden' = IF golden.halted THEN golden ELSE Arch!Execute(code, golden)

CommitsOther(c) ==
  /\ Removes(c) /\ rob.rob_entry[c].inst_type \in Stores \cup {JUMP, HALT}
  /\ ret' = IF rob.rob_entry[c].inst_type = HALT THEN HALT ELSE ret
  /\ UNCHANGED <<regs, rename, drf, iq, lsq>>

CommitsWriter(c) ==
  LET e == rob.rob_entry[c] IN
  /\ Removes(c) /\ c \in Writing(rob.rob_entry)
  /\ \A i \in Writing(rob.rob_entry) : i = c \/ e.inst_ptr < rob.rob_entry[i].inst_ptr
  /\ Tagged(rename, e.rd) /\ rename' = ReleaseTag(rename, e.rd)
  /\ rename.reg_rename[e.rd].rename_tag \in Regs
  /\ regs' = [regs EXCEPT ![rename.reg_rename[e.rd].rename_tag] = e.rd_value]
  /\ drf' = ForwardToDecode(drf, e.rd, e.rd_value, VALID)
  /\ iq' = update_issue_queue_entry(iq, e.rd, e.rd_value)
  /\ lsq' = update_ls_queue_entry_reg(lsq, e.rd, e.rd_value)
  /\ ret' = ret

LEMMA CommitDoes ==
  ASSUME WorkInv, TagInv, Commit
  PROVE  /\ step = "commit" /\ step' = "issue" /\ ret = 0
         /\ UNCHANGED <<fetch_stage, pc, stage, mem_stage, code>>
         /\ CommitIdles \/ \E c : CommitsOther(c) \/ CommitsWriter(c)
<1> DEFINE e == rob.rob_entry
           f == rob'.rob_entry
           c == Slot(rob.commit_ptr)
           d == e[c].rd
           reg == rename.reg_rename[d].rename_tag
<1>1. /\ RobInv(rob) /\ RobOrder(rob, retired, drf.op.pc) /\ c \in RobIndex /\ EntriesDiffer(e)
      /\ e[c].valid \in Flag
  BY SlotIsIndex DEF WorkInv, OrderInv, PlacesInv, TrackInv, RobInv, RobShape, EntryShape
<1>2. /\ step = "commit" /\ step' = "issue" /\ ret = 0 /\ UNCHANGED <<stage, mem_stage>>
  BY DEF Commit, Turn, backVars
<1>3. CASE CommitNothing
  <2>1. f = e
    BY <1>1, <1>3 DEF CommitNothing, commit_reorder_buffer_entry, Head0, RobInv, RobShape
  <2>2. UNCHANGED <<drf, fetch_stage, pc, code, ret, retired, golden, rename, regs, iq, lsq>>
    BY <1>3 DEF CommitNothing, frontVars, archVars, histVars
  <2> QED BY <1>2, <2>1, <2>2 DEF CommitIdles
<1>4. CASE CommitHalt \/ CommitStoreOrJump \/ CommitBranch \/ CommitResult
  <2>1. Head0.valid # INVALID /\ Head0 = e[c] /\ Retire
    BY <1>4 DEF CommitHalt, CommitStoreOrJump, CommitBranch, CommitResult, Retire, Head0, RobHead
  <2>2. Head0.inst_type \notin Branches /\ e[c].status = VALID
    BY <1>1, <2>1, CommitRobOrder DEF RobInv, IsWindow, Head0
  <2>3. /\ CommitHalt \/ CommitStoreOrJump \/ CommitResult
        /\ rob' = commit_reorder_buffer_entry(rob) /\ UNCHANGED <<fetch_stage, pc, code>>
    BY <1>4, <2>2 DEF CommitHalt, CommitStoreOrJump, CommitBranch, CommitResult, frontVars
  <2>4. Removes(c)
    <3>1. f = [e EXCEPT ![c] = FreeRobEntry]
      BY <1>1, <2>1, <2>3, CommitFields DEF Head0
    <3>2. e[c].valid = VALID
      BY <1>1, <2>1 DEF Flag
    <3> QED BY <1>1, <2>1, <2>2, <3>1, <3>2 DEF RobInv, RobShape, Retire, Removes
  <2>5. CASE CommitHalt \/ CommitStoreOrJump
    <3>1. e[c].inst_type \in Stores \cup {JUMP, HALT}
      BY <2>1, <2>5 DEF CommitHalt, CommitStoreOrJump
    <3>2. /\ ret' = IF e[c].inst_type = HALT THEN HALT ELSE ret
          /\ UNCHANGED <<regs, rename, drf, iq, lsq>>
      BY <2>1, <2>5 DEF CommitHalt, CommitStoreOrJump, archVars, Stores, HALT, JUMP, STORE, STR
    <3> QED BY <1>2, <2>3, <2>4, <3>1, <3>2 DEF CommitsOther
  <2>6. CASE CommitResult
    <3>1. c \in Writing(e)
      BY <1>1, <2>1, <2>2, <2>6 DEF CommitResult, Writing
    <3>2. Tagged(rename, d) /\ d \in TagIndex /\ reg \in Regs
      BY <3>1 DEF TagInv, TagsRecent, Tagged
    <3>3. /\ rename' = ReleaseTag(rename, d)
          /\ regs' = [regs EXCEPT ![reg] = e[c].rd_value]
      <4>1. get_phy_reg_renamed_tag(rename, d) = reg
        BY <3>2 DEF get_phy_reg_renamed_tag, Tagged
      <4>2. ~ (get_phy_reg_renamed_tag(rename, d) < 0)
        BY <3>2, <4>1, PipelineAssumption DEF Regs
      <4> QED BY <2>1, <2>6, <4>1, <4>2 DEF CommitResult
    <3>4. \A i \in Writing(e) : i = c \/ e[c].inst_ptr < e[i].inst_ptr
      BY <1>1, <2>1, <3>1, HeadOldest DEF Head0
    <3>5. /\ iq' = update_issue_queue_entry(iq, d, e[c].rd_value)
          /\ lsq' = update_ls_queue_entry_reg(lsq, d, e[c].rd_value)
          /\ drf' = ForwardToDecode(drf, d, e[c].rd_value, VALID) /\ ret' = ret
      BY <2>1, <2>4, <2>6 DEF CommitResult, Removes
    <3> QED BY <1>2, <2>3, <2>4, <3>1, <3>2, <3>3, <3>4, <3>5 DEF CommitsWriter
  <2> QED BY <2>3, <2>5, <2>6
<1> QED BY <1>3, <1>4 DEF Commit

LEMMA CommitFedStep == ASSUME WorkInv, TagInv, FedInv, Commit PROVE FedInv'
<1> DEFINE e == rob.rob_entry
           f == rob'.rob_entry
<1>1. /\ UNCHANGED fetch_stage /\ IsDecoded' /\ IsDecoded
      /\ CommitIdles \/ \E c : CommitsOther(c) \/ CommitsWriter(c)
  BY CommitDoes DEF IsDecoded
<1>2. "op" \in DOMAIN drf /\ Asking(drf.op) /\ IqShape(iq) /\ LsqShape(lsq)
  BY DEF FedInv, WorkInv, PlacesInv, FrontOnce, FrontShape
<1>3. CASE CommitIdles
  BY <1>1, <1>3 DEF CommitIdles, FedInv
<1>4. ASSUME NEW c, CommitsOther(c) PROVE FedInv'
  <2>1. \A t : InBuffer(e, t) => InBuffer(f, t)
    <3>1. c \notin Writing(e)
      BY <1>4, WriterTypes DEF CommitsOther, Writing
    <3> QED BY <1>4, <3>1 DEF CommitsOther, Removes, InBuffer, Writing
  <2> QED BY <1>1, <1>4, <2>1, FedMore DEF CommitsOther, FedInv
<1>5. ASSUME NEW c, CommitsWriter(c) PROVE FedInv'
  <2> DEFINE tag == e[c].rd
             v == e[c].rd_value
  <2>1. \A t : InBuffer(e, t) /\ t # tag => InBuffer(f, t)
    BY <1>5 DEF CommitsWriter, Removes, InBuffer, Writing
  <2>2. Hears(drf'.op, drf.op, tag, v)
    BY <1>2, <1>5, ForwardHears DEF CommitsWriter
  <2>3. ASSUME NEW i \in IqIndex PROVE Asking(iq'[i].op) /\ Fed(f, iq'[i].op)
    <3>1. CASE iq[i].status = INVALID
      <4>1. iq'[i].op = iq[i].op /\ iq[i].op.inst_type = 0
        BY <1>2, <1>5, <3>1, QueueHears, NotWork DEF CommitsWriter, IqShape
      <4> QED BY <4>1, FedNothing, SourceTypes DEF FedInv
    <3>2. CASE iq[i].status # INVALID
      <4>1. Hears(iq'[i].op, iq[i].op, tag, v)
        BY <1>2, <1>5, <3>2, QueueHears, TakeHears DEF CommitsWriter, FedInv
      <4>2. Asking(iq'[i].op) /\ Fed(e, iq[i].op)
        BY <4>1 DEF FedInv, Hears
      <4> HIDE DEF e, f, tag, v
      <4> QED BY <2>1, <4>1, <4>2, FedHears
    <3> QED BY <3>1, <3>2
  <2>4. Asking(drf'.op) /\ Fed(f, drf'.op)
    <3>1. Asking(drf'.op)
      BY <2>2 DEF Hears
    <3>2. Fed(e, drf.op)
      BY <1>1 DEF FedInv
    <3> HIDE DEF e, f, tag, v
    <3>3. Fed(f, drf'.op)
      BY <2>1, <2>2, <3>2, FedHears
    <3> QED BY <3>1, <3>3
  <2>5. ASSUME NEW k \in LsqIndex PROVE Asking(lsq'[k].op)
    BY <1>2, <1>5, LsqAsks DEF CommitsWriter, FedInv
  <2> QED BY <1>1, <2>3, <2>4, <2>5 DEF FedInv
<1> QED BY <1>1, <1>3, <1>4, <1>5
\* What writeback does with one unit; nothing ever is in the branch unit.
UnitReady(u) ==
  \/ Empty(u) \/ stage[u].rd_valid = VALID
  \/ u = "INT_TWO" /\ stage[u].inst_type \in MemOps
  \/ u = "MEM" /\ mem_stage.executed = INVALID

Broadcasts(u) ==
  ~Empty(u) /\ ~ (u = "MEM" /\ mem_stage.executed = INVALID)
  /\ ~ (u = "INT_TWO" /\ stage[u].inst_type \in MemOps)

WriteShape(w) == {"rob", "iq", "lsq", "drf"} \subseteq DOMAIN w

LEMMA WriteUnitCases ==
  ASSUME NEW w, WriteShape(w), NEW u \in {"INT_TWO", "MUL_THREE", "MEM"}, UnitReady(u)
  PROVE  /\ WriteShape(WriteUnit(w, u))
         /\ ~Broadcasts(u) =>
              /\ WriteUnit(w, u).rob = w.rob /\ WriteUnit(w, u).iq = w.iq
              /\ WriteUnit(w, u).drf = w.drf
              /\ \/ WriteUnit(w, u).lsq = w.lsq
                 \/ WriteUnit(w, u).lsq = update_ls_queue_entry_mem_address(w.lsq, stage[u])
         /\ Broadcasts(u) =>
              /\ stage[u].rd_valid = VALID
              /\ WriteUnit(w, u).rob = update_reorder_buffer_entry_data(w.rob, stage[u])
              /\ WriteUnit(w, u).iq = update_issue_queue_entry(w.iq, stage[u].rd, stage[u].rd_value)
              /\ WriteUnit(w, u).lsq = update_ls_queue_entry_reg(w.lsq, stage[u].rd, stage[u].rd_value)
              /\ WriteUnit(w, u).drf = ForwardToDecode(w.drf, stage[u].rd, stage[u].rd_value, VALID)
<1> DEFINE op   == stage[u]
           busy == u = "MEM" /\ mem_stage.executed = INVALID
           addr == u = "INT_TWO" /\ op.inst_type \in MemOps
           n    == WriteUnit(w, u)
<1>1. CASE busy \/ Empty(u)
  <2>1. n = w
    BY <1>1, WriteUnitIdle
  <2> QED BY <1>1, <2>1 DEF Broadcasts
<1>2. CASE ~busy /\ ~Empty(u) /\ addr
  <2>1. n = [w EXCEPT !.lsq = update_ls_queue_entry_mem_address(w.lsq, op)]
    BY <1>2, WriteUnitAddress
  <2> HIDE DEF n
  <2>2. n.rob = w.rob /\ n.iq = w.iq /\ n.drf = w.drf /\ WriteShape(n)
        /\ n.lsq = update_ls_queue_entry_mem_address(w.lsq, op)
    BY <2>1 DEF WriteShape
  <2> QED BY <1>2, <2>2 DEF Broadcasts, n
<1>3. CASE ~busy /\ ~Empty(u) /\ ~addr
  <2> DEFINE buffer == update_reorder_buffer_entry_data(w.rob, op)
             queue  == update_issue_queue_entry(w.iq, op.rd, op.rd_value)
             memory == update_ls_queue_entry_reg(w.lsq, op.rd, op.rd_value)
             decode == ForwardToDecode(w.drf, op.rd, op.rd_value, op.rd_valid)
             finished == [w EXCEPT !.rob = buffer]
  <2>1. op.rd_valid = VALID /\ Broadcasts(u)
    BY <1>3 DEF UnitReady, Broadcasts
  <2>2. n = [finished EXCEPT !.iq = queue, !.lsq = memory, !.drf = decode]
    <3>1. u # "BRANCH"
      OBVIOUS
    <3> QED BY <1>3, <3>1, WriteUnitResult
  <2> HIDE DEF n, buffer, queue, memory, decode
  <2>3. n.rob = buffer /\ n.iq = queue /\ n.lsq = memory /\ n.drf = decode /\ WriteShape(n)
    BY <2>2 DEF WriteShape
  <2>4. decode = ForwardToDecode(w.drf, op.rd, op.rd_value, VALID)
    BY <2>1 DEF decode
  <2> HIDE DEF op
  <2> QED BY <2>1, <2>3, <2>4 DEF n, buffer, queue, memory, op
<1> QED BY <1>1, <1>2, <1>3

\* Whatever survives every unit survives writeback.
LEMMA UnitsReady ==
  ASSUME WorkInv, Writeback
  PROVE  /\ \A u \in {"INT_TWO", "MUL_THREE", "MEM"} : UnitReady(u)
         /\ \A w : WriteUnit(w, "BRANCH") = w
<1>1. step = "writeback" /\ mem_stage.executed \in Flag /\ stage["BRANCH"].inst_type = 0
  BY DEF Writeback, Turn, WorkInv, PlacesInv, MemoryFlag, OrderInv, BranchUnitIdle
<1>2. \A u \in {"INT_TWO", "MUL_THREE", "MEM"} : UnitReady(u)
  BY <1>1 DEF WorkInv, PlacesInv, ResultsReady, UnitReady, Flag, Empty
<1>3. \A w : WriteUnit(w, "BRANCH") = w
  BY <1>1, WriteUnitIdle DEF Empty
<1> QED BY <1>2, <1>3

\* Writeback: no entry leaves, and everybody hears.
HeardInv(e, w) ==
  /\ WriteShape(w) /\ IqShape(w.iq) /\ LsqShape(w.lsq) /\ "op" \in DOMAIN w.drf
  /\ Asking(w.drf.op) /\ Fed(e, w.drf.op)
  /\ \A i \in IqIndex : Asking(w.iq[i].op) /\ Fed(e, w.iq[i].op)
  /\ \A k \in LsqIndex : Asking(w.lsq[k].op)

LEMMA WriteUnitHeard ==
  ASSUME NEW e, NEW w, HeardInv(e, w), NEW u \in {"INT_TWO", "MUL_THREE", "MEM"}, UnitReady(u)
  PROVE  HeardInv(e, WriteUnit(w, u))
<1> DEFINE n   == WriteUnit(w, u)
           tag == stage[u].rd
           v   == stage[u].rd_value
<1>1. WriteShape(n)
  BY WriteUnitCases DEF HeardInv
<1>2. CASE ~Broadcasts(u)
  <2>1. n.iq = w.iq /\ n.drf = w.drf
        /\ \/ n.lsq = w.lsq
           \/ n.lsq = update_ls_queue_entry_mem_address(w.lsq, stage[u])
    BY <1>2, WriteUnitCases DEF HeardInv
  <2> HIDE DEF n
  <2>2. LsqShape(n.lsq) /\ \A k \in LsqIndex : Asking(n.lsq[k].op)
    BY <2>1, AddressLsq, LsqAsks DEF HeardInv
  <2> QED BY <1>1, <2>1, <2>2 DEF HeardInv, n
<1>3. CASE Broadcasts(u)
  <2>1. /\ n.iq = update_issue_queue_entry(w.iq, tag, v)
        /\ n.lsq = update_ls_queue_entry_reg(w.lsq, tag, v)
        /\ n.drf = ForwardToDecode(w.drf, tag, v, VALID)
    BY <1>3, WriteUnitCases DEF HeardInv
  <2> HIDE DEF n, tag, v
  <2>2. IqShape(n.iq) /\ LsqShape(n.lsq) /\ \A k \in LsqIndex : Asking(n.lsq[k].op)
    BY <2>1, BroadcastIq, BroadcastLsq, LsqAsks DEF HeardInv
  <2>3. "op" \in DOMAIN n.drf /\ Asking(n.drf.op) /\ Fed(e, n.drf.op)
    <3>1. "op" \in DOMAIN n.drf
      BY <2>1 DEF HeardInv, ForwardToDecode
    <3>2. Hears(n.drf.op, w.drf.op, tag, v)
      BY <2>1, ForwardHears DEF HeardInv
    <3>3. Asking(n.drf.op)
      BY <3>2 DEF Hears
    <3>4. Fed(e, n.drf.op)
      BY <3>2, FedHears DEF HeardInv
    <3> QED BY <3>1, <3>3, <3>4
  <2>4. ASSUME NEW i \in IqIndex PROVE Asking(n.iq[i].op) /\ Fed(e, n.iq[i].op)
    <3>1. CASE w.iq[i].status = INVALID
      BY <2>1, <3>1, QueueHears DEF HeardInv
    <3>2. CASE w.iq[i].status # INVALID
      <4>1. Hears(n.iq[i].op, w.iq[i].op, tag, v)
        BY <2>1, <3>2, QueueHears, TakeHears DEF HeardInv
      <4>2. Asking(n.iq[i].op)
        BY <4>1 DEF Hears
      <4>3. Fed(e, n.iq[i].op)
        BY <4>1, FedHears DEF HeardInv
      <4> QED BY <4>2, <4>3
    <3> QED BY <3>1, <3>2
  <2> QED BY <1>1, <2>2, <2>3, <2>4 DEF HeardInv, n
<1> QED BY <1>2, <1>3

LEMMA WritebackFedStep == ASSUME WorkInv, FedInv, Writeback PROVE FedInv'
<1> DEFINE e      == rob.rob_entry
           start  == [rob |-> rob, iq |-> iq, lsq |-> lsq, drf |-> drf]
           int    == WriteUnit(start, "INT_TWO")
           mul    == WriteUnit(int, "MUL_THREE")
           branch == WriteUnit(mul, "BRANCH")
           w      == WriteUnit(branch, "MEM")
<1>1. step = "writeback" /\ UNCHANGED fetch_stage /\ IsDecoded /\ IsDecoded'
  BY DEF Writeback, Turn, frontVars, IsDecoded
<1>2. rob' = w.rob /\ iq' = w.iq /\ lsq' = w.lsq /\ drf' = w.drf
  BY DEF Writeback
<1>3. HeardInv(e, start)
  BY <1>1 DEF WorkInv, PlacesInv, FrontOnce, FrontShape, FedInv, HeardInv, WriteShape
<1> HIDE DEF start, e
<1>4. HeardInv(e, int)
  BY <1>3, UnitsReady, WriteUnitHeard
<1> HIDE DEF int
<1>5. HeardInv(e, mul)
  BY <1>4, UnitsReady, WriteUnitHeard
<1> HIDE DEF mul
<1>6. HeardInv(e, w)
  BY <1>5, UnitsReady, WriteUnitHeard
<1> HIDE DEF w
<1>7. \A t : InBuffer(e, t) => InBuffer(rob'.rob_entry, t)
  BY WritebackWorkStep, WritingIsIndex DEF SameEntries, InBuffer, Writing, e
<1>8. Asking(drf'.op) /\ Fed(rob'.rob_entry, drf'.op)
  BY <1>2, <1>6, <1>7, FedMore DEF HeardInv
<1>9. \A i \in IqIndex : Asking(iq'[i].op) /\ Fed(rob'.rob_entry, iq'[i].op)
  BY <1>2, <1>6, <1>7, FedMore DEF HeardInv
<1> QED BY <1>1, <1>2, <1>6, <1>8, <1>9 DEF FedInv, HeardInv

LEMMA DispatchFedStep == ASSUME WorkInv, FedInv, Dispatch PROVE FedInv'
<1> DEFINE e == rob.rob_entry
           f == rob'.rob_entry
           s == Slot(rob.issue_ptr)
<1>1. /\ step = "dispatch" /\ step' = "push_front" /\ IsDecoded /\ IsDecoded'
      /\ RobInv(rob) /\ IqShape(iq) /\ LsqShape(lsq)
      /\ {"op", "stalled", "executed"} \subseteq DOMAIN drf /\ HasInst(drf.op)
      /\ {"op", "stalled"} \subseteq DOMAIN fetch_stage
  BY DEF Dispatch, Turn, IsDecoded, WorkInv, OrderInv, FrontOnce, FrontShape, PlacesInv
<1>2. \A t : InBuffer(e, t) => InBuffer(f, t)
  <2>1. CASE Adds
    <3>1. s \in RobIndex /\ e[s].status # VALID /\ f = [e EXCEPT ![s] = NewRobEntry(drf.op)]
      BY <1>1, <2>1, AddFields, NotWork DEF Adds, can_add_entry_in_reorder_buffer
    <3>2. \A i \in RobIndex : i # s => f[i] = e[i]
      BY <1>1, <3>1 DEF RobInv, RobShape
    <3> QED BY <3>1, <3>2 DEF InBuffer, Writing
  <2>2. CASE ~Adds
    BY <1>1, <2>2, DispatchCases
  <2> QED BY <2>1, <2>2
<1>3. drf'.op = drf.op /\ fetch_stage'.op = fetch_stage.op
  <2>1. Stalls \/ UNCHANGED <<drf, fetch_stage>>
    BY <1>1, DispatchCases
  <2> QED BY <1>1, <2>1 DEF Stalls, StallFront
<1>4. Asking(drf.op) /\ Fed(e, drf.op) /\ HasInst(drf.op)
  BY <1>1 DEF FedInv
<1>5. ASSUME NEW i \in IqIndex PROVE iq'[i].op = iq[i].op \/ SameOperands(iq'[i].op, drf.op)
  <2>1. CASE UNCHANGED iq
    BY <2>1
  <2>2. ASSUME NEW k, HasFree(iq), iq' = add_issue_queue_entry(iq, drf.op, k)
        PROVE  iq'[i].op = iq[i].op \/ SameOperands(iq'[i].op, drf.op)
    <3> DEFINE o == [drf.op EXCEPT !.lsq_index = k]
    <3>1. iq'[i] = IF i = FirstFree(iq) THEN [status |-> VALID, stage_cycle |-> 0, op |-> o] ELSE iq[i]
      BY <1>1, <2>2 DEF add_issue_queue_entry, IqShape
    <3>2. SameOperands(o, drf.op)
      BY <1>4 DEF SameOperands, Asking, HasInst, OperandFields
    <3> HIDE DEF o
    <3> QED BY <3>1, <3>2
  <2> QED BY <1>1, <2>1, <2>2, DispatchCases
<1>6. ASSUME NEW k \in LsqIndex PROVE Asking(lsq'[k].op)
  <2>1. CASE UNCHANGED lsq
    BY <2>1 DEF FedInv
  <2>2. CASE lsq' = add_ls_queue_entry(lsq, drf.op)
    <3> DEFINE o == [drf.op EXCEPT !.rd_valid = IF drf.op.inst_type \in Stores THEN @ ELSE INVALID]
    <3>1. lsq'[k] = IF k = FirstFree(lsq)
                    THEN [status |-> VALID, stage_cycle |-> 0, mem_valid |-> INVALID, op |-> o]
                    ELSE lsq[k]
      BY <1>1, <2>2 DEF add_ls_queue_entry, LsqShape
    <3>2. Asking(o)
      BY <1>4 DEF Asking, HasInst, OperandFields
    <3> HIDE DEF o
    <3> QED BY <3>1, <3>2 DEF FedInv
  <2> QED BY <1>1, <2>1, <2>2, DispatchCases
<1>7. \A i \in IqIndex : Asking(iq[i].op) /\ Fed(e, iq[i].op)
  BY DEF FedInv
<1> HIDE DEF e, f
<1>8. ASSUME NEW i \in IqIndex PROVE Asking(iq'[i].op) /\ Fed(f, iq'[i].op)
  <2>1. Fed(f, iq[i].op) /\ Fed(f, drf.op)
    BY <1>2, <1>4, <1>7, FedMore
  <2>2. CASE iq'[i].op = iq[i].op
    BY <1>7, <2>1, <2>2
  <2>3. CASE SameOperands(iq'[i].op, drf.op)
    BY <2>1, <2>3, FedSame DEF SameOperands
  <2> QED BY <1>5, <2>2, <2>3
<1>9. Fed(f, drf'.op)
  BY <1>2, <1>3, <1>4, FedMore
<1> QED BY <1>1, <1>3, <1>6, <1>8, <1>9 DEF FedInv, f
-----------------------------------------------------------------------------
(***************************************************************************)
(* Decode finds the tag of a register or its value.                        *)
(***************************************************************************)
\* The scan from the last tag down ends at the highest that names the register.
LEMMA HighestTag ==
  ASSUME NEW rt, NEW reg, check_if_reg_renamed(rt, reg)
  PROVE  /\ get_reg_renamed_tag(rt, reg) \in TagIndex
         /\ Renames(rt, get_reg_renamed_tag(rt, reg), reg)
         /\ \A i \in TagIndex : Renames(rt, i, reg) => i <= get_reg_renamed_tag(rt, reg)
<1> DEFINE F == {RENAME_TABLE_SIZE - i : i \in {j \in TagIndex : Renames(rt, j, reg)}}
           Last(i) == Renames(rt, i, reg) /\ \A j \in i + 1 .. RENAME_TABLE_SIZE - 1 : ~Renames(rt, j, reg)
<1>1. F \subseteq Nat /\ F # {}
  BY RenameSizeAssumption DEF check_if_reg_renamed, TagIndex
<1>2. PICK n \in F : \A m \in F : ~ (<<m, n>> \in OpToRel(<, Nat))
  BY <1>1, NatLessThanWellFounded, WFMin
<1>3. PICK t \in TagIndex : Renames(rt, t, reg) /\ n = RENAME_TABLE_SIZE - t
  BY <1>2
<1>4. \A i \in TagIndex : Renames(rt, i, reg) => i <= t
  <2> SUFFICES ASSUME NEW i \in TagIndex, Renames(rt, i, reg) PROVE i <= t
    OBVIOUS
  <2>1. RENAME_TABLE_SIZE - i \in F
    OBVIOUS
  <2>2. ~ (RENAME_TABLE_SIZE - i < n)
    BY <1>1, <1>2, <2>1 DEF OpToRel
  <2> QED BY <1>3, <2>2, RenameSizeAssumption DEF TagIndex
<1>5. Last(t)
  BY <1>3, <1>4 DEF TagIndex
<1>6. \A i \in TagIndex : Last(i) => i = t
  <2> SUFFICES ASSUME NEW i \in TagIndex, Last(i) PROVE i = t
    OBVIOUS
  <2>1. i <= t
    BY <1>4
  <2>2. t \notin i + 1 .. RENAME_TABLE_SIZE - 1
    BY <1>3
  <2> QED BY <2>1, <2>2 DEF TagIndex
<1>7. get_reg_renamed_tag(rt, reg) = CHOOSE i \in TagIndex : Last(i)
  BY DEF get_reg_renamed_tag
<1> HIDE DEF Last
<1>8. get_reg_renamed_tag(rt, reg) = t
  BY <1>5, <1>6, <1>7
<1> QED BY <1>3, <1>4, <1>8

LEMMA ReadFields ==
  ASSUME NEW op, HasInst(op), OperandFields \subseteq DOMAIN op
  PROVE  /\ SameFront(Read1(op), op) /\ OperandFields \subseteq DOMAIN Read1(op)
         /\ Read1(op).rs2 = op.rs2 /\ Read1(op).rs2_valid = op.rs2_valid
         /\ Read1(op).rs2_value = op.rs2_value
         /\ Read1(op).rd_value = op.rd_value /\ Read1(op).buffer = op.buffer
         /\ \A test :
              /\ SameFront(Read2(op, test), op) /\ OperandFields \subseteq DOMAIN Read2(op, test)
              /\ Read2(op, test).rs1 = op.rs1 /\ Read2(op, test).rs1_valid = op.rs1_valid
              /\ Read2(op, test).rs1_value = op.rs1_value
              /\ Read2(op, test).rd_value = op.rd_value /\ Read2(op, test).buffer = op.buffer
  BY DEF Read1, Read2, SameFront, HasInst, OperandFields

\* A tag is in the buffer; without one nobody in flight writes the register.
LEMMA RegisterRead ==
  ASSUME TagInv, CountInv, ~Renamed, NEW reg \in Regs
  PROVE  IF check_if_reg_renamed(rename, reg)
         THEN InBuffer(rob.rob_entry, get_reg_renamed_tag(rename, reg))
         ELSE regs_invalid[reg] = 0 /\ ~ \E i \in Writing(rob.rob_entry) : Names(i, reg)
<1>1. CASE check_if_reg_renamed(rename, reg)
  <2>1. Tagged(rename, get_reg_renamed_tag(rename, reg)) /\ get_reg_renamed_tag(rename, reg) \in TagIndex
    BY <1>1, HighestTag DEF Renames, Tagged
  <2> QED BY <1>1, <2>1 DEF TagInv
<1>2. CASE ~check_if_reg_renamed(rename, reg)
  <2>1. \A i \in Writing(rob.rob_entry) : ~Names(i, reg)
    BY <1>2 DEF TagInv, TagsRecent, Tagged, Names, check_if_reg_renamed, Renames
  <2>2. Counted(reg) = {}
    BY <2>1 DEF Counted
  <2>3. regs_invalid[reg] = 0
    BY <2>2, FS_EmptySet DEF CountInv
  <2> QED BY <1>2, <2>1, <2>3
<1> QED BY <1>1, <1>2

LEMMA ReadFed ==
  ASSUME TagInv, CountInv, ~Renamed, NEW op, HasInst(op), OperandFields \subseteq DOMAIN op
  PROVE  /\ op.rs1 \in Regs /\ Read1(op).rs1_valid = INVALID =>
              InBuffer(rob.rob_entry, Read1(op).rs1)
         /\ op.rs2 \in Regs /\ Read2(op, op.rs2).rs2_valid = INVALID =>
              InBuffer(rob.rob_entry, Read2(op, op.rs2).rs2)
<1>1. ASSUME op.rs1 \in Regs, Read1(op).rs1_valid = INVALID PROVE InBuffer(rob.rob_entry, Read1(op).rs1)
  <2>1. CASE check_if_reg_renamed(rename, op.rs1)
    <3>1. Read1(op).rs1 = get_reg_renamed_tag(rename, op.rs1)
      BY <2>1 DEF Read1, OperandFields
    <3> QED BY <1>1, <2>1, <3>1, RegisterRead
  <2>2. CASE ~check_if_reg_renamed(rename, op.rs1)
    <3>1. Read1(op).rs1_valid = VALID
      BY <1>1, <2>2, RegisterRead DEF Read1, OperandFields
    <3> QED BY <1>1, <3>1, NotWork
  <2> QED BY <2>1, <2>2
<1>2. ASSUME op.rs2 \in Regs, Read2(op, op.rs2).rs2_valid = INVALID
      PROVE  InBuffer(rob.rob_entry, Read2(op, op.rs2).rs2)
  <2>1. CASE check_if_reg_renamed(rename, op.rs2)
    <3>1. Read2(op, op.rs2).rs2 = get_reg_renamed_tag(rename, op.rs2)
      BY <2>1 DEF Read2, OperandFields
    <3> QED BY <1>2, <2>1, <3>1, RegisterRead
  <2>2. CASE ~check_if_reg_renamed(rename, op.rs2)
    <3>1. Read2(op, op.rs2).rs2_valid = VALID
      BY <1>2, <2>2, RegisterRead DEF Read2, OperandFields
    <3> QED BY <1>2, <3>1, NotWork
  <2> QED BY <2>1, <2>2
<1> QED BY <1>1, <1>2

\* What decode hands on: o has read the sources of op.
ReadsSources(o, op) ==
  /\ SameFront(o, op) /\ OperandFields \subseteq DOMAIN o
  /\ o.rd_value = op.rd_value /\ o.buffer = op.buffer
  /\ op.inst_type \in Sourced1 =>
       /\ o.rs1 = Read1(op).rs1 /\ o.rs1_valid = Read1(op).rs1_valid
       /\ o.rs1_value = Read1(op).rs1_value
  /\ op.inst_type \in TwoSource =>
       /\ o.rs2 = Read2(op, op.rs2).rs2 /\ o.rs2_valid = Read2(op, op.rs2).rs2_valid
       /\ o.rs2_value = Read2(op, op.rs2).rs2_value

LEMMA SourcesRead ==
  ASSUME NEW op, Asking(op), op.inst_type \notin Branches
  PROVE  /\ op.inst_type \in TwoSource =>
              ReadsSources(Read2(Read1(op), Read1(op).rs2), op)
         /\ op.inst_type \notin TwoSource => ReadsSources(Read1(op), op)
         /\ op.inst_type \notin Sourced1 => ReadsSources(op, op)
<1> DEFINE a == Read1(op)
           b == Read2(op, op.rs2)
           c == Read2(a, a.rs2)
<1>1. HasInst(op) /\ OperandFields \subseteq DOMAIN op
  BY DEF Asking
<1>2. /\ SameFront(a, op) /\ OperandFields \subseteq DOMAIN a /\ HasInst(a)
      /\ a.rs2 = op.rs2 /\ a.rs2_valid = op.rs2_valid /\ a.rs2_value = op.rs2_value
      /\ a.rd_value = op.rd_value /\ a.buffer = op.buffer
  BY <1>1, ReadFields DEF SameFront
<1>3. ReadsSources(op, op) \/ op.inst_type \in Sourced1
  BY <1>1, SourceTypes DEF ReadsSources, SameFront
<1>4. ReadsSources(a, op) \/ op.inst_type \in TwoSource
  BY <1>2 DEF ReadsSources
<1> HIDE DEF a
<1>5. /\ SameFront(c, a) /\ OperandFields \subseteq DOMAIN c
      /\ c.rs1 = a.rs1 /\ c.rs1_valid = a.rs1_valid /\ c.rs1_value = a.rs1_value
      /\ c.rd_value = a.rd_value /\ c.buffer = a.buffer
  BY <1>2, ReadFields
<1>6. c.rs2 = b.rs2 /\ c.rs2_valid = b.rs2_valid /\ c.rs2_value = b.rs2_value
  BY <1>1, <1>2 DEF Read2, OperandFields
<1>7. ReadsSources(c, op)
  <2>1. SameFront(c, op)
    BY <1>2, <1>5 DEF SameFront
  <2> HIDE DEF b, c
  <2> QED BY <1>2, <1>5, <1>6, <2>1 DEF ReadsSources, a, b
<1> QED BY <1>3, <1>4, <1>7, SourceTypes DEF a

LEMMA DestKeepsSources ==
  ASSUME NEW o, NEW op, ReadsSources(o, op), "op" \in DOMAIN drf, RenameDest(o) \/ Decoded(o)
  PROVE  ReadsSources(drf'.op, op)
<1>1. drf'.op = o \/ \E t : drf'.op = [o EXCEPT !.rd = t]
  BY DEF RenameDest, Decoded
<1>2. ASSUME NEW t PROVE ReadsSources([o EXCEPT !.rd = t], op)
  BY DEF ReadsSources, SameFront, HasInst, OperandFields
<1> QED BY <1>1, <1>2

LEMMA DecodeReads ==
  ASSUME "op" \in DOMAIN drf, Asking(drf.op), drf.op.inst_type \notin Branches,
         drf.stalled # VALID, Decode
  PROVE  ReadsSources(drf'.op, drf.op)
<1> DEFINE op == drf.op
<1>1. \/ DecodeStore \/ DecodeLoad \/ DecodeMove \/ DecodeLiteral \/ DecodeTwoSource
      \/ DecodeDivExor \/ DecodeJump \/ DecodeHalt \/ DecodePlain
  BY DEF Decode
<1>2. ~DecodeStore /\ ~DecodeDivExor /\ ~DecodeJump
  BY DEF DecodeStore, DecodeDivExor, DecodeJump, Asking, MissingTypes
<1>3. CASE DecodeLoad \/ DecodeMove \/ DecodeLiteral \/ DecodeTwoSource
  <2>1. \/ op.inst_type \in TwoSource /\ RenameDest(Read2(Read1(op), Read1(op).rs2))
        \/ op.inst_type \notin TwoSource /\ RenameDest(Read1(op))
        \/ op.inst_type \notin Sourced1 /\ RenameDest(op)
    <3>1. Read1(op).inst_type = op.inst_type
      BY ReadFields DEF Asking, SameFront
    <3>2. /\ {LDR, ADD, SUB, MUL, AND, OR} \subseteq TwoSource
          /\ {LOAD, MOV, MOVC, ADDL, SUBL} \cap TwoSource = {} /\ MOVC \notin Sourced1
          /\ Loads = {LOAD, LDR} /\ MOV # MOVC
      BY SourceTypes DEF Loads, LOAD, LDR, MOVC, MOV, ADDL, SUBL, ADD, SUB, MUL, AND, OR, TwoSource, STR, DIV, EXOR
    <3>3. CASE DecodeLoad
      BY <3>1, <3>2, <3>3 DEF DecodeLoad
    <3>4. CASE DecodeMove \/ DecodeLiteral
      BY <3>1, <3>2, <3>4 DEF DecodeMove, DecodeLiteral
    <3>5. CASE DecodeTwoSource
      BY <3>1, <3>2, <3>5 DEF DecodeTwoSource
    <3> QED BY <1>3, <3>3, <3>4, <3>5
  <2> HIDE DEF op
  <2> QED BY <2>1, SourcesRead, DestKeepsSources DEF op
<1>4. CASE DecodeHalt \/ DecodePlain
  <2>1. Decoded(op) /\ op.inst_type \notin Sourced1
    BY <1>4, SourceTypes DEF DecodeHalt, DecodePlain
  <2> HIDE DEF op
  <2> QED BY <2>1, SourcesRead, DestKeepsSources DEF op
<1> QED BY <1>1, <1>2, <1>3, <1>4

LEMMA DecodeFedStep == ASSUME WorkInv, TagInv, CountInv, FedInv, Decode PROVE FedInv'
<1>1. /\ step = "decode" /\ step' = "fetch" /\ UNCHANGED <<rob, iq, lsq>> /\ IsDecoded'
      /\ {"op", "stalled", "executed"} \subseteq DOMAIN drf /\ Asking(drf.op)
      /\ "op" \in DOMAIN fetch_stage /\ drf.op.inst_type \notin Branches
  BY DEF Decode, Turn, queueVars, IsDecoded, WorkInv, FrontOnce, FrontShape, FedInv, OrderInv, FrontInv,
         Latch, PlainOp
<1>2. fetch_stage'.op = fetch_stage.op
  BY <1>1 DEF Decode, DecodeStore, DecodeLoad, DecodeMove, DecodeLiteral, DecodeTwoSource, DecodeDivExor,
              DecodeJump, DecodeHalt, DecodePlain, DecodeStalled
<1>3. Asking(drf'.op) /\ Fed(rob.rob_entry, drf'.op)
  <2>1. CASE drf.stalled = VALID
    BY <1>1, <2>1 DEF Decode, DecodeStalled, FedInv, IsDecoded
  <2>2. CASE drf.stalled # VALID
    <3> DEFINE op == drf.op
               o  == drf'.op
    <3>1. ReadsSources(o, op)
      BY <1>1, <2>2, DecodeReads
    <3>2. ~Renamed /\ Unread(op)
      BY <1>1, <2>2 DEF Renamed, FedInv, IsDecoded
    <3>3. /\ op.rs1 \in Regs /\ Read1(op).rs1_valid = INVALID => InBuffer(rob.rob_entry, Read1(op).rs1)
          /\ op.rs2 \in Regs /\ Read2(op, op.rs2).rs2_valid = INVALID =>
               InBuffer(rob.rob_entry, Read2(op, op.rs2).rs2)
      BY <1>1, <3>2, ReadFed DEF Asking
    <3>4. Asking(o)
      BY <1>1, <3>1 DEF ReadsSources, SameFront, Asking
    <3> HIDE DEF o, op
    <3>5. Fed(rob.rob_entry, o)
      BY <3>1, <3>2, <3>3 DEF ReadsSources, SameFront, Unread, Fed
    <3> QED BY <3>4, <3>5 DEF o
  <2> QED BY <2>1, <2>2
<1> QED BY <1>1, <1>2, <1>3 DEF FedInv

LEMMA PushFrontFedStep == ASSUME WorkInv, TagInv, FedInv, PushFront PROVE FedInv'
<1>1. step = "push_front" /\ step' = "decode" /\ UNCHANGED <<rob, iq, lsq>> /\ IsDecoded
  BY DEF PushFront, Turn, queueVars, IsDecoded
<1>2. "op" \in DOMAIN fetch_stage
  BY DEF WorkInv, FrontOnce, FrontShape
<1>3. CASE fetch_stage.stalled = INVALID
  <2>1. drf'.op = fetch_stage.op /\ fetch_stage' = fetch_stage /\ ~IsDecoded'
    BY <1>1, <1>3, NotWork DEF PushFront, IsDecoded
  <2> QED BY <1>1, <2>1 DEF FedInv
<1>4. CASE fetch_stage.stalled # INVALID
  <2>1. drf' = drf /\ fetch_stage'.op = fetch_stage.op /\ fetch_stage.stalled = VALID
    BY <1>2, <1>4 DEF PushFront, WorkInv, FrontOnce, FrontShape, Flag
  <2>2. drf.stalled = VALID \/ drf.op.inst_type = HALT
    BY <1>1, <2>1 DEF TagInv, StallHolds
  <2>3. HALT \notin Sourced1 /\ HALT \notin TwoSource
    BY SourceTypes
  <2>4. IF IsDecoded' THEN Fed(rob.rob_entry, drf.op) ELSE Unread(drf.op)
    BY <1>1, <2>1, <2>2, <2>3 DEF FedInv, IsDecoded, Unread
  <2> QED BY <1>1, <2>1, <2>4 DEF FedInv
<1> QED BY <1>3, <1>4

LEMMA FetchedAsks ==
  ASSUME SourcesExist, NEW in \in Readable
  PROVE  /\ Asking(FetchedOp(in)) /\ Unread(FetchedOp(in))
<1>1. /\ FetchedOp(in).inst_type = in.inst_type /\ FetchedOp(in).rs1 = in.rs1
      /\ FetchedOp(in).rs2 = in.rs2 /\ HasInst(FetchedOp(in)) /\ OperandFields \subseteq DOMAIN FetchedOp(in)
  BY DEF FetchedOp, NoOp, HasInst, OperandFields
<1> HIDE DEF Readable
<1> QED BY <1>1 DEF SourcesExist, Asking, Unread

LEMMA FetchFedStep == ASSUME SourcesExist, WorkInv, FedInv, Fetch PROVE FedInv'
<1>1. step' = "push_units" /\ step = "fetch" /\ UNCHANGED <<drf, rob, iq, lsq>> /\ IsDecoded /\ IsDecoded'
  BY DEF Fetch, Turn, queueVars, IsDecoded
<1>2. Fetchable \subseteq Readable
  BY DEF WorkInv, OrderInv, Fetchable, Readable
<1>3. fetch_stage'.op = fetch_stage.op \/ \E in \in Readable : fetch_stage'.op = FetchedOp(in)
  BY <1>2 DEF Fetch, WorkInv, FrontOnce, FrontShape
<1>4. Asking(fetch_stage'.op) /\ Unread(fetch_stage'.op)
  BY <1>3, FetchedAsks DEF FedInv
<1> QED BY <1>1, <1>4 DEF FedInv

LEMMA InitFed == ASSUME Init PROVE FedInv
<1>1. /\ fetch_stage.op = NoOp /\ drf.op = NoOp /\ \A i \in IqIndex : iq[i].op = NoOp
      /\ \A k \in LsqIndex : lsq[k].op = NoOp
  BY DEF Init, init_issue_queue, init_ls_queue, FreeIqEntry, FreeLsqEntry
<1> QED BY <1>1, NoOpAsks DEF FedInv

LEMMA NextFed ==
  ASSUME SourcesExist, WorkInv, TagInv, CountInv, FedInv, [Next]_vars PROVE FedInv'
<1>1. CASE UNCHANGED vars
  BY <1>1 DEF vars, frontVars, queueVars, FedInv, IsDecoded
<1>2. CASE Next
  BY <1>2, CommitFedStep, IssueFedStep, UnitsFedStep, WritebackFedStep, DispatchFedStep, PushFrontFedStep,
     DecodeFedStep, FetchFedStep DEF Next
<1> QED BY <1>1, <1>2

LEMMA FedGives == ASSUME WorkInv, FedInv PROVE WaitersFed
<1> SUFFICES ASSUME BetweenCycles, NEW op \in Waiting \cup Memory \cup {drf.op}
             PROVE  /\ (op \notin Memory /\ op.inst_type \in OneSource \cup TwoSource
                                         /\ op.rs1_valid = INVALID) => Produced(op.rs1)
                    /\ (op \notin Memory /\ op.inst_type \in TwoSource
                                         /\ op.rs2_valid = INVALID) => Produced(op.rs2)
                    /\ (op.inst_type \in Stores /\ op.rd_valid = INVALID) => Produced(op.rd)
  BY DEF WaitersFed
<1>1. \A t : InBuffer(rob.rob_entry, t) => Produced(t)
  BY DEF InBuffer, Writing, Produced, Window, IsWriter
<1>2. op.inst_type \notin Stores
  BY DEF FedInv, Asking, MissingTypes, Waiting, Memory
<1>3. op \notin Memory => Fed(rob.rob_entry, op)
  BY DEF FedInv, Waiting, BetweenCycles, IsDecoded
<1> QED BY <1>1, <1>2, <1>3 DEF Fed, Sourced1

\* Between two cycles whoever still waits for an operand has its producer in the
\* reorder buffer, so no broadcast was missed on the way from decode through
\* dispatch to the issue queue: for every program without branches, stores, DIV
\* and EXOR that names existing registers, and every size of the buffer, the
\* queues and the memory, in every run in which no decoded instruction is
\* overwritten in DRF.
THEOREM WaitersFedCorrect ==
  ASSUME StraightLine, RegistersExist, EnoughTags, SourcesExist
  PROVE  Spec /\ DecodedIsDispatched => []WaitersFed
<1> DEFINE Inv == WorkInv /\ TagInv /\ CountInv /\ FedInv
<1>1. Init => Inv
  BY InitWork, InitTag, InitCount, InitFed
<1>2. Inv /\ [Next]_vars /\ [Kept]_vars => Inv'
  <2> SUFFICES ASSUME Inv, [Next]_vars, [Kept]_vars PROVE Inv'
    OBVIOUS
  <2>1. Kept
    BY DEF Kept, vars
  <2> QED BY <2>1, NextWork, NextTag, NextCount, NextFed
<1>3. Inv => WaitersFed
  BY FedGives
<1>4. DecodedIsDispatched <=> [][Kept]_vars
  BY PTL DEF DecodedIsDispatched, Kept
<1> QED BY <1>1, <1>2, <1>3, <1>4, PTL DEF Spec

=============================================================================
