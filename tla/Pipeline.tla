------------------------------ MODULE Pipeline -------------------------------
(***************************************************************************)
(* The whole simulator (cpu.c, forwarding.c) over the reorder buffer, the  *)
(* rename table and the two queues.  APEX_cpu_run calls the handlers of a  *)
(* cycle in a fixed order; `step' is the next one.  The program is chosen  *)
(* initially.                                                              *)
(*                                                                         *)
(* A latch holds an instruction as in QueueOps, NoOp when it is empty.     *)
(* Left out: opcode strings, printing, and the flags CF, OF and IF, which  *)
(* are written and never read.                                             *)
(***************************************************************************)
EXTENDS RobOps, RenameOps, QueueOps, Alu, Sequences, FiniteSets

CONSTANTS Programs,            \* code memories: 0 .. size - 1 -> instruction
          BeyondCode,          \* what a fetch behind the code memory may read
          REGISTER_FILE_SIZE,
          DATA_MEMORY_SIZE

ASSUME PipelineAssumption ==
  /\ REGISTER_FILE_SIZE \in Nat /\ DATA_MEMORY_SIZE \in Nat
  /\ RENAME_TABLE_SIZE <= REGISTER_FILE_SIZE

Regs  == 0 .. REGISTER_FILE_SIZE - 1
Units == {"INT_ONE", "INT_TWO", "MUL_ONE", "MUL_TWO", "MUL_THREE", "BRANCH", "MEM"}

VARIABLES
  code, pc, regs, regs_invalid, zf, data_memory,
  fetch_stage,   \* the F latch: op, stalled
  drf,           \* the DRF latch: op, stalled, executed
  stage,         \* the latches of the function units
  mem_stage,     \* of the MEM latch: stage_cycle, executed
  iq, lsq, rob, rename,
  ret,           \* what APEX_cpu_run returns
  step,          \* the next handler of the cycle
  retired,       \* history: address of the last instruction committed
  golden         \* history: the sequential machine, stepped at every commit

frontVars == <<pc, fetch_stage>>
archVars  == <<regs, regs_invalid, rename>>
backVars  == <<zf, data_memory, stage, mem_stage>>
queueVars == <<iq, lsq, rob>>
histVars  == <<code, ret, retired, golden>>
vars == <<frontVars, drf, archVars, backVars, queueVars, histVars, step>>

Arch == INSTANCE Isa
          WITH machine <- [golden EXCEPT !.regs = regs, !.retired = retired,
                                         !.halted = (ret = HALT)]

Init ==
  /\ code \in Programs
  /\ pc = CodeBase
  /\ regs = [r \in Regs |-> 0] /\ regs_invalid = [r \in Regs |-> 0]
  /\ zf = INVALID
  /\ data_memory = [a \in Arch!Address |-> 0]
  /\ fetch_stage = [op |-> NoOp, stalled |-> INVALID]
  /\ drf = [op |-> NoOp, stalled |-> INVALID, executed |-> INVALID]
  /\ stage = [u \in Units |-> NoOp]
  /\ mem_stage = [stage_cycle |-> 0, executed |-> INVALID]
  /\ iq = init_issue_queue /\ lsq = init_ls_queue
  /\ rob = init_reorder_buffer /\ rename = init_rename_table
  /\ ret = 0 /\ step = "commit" /\ retired = 0
  /\ golden = Arch!Boot(code)

Empty(u) == stage[u].inst_type = 0

\* A handler runs when it is its turn and hands over to the next one.
Turn(this, next) == step = this /\ step' = next
-----------------------------------------------------------------------------
(***************************************************************************)
(* commit_instruction.                                                     *)
(***************************************************************************)
\* Faulty: the instruction in DRF hears of no result.
ForwardToNobody(d, tag, value, valid) == d

\* Writeback and commit hand a value to the instruction that waits in DRF; the
\* data register of a store is not looked at.
ForwardToDecode(d, tag, value, valid) ==
  LET first  == d.op.inst_type \in OneSource \cup TwoSource /\ Awaits1(d.op, tag)
      second == d.op.inst_type \in TwoSource /\ Awaits2(d.op, tag)
  IN  [d EXCEPT !.op = [d.op EXCEPT !.rs1_value = IF first THEN value ELSE @,
                                    !.rs1_valid = IF first THEN valid ELSE @,
                                    !.rs2_value = IF second THEN value ELSE @,
                                    !.rs2_valid = IF second THEN valid ELSE @]]

Head0 == RobHead(rob)

CommitNothing ==
  /\ Head0.valid = INVALID
  /\ rob' = commit_reorder_buffer_entry(rob)
  /\ UNCHANGED <<frontVars, drf, archVars, iq, lsq, histVars>>

\* Every commit: the entry leaves, the sequential machine makes its step.
Retire ==
  /\ Head0.valid # INVALID
  /\ retired' = Head0.inst_ptr
  /\ golden' = IF golden.halted THEN golden ELSE Arch!Execute(code, golden)

CommitHalt ==
  /\ Retire /\ Head0.inst_type = HALT
  /\ rob' = commit_reorder_buffer_entry(rob)
  /\ ret' = HALT
  /\ UNCHANGED <<code, frontVars, drf, archVars, iq, lsq>>

CommitStoreOrJump ==
  /\ Retire /\ Head0.inst_type \in Stores \cup {JUMP}
  /\ rob' = commit_reorder_buffer_entry(rob)
  /\ UNCHANGED <<code, ret, frontVars, drf, archVars, iq, lsq>>

\* branch_misprediction: queues, buffer and table are emptied, not the units.
CommitBranch ==
  /\ Retire /\ Head0.inst_type \in Branches
  /\ IF /\ Head0.exception # 0
        /\ zf = IF Head0.inst_type = BZ THEN VALID ELSE INVALID
     THEN /\ rob' = clear_reorder_buffer /\ rename' = clear_rename_table
          /\ iq' = init_issue_queue /\ lsq' = init_ls_queue
          /\ drf' = [drf EXCEPT !.op = NoOp]
          /\ fetch_stage' = [op |-> NoOp, stalled |-> VALID]
          /\ pc' = Head0.inst_ptr + 4
     ELSE /\ rob' = commit_reorder_buffer_entry(rob)
          /\ UNCHANGED <<rename, iq, lsq, drf, frontVars>>
  /\ UNCHANGED <<code, ret, regs, regs_invalid>>

\* The value goes to every waiter and to the register file; the tag is free.
CommitResult ==
  /\ Retire /\ Head0.inst_type \in Writers
  /\ rob' = commit_reorder_buffer_entry(rob)
  /\ iq' = update_issue_queue_entry(iq, Head0.rd, Head0.rd_value)
  /\ lsq' = update_ls_queue_entry_reg(lsq, Head0.rd, Head0.rd_value)
  /\ drf' = ForwardToDecode(drf, Head0.rd, Head0.rd_value, Head0.valid)
  /\ LET arch == get_phy_reg_renamed_tag(rename, Head0.rd) IN
       IF arch < 0 THEN UNCHANGED archVars
       ELSE /\ regs' = [regs EXCEPT ![arch] = Head0.rd_value]
            /\ rename' = ReleaseTag(rename, Head0.rd)
            /\ regs_invalid' = [regs_invalid EXCEPT ![arch] = @ - 1]
  /\ UNCHANGED <<code, ret, frontVars>>

Commit ==
  /\ ret = 0 /\ Turn("commit", "issue")
  /\ \/ CommitNothing \/ CommitHalt \/ CommitStoreOrJump \/ CommitBranch \/ CommitResult
  /\ UNCHANGED backVars
-----------------------------------------------------------------------------
(***************************************************************************)
(* issue_instruction.                                                      *)
(***************************************************************************)
\* Faulty: multiplications go to the integer unit.
UnitOfMulIsInt(type) ==
  CASE type \in MemOps \cup MOVC .. EXOR -> "INT_ONE"
    [] type \in Branches                 -> "BRANCH"
    [] OTHER                             -> "none"

\* JUMP has no unit.
UnitOf(type) ==
  CASE type \in (MemOps \cup MOVC .. EXOR) \ {MUL} -> "INT_ONE"
    [] type = MUL                                  -> "MUL_ONE"
    [] type \in Branches                           -> "BRANCH"
    [] OTHER                                       -> "none"

\* Faulty: a unit that was filled in this cycle still counts as free.
IssuedTogether == {i \in IqIndex : iq[i].status = VALID /\ ReadyToIssue(iq[i].op)
                                   /\ UnitOf(iq[i].op.inst_type) # "none"}

\* The queue entries that issue: for each unit the first in issue order.  The
\* three units are free here in every cycle: the last push emptied them.
Issued ==
  LET order == IssueOrder(iq)
      unit(k) == IF order[k] = -1 THEN "none" ELSE UnitOf(iq[order[k]].op.inst_type)
  IN  {order[k] : k \in {n \in IqIndex : /\ unit(n) # "none" /\ Empty(unit(n))
                                         /\ \A m \in 0 .. n - 1 : unit(m) # unit(n)}}

\* Only a store takes its data register's valid bit along.
IssuedOp(op) == [op EXCEPT !.rd_valid = IF op.inst_type \in Stores THEN @ ELSE INVALID]

\* Faulty: an empty memory stage is not taken as free.
MemFreeWhenExecuted == mem_stage.executed = VALID

MemFree == mem_stage.executed = VALID \/ Empty("MEM")

Issue ==
  /\ Turn("issue", "int_one")
  /\ \E issued \in {Issued}, toMem \in {IF MemFree THEN LsqCandidates(lsq) ELSE {}} :
       LET filled(u) == {i \in IqIndex \cap issued : UnitOf(iq[i].op.inst_type) = u}
       IN  /\ iq' = Leave(iq, issued, FreeIqEntry)
           /\ lsq' = Leave(lsq, toMem, FreeLsqEntry)
           /\ stage' = [u \in Units |->
                          IF u = "MEM" /\ toMem # {} THEN lsq[CHOOSE i \in toMem : TRUE].op
                          ELSE IF filled(u) = {} THEN stage[u]
                          ELSE IssuedOp(iq[CHOOSE i \in filled(u) : TRUE].op)]
           /\ mem_stage' = IF toMem = {} THEN mem_stage
                           ELSE [mem_stage EXCEPT !.executed = INVALID]
  /\ UNCHANGED <<frontVars, drf, archVars, zf, data_memory, rob, histVars>>
-----------------------------------------------------------------------------
(***************************************************************************)
(* execute_instruction: the units, one by one.                             *)
(***************************************************************************)
execKeeps == <<frontVars, drf, regs, rename, queueVars, histVars>>

\* set_arch_reg_status counts one more writer of the register behind a tag.
CountWriter(op, types) ==
  LET arch == get_phy_reg_renamed_tag(rename, op.rd) IN
  regs_invalid' = IF op.inst_type \in types /\ arch >= 0
                  THEN [regs_invalid EXCEPT ![arch] = @ + 1] ELSE regs_invalid

IntOne ==
  /\ Turn("int_one", "int_two")
  /\ CountWriter(stage["INT_ONE"], Writers \ {MUL})
  /\ UNCHANGED <<execKeeps, backVars>>

\* Address generation for memory operations, the result for the others.
IntTwo ==
  /\ Turn("int_two", "mul_one")
  /\ LET op == stage["INT_TWO"]
         b  == IF op.inst_type \in UsesLiteral \cup {STORE, LOAD} THEN op.buffer
               ELSE op.rs2_value
     IN  IF op.inst_type \in MemOps
         THEN /\ stage' = [stage EXCEPT !["INT_TWO"].mem_address = op.rs1_value + b]
              /\ UNCHANGED zf
         ELSE IF op.inst_type = 0 THEN UNCHANGED <<stage, zf>>
         ELSE /\ stage' = [stage EXCEPT
                   !["INT_TWO"].rd_value = Result(op.inst_type, op.rs1_value, b, @),
                   !["INT_TWO"].rd_valid = VALID]
              /\ zf' = ZeroFlag(op.inst_type, op.rs1_value, b, zf)
  /\ UNCHANGED <<execKeeps, regs_invalid, data_memory, mem_stage>>

MulOne ==
  /\ Turn("mul_one", "mul_three")
  /\ CountWriter(stage["MUL_ONE"], {MUL})
  /\ UNCHANGED <<execKeeps, backVars>>

\* mul_two_stage computes a product that this stage computes again.
MulThree ==
  /\ Turn("mul_three", "branch")
  /\ LET op == stage["MUL_THREE"] IN
       IF op.inst_type = MUL
       THEN /\ stage' = [stage EXCEPT
                 !["MUL_THREE"].rd_value = Result(MUL, op.rs1_value, op.rs2_value, @),
                 !["MUL_THREE"].rd_valid = VALID]
            /\ zf' = ZeroFlag(MUL, op.rs1_value, op.rs2_value, zf)
       ELSE UNCHANGED <<stage, zf>>
  /\ UNCHANGED <<execKeeps, regs_invalid, data_memory, mem_stage>>

\* One address behind the last instruction is let through.
ValidTarget(new_pc) == new_pc >= CodeBase /\ new_pc <= CodeBase + 4 * Cardinality(DOMAIN code)

\* Faulty: the literal counts from the next instruction.
NewPcFromNext(op) == op.pc + 4 + op.buffer

NewPc(op) == (IF op.inst_type = JUMP THEN op.rs1_value ELSE op.pc) + op.buffer

Redirects(op) ==
  /\ ValidTarget(NewPc(op))
  /\ \/ op.inst_type = BZ  /\ zf = VALID
     \/ op.inst_type = BNZ /\ zf = INVALID
     \/ op.inst_type = JUMP

\* A branch that is taken clears the two front latches and stalls F for the
\* cycle (a jump does not stall); one that is not leaves with rd_valid INVALID.
Branch ==
  /\ Turn("branch", "mem")
  /\ LET op == stage["BRANCH"] IN
       IF Redirects(op)
       THEN /\ stage' = [stage EXCEPT !["BRANCH"].rd_valid = VALID]
            /\ drf' = [drf EXCEPT !.op = NoOp]
            /\ fetch_stage' = [op |-> NoOp, stalled |-> IF op.inst_type = JUMP
                                                        THEN fetch_stage.stalled ELSE VALID]
            /\ pc' = NewPc(op)
       ELSE UNCHANGED <<stage, drf, frontVars>>
  /\ UNCHANGED <<archVars, zf, data_memory, mem_stage, queueVars, histVars>>

\* The access happens in the fourth cycle; an address too large never ends.
Mem ==
  /\ Turn("mem", "writeback")
  /\ LET op   == stage["MEM"]
         done == /\ mem_stage.stage_cycle >= 3 /\ op.mem_address <= DATA_MEMORY_SIZE
                 /\ op.inst_type \in Stores => op.rd_valid = VALID
     IN  /\ mem_stage' =
              IF Empty("MEM") THEN [mem_stage EXCEPT !.executed = INVALID]
              ELSE IF mem_stage.stage_cycle < 3
                   THEN [stage_cycle |-> mem_stage.stage_cycle + 1, executed |-> INVALID]
                   ELSE [mem_stage EXCEPT !.executed = IF done THEN VALID ELSE INVALID]
         /\ data_memory' = IF done /\ op.inst_type \in Stores
                           THEN [data_memory EXCEPT ![op.mem_address] = op.rd_value]
                           ELSE data_memory
         /\ stage' = IF done /\ op.inst_type \in Loads
                     THEN [stage EXCEPT !["MEM"].rd_value = data_memory[op.mem_address],
                                        !["MEM"].rd_valid = VALID]
                     ELSE stage
  /\ UNCHANGED <<execKeeps, regs_invalid, zf>>
-----------------------------------------------------------------------------
(***************************************************************************)
(* writeback_stage.                                                        *)
(***************************************************************************)
\* w is what writeback changes.
WriteUnit(w, u) ==
  LET op == stage[u]
      finished == [w EXCEPT !.rob = update_reorder_buffer_entry_data(@, op)]
  IN  IF Empty(u) \/ (u = "MEM" /\ mem_stage.executed = INVALID) THEN w
      ELSE IF u = "INT_TWO" /\ op.inst_type \in MemOps
      THEN [w EXCEPT !.lsq = update_ls_queue_entry_mem_address(@, op)]
      ELSE IF u = "BRANCH" THEN finished
      ELSE [finished EXCEPT
              !.iq  = update_issue_queue_entry(@, op.rd, op.rd_value),
              !.lsq = update_ls_queue_entry_reg(@, op.rd, op.rd_value),
              !.drf = ForwardToDecode(@, op.rd, op.rd_value, op.rd_valid)]

\* The units are drained in a fixed order.
Writeback ==
  /\ Turn("writeback", "dispatch")
  /\ LET int    == WriteUnit([rob |-> rob, iq |-> iq, lsq |-> lsq, drf |-> drf], "INT_TWO")
         mul    == WriteUnit(int, "MUL_THREE")
         branch == WriteUnit(mul, "BRANCH")
         w      == WriteUnit(branch, "MEM")
     IN  rob' = w.rob /\ iq' = w.iq /\ lsq' = w.lsq /\ drf' = w.drf
  /\ UNCHANGED <<frontVars, archVars, backVars, histVars>>
-----------------------------------------------------------------------------
(***************************************************************************)
(* dispatch_instruction.                                                   *)
(***************************************************************************)
StallFront ==
  /\ drf' = [drf EXCEPT !.stalled = VALID]
  /\ fetch_stage' = [fetch_stage EXCEPT !.stalled = VALID]

\* can_add_entry_in_ls_queue looks at IQ_SIZE entries, two more than there are:
\* with a full queue its answer is whatever lies behind; add then refuses.
DispatchMemory ==
  /\ drf.op.inst_type \in MemOps
  /\ \E behind \in BOOLEAN :
       LET room == HasFree(iq) /\ (HasFree(lsq) \/ behind)
           ok   == room /\ can_add_entry_in_reorder_buffer(rob)
       IN  IF ~ok
           THEN /\ rob' = IF room THEN WrapIssuePtr(rob) ELSE rob
                /\ StallFront
                /\ UNCHANGED <<iq, lsq>>
           ELSE /\ UNCHANGED <<drf, fetch_stage>>
                /\ IF HasFree(lsq)
                   THEN /\ lsq' = add_ls_queue_entry(lsq, drf.op)
                        /\ iq'  = add_issue_queue_entry(iq, drf.op, FirstFree(lsq))
                        /\ rob' = add_reorder_buffer_entry(rob, drf.op)
                   ELSE rob' = WrapIssuePtr(rob) /\ UNCHANGED <<iq, lsq>>

DispatchOther ==
  /\ drf.op.inst_type \in MOVC .. JUMP
  /\ IF HasFree(iq) /\ can_add_entry_in_reorder_buffer(rob)
     THEN /\ iq'  = add_issue_queue_entry(iq, drf.op, -1)
          /\ rob' = add_reorder_buffer_entry(rob, drf.op)
          /\ UNCHANGED <<drf, fetch_stage>>
     ELSE /\ rob' = IF HasFree(iq) THEN WrapIssuePtr(rob) ELSE rob
          /\ StallFront
          /\ UNCHANGED iq
  /\ UNCHANGED lsq

\* HALT stays in DRF and enters the buffer again in every cycle it has room.
DispatchHalt ==
  /\ drf.op.inst_type = HALT
  /\ rob' = add_reorder_buffer_entry(rob, drf.op)
  /\ UNCHANGED <<iq, lsq, drf, fetch_stage>>

Dispatch ==
  /\ Turn("dispatch", "push_front")
  /\ IF drf.executed = VALID /\ drf.op.inst_type \in MemOps \cup (MOVC .. HALT)
     THEN DispatchMemory \/ DispatchOther \/ DispatchHalt
     ELSE UNCHANGED <<queueVars, drf, fetch_stage>>
  /\ UNCHANGED <<pc, archVars, backVars, histVars>>
-----------------------------------------------------------------------------
(***************************************************************************)
(* push_func_unit_stages, decode and fetch.                                *)
(***************************************************************************)
\* Before the queues: a stalled F keeps DRF as it is, for as long as the branch
\* unit is busy.
PushFront ==
  /\ Turn("push_front", "decode")
  /\ IF fetch_stage.stalled = INVALID
     THEN /\ drf' = [op |-> fetch_stage.op, stalled |-> INVALID, executed |-> INVALID]
          /\ UNCHANGED fetch_stage
     ELSE /\ fetch_stage' = [fetch_stage EXCEPT
                               !.stalled = IF Empty("BRANCH") THEN INVALID ELSE @]
          /\ UNCHANGED drf
  /\ UNCHANGED <<pc, archVars, backVars, queueVars, histVars>>

\* A source: the tag of the renamed register, else the register file's value
\* unless register `test' has a writer in flight.
Read1(op) ==
  IF check_if_reg_renamed(rename, op.rs1)
  THEN [op EXCEPT !.rs1 = get_reg_renamed_tag(rename, @)]
  ELSE IF regs_invalid[op.rs1] = 0
       THEN [op EXCEPT !.rs1_value = regs[op.rs1], !.rs1_valid = VALID] ELSE op

Read2(op, test) ==
  IF check_if_reg_renamed(rename, op.rs2)
  THEN [op EXCEPT !.rs2 = get_reg_renamed_tag(rename, @)]
  ELSE IF regs_invalid[test] = 0
       THEN [op EXCEPT !.rs2_value = regs[op.rs2], !.rs2_valid = VALID] ELSE op

ReadData(op) ==
  IF check_if_reg_renamed(rename, op.rd)
  THEN [op EXCEPT !.rd = get_reg_renamed_tag(rename, @)]
  ELSE IF regs_invalid[op.rd] = 0
       THEN [op EXCEPT !.rd_value = regs[op.rd], !.rd_valid = VALID] ELSE op

\* A destination; when there is no tag it goes on with the architectural number.
Decoded(op) == drf' = [drf EXCEPT !.op = op, !.executed = VALID]

RenameDest(op) ==
  IF can_rename_reg_tag(rename)
  THEN /\ Decoded([op EXCEPT !.rd = FirstFreeTag(rename)])
       /\ rename' = rename_desc_reg(rename, op.rd)
  ELSE Decoded(op) /\ UNCHANGED rename

DecodeStore ==
  LET op == Read1(drf.op) IN
  /\ drf.op.inst_type \in Stores
  /\ Decoded(ReadData(IF op.inst_type = STR THEN Read2(op, op.rs2) ELSE op))
  /\ UNCHANGED <<rename, fetch_stage>>

DecodeLoad ==
  LET op == Read1(drf.op) IN
  /\ drf.op.inst_type \in Loads
  /\ RenameDest(IF op.inst_type = LDR THEN Read2(op, op.rs2) ELSE op)
  /\ UNCHANGED fetch_stage

DecodeMove ==
  /\ drf.op.inst_type \in {MOVC, MOV}
  /\ RenameDest(IF drf.op.inst_type = MOV THEN Read1(drf.op) ELSE drf.op)
  /\ UNCHANGED fetch_stage

DecodeLiteral ==
  /\ drf.op.inst_type \in {ADDL, SUBL}
  /\ RenameDest(Read1(drf.op))
  /\ UNCHANGED fetch_stage

DecodeTwoSource ==
  LET op == Read1(drf.op) IN
  /\ drf.op.inst_type \in {ADD, SUB, MUL, AND, OR}
  /\ RenameDest(Read2(op, op.rs2))
  /\ UNCHANGED fetch_stage

\* The status of rs2 is looked up with rs1, by now a tag if rs1 was renamed.
DecodeDivExor ==
  LET op == Read1(drf.op) IN
  /\ drf.op.inst_type \in {DIV, EXOR}
  /\ RenameDest(Read2(op, op.rs1))
  /\ UNCHANGED fetch_stage

\* JUMP reads rs1 and then writes the fields of rs2.
DecodeJump ==
  LET op == drf.op IN
  /\ op.inst_type = JUMP
  /\ Decoded(IF check_if_reg_renamed(rename, op.rs1)
             THEN [op EXCEPT !.rs1 = get_reg_renamed_tag(rename, @)]
             ELSE IF regs_invalid[op.rs1] = 0
                  THEN [op EXCEPT !.rs2_value = regs[op.rs2], !.rs2_valid = VALID] ELSE op)
  /\ UNCHANGED <<rename, fetch_stage>>

DecodeHalt ==
  /\ drf.op.inst_type = HALT
  /\ Decoded(drf.op)
  /\ fetch_stage' = [fetch_stage EXCEPT !.stalled = VALID]
  /\ UNCHANGED rename

\* Branches carry a literal only; NOP and an empty latch carry nothing.
DecodePlain ==
  /\ drf.op.inst_type \in Branches \cup {NOP, 0}
  /\ Decoded(drf.op)
  /\ UNCHANGED <<rename, fetch_stage>>

DecodeStalled ==
  /\ drf' = [drf EXCEPT !.executed = INVALID]
  /\ UNCHANGED <<rename, fetch_stage>>

Decode ==
  /\ Turn("decode", "fetch")
  /\ IF drf.stalled = VALID THEN DecodeStalled
     ELSE \/ DecodeStore \/ DecodeLoad \/ DecodeMove \/ DecodeLiteral \/ DecodeTwoSource
          \/ DecodeDivExor \/ DecodeJump \/ DecodeHalt \/ DecodePlain
  /\ UNCHANGED <<pc, regs, regs_invalid, backVars, queueVars, histVars>>

Fetchable == IF get_code_index(pc) \in DOMAIN code THEN {code[get_code_index(pc)]}
             ELSE BeyondCode

FetchedOp(in) ==
  [NoOp EXCEPT !.inst_type = in.inst_type, !.pc = pc, !.rd = in.rd, !.rs1 = in.rs1,
               !.rs2 = in.rs2, !.buffer = in.imm]

\* Behind a HALT in DRF one more instruction is read, and goes no further.
Fetch ==
  /\ Turn("fetch", "push_units")
  /\ \/ /\ fetch_stage.stalled = INVALID
        /\ \E in \in Fetchable :
             /\ fetch_stage' = [fetch_stage EXCEPT !.op = FetchedOp(in)]
             /\ pc' = IF in.inst_type = 0 THEN pc ELSE pc + 4
     \/ /\ fetch_stage.stalled = VALID
        /\ IF drf.op.inst_type = HALT
           THEN \E in \in Fetchable :
                  fetch_stage' = [fetch_stage EXCEPT !.op = FetchedOp(in)]
           ELSE UNCHANGED fetch_stage
        /\ UNCHANGED pc
  /\ UNCHANGED <<drf, archVars, backVars, queueVars, histVars>>

\* After the queues: the units advance; MEM is emptied once it has finished.
PushUnits ==
  /\ Turn("push_units", "commit")
  /\ LET memDone == mem_stage.executed = VALID /\ mem_stage.stage_cycle >= 3
     IN  /\ stage' = [stage EXCEPT !["MUL_THREE"] = stage["MUL_TWO"],
                                   !["MUL_TWO"]   = stage["MUL_ONE"],
                                   !["INT_TWO"]   = stage["INT_ONE"],
                                   !["MUL_ONE"] = NoOp, !["INT_ONE"] = NoOp,
                                   !["BRANCH"] = NoOp,
                                   !["MEM"] = IF memDone THEN NoOp ELSE @]
         /\ mem_stage' = IF memDone THEN [mem_stage EXCEPT !.stage_cycle = 0] ELSE mem_stage
  /\ UNCHANGED <<frontVars, drf, archVars, zf, data_memory, queueVars, histVars>>

Next ==
  \/ Commit \/ Issue \/ IntOne \/ IntTwo \/ MulOne \/ MulThree \/ Branch \/ Mem
  \/ Writeback \/ Dispatch \/ PushFront \/ Decode \/ Fetch \/ PushUnits

Spec == Init /\ [][Next]_vars

\* APEX_cpu_run loops while ret is 0: every handler runs again and again.
FairSpec == Spec /\ WF_vars(Next)

=============================================================================
