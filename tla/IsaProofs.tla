------------------------------ MODULE IsaProofs -------------------------------
(***************************************************************************)
(* The out-of-order machine implements the sequential one (ImplementsIsa), *)
(* for programs on registers: instructions come from the code and none is  *)
(* left out, what an instruction has or will hear of its operands is what  *)
(* the sequential machine has, and so is every result that retires.        *)
(***************************************************************************)
EXTENDS DataflowProofs

LOCAL INSTANCE FiniteSetsExt

USE RobSizeAssumption, RenameSizeAssumption, QueueSizeAssumption

\* A number of a finite range is the greatest of its set.
LEMMA GreatestIn ==
  ASSUME NEW a \in Int, NEW b \in Int, NEW S, S \subseteq a .. b, S # {}
  PROVE  Max(S) \in S
<1> DEFINE F == {b - x : x \in S}
<1>1. F \subseteq Nat /\ F # {}
  <2>1. ASSUME NEW x \in S PROVE b - x \in Nat
    <3>1. x \in a .. b
      OBVIOUS
    <3> QED BY <3>1
  <2>2. PICK x \in S : TRUE
    OBVIOUS
  <2> QED BY <2>1, <2>2
<1>2. PICK n \in F : \A m \in F : ~ (<<m, n>> \in OpToRel(<, Nat))
  BY <1>1, NatLessThanWellFounded, WFMin
<1>3. PICK x \in S : n = b - x
  BY <1>2
<1>4. \A y \in S : x >= y
  <2> SUFFICES ASSUME NEW y \in S PROVE x >= y
    OBVIOUS
  <2>1. b - y \in F
    OBVIOUS
  <2>2. ~ (b - y < b - x)
    BY <1>1, <1>2, <1>3, <2>1 DEF OpToRel
  <2>3. x \in Int /\ y \in Int
    OBVIOUS
  <2> QED BY <2>2, <2>3
<1>5. Max(S) = CHOOSE y \in S : \A z \in S : y >= z
  BY DEF Max
<1> QED BY <1>4, <1>5

\* The sort moves the numbers of ready entries and no others.
LEMMA IssueOrderReady ==
  ASSUME NEW q, NEW k \in IqIndex, IssueOrder(q)[k] \in IqIndex
  PROVE  LET i == IssueOrder(q)[k] IN q[i].status = VALID /\ ReadyToIssue(q[i].op)
<1> DEFINE age == [i \in IqIndex |-> IF q[i].status = VALID THEN Older(q[i].stage_cycle) ELSE -1]
           ready == [i \in IqIndex |-> IF q[i].status = VALID /\ ReadyToIssue(q[i].op) THEN i ELSE -1]
           cycle(i) == {i} \cup {j \in i + 1 .. IQ_SIZE - 1 : age[j] > age[i]}
           before(c, n) == IF \E j \in c : j < n THEN Max({j \in c : j < n}) ELSE Max(c)
           Turned(f, c) == [n \in IqIndex |-> IF n \in c THEN f[before(c, n)] ELSE f[n]]
           IsRound(n, r) == r = [i \in 0 .. n |-> IF i = 0 THEN ready ELSE Turned(r[i - 1], cycle(i - 1))]
           Ordered(f) == \A n \in IqIndex : f[n] \in {-1} \cup {i \in IqIndex : ready[i] = i}
           round == CHOOSE r : IsRound(IQ_SIZE, r)
<1>1. IssueOrder(q) = IF \A i \in IqIndex : ready[i] = -1 THEN ready ELSE round[IQ_SIZE]
  BY Zenon DEF IssueOrder
<1>2. ASSUME NEW c, c \subseteq IqIndex, NEW f, Ordered(f) PROVE Ordered(Turned(f, c))
  <2> SUFFICES ASSUME NEW n \in IqIndex, n \in c PROVE before(c, n) \in IqIndex
    BY <1>2
  <2>1. CASE \E j \in c : j < n
    <3>1. {j \in c : j < n} \subseteq 0 .. IQ_SIZE - 1 /\ {j \in c : j < n} # {}
      BY <1>2, <2>1 DEF IqIndex
    <3>2. Max({j \in c : j < n}) \in {j \in c : j < n}
      BY <3>1, GreatestIn
    <3> QED BY <1>2, <2>1, <3>2
  <2>2. CASE ~ \E j \in c : j < n
    <3>1. c \subseteq 0 .. IQ_SIZE - 1 /\ c # {} /\ 0 \in Int /\ IQ_SIZE - 1 \in Int
      BY <1>2 DEF IqIndex
    <3> HIDE DEF before
    <3>2. Max(c) \in c
      BY <3>1, GreatestIn
    <3> QED BY <1>2, <2>2, <3>2 DEF before
  <2> QED BY <2>1, <2>2
<1>3. \A i \in IqIndex : cycle(i) \subseteq IqIndex
  BY DEF IqIndex
<1>4. Ordered(ready)
  OBVIOUS
<1> HIDE DEF age, ready, cycle, Turned
<1>5. \A n \in Nat : \E r : IsRound(n, r)
  <2> DEFINE B == {n \in Nat : ~ \E r : IsRound(n, r)}
  <2> SUFFICES B = {}
    OBVIOUS
  <2> SUFFICES ASSUME B # {} PROVE FALSE
    OBVIOUS
  <2>1. PICK n \in B : \A m \in B : ~ (<<m, n>> \in OpToRel(<, Nat))
    BY NatLessThanWellFounded, WFMin
  <2>2. n \in Nat /\ \A m \in B : ~ (m < n)
    <3> HIDE DEF IsRound
    <3> QED BY <2>1 DEF OpToRel
  <2>3. CASE n = 0
    <3>1. IsRound(0, [i \in 0 .. 0 |-> ready])
      OBVIOUS
    <3> QED BY <2>1, <2>3, <3>1
  <2>4. CASE n # 0
    <3>1. n - 1 \in Nat /\ n - 1 \notin B
      <4> HIDE DEF B
      <4> QED BY <2>2, <2>4
    <3>2. PICK r : IsRound(n - 1, r)
      BY <3>1
    <3> DEFINE s == [i \in 0 .. n |-> IF i = n THEN Turned(r[n - 1], cycle(n - 1)) ELSE r[i]]
    <3>3. ASSUME NEW i \in 0 .. n
          PROVE  s[i] = IF i = 0 THEN ready ELSE Turned(s[i - 1], cycle(i - 1))
      <4>1. CASE i = n
        <5>1. s[n] = Turned(r[n - 1], cycle(n - 1)) /\ s[n - 1] = r[n - 1]
          BY <2>2, <2>4
        <5> QED BY <2>4, <4>1, <5>1
      <4>2. CASE i # n
        <5>1. i \in 0 .. n - 1 /\ s[i] = r[i]
          BY <4>2
        <5>2. i # 0 => s[i - 1] = r[i - 1]
          BY <4>2
        <5>3. r[i] = IF i = 0 THEN ready ELSE Turned(r[i - 1], cycle(i - 1))
          BY <3>2, <5>1
        <5> QED BY <5>1, <5>2, <5>3
      <4> QED BY <4>1, <4>2
    <3>4. IsRound(n, s)
      BY <3>3
    <3> QED BY <2>1, <3>4
  <2> QED BY <2>3, <2>4
<1>6. IsRound(IQ_SIZE, round)
  BY <1>5
<1> HIDE DEF round
<1>7. \A n \in 0 .. IQ_SIZE : Ordered(round[n])
  <2> DEFINE B == {n \in 0 .. IQ_SIZE : ~Ordered(round[n])}
  <2> SUFFICES ASSUME B # {} PROVE FALSE
    BY Zenon
  <2>0. B \subseteq Nat
    OBVIOUS
  <2>1. PICK n \in B : \A m \in B : ~ (<<m, n>> \in OpToRel(<, Nat))
    BY <2>0, NatLessThanWellFounded, WFMin
  <2>2. n \in 0 .. IQ_SIZE /\ \A m \in B : ~ (m < n)
    <3> HIDE DEF IsRound
    <3> QED BY <2>0, <2>1 DEF OpToRel
  <2>3. CASE n = 0
    BY <1>4, <1>6, <2>1, <2>3
  <2>4. CASE n # 0
    <3>1. n - 1 \in 0 .. IQ_SIZE /\ n - 1 \notin B /\ n - 1 \in IqIndex
      <4> HIDE DEF B
      <4> QED BY <2>2, <2>4 DEF IqIndex
    <3>2. round[n] = Turned(round[n - 1], cycle(n - 1))
      BY <1>6, <2>4, <3>1
    <3>3. Ordered(round[n - 1])
      BY <3>1
    <3>4. Ordered(round[n])
      BY <1>2, <1>3, <3>1, <3>2, <3>3
    <3> QED BY <2>1, <3>4
  <2> QED BY <2>3, <2>4
<1>8. Ordered(IssueOrder(q))
  BY <1>1, <1>4, <1>7
<1>9. -1 \notin IqIndex
  BY DEF IqIndex
<1> QED BY <1>8, <1>9 DEF ready
-----------------------------------------------------------------------------
(***************************************************************************)
(* Programs on registers, and their addresses.                             *)
(***************************************************************************)
Addr(k)  == CodeBase + 4 * k
At(c, p) == c[get_code_index(p)]

RegisterTypes == (MOVC .. OR) \ {DIV}

\* Code memory is filled from its start, and the program ends in HALT.
RegisterPrograms ==
  \A c \in Programs :
    /\ \E n \in Nat : DOMAIN c = 0 .. n - 1
    /\ \E k \in DOMAIN c : c[k].inst_type = HALT
    /\ \A k \in DOMAIN c : c[k].inst_type \in RegisterTypes \cup {HALT, NOP, 0}

\* Addresses of the program, not behind its first HALT.
Reached(c, p) ==
  \E k \in DOMAIN c : p = Addr(k) /\ \A m \in DOMAIN c : c[m].inst_type = HALT => k <= m

LEMMA Addresses ==
  /\ \A k \in Int : get_code_index(Addr(k)) = k /\ Addr(k) \in Int
  /\ \A k, m \in Int : Addr(k) < Addr(m) <=> k < m
  /\ \A k, m \in Int : Addr(k) = Addr(m) => k = m
  /\ \A k \in Int : Addr(k) + 4 = Addr(k + 1)
  BY DEF Addr, get_code_index, CodeBase

LEMMA IndicesAreNat ==
  ASSUME RegisterPrograms, NEW c \in Programs
  PROVE  DOMAIN c \subseteq Nat /\ \A p : Reached(c, p) => p \in Int
<1>1. DOMAIN c \subseteq Nat
  BY DEF RegisterPrograms
<1> QED BY <1>1, Addresses DEF Reached

LEMMA RegisterTypesApart ==
  /\ RegisterTypes \subseteq Writers /\ RegisterTypes \cap MemOps = {}
  /\ RegisterTypes \cap ({HALT, NOP, 0, BRANCH} \ {ADD}) = {}
  /\ RegisterTypes \subseteq MOVC .. JUMP /\ RegisterTypes \subseteq MOVC .. EXOR
  /\ {HALT, NOP, 0} \cap (MemOps \cup (MOVC .. JUMP)) = {} /\ HALT \notin {NOP, 0} /\ NOP # 0
  /\ RegisterTypes \cap (Stores \cup {JUMP, HALT}) = {}
  BY DEF RegisterTypes, Writers, MemOps, Loads, Stores, LOAD, LDR, STORE, STR, MOVC, OR, DIV, EXOR,
         HALT, NOP, BRANCH, ADD, JUMP

\* The next instruction that is not a NOP.
LEMMA SkipsToNext ==
  ASSUME RegisterPrograms, NEW c \in Programs, NEW j \in Nat,
         \A m \in DOMAIN c : c[m].inst_type = HALT => j <= m
  PROVE  LET next == Arch!SkipNops(c, Addr(j))
         IN  /\ Reached(c, next) /\ At(c, next).inst_type # NOP /\ Addr(j) <= next
             /\ \A k \in DOMAIN c : c[k].inst_type # NOP /\ Addr(j) <= Addr(k) => next <= Addr(k)
<1> DEFINE rest == {i \in DOMAIN c : i >= j /\ c[i].inst_type # NOP}
           First(i) == \A l \in rest : i <= l
           next == Arch!SkipNops(c, Addr(j))
<1>1. DOMAIN c \subseteq Nat
  BY IndicesAreNat
<1>2. PICK h \in DOMAIN c : c[h].inst_type = HALT
  BY DEF RegisterPrograms
<1>3. h \in rest /\ rest \subseteq Nat
  BY <1>1, <1>2, RegisterTypesApart
<1>4. PICK i \in rest : \A l \in rest : ~ (<<l, i>> \in OpToRel(<, Nat))
  <2> HIDE DEF rest
  <2> QED BY <1>3, NatLessThanWellFounded, WFMin
<1>5. First(i)
  <2> HIDE DEF rest
  <2>1. \A l \in rest : ~ (l < i)
    BY <1>3, <1>4 DEF OpToRel
  <2> QED BY <1>3, <2>1
<1>6. \A l \in rest : First(l) => l = i
  <2> HIDE DEF rest
  <2> QED BY <1>3, <1>5
<1>7. (CHOOSE l \in rest : First(l)) = i
  <2> HIDE DEF First, rest
  <2> QED BY <1>5, <1>6
<1>8. next = Addr(i)
  <2> DEFINE rest2 == {l \in DOMAIN c : l >= Arch!get_code_index(Addr(j)) /\ c[l].inst_type # Arch!NOP}
  <2>1. Arch!get_code_index(Addr(j)) = j
    BY DEF Arch!get_code_index, Arch!CodeBase, Addr, CodeBase
  <2>2. rest2 = rest
    BY <2>1 DEF Arch!NOP, NOP
  <2>3. next = IF rest2 = {} THEN Addr(j) ELSE Arch!CodeBase + 4 * (CHOOSE l \in rest2 : \A m \in rest2 : l <= m)
    BY DEF Arch!SkipNops
  <2>4. rest # {} /\ Arch!CodeBase = CodeBase
    BY <1>3 DEF Arch!CodeBase, CodeBase
  <2>5. next = CodeBase + 4 * (CHOOSE l \in rest : First(l))
    <3> HIDE DEF rest, rest2, next
    <3> QED BY <2>2, <2>3, <2>4
  <2> QED BY <1>7, <2>5 DEF Addr
<1>9. i \in DOMAIN c /\ c[i].inst_type # NOP /\ j <= i /\ i \in Nat
  BY <1>1
<1>10. \A m \in DOMAIN c : c[m].inst_type = HALT => i <= m
  BY <1>5, RegisterTypesApart
<1>11. At(c, Addr(i)) = c[i]
  BY <1>9, Addresses DEF At
<1>12. Reached(c, Addr(i))
  BY <1>9, <1>10 DEF Reached
<1>13. ASSUME NEW k \in DOMAIN c, c[k].inst_type # NOP, Addr(j) <= Addr(k) PROVE Addr(i) <= Addr(k)
  <2>1. k \in Nat /\ j <= k
    BY <1>1, <1>13, Addresses DEF Addr, CodeBase
  <2>2. i <= k
    BY <1>5, <1>13, <2>1
  <2> QED BY <1>9, <2>1, <2>2 DEF Addr, CodeBase
<1>14. Addr(j) <= Addr(i)
  BY <1>9 DEF Addr, CodeBase
<1> HIDE DEF next
<1> QED BY <1>8, <1>9, <1>11, <1>12, <1>13, <1>14 DEF next

(***************************************************************************)
(* Instructions come from the code, and none is left out.                  *)
(***************************************************************************)
\* An instruction as fetch leaves it.
Fetched(c, op) ==
  \/ op.inst_type = 0
  \/ \E k \in Nat :
       /\ op.pc = Addr(k)
       /\ op.rd_value = 0 /\ op.rs1_valid = INVALID /\ op.rs2_valid = INVALID
       /\ k \in DOMAIN c =>
            /\ op.inst_type = c[k].inst_type /\ op.rd = c[k].rd
            /\ op.rs1 = c[k].rs1 /\ op.rs2 = c[k].rs2 /\ op.buffer = c[k].imm

\* An instruction of the program that has been reached.
Origin(c, op) == op.inst_type # 0 => Reached(c, op.pc) /\ op.inst_type = At(c, op.pc).inst_type

EntryOrigin(c, e) ==
  \A i \in RobIndex : e[i].status = VALID =>
    /\ Reached(c, e[i].inst_ptr) /\ e[i].inst_type = At(c, e[i].inst_ptr).inst_type
    /\ e[i].inst_type \in RegisterTypes \cup {HALT}

EntryRegisters(c, e, rt) ==
  \A i \in Writing(e) : rt.reg_rename[e[i].rd].rename_tag = At(c, e[i].inst_ptr).rd

OriginInv ==
  /\ \E k \in Nat : pc = Addr(k)
  /\ Fetched(code, fetch_stage.op)
  /\ ~IsDecoded /\ drf.op.inst_type # HALT => Fetched(code, drf.op)
  /\ Origin(code, drf.op)
  /\ Renamed => rename.reg_rename[drf.op.rd].rename_tag = At(code, drf.op.pc).rd
  /\ EntryOrigin(code, rob.rob_entry)
  /\ \A i \in RobIndex : rob.rob_entry[i].status = VALID /\ rob.rob_entry[i].inst_type = HALT =>
       drf.op.inst_type = HALT
  /\ EntryRegisters(code, rob.rob_entry, rename)
  /\ DOMAIN regs = Regs

\* DRF stalls with an instruction that is in no queue, and is not decoded again.
StallInv ==
  drf.stalled = VALID =>
    /\ drf.op.inst_type \in RegisterTypes
    /\ \A i \in RobIndex : rob.rob_entry[i].status = VALID => rob.rob_entry[i].inst_ptr < drf.op.pc
    /\ step \notin {"push_front", "decode"} => drf.executed = INVALID

InEntry(e, k) == \E i \in RobIndex : e[i].status = VALID /\ e[i].inst_ptr = Addr(k)
InLatch(op, k) == op.inst_type # 0 /\ op.pc = Addr(k)

\* Behind a stalled instruction nothing is promised.
Front0 == IF drf.stalled = VALID THEN drf.op.pc ELSE pc

\* From the next instruction of the sequential machine on, everything but NOPs
\* that has been fetched is in the buffer or in the front latches.
Covered ==
  \A k \in DOMAIN code : golden.pc <= Addr(k) /\ Addr(k) < Front0 /\ code[k].inst_type # NOP =>
    InEntry(rob.rob_entry, k) \/ InLatch(drf.op, k) \/ InLatch(fetch_stage.op, k)

\* What fetch overwrites has moved on, or is fetched again.
Overwritten ==
  /\ drf.stalled # VALID /\ step \in {"decode", "fetch"} /\ fetch_stage.op.inst_type # 0 =>
       \/ drf.op.inst_type # 0 /\ fetch_stage.op.pc = drf.op.pc
       \/ fetch_stage.op.pc >= pc
  /\ step \notin {"decode", "fetch"} /\ drf.op.inst_type = HALT =>
       fetch_stage.op.inst_type = 0 \/ fetch_stage.op.pc >= pc

\* The next instruction of the sequential machine, and what has retired.
RetiredInv ==
  /\ Reached(code, golden.pc) /\ At(code, golden.pc).inst_type # NOP
  /\ \A k \in DOMAIN code : code[k].inst_type # NOP /\ retired < Addr(k) => golden.pc <= Addr(k)
  /\ retired < pc
  /\ drf.op.inst_type # 0 => retired < drf.op.pc
  /\ fetch_stage.op.inst_type # 0 => retired < fetch_stage.op.pc
  /\ \A i \in RobIndex : rob.rob_entry[i].status = VALID => retired < rob.rob_entry[i].inst_ptr

(***************************************************************************)
(* Values.  `e' are the entries of the buffer, `g' the register file.      *)
(***************************************************************************)
\* Entry j writes r in front of address p.
Writes(c, e, j, r, p) == j \in Writing(e) /\ At(c, e[j].inst_ptr).rd = r /\ e[j].inst_ptr < p

\* Entry j is the last to do so.
Newest(c, e, j, r, p) ==
  /\ Writes(c, e, j, r, p)
  /\ \A i \in RobIndex : Writes(c, e, i, r, p) => e[i].inst_ptr <= e[j].inst_ptr

\* What r holds in front of the instruction at p.
ValueOf(c, e, g, r, p, v) ==
  \/ v = g[r] /\ \A j \in RobIndex : ~Writes(c, e, j, r, p)
  \/ \E j \in RobIndex : Newest(c, e, j, r, p) /\ e[j].valid = VALID /\ e[j].rd_value = v

\* The tag of the instruction that writes it.
Producer(c, e, r, p, tag) == \E j \in RobIndex : Newest(c, e, j, r, p) /\ e[j].rd = tag

Operand(c, e, g, r, p, tag, valid, v) ==
  IF valid = INVALID THEN Producer(c, e, r, p, tag) ELSE ValueOf(c, e, g, r, p, v)

Operands(c, e, g, op) ==
  /\ op.inst_type \in Sourced1 =>
       Operand(c, e, g, At(c, op.pc).rs1, op.pc, op.rs1, op.rs1_valid, op.rs1_value)
  /\ op.inst_type \in TwoSource =>
       Operand(c, e, g, At(c, op.pc).rs2, op.pc, op.rs2, op.rs2_valid, op.rs2_value)

Ready(c, e, g, op) ==
  /\ op.inst_type \in Sourced1  => ValueOf(c, e, g, At(c, op.pc).rs1, op.pc, op.rs1_value)
  /\ op.inst_type \in TwoSource => ValueOf(c, e, g, At(c, op.pc).rs2, op.pc, op.rs2_value)

\* The result of an instruction on the register file g.
Outcome(in, g) ==
  Result(in.inst_type, g[in.rs1], IF in.inst_type \in UsesLiteral THEN in.imm ELSE g[in.rs2], 0)

\* v is the result of the instruction at p.
Correct(c, e, g, p, v) ==
  \E a, b :
    /\ At(c, p).inst_type \in Sourced1    => ValueOf(c, e, g, At(c, p).rs1, p, a)
    /\ At(c, p).inst_type \in TwoSource   => ValueOf(c, e, g, At(c, p).rs2, p, b)
    /\ At(c, p).inst_type \in UsesLiteral => b = At(c, p).imm
    /\ v = Result(At(c, p).inst_type, a, b, 0)

\* The units whose result is there.
Computed(u) ==
  \/ u = "INT_TWO" /\ step \in {"mul_one", "mul_three", "branch", "mem", "writeback"}
  \/ u = "MUL_THREE" /\ step \in {"branch", "mem", "writeback"}

Carried(c, op) ==
  op.buffer = At(c, op.pc).imm /\ "rd_value" \in DOMAIN op /\ op.rd_value = 0

EntriesCorrect(c, e, g) ==
  \A i \in Writing(e) :
    /\ "rd_value" \in DOMAIN e[i]
    /\ e[i].valid = VALID => Correct(c, e, g, e[i].inst_ptr, e[i].rd_value)

QueueCorrect(c, e, g, q) ==
  \A i \in IqIndex : q[i].status = VALID => Carried(c, q[i].op) /\ Operands(c, e, g, q[i].op)

LatchCorrect(c, e, g, op) ==
  op.inst_type \in RegisterTypes => Carried(c, op) /\ Operands(c, e, g, op)

UnitsCorrect(c, e, g, open) ==
  \A u \in FrontUnits \cap open : stage[u].inst_type # 0 =>
    IF Computed(u) THEN Correct(c, e, g, stage[u].pc, stage[u].rd_value)
    ELSE Carried(c, stage[u]) /\ Ready(c, e, g, stage[u])

ValueInv ==
  /\ EntriesCorrect(code, rob.rob_entry, regs)
  /\ QueueCorrect(code, rob.rob_entry, regs, iq)
  /\ IsDecoded => LatchCorrect(code, rob.rob_entry, regs, drf.op)
  /\ UnitsCorrect(code, rob.rob_entry, regs, Open)

\* The sequential machine has what the machine has.
Mach ==
  /\ {"pc", "regs", "mem", "zf", "retired", "halted"} = DOMAIN golden
  /\ golden = [golden EXCEPT !.regs = regs, !.retired = retired, !.halted = (ret = HALT)]

Running == OriginInv /\ StallInv /\ Covered /\ Overwritten /\ RetiredInv /\ ValueInv

IsaInv == Mach /\ (ret = 0 => Running)

-----------------------------------------------------------------------------
(***************************************************************************)
(* Every handler keeps the origin of instructions.                         *)
(***************************************************************************)
LEMMA WindowRange ==
  ASSUME NEW r, RobInv(r), NEW low, NEW high, RobOrder(r, low, high),
         NEW i \in RobIndex, r.rob_entry[i].status = VALID
  PROVE  /\ r.rob_entry[i].inst_ptr \in Int
         /\ low <= r.rob_entry[i].inst_ptr /\ r.rob_entry[i].inst_ptr <= high
<1> DEFINE c == Slot(r.commit_ptr)
           j == IF i >= c THEN i - c ELSE i - c + ROB_SIZE
<1>1. c \in 0 .. ROB_SIZE - 1 /\ i \in 0 .. ROB_SIZE - 1
  BY SlotIsIndex DEF RobIndex, RobInv, RobShape
<1>2. j \in RobIndex /\ PositionIn(r, j) = i
  BY <1>1 DEF PositionIn, RobIndex
<1> HIDE DEF j
<1>3. j < r.buffer_length
  BY <1>2 DEF RobInv, IsWindow
<1> QED BY <1>2, <1>3 DEF RobOrder

LEMMA ReachedAt ==
  ASSUME RegisterPrograms, NEW c \in Programs, NEW p, Reached(c, p)
  PROVE  \E k \in DOMAIN c : /\ k \in Nat /\ p = Addr(k) /\ At(c, p) = c[k]
                             /\ \A m \in DOMAIN c : c[m].inst_type = HALT => k <= m
<1>1. PICK k \in DOMAIN c : p = Addr(k) /\ \A m \in DOMAIN c : c[m].inst_type = HALT => k <= m
  BY DEF Reached
<1>2. k \in Nat
  BY IndicesAreNat
<1>3. At(c, p) = c[k]
  BY <1>1, <1>2, Addresses DEF At
<1> QED BY <1>1, <1>2, <1>3

LEMMA FetchedReached ==
  ASSUME RegisterPrograms, NEW c \in Programs, NEW op, Fetched(c, op), op.inst_type # 0,
         Reached(c, op.pc)
  PROVE  LET in == At(c, op.pc)
         IN  /\ op.inst_type = in.inst_type /\ op.rd = in.rd /\ op.rs1 = in.rs1 /\ op.rs2 = in.rs2
             /\ op.buffer = in.imm /\ op.rd_value = 0 /\ op.rs1_valid = INVALID /\ op.rs2_valid = INVALID
<1>1. PICK k \in DOMAIN c : k \in Nat /\ op.pc = Addr(k) /\ At(c, op.pc) = c[k]
  BY ReachedAt
<1>2. PICK j \in Nat :
        /\ op.pc = Addr(j) /\ op.rd_value = 0 /\ op.rs1_valid = INVALID /\ op.rs2_valid = INVALID
        /\ j \in DOMAIN c =>
             /\ op.inst_type = c[j].inst_type /\ op.rd = c[j].rd
             /\ op.rs1 = c[j].rs1 /\ op.rs2 = c[j].rs2 /\ op.buffer = c[j].imm
  BY DEF Fetched
<1>3. j = k
  <2>1. Addr(j) = Addr(k)
    BY <1>1, <1>2
  <2> QED BY <1>1, <2>1 DEF Addr, CodeBase
<1> QED BY <1>1, <1>2, <1>3

\* What the back of the machine does leaves the front as it is.
LEMMA QuietOrigin ==
  ASSUME WorkInv, OriginInv, StallInv, Covered, Overwritten, RetiredInv,
         {step, step'} \cap {"push_front", "decode", "fetch"} = {},
         SameLatch(drf', drf), drf'.executed = drf.executed,
         UNCHANGED <<fetch_stage, pc, code, golden, retired, rename>>, DOMAIN regs' = DOMAIN regs,
         SameEntries(rob'.rob_entry, rob.rob_entry)
  PROVE  (OriginInv /\ StallInv /\ Covered /\ Overwritten /\ RetiredInv)'
<1> DEFINE e == rob.rob_entry
           f == rob'.rob_entry
<1>1. /\ drf'.op.inst_type = drf.op.inst_type /\ drf'.op.pc = drf.op.pc /\ drf'.op.rd = drf.op.rd
      /\ drf'.stalled = drf.stalled
  BY DEF SameLatch, SameInst
<1>2. \A i \in RobIndex : /\ f[i].status = e[i].status /\ f[i].inst_ptr = e[i].inst_ptr
                          /\ f[i].inst_type = e[i].inst_type /\ f[i].rd = e[i].rd
  BY DEF SameEntries
<1>3. IsDecoded /\ IsDecoded'
  BY DEF IsDecoded
<1>4. Writing(f) = Writing(e)
  BY <1>2 DEF Writing
<1> HIDE DEF e, f
<1>5. EntryOrigin(code, f) /\ EntryRegisters(code, f, rename)
  <2>1. EntryOrigin(code, e) /\ EntryRegisters(code, e, rename)
    BY DEF OriginInv, e
  <2>2. EntryOrigin(code, f)
    BY <1>2, <2>1 DEF EntryOrigin
  <2>3. EntryRegisters(code, f, rename)
    BY <1>2, <1>4, <2>1 DEF EntryRegisters, Writing
  <2> QED BY <2>2, <2>3
<1>6. OriginInv'
  <2>1. (\E k \in Nat : pc = Addr(k))' /\ Fetched(code, fetch_stage.op)' /\ DOMAIN regs' = Regs
    BY DEF OriginInv
  <2>2. Origin(code, drf.op)'
    BY <1>1 DEF OriginInv, Origin
  <2>3. (Renamed => rename.reg_rename[drf.op.rd].rename_tag = At(code, drf.op.pc).rd)'
    BY <1>1 DEF OriginInv, Renamed
  <2>4. \A i \in RobIndex : f[i].status = VALID /\ f[i].inst_type = HALT => drf'.op.inst_type = HALT
    BY <1>1, <1>2 DEF OriginInv, e
  <2> QED BY <1>3, <1>5, <2>1, <2>2, <2>3, <2>4 DEF OriginInv, f
<1>7. StallInv'
  BY <1>1, <1>2 DEF StallInv, e, f
<1>8. Covered'
  <2>1. Front0' = Front0 /\ \A k : InEntry(e, k) => InEntry(f, k)
    BY <1>1, <1>2 DEF Front0, InEntry
  <2>2. \A k : InLatch(drf.op, k) => InLatch(drf'.op, k)
    BY <1>1 DEF InLatch
  <2> QED BY <2>1, <2>2 DEF Covered, e, f
<1>9. Overwritten'
  BY <1>1 DEF Overwritten
<1>10. RetiredInv'
  <2>1. \A i \in RobIndex : f[i].status = VALID => retired < f[i].inst_ptr
    BY <1>2 DEF RetiredInv, e
  <2> QED BY <1>1, <2>1 DEF RetiredInv, f
<1> QED BY <1>6, <1>7, <1>8, <1>9, <1>10

\* Fetch reads the code, at pc.
LEMMA FetchCases ==
  ASSUME WorkInv, OriginInv, Fetch
  PROVE  /\ step = "fetch" /\ step' = "push_units"
         /\ UNCHANGED <<drf, rename, regs, rob, iq, lsq, stage, mem_stage, code, ret, retired, golden>>
         /\ Fetched(code, fetch_stage'.op)
         /\ fetch_stage'.op.pc = pc
         /\ \/ /\ fetch_stage.stalled = INVALID /\ drf.op.inst_type # HALT
               /\ \/ pc' = pc /\ fetch_stage'.op.inst_type = 0
                  \/ pc' = pc + 4 /\ fetch_stage'.op.inst_type # 0
            \/ drf.op.inst_type = HALT /\ pc' = pc
<1>1. PICK k \in Nat : pc = Addr(k)
  BY DEF OriginInv
<1>2. "op" \in DOMAIN fetch_stage /\ fetch_stage.stalled \in Flag
  BY DEF WorkInv, FrontOnce, FrontShape
<1>3. fetch_stage.stalled = VALID => drf.op.inst_type = HALT
  BY NotWork DEF Fetch, Turn, WorkInv, FrontOnce, HaltStays
<1>4. fetch_stage.stalled = INVALID => drf.op.inst_type # HALT
  BY NotWork DEF Fetch, Turn, WorkInv, FrontOnce, HaltStays
<1>5. ASSUME NEW in \in Fetchable
      PROVE  /\ FetchedOp(in).inst_type = in.inst_type /\ FetchedOp(in).pc = pc
             /\ Fetched(code, FetchedOp(in))
  <2> DEFINE o == FetchedOp(in)
  <2>1. /\ o.inst_type = in.inst_type /\ o.pc = pc /\ o.rd_value = 0 /\ o.rs1_valid = INVALID
        /\ o.rs2_valid = INVALID /\ o.rd = in.rd /\ o.rs1 = in.rs1 /\ o.rs2 = in.rs2
        /\ o.buffer = in.imm
    BY DEF FetchedOp, NoOp
  <2>2. k \in DOMAIN code => in = code[k]
    BY <1>1, Addresses DEF Fetchable
  <2> HIDE DEF o
  <2>3. Fetched(code, o)
    BY <1>1, <2>1, <2>2 DEF Fetched
  <2> QED BY <2>1, <2>3 DEF o
<1>6. PICK in \in Fetchable :
        /\ fetch_stage'.op = FetchedOp(in)
        /\ \/ fetch_stage.stalled = INVALID /\ pc' = IF in.inst_type = 0 THEN pc ELSE pc + 4
           \/ fetch_stage.stalled = VALID /\ drf.op.inst_type = HALT /\ pc' = pc
  <2>1. CASE fetch_stage.stalled = INVALID
    BY <1>2, <2>1, NotWork DEF Fetch
  <2>2. CASE fetch_stage.stalled = VALID
    BY <1>2, <1>3, <2>2, NotWork DEF Fetch
  <2> QED BY <1>2, <2>1, <2>2 DEF Flag
<1>7. /\ step = "fetch" /\ step' = "push_units"
      /\ UNCHANGED <<drf, rename, regs, rob, iq, lsq, stage, mem_stage, code, ret, retired, golden>>
  BY DEF Fetch, Turn, archVars, backVars, queueVars, histVars
<1> QED BY <1>4, <1>5, <1>6, <1>7

LEMMA FetchOrigin ==
  ASSUME RegisterPrograms, WorkInv, OriginInv, StallInv, Covered, Overwritten, RetiredInv, Fetch
  PROVE  (OriginInv /\ StallInv /\ Covered /\ Overwritten /\ RetiredInv)'
<1> DEFINE o == fetch_stage'.op
<1>1. /\ step = "fetch" /\ step' = "push_units" /\ UNCHANGED <<drf, rename, regs, rob, code, retired, golden>>
      /\ Fetched(code, o) /\ o.pc = pc
      /\ \/ drf.op.inst_type # HALT /\ pc' = pc /\ o.inst_type = 0
         \/ drf.op.inst_type # HALT /\ pc' = pc + 4 /\ o.inst_type # 0
         \/ drf.op.inst_type = HALT /\ pc' = pc
  BY FetchCases
<1>2. PICK n \in Nat : pc = Addr(n)
  BY DEF OriginInv
<1>3. IsDecoded /\ IsDecoded'
  BY <1>1 DEF IsDecoded
<1>4. (\E k \in Nat : pc = Addr(k))'
  <2>1. pc + 4 = Addr(n + 1) /\ n + 1 \in Nat
    BY <1>2, Addresses
  <2> QED BY <1>1, <1>2, <2>1
<1> HIDE DEF o
<1>5. OriginInv'
  BY <1>1, <1>3, <1>4 DEF OriginInv, Renamed, o
<1>6. StallInv'
  BY <1>1 DEF StallInv
<1>7. /\ drf.op.pc \in Int /\ fetch_stage.op.pc \in Int /\ pc \in Int
      /\ drf.op.pc <= fetch_stage.op.pc /\ fetch_stage.op.pc <= pc
      /\ drf.op.inst_type = HALT => drf.stalled # VALID
  BY DEF WorkInv, OrderInv, FrontInv, Latch, PlainOp, FrontOnce, HaltStays
<1>8. Covered'
  <2> SUFFICES ASSUME NEW k \in DOMAIN code, golden.pc <= Addr(k), Addr(k) < Front0', code[k].inst_type # NOP
               PROVE  InEntry(rob.rob_entry, k) \/ InLatch(drf.op, k) \/ InLatch(o, k)
    BY <1>1 DEF Covered, o
  <2>1. k \in Nat /\ Addr(k) \in Int
    BY IndicesAreNat, Addresses DEF WorkInv, OrderInv
  <2>2. CASE drf.stalled = VALID
    <3>1. Addr(k) < Front0 /\ Addr(k) < drf.op.pc
      BY <1>1, <2>2 DEF Front0
    <3>2. ~InLatch(fetch_stage.op, k)
      BY <1>7, <2>1, <3>1 DEF InLatch
    <3> QED BY <3>1, <3>2 DEF Covered
  <2>3. CASE drf.stalled # VALID
    <3>1. CASE Addr(k) < pc
      <4>1. \/ InEntry(rob.rob_entry, k) \/ InLatch(drf.op, k) \/ InLatch(fetch_stage.op, k)
        BY <2>3, <3>1 DEF Covered, Front0
      <4>2. InLatch(fetch_stage.op, k) => InLatch(drf.op, k)
        BY <1>1, <1>7, <2>1, <2>3, <3>1 DEF Overwritten, InLatch
      <4> QED BY <4>1, <4>2
    <3>2. CASE ~ (Addr(k) < pc)
      <4>1. Addr(k) < pc' /\ pc' = pc + 4 /\ o.inst_type # 0
        BY <1>1, <1>7, <2>1, <2>3, <3>2 DEF Front0
      <4>2. k = n
        BY <1>2, <2>1, <3>2, <4>1 DEF Addr, CodeBase
      <4> QED BY <1>1, <1>2, <4>1, <4>2 DEF InLatch
    <3> QED BY <3>1, <3>2
  <2> QED BY <2>2, <2>3
<1>9. Overwritten'
  BY <1>1, <1>7 DEF Overwritten, o
<1>10. retired \in Int /\ retired < pc
  BY DEF RetiredInv, WorkInv, OrderInv, RobOrder
<1>11. RetiredInv'
  <2>1. retired < pc' /\ retired < o.pc
    BY <1>1, <1>7, <1>10
  <2> QED BY <1>1, <2>1 DEF RetiredInv, o
<1> QED BY <1>5, <1>6, <1>8, <1>9, <1>11

\* Decode names the register of the instruction in DRF, with a tag nobody has.
LEMMA DecodeNames ==
  ASSUME EnoughTags, WorkInv, TagInv, Decode
  PROVE  /\ step = "decode" /\ step' = "fetch"
         /\ UNCHANGED <<pc, regs, rob, iq, lsq, stage, mem_stage, code, ret, retired, golden>>
         /\ fetch_stage'.op = fetch_stage.op /\ drf'.stalled = drf.stalled
         /\ drf'.op.inst_type = drf.op.inst_type /\ drf'.op.pc = drf.op.pc
         /\ drf.stalled = VALID => drf'.op = drf.op /\ rename' = rename /\ drf'.executed = INVALID
         /\ drf.stalled # VALID /\ drf.op.inst_type \in Writers =>
              rename'.reg_rename[drf'.op.rd].rename_tag = drf.op.rd
         /\ \A i \in Writing(rob.rob_entry) :
              LET rd == rob.rob_entry[i].rd
              IN  rename'.reg_rename[rd].rename_tag = rename.reg_rename[rd].rename_tag
<1> DEFINE e == rob.rob_entry
           ptr == rob.issue_ptr
<1>1. /\ step = "decode" /\ step' = "fetch"
      /\ UNCHANGED <<pc, regs, rob, iq, lsq, stage, mem_stage, code, ret, retired, golden>>
      /\ ptr \in 0 .. ROB_SIZE
      /\ {"op", "stalled", "executed"} \subseteq DOMAIN drf /\ HasInst(drf.op)
      /\ {"op", "stalled"} \subseteq DOMAIN fetch_stage
  BY DEF Decode, Turn, queueVars, backVars, histVars, WorkInv, OrderInv, RobInv, RobShape, FrontOnce, FrontShape
<1>2. drf'.op.inst_type = drf.op.inst_type /\ drf'.op.pc = drf.op.pc /\ drf'.stalled = drf.stalled
  BY <1>1, DecodedOp DEF DecodeStalled, Decoded, SameFront
<1>3. fetch_stage'.op = fetch_stage.op
  BY <1>1 DEF Decode, DecodeStalled, DecodeStore, DecodeLoad, DecodeMove, DecodeLiteral,
              DecodeTwoSource, DecodeDivExor, DecodeJump, DecodeHalt, DecodePlain
<1>4. CASE drf.stalled = VALID
  <2>1. drf'.op = drf.op /\ rename' = rename /\ drf'.executed = INVALID
    BY <1>1, <1>4 DEF Decode, DecodeStalled
  <2> QED BY <1>1, <1>2, <1>3, <1>4, <2>1
<1>5. CASE drf.stalled # VALID
  <2>1. CASE drf.op.inst_type \notin Writers
    <3>1. rename' = rename
      BY <1>1, <1>5, <2>1, DecodeWrites
    <3> QED BY <1>1, <1>2, <1>3, <1>5, <2>1, <3>1
  <2>2. CASE drf.op.inst_type \in Writers
    <3> DEFINE tag == FirstFreeTag(rename)
               rt2 == rename_desc_reg(rename, drf.op.rd)
    <3>1. ~Renamed /\ ~Pending
      BY <1>1, <1>5 DEF Renamed, Pending
    <3>2. /\ TableShape(rename) /\ TagsInOrder(e, rename) /\ LastInUse(e, rename)
          /\ TagsRecent(e, ptr, rename, 0)
          /\ \A t \in TagIndex : Tagged(rename, t) => InBuffer(e, t)
      BY <3>1 DEF TagInv
    <3>3. can_rename_reg_tag(rename) /\ tag \in TagIndex /\ ~Tagged(rename, tag)
      BY <1>1, <3>2, TagFound
    <3>4. rename' = rt2 /\ drf'.op.rd = tag
      <4>1. PICK op : HasInst(op) /\ op.rd = drf.op.rd /\ RenameDest(op)
        BY <1>1, <1>5, <2>2, DecodeWrites
      <4> QED BY <1>1, <3>3, <4>1 DEF RenameDest, Decoded, HasInst
    <3> HIDE DEF tag, rt2
    <3>5. \A t \in TagIndex : rt2.reg_rename[t].rename_tag =
                                 IF t = tag THEN drf.op.rd ELSE rename.reg_rename[t].rename_tag
      BY <1>1, <3>2, RenameTags DEF tag, rt2
    <3>6. \A i \in Writing(e) : e[i].rd \in TagIndex /\ e[i].rd # tag
      BY <3>2, <3>3 DEF TagsRecent, Tagged
    <3> QED BY <1>1, <1>2, <1>3, <1>5, <3>3, <3>4, <3>5, <3>6
  <2> QED BY <2>1, <2>2
<1> QED BY <1>4, <1>5

LEMMA DecodeOrigin ==
  ASSUME RegisterPrograms, EnoughTags, WorkInv, TagInv, OriginInv, StallInv, Covered, Overwritten,
         RetiredInv, Decode
  PROVE  (OriginInv /\ StallInv /\ Covered /\ Overwritten /\ RetiredInv)'
<1> DEFINE e == rob.rob_entry
<1>1. /\ step = "decode" /\ step' = "fetch" /\ UNCHANGED <<pc, regs, rob, code, retired, golden>>
      /\ fetch_stage'.op = fetch_stage.op /\ drf'.stalled = drf.stalled
      /\ drf'.op.inst_type = drf.op.inst_type /\ drf'.op.pc = drf.op.pc
      /\ drf.stalled = VALID => drf'.op = drf.op /\ rename' = rename /\ drf'.executed = INVALID
  BY DecodeNames
<1>2. drf.stalled # VALID /\ drf.op.inst_type \in Writers =>
        rename'.reg_rename[drf'.op.rd].rename_tag = drf.op.rd
  BY DecodeNames
<1>3. EntryRegisters(code, e, rename)'
  <2>1. \A i \in Writing(e) : LET rd == e[i].rd
                              IN  rename'.reg_rename[rd].rename_tag = rename.reg_rename[rd].rename_tag
    BY DecodeNames
  <2> QED BY <1>1, <2>1 DEF OriginInv, EntryRegisters
<1>4. Renamed' => rename'.reg_rename[drf'.op.rd].rename_tag = At(code, drf.op.pc).rd
  <2>1. CASE drf.stalled = VALID
    BY <1>1, <2>1 DEF OriginInv, Renamed
  <2>2. CASE drf.stalled # VALID
    <3>1. ASSUME drf.op.inst_type \in Writers PROVE drf.op.rd = At(code, drf.op.pc).rd
      <4>1. drf.op.inst_type # 0 /\ Fetched(code, drf.op) /\ Reached(code, drf.op.pc)
        BY <1>1, <2>2, <3>1, WriterTypes DEF OriginInv, Origin, IsDecoded
      <4> QED BY <4>1, FetchedReached DEF WorkInv, OrderInv
    <3> QED BY <1>1, <1>2, <2>2, <3>1 DEF Renamed
  <2> QED BY <2>1, <2>2
<1>5. OriginInv'
  <2>1. IsDecoded'
    BY <1>1 DEF IsDecoded
  <2>2. Origin(code, drf.op)'
    BY <1>1 DEF OriginInv, Origin
  <2> QED BY <1>1, <1>3, <1>4, <2>1, <2>2 DEF OriginInv
<1>6. StallInv'
  BY <1>1 DEF StallInv
<1>7. Covered'
  BY <1>1 DEF Covered, Front0, InLatch
<1>8. Overwritten'
  BY <1>1 DEF Overwritten
<1>9. RetiredInv'
  BY <1>1 DEF RetiredInv
<1> QED BY <1>5, <1>6, <1>7, <1>8, <1>9

\* A stall is for an instruction that has not been dispatched.
LEMMA DispatchStalls ==
  ASSUME WorkInv, Dispatch
  PROVE  /\ drf.executed # VALID => UNCHANGED <<rob, iq, lsq, drf, fetch_stage>>
         /\ Adds => drf.op.inst_type \in MemOps \cup (MOVC .. HALT)
         /\ Stalls /\ ~ UNCHANGED <<drf, fetch_stage>> => drf.op.inst_type \in MemOps \cup (MOVC .. JUMP)
<1>1. drf.executed # VALID \/ drf.op.inst_type \notin MemOps \cup (MOVC .. HALT) =>
        UNCHANGED <<rob, iq, lsq, drf, fetch_stage>>
  BY DEF Dispatch, queueVars
<1>2. RobInv(rob)
  BY DEF WorkInv, OrderInv
<1>3. Adds => rob' # rob
  <2> SUFFICES ASSUME Adds, rob' = rob PROVE FALSE
    OBVIOUS
  <2>1. add_reorder_buffer_entry(rob, drf.op).buffer_length = rob.buffer_length + 1
    BY <1>2, AddFields DEF Adds
  <2>2. rob.buffer_length = rob.buffer_length + 1
    BY <2>1 DEF Adds
  <2> QED BY <1>2, <2>2 DEF RobInv, RobShape
<1>4. drf.op.inst_type \in MOVC .. HALT /\ drf.op.inst_type # HALT => drf.op.inst_type \in MOVC .. JUMP
  BY DEF MOVC, HALT, JUMP
<1> QED BY <1>1, <1>3, <1>4 DEF Stalls

\* What enters the buffer is an instruction of the program on registers, or HALT.
LEMMA DispatchEntries ==
  ASSUME RegisterPrograms, WorkInv, OriginInv, Dispatch
  PROVE  LET e == rob.rob_entry
             f == rob'.rob_entry
             s == Slot(rob.issue_ptr)
             type == drf.op.inst_type
         IN  /\ drf'.op = drf.op /\ fetch_stage'.op = fetch_stage.op
             /\ \/ f = e
                \/ /\ s \in RobIndex /\ type \in MemOps \cup (MOVC .. HALT) /\ e[s].status # VALID
                   /\ \A i \in RobIndex : f[i] = IF i = s THEN NewRobEntry(drf.op) ELSE e[i]
             /\ type \in MemOps \cup (MOVC .. HALT) =>
                  /\ type \in RegisterTypes \cup {HALT} /\ type # 0
                  /\ Reached(code, drf.op.pc) /\ type = At(code, drf.op.pc).inst_type
<1> DEFINE e == rob.rob_entry
           f == rob'.rob_entry
           s == Slot(rob.issue_ptr)
           type == drf.op.inst_type
<1>1. /\ RobInv(rob) /\ code \in Programs
      /\ {"op", "stalled", "executed"} \subseteq DOMAIN drf
      /\ {"op", "stalled"} \subseteq DOMAIN fetch_stage
  BY DEF WorkInv, OrderInv, FrontOnce, FrontShape
<1>2. drf'.op = drf.op /\ fetch_stage'.op = fetch_stage.op
  <2>1. Stalls \/ UNCHANGED <<drf, fetch_stage>>
    BY <1>1, DispatchCases
  <2> QED BY <1>1, <2>1 DEF Stalls, StallFront
<1>3. \/ f = e
      \/ /\ s \in RobIndex /\ type \in MemOps \cup (MOVC .. HALT) /\ e[s].status # VALID
         /\ \A i \in RobIndex : f[i] = IF i = s THEN NewRobEntry(drf.op) ELSE e[i]
  <2>1. CASE Adds
    <3>1. s \in RobIndex /\ e[s].status # VALID /\ f = [e EXCEPT ![s] = NewRobEntry(drf.op)]
      BY <1>1, <2>1, AddFields, NotWork DEF Adds, can_add_entry_in_reorder_buffer
    <3> QED BY <1>1, <2>1, <3>1, DispatchStalls DEF RobInv, RobShape
  <2> QED BY <1>1, <2>1, DispatchCases
<1>4. type \in MemOps \cup (MOVC .. HALT) =>
        /\ type \in RegisterTypes \cup {HALT} /\ type # 0
        /\ Reached(code, drf.op.pc) /\ type = At(code, drf.op.pc).inst_type
  <2> SUFFICES ASSUME type \in MemOps \cup (MOVC .. HALT)
               PROVE  /\ type \in RegisterTypes \cup {HALT} /\ type # 0
                      /\ Reached(code, drf.op.pc) /\ type = At(code, drf.op.pc).inst_type
    OBVIOUS
  <2>1. type \notin {0, NOP}
    BY DEF MemOps, Loads, Stores, STORE, STR, LOAD, LDR, MOVC, HALT, NOP
  <2>2. Reached(code, drf.op.pc) /\ type = At(code, drf.op.pc).inst_type
    BY <2>1 DEF OriginInv, Origin
  <2>3. type \in RegisterTypes \cup {HALT, NOP, 0}
    BY <1>1, <2>2, ReachedAt DEF RegisterPrograms
  <2> QED BY <2>1, <2>2, <2>3
<1> QED BY <1>2, <1>3, <1>4

LEMMA DispatchOrigin ==
  ASSUME RegisterPrograms, WorkInv, OriginInv, StallInv, Covered, Overwritten, RetiredInv, Dispatch
  PROVE  (OriginInv /\ StallInv /\ Covered /\ Overwritten /\ RetiredInv)'
<1> DEFINE e == rob.rob_entry
           f == rob'.rob_entry
           s == Slot(rob.issue_ptr)
           type == drf.op.inst_type
<1>1. /\ step = "dispatch" /\ step' = "push_front" /\ UNCHANGED <<pc, regs, rename, code, retired, golden>>
      /\ RobInv(rob) /\ code \in Programs
      /\ {"op", "stalled", "executed"} \subseteq DOMAIN drf
      /\ {"op", "stalled"} \subseteq DOMAIN fetch_stage
      /\ Below(e, drf.op) /\ drf.op.pc \in Int /\ pc \in Int
      /\ drf.op.pc <= fetch_stage.op.pc /\ fetch_stage.op.pc <= pc /\ fetch_stage.op.pc \in Int
  BY DEF Dispatch, Turn, archVars, histVars, WorkInv, OrderInv, FrontInv, Latch, PlainOp, FrontOnce,
         FrontShape, NotYetDispatched
<1>2. drf'.op = drf.op /\ fetch_stage'.op = fetch_stage.op
  BY DispatchEntries
<1>3. \/ UNCHANGED drf /\ (f = e \/ drf.executed = VALID)
      \/ drf'.stalled = VALID /\ f = e /\ drf.executed = VALID /\ type \in MemOps \cup (MOVC .. JUMP)
  <2>1. CASE Stalls /\ ~ UNCHANGED <<drf, fetch_stage>>
    <3>1. f = e
      BY <1>1, <2>1, DispatchCases
    <3> QED BY <1>1, <2>1, <3>1, DispatchStalls DEF Stalls, StallFront
  <2>2. CASE UNCHANGED <<drf, fetch_stage>>
    BY <2>2, DispatchStalls
  <2> QED BY <1>1, <2>1, <2>2, DispatchCases
<1>4. \/ f = e
      \/ /\ s \in RobIndex /\ type \in MemOps \cup (MOVC .. HALT) /\ e[s].status # VALID
         /\ \A i \in RobIndex : f[i] = IF i = s THEN NewRobEntry(drf.op) ELSE e[i]
  BY DispatchEntries
<1>5. type \in MemOps \cup (MOVC .. HALT) =>
        /\ type \in RegisterTypes \cup {HALT} /\ type # 0
        /\ Reached(code, drf.op.pc) /\ type = At(code, drf.op.pc).inst_type
  BY DispatchEntries
<1>6. /\ NewRobEntry(drf.op).status = VALID /\ NewRobEntry(drf.op).inst_ptr = drf.op.pc
      /\ NewRobEntry(drf.op).inst_type = type /\ NewRobEntry(drf.op).rd = drf.op.rd
  BY DEF NewRobEntry
<1>7. \A i \in RobIndex : f[i].status = VALID =>
        \/ e[i].status = VALID /\ f[i] = e[i]
        \/ /\ type \in MemOps \cup (MOVC .. HALT) /\ f[i].inst_ptr = drf.op.pc
           /\ f[i].inst_type = type /\ f[i].rd = drf.op.rd
  BY <1>4, <1>6
<1> HIDE DEF e, f, s, type
<1>8. EntryOrigin(code, f)
  <2>1. EntryOrigin(code, e)
    BY DEF OriginInv, e
  <2> QED BY <1>5, <1>7, <2>1 DEF EntryOrigin
<1>9. EntryRegisters(code, f, rename)
  <2> SUFFICES ASSUME NEW i \in Writing(f)
               PROVE  rename.reg_rename[f[i].rd].rename_tag = At(code, f[i].inst_ptr).rd
    BY DEF EntryRegisters
  <2>1. i \in RobIndex /\ f[i].status = VALID /\ f[i].inst_type \in Writers
    BY DEF Writing
  <2>2. CASE e[i].status = VALID /\ f[i] = e[i]
    BY <2>1, <2>2 DEF OriginInv, EntryRegisters, Writing, e
  <2>3. CASE f[i].inst_ptr = drf.op.pc /\ f[i].inst_type = type /\ f[i].rd = drf.op.rd
    <3>1. Renamed
      BY <1>1, <2>1, <2>3 DEF Renamed, type
    <3> QED BY <2>3, <3>1 DEF OriginInv
  <2> QED BY <1>7, <2>1, <2>2, <2>3
<1>10. OriginInv'
  <2>1. IsDecoded /\ IsDecoded'
    BY <1>1 DEF IsDecoded
  <2>2. Renamed' <=> Renamed
    BY <1>1, <1>2 DEF Renamed
  <2>3. \A i \in RobIndex : f[i].status = VALID /\ f[i].inst_type = HALT => drf.op.inst_type = HALT
    BY <1>7 DEF OriginInv, e, type
  <2> QED BY <1>1, <1>2, <1>8, <1>9, <2>1, <2>2, <2>3 DEF OriginInv, f
<1>11. StallInv'
  <2>1. CASE UNCHANGED drf /\ (f = e \/ drf.executed = VALID)
    <3>1. drf.stalled = VALID => drf.executed = INVALID
      BY <1>1 DEF StallInv
    <3>2. drf.stalled = VALID => f = e
      BY <2>1, <3>1, NotWork
    <3> QED BY <1>1, <2>1, <3>2 DEF StallInv, e, f
  <2>2. CASE drf'.stalled = VALID /\ f = e /\ drf.executed = VALID /\ type \in MemOps \cup (MOVC .. JUMP)
    <3>1. type # HALT
      BY <2>2 DEF HALT, JUMP, MOVC, MemOps, Stores, Loads, STORE, STR, LOAD, LDR
    <3>2. type \in RegisterTypes
      BY <1>5, <2>2, <3>1 DEF HALT, JUMP, MOVC
    <3>3. \A i \in RobIndex : f[i].status = VALID => f[i].inst_ptr < drf.op.pc
      BY <1>1, <2>2, <3>1 DEF Below, type
    <3> QED BY <1>1, <1>2, <3>2, <3>3 DEF StallInv, f, type
  <2> QED BY <1>3, <2>1, <2>2
<1>12. Covered'
  <2>1. \A k : InEntry(e, k) => InEntry(f, k)
    <3>1. \A i \in RobIndex : e[i].status = VALID => f[i] = e[i]
      BY <1>4
    <3> QED BY <3>1 DEF InEntry
  <2>2. \A k \in DOMAIN code : Addr(k) \in Int
    BY <1>1, IndicesAreNat, Addresses
  <2>3. \A k \in DOMAIN code : Addr(k) < Front0' => Addr(k) < Front0
    BY <1>1, <1>2, <1>3, <2>2 DEF Front0
  <2> QED BY <1>1, <1>2, <2>1, <2>3 DEF Covered, e, f
<1>13. Overwritten'
  BY <1>1, <1>2 DEF Overwritten
<1>14. RetiredInv'
  <2>1. \A i \in RobIndex : f[i].status = VALID => retired < f[i].inst_ptr
    BY <1>5, <1>7 DEF RetiredInv, e, type
  <2> QED BY <1>1, <1>2, <2>1 DEF RetiredInv, f
<1> QED BY <1>10, <1>11, <1>12, <1>13, <1>14

LEMMA AtAddr ==
  ASSUME NEW c, NEW k \in Int PROVE At(c, Addr(k)) = c[k]
  BY Addresses DEF At

\* What DRF hands on is in the buffer; what it gets was not fetched behind a HALT.
LEMMA PushFrontOrigin ==
  ASSUME RegisterPrograms, WorkInv, TagInv, OriginInv, StallInv, Covered, Overwritten, RetiredInv,
         PushFront, Kept
  PROVE  (OriginInv /\ StallInv /\ Covered /\ Overwritten /\ RetiredInv)'
<1> DEFINE e == rob.rob_entry
<1>1. /\ step = "push_front" /\ step' = "decode"
      /\ UNCHANGED <<pc, regs, rename, rob, code, retired, golden>>
      /\ code \in Programs /\ fetch_stage.stalled \in Flag
      /\ {"op", "stalled", "executed"} \subseteq DOMAIN drf
      /\ {"op", "stalled"} \subseteq DOMAIN fetch_stage
      /\ drf.op.pc \in Int /\ pc \in Int /\ fetch_stage.op.pc \in Int
  BY DEF PushFront, Turn, archVars, backVars, queueVars, histVars, WorkInv, OrderInv, FrontInv, Latch,
         PlainOp, FrontOnce, FrontShape
<1>2. CASE fetch_stage.stalled = INVALID
  <2>1. /\ drf'.op = fetch_stage.op /\ drf'.stalled = INVALID /\ fetch_stage' = fetch_stage
    BY <1>1, <1>2 DEF PushFront
  <2>2. drf.op.inst_type # HALT
    BY <1>1, <1>2, NotWork DEF WorkInv, FrontOnce, HaltStays
  <2>3. drf.op.inst_type # 0 => drf.op.pc < fetch_stage.op.pc /\ drf'.op # drf.op
    BY <1>1, <2>1 DEF WorkInv, FrontOnce, FetchedOnce
  <2>4. fetch_stage.op.inst_type # 0 => fetch_stage.op.pc < pc
    BY <2>2 DEF WorkInv, FrontOnce, FetchedOnce
  <2>5. drf.op.inst_type \in RegisterTypes =>
          \E i \in RobIndex : e[i].status = VALID /\ e[i].inst_ptr = drf.op.pc
    <3>1. drf.op.inst_type \in RegisterTypes =>
            drf.op.inst_type # 0 /\ drf.op.inst_type \in MemOps \cup (MOVC .. JUMP)
      BY RegisterTypesApart
    <3> QED BY <1>1, <2>3, <3>1 DEF Kept, Window, Matches
  <2>6. drf.stalled # VALID /\ drf'.stalled # VALID
    <3>1. drf.stalled = VALID => FALSE
      BY <1>1, <2>5 DEF StallInv
    <3> QED BY <2>1, <3>1, NotWork
  <2> HIDE DEF e
  <2>7. ASSUME NEW m \in DOMAIN code, code[m].inst_type = HALT, golden.pc <= Addr(m), Addr(m) < pc
        PROVE  InLatch(fetch_stage.op, m)
    <3>1. code[m].inst_type # NOP /\ m \in Nat /\ At(code, Addr(m)) = code[m]
      BY <1>1, <2>7, RegisterTypesApart, IndicesAreNat, Addresses DEF At
    <3>2. ~InEntry(e, m)
      <4> SUFFICES ASSUME NEW i \in RobIndex, e[i].status = VALID, e[i].inst_ptr = Addr(m)
                   PROVE FALSE
        BY DEF InEntry
      <4>1. e[i].inst_type = HALT
        BY <2>7, <3>1 DEF OriginInv, EntryOrigin, e
      <4> QED BY <2>2, <4>1 DEF OriginInv, e
    <3>3. ~InLatch(drf.op, m)
      BY <2>2, <2>7, <3>1 DEF InLatch, OriginInv, Origin
    <3> QED BY <2>6, <2>7, <3>1, <3>2, <3>3 DEF Covered, Front0, e
  <2>8. Origin(code, fetch_stage.op)
    <3> SUFFICES ASSUME fetch_stage.op.inst_type # 0
                 PROVE  /\ Reached(code, fetch_stage.op.pc)
                        /\ fetch_stage.op.inst_type = At(code, fetch_stage.op.pc).inst_type
      BY DEF Origin
    <3>1. PICK k \in Nat : fetch_stage.op.pc = Addr(k)
                           /\ (k \in DOMAIN code => fetch_stage.op.inst_type = code[k].inst_type)
      BY DEF OriginInv, Fetched
    <3>2. \A m \in DOMAIN code : code[m].inst_type = HALT => k <= m
      <4> SUFFICES ASSUME NEW m \in DOMAIN code, code[m].inst_type = HALT, m < k PROVE FALSE
        BY <1>1, IndicesAreNat
      <4>1. m \in Nat /\ Addr(m) < fetch_stage.op.pc /\ Addr(m) \in Int
        BY <1>1, <3>1, IndicesAreNat, Addresses
      <4>2. golden.pc <= Addr(m)
        <5>1. PICK g \in DOMAIN code : g \in Nat /\ golden.pc = Addr(g)
                                       /\ \A l \in DOMAIN code : code[l].inst_type = HALT => g <= l
          BY <1>1, ReachedAt DEF RetiredInv
        <5>2. g <= m
          BY <5>1
        <5> QED BY <4>1, <5>1, <5>2 DEF Addr, CodeBase
      <4>3. Addr(m) < pc
        BY <1>1, <2>4, <4>1
      <4>4. fetch_stage.op.pc = Addr(m)
        BY <2>7, <4>2, <4>3 DEF InLatch
      <4> QED BY <4>1, <4>4
    <3>3. k \in DOMAIN code
      <4>1. PICK n \in Nat : DOMAIN code = 0 .. n - 1
        BY <1>1 DEF RegisterPrograms
      <4>2. PICK h \in DOMAIN code : code[h].inst_type = HALT
        BY <1>1 DEF RegisterPrograms
      <4>3. k <= h
        BY <3>2, <4>2
      <4> QED BY <3>1, <4>1, <4>2, <4>3
    <3>4. At(code, fetch_stage.op.pc) = code[k]
      BY <3>1, AtAddr
    <3> QED BY <3>1, <3>2, <3>3, <3>4 DEF Reached
  <2>9. OriginInv'
    <3>1. ~Renamed'
      BY <1>1, <2>6 DEF Renamed
    <3>2. Fetched(code, fetch_stage.op)
      BY DEF OriginInv
    <3>3. \A i \in RobIndex : e[i].status = VALID => e[i].inst_type # HALT
      BY <2>2 DEF OriginInv, e
    <3> QED BY <1>1, <2>1, <2>8, <3>1, <3>2, <3>3 DEF OriginInv, e
  <2>10. StallInv'
    BY <2>6 DEF StallInv
  <2>11. Covered'
    <3> SUFFICES ASSUME NEW k \in DOMAIN code, golden.pc <= Addr(k), Addr(k) < pc, code[k].inst_type # NOP
                 PROVE  InEntry(e, k) \/ InLatch(fetch_stage.op, k)
      BY <1>1, <2>1, <2>6 DEF Covered, Front0, e
    <3>1. InEntry(e, k) \/ InLatch(drf.op, k) \/ InLatch(fetch_stage.op, k)
      BY <2>6 DEF Covered, Front0, e
    <3>2. InLatch(drf.op, k) => InEntry(e, k)
      <4> SUFFICES ASSUME InLatch(drf.op, k) PROVE InEntry(e, k)
        OBVIOUS
      <4>1. k \in Nat /\ At(code, Addr(k)) = code[k]
        BY <1>1, IndicesAreNat, Addresses DEF At
      <4>2. drf.op.inst_type = code[k].inst_type /\ drf.op.inst_type # 0 /\ drf.op.pc = Addr(k)
        BY <4>1 DEF InLatch, OriginInv, Origin
      <4>3. drf.op.inst_type \in RegisterTypes
        BY <1>1, <2>2, <4>2 DEF RegisterPrograms
      <4> QED BY <2>5, <4>2, <4>3 DEF InEntry
    <3> QED BY <3>1, <3>2
  <2>12. Overwritten'
    BY <1>1, <2>1 DEF Overwritten
  <2>13. RetiredInv'
    BY <1>1, <2>1 DEF RetiredInv
  <2> QED BY <2>9, <2>10, <2>11, <2>12, <2>13
<1>3. CASE fetch_stage.stalled # INVALID
  <2>1. drf' = drf /\ fetch_stage'.op = fetch_stage.op
    BY <1>1, <1>3 DEF PushFront
  <2>2. drf.stalled = VALID \/ drf.op.inst_type = HALT
    BY <1>1, <1>3 DEF TagInv, StallHolds, Flag
  <2>3. OriginInv'
    <3>1. IsDecoded' \/ drf.op.inst_type = HALT
      BY <2>1, <2>2 DEF IsDecoded
    <3>2. Renamed' => Renamed
      BY <1>1, <2>1 DEF Renamed
    <3> QED BY <1>1, <2>1, <3>1, <3>2 DEF OriginInv
  <2>4. StallInv'
    BY <1>1, <2>1 DEF StallInv
  <2>5. Covered'
    BY <1>1, <2>1 DEF Covered, Front0
  <2>6. Overwritten'
    BY <1>1, <2>1, <2>2 DEF Overwritten
  <2>7. RetiredInv'
    BY <1>1, <2>1 DEF RetiredInv
  <2> QED BY <2>3, <2>4, <2>5, <2>6, <2>7
<1> QED BY <1>2, <1>3

\* The sequential machine computes with the same operators.
LEMMA SameResult ==
  ASSUME NEW type \in RegisterTypes, NEW a, NEW b, NEW old
  PROVE  Arch!Result(type, a, b, old) = Result(type, a, b, old)
<1>1. \A x : Arch!ToWord(x) = ToWord(x)
  BY Zenon DEF Arch!ToWord, ToWord, Arch!INT_MIN, INT_MIN, Arch!INT_MAX, INT_MAX
<1>2. Arch!Overflows(a, b) = Overflows(a, b)
  BY Zenon DEF Arch!Overflows, Overflows, Arch!INT_MIN, INT_MIN, Arch!INT_MAX, INT_MAX
<1>3. Arch!Bitwise2(LAMBDA x, y : x * y, a, b) = Bitwise2(LAMBDA x, y : x * y, a, b)
  BY Zenon DEF Arch!Bitwise2, Bitwise2, Arch!BitOf, BitOf, Arch!ToWord, ToWord,
               Arch!INT_MIN, INT_MIN, Arch!INT_MAX, INT_MAX
<1>4. Arch!Bitwise2(LAMBDA x, y : x + y - x * y, a, b) = Bitwise2(LAMBDA x, y : x + y - x * y, a, b)
  BY Zenon DEF Arch!Bitwise2, Bitwise2, Arch!BitOf, BitOf, Arch!ToWord, ToWord,
               Arch!INT_MIN, INT_MIN, Arch!INT_MAX, INT_MAX
<1>5. Arch!MOVC = MOVC /\ Arch!MOV = MOV /\ Arch!ADD = ADD /\ Arch!ADDL = ADDL /\ Arch!SUB = SUB /\ Arch!SUBL = SUBL /\ Arch!MUL = MUL /\ Arch!DIV = DIV /\ Arch!AND = AND /\ Arch!OR = OR /\ Arch!EXOR = EXOR
  BY DEF Arch!MOVC, Arch!MOV, Arch!ADD, Arch!ADDL, Arch!SUB, Arch!SUBL, Arch!MUL, Arch!DIV, Arch!AND, Arch!OR, Arch!EXOR,
                MOVC, MOV, ADD, ADDL, SUB, SUBL, MUL, DIV, AND, OR, EXOR
<1>6. CASE type = MOVC
  <2>1. type \notin {MOV, ADD, ADDL, SUB, SUBL, MUL, DIV, AND, OR, EXOR}
    BY <1>6 DEF MOVC, MOV, ADD, ADDL, SUB, SUBL, MUL, DIV, AND, OR, EXOR
  <2>2. Arch!Result(type, a, b, old) = b
    BY <1>6, <1>5, <2>1, Zenon DEF Arch!Result
  <2>3. Result(type, a, b, old) = b
    BY <1>6, <2>1, Zenon DEF Result
  <2> QED BY <2>2, <2>3
<1>7. CASE type = MOV
  <2>1. type \notin {MOVC, ADD, ADDL, SUB, SUBL, MUL, DIV, AND, OR, EXOR}
    BY <1>7 DEF MOVC, MOV, ADD, ADDL, SUB, SUBL, MUL, DIV, AND, OR, EXOR
  <2>2. Arch!Result(type, a, b, old) = a
    BY <1>7, <1>5, <2>1, Zenon DEF Arch!Result
  <2>3. Result(type, a, b, old) = a
    BY <1>7, <2>1, Zenon DEF Result
  <2> QED BY <2>2, <2>3
<1>8. CASE type = ADD \/ type = ADDL
  <2>1. type \notin {MOVC, MOV, SUB, SUBL, MUL, DIV, AND, OR, EXOR}
    BY <1>8 DEF MOVC, MOV, ADD, ADDL, SUB, SUBL, MUL, DIV, AND, OR, EXOR
  <2>2. Arch!Result(type, a, b, old) = IF Arch!Overflows(a, b) THEN old ELSE a + b
    BY <1>8, <1>5, <2>1, Zenon DEF Arch!Result
  <2>3. Result(type, a, b, old) = IF Overflows(a, b) THEN old ELSE a + b
    BY <1>8, <2>1, Zenon DEF Result
  <2> QED BY <2>2, <2>3, <1>2
<1>9. CASE type = SUB \/ type = SUBL
  <2>1. type \notin {MOVC, MOV, ADD, ADDL, MUL, DIV, AND, OR, EXOR}
    BY <1>9 DEF MOVC, MOV, ADD, ADDL, SUB, SUBL, MUL, DIV, AND, OR, EXOR
  <2>2. Arch!Result(type, a, b, old) = Arch!ToWord(a - b)
    BY <1>9, <1>5, <2>1, Zenon DEF Arch!Result
  <2>3. Result(type, a, b, old) = ToWord(a - b)
    BY <1>9, <2>1, Zenon DEF Result
  <2> QED BY <2>2, <2>3, <1>1
<1>10. CASE type = MUL
  <2>1. type \notin {MOVC, MOV, ADD, ADDL, SUB, SUBL, DIV, AND, OR, EXOR}
    BY <1>10 DEF MOVC, MOV, ADD, ADDL, SUB, SUBL, MUL, DIV, AND, OR, EXOR
  <2>2. Arch!Result(type, a, b, old) = Arch!ToWord(a * b)
    BY <1>10, <1>5, <2>1, Zenon DEF Arch!Result
  <2>3. Result(type, a, b, old) = ToWord(a * b)
    BY <1>10, <2>1, Zenon DEF Result
  <2> QED BY <2>2, <2>3, <1>1
<1>11. CASE type = AND
  <2>1. type \notin {MOVC, MOV, ADD, ADDL, SUB, SUBL, MUL, DIV, OR, EXOR}
    BY <1>11 DEF MOVC, MOV, ADD, ADDL, SUB, SUBL, MUL, DIV, AND, OR, EXOR
  <2>2. Arch!Result(type, a, b, old) = Arch!Bitwise2(LAMBDA x, y : x * y, a, b)
    BY <1>11, <1>5, <2>1, Zenon DEF Arch!Result
  <2>3. Result(type, a, b, old) = Bitwise2(LAMBDA x, y : x * y, a, b)
    BY <1>11, <2>1, Zenon DEF Result
  <2> QED BY <2>2, <2>3, <1>3, Zenon
<1>12. CASE type = OR
  <2>1. type \notin {MOVC, MOV, ADD, ADDL, SUB, SUBL, MUL, DIV, AND, EXOR}
    BY <1>12 DEF MOVC, MOV, ADD, ADDL, SUB, SUBL, MUL, DIV, AND, OR, EXOR
  <2>2. Arch!Result(type, a, b, old) = Arch!Bitwise2(LAMBDA x, y : x + y - x * y, a, b)
    BY <1>12, <1>5, <2>1, Zenon DEF Arch!Result
  <2>3. Result(type, a, b, old) = Bitwise2(LAMBDA x, y : x + y - x * y, a, b)
    BY <1>12, <2>1, Zenon DEF Result
  <2> QED BY <2>2, <2>3, <1>4, Zenon
<1>13. type \in {MOVC, MOV, ADD, ADDL, SUB, SUBL, MUL, AND, OR}
  BY DEF RegisterTypes, MOVC, MOV, ADD, ADDL, SUB, SUBL, MUL, AND, OR, DIV
<1> QED BY <1>6, <1>7, <1>8, <1>9, <1>10, <1>11, <1>12, <1>13, Zenon

\* The sequential machine after HALT, and after a register instruction.
Stops(m) == [m EXCEPT !.retired = m.pc, !.halted = TRUE]

Steps(c, m, zero) ==
  [m EXCEPT !.retired = m.pc, !.pc = Arch!SkipNops(c, m.pc + 4),
            !.regs = [m.regs EXCEPT ![At(c, m.pc).rd] = Outcome(At(c, m.pc), m.regs)], !.zf = zero]

\* One step of the sequential machine.
LEMMA Executes ==
  ASSUME NEW c, NEW m, {"pc", "regs", "mem", "zf", "retired", "halted"} = DOMAIN m
  PROVE  LET in == At(c, m.pc)
             n  == Arch!Execute(c, m)
         IN  /\ in.inst_type = HALT => n = Stops(m)
             /\ in.inst_type \in RegisterTypes => \E zero : n = Steps(c, m, zero)
<1> DEFINE in   == c[Arch!get_code_index(m.pc)]
           type == in.inst_type
           a    == m.regs[in.rs1]
           b    == IF type \in Arch!UsesLiteral \cup {Arch!STORE, Arch!LOAD, Arch!JUMP} THEN in.imm
                   ELSE m.regs[in.rs2]
           addr == a + b
           next == CASE Arch!Taken(in, m)   -> m.pc + in.imm
                     [] type = Arch!JUMP    -> addr
                     [] OTHER               -> m.pc + 4
           done == [m EXCEPT !.retired = m.pc, !.pc = Arch!SkipNops(c, next)]
           written == [done EXCEPT !.regs[in.rd] = Arch!Result(type, a, b, 0),
                                   !.zf = Arch!ZeroFlag(type, a, b, m.zf)]
           n    == Arch!Execute(c, m)
<1>1. n = CASE type = Arch!HALT        -> [m EXCEPT !.retired = m.pc, !.halted = TRUE]
            [] type \in Arch!Stores    -> [done EXCEPT !.mem[addr] = m.regs[in.rd]]
            [] type \in Arch!Loads     -> [done EXCEPT !.regs[in.rd] = m.mem[addr]]
            [] type \in Arch!MOVC .. Arch!EXOR -> written
            [] OTHER                   -> done
  BY Zenon DEF Arch!Execute
<1>2. in = At(c, m.pc)
  BY DEF Arch!get_code_index, Arch!CodeBase, get_code_index, CodeBase, At
<1> HIDE DEF in, type, n
<1>3. type = HALT => n = Stops(m)
  <2>1. Arch!HALT = HALT /\ HALT \notin Arch!Stores \cup Arch!Loads \cup (Arch!MOVC .. Arch!EXOR)
    BY DEF Arch!HALT, HALT, Arch!Stores, Arch!Loads, Arch!MOVC, Arch!EXOR, Arch!STORE, Arch!STR,
           Arch!LOAD, Arch!LDR
  <2> HIDE DEF done, written, addr
  <2> QED BY <1>1, <2>1, Zenon DEF Stops
<1>4. ASSUME type \in RegisterTypes
      PROVE  /\ n = written /\ b = (IF type \in UsesLiteral THEN in.imm ELSE m.regs[in.rs2])
             /\ next = m.pc + 4
             /\ Arch!Result(type, a, b, 0) = Result(type, a, b, 0)
  <2>1. /\ type # Arch!HALT /\ type \notin Arch!Stores /\ type \notin Arch!Loads /\ type \in Arch!MOVC .. Arch!EXOR
        /\ type # Arch!JUMP /\ type # Arch!BZ /\ type # Arch!BNZ /\ type \notin {Arch!STORE, Arch!LOAD, Arch!JUMP}
    BY <1>4 DEF RegisterTypes, MOVC, OR, Arch!HALT, HALT, Arch!Stores, Arch!Loads, Arch!MOVC, Arch!EXOR, Arch!STORE, Arch!STR,
           Arch!LOAD, Arch!LDR, Arch!JUMP, Arch!BZ, Arch!BNZ
  <2>2. n = written
    <3> HIDE DEF done, written, addr
    <3> QED BY <1>1, <2>1, Zenon
  <2>3. Arch!UsesLiteral = UsesLiteral
    BY DEF Arch!UsesLiteral, UsesLiteral, Arch!MOVC, Arch!ADDL, Arch!SUBL, MOVC, ADDL, SUBL
  <2>4. b = (IF type \in UsesLiteral THEN in.imm ELSE m.regs[in.rs2])
    BY <2>1, <2>3
  <2>5. ~Arch!Taken(in, m)
    BY <2>1 DEF Arch!Taken, type
  <2>6. next = m.pc + 4
    BY <2>1, <2>5, Zenon
  <2>7. Arch!Result(type, a, b, 0) = Result(type, a, b, 0)
    BY <1>4, SameResult
  <2> QED BY <2>2, <2>4, <2>6, <2>7
<1>5. ASSUME type \in RegisterTypes
      PROVE  n = Steps(c, m, Arch!ZeroFlag(type, a, b, m.zf))
  <2>1. Result(type, a, b, 0) = Outcome(in, m.regs)
    BY <1>4, <1>5 DEF Outcome, type
  <2>2. in = At(c, m.pc)
    BY <1>2
  <2> HIDE DEF a, b, next
  <2> QED BY <1>4, <1>5, <2>1, <2>2 DEF Steps
<1>6. type = in.inst_type /\ n = Arch!Execute(c, m)
  BY DEF type, n
<1> HIDE DEF a, b
<1> QED BY <1>2, <1>3, <1>4, <1>5, <1>6

\* What commits is the next instruction of the sequential machine.
LEMMA HeadIsNext ==
  ASSUME RegisterPrograms, WorkInv, OriginInv, StallInv, Covered, RetiredInv, OrderInv',
         NEW c, Removes(c), SameLatch(drf', drf)
  PROVE  /\ golden.pc = rob.rob_entry[c].inst_ptr
         /\ \A i \in RobIndex : rob.rob_entry[i].status = VALID =>
              rob.rob_entry[i].inst_ptr \in Int /\ golden.pc <= rob.rob_entry[i].inst_ptr
<1> DEFINE e == rob.rob_entry
           p == e[c].inst_ptr
<1>1. /\ code \in Programs /\ RobInv(rob) /\ RobOrder(rob, retired, drf.op.pc)
      /\ RobInv(rob') /\ RobOrder(rob', p, drf.op.pc)
      /\ drf.op.pc \in Int /\ pc \in Int /\ fetch_stage.op.pc \in Int
      /\ drf.op.pc <= fetch_stage.op.pc /\ fetch_stage.op.pc <= pc
  BY DEF WorkInv, OrderInv, FrontInv, Latch, PlainOp, Removes, SameLatch, SameInst
<1>2. c \in RobIndex /\ e[c].status = VALID /\ p \in Int /\ p <= drf.op.pc
  BY <1>1, WindowRange DEF Removes
<1>3. \A i \in RobIndex : e[i].status = VALID => e[i].inst_ptr \in Int /\ p <= e[i].inst_ptr
  <2> SUFFICES ASSUME NEW i \in RobIndex, e[i].status = VALID, i # c
               PROVE  e[i].inst_ptr \in Int /\ p <= e[i].inst_ptr
    BY <1>2
  <2>1. rob'.rob_entry[i] = e[i]
    BY DEF Removes
  <2> HIDE DEF p
  <2> QED BY <1>1, <2>1, WindowRange
<1> HIDE DEF p
<1>4. PICK k \in DOMAIN code : k \in Nat /\ p = Addr(k) /\ At(code, p) = code[k]
                               /\ \A m \in DOMAIN code : code[m].inst_type = HALT => k <= m
  <2>1. Reached(code, p)
    BY <1>2 DEF OriginInv, EntryOrigin, p
  <2> QED BY <1>1, <2>1, ReachedAt
<1>5. golden.pc <= p
  <2>1. code[k].inst_type # NOP
    BY <1>2, <1>4, RegisterTypesApart DEF OriginInv, EntryOrigin, p
  <2> QED BY <1>2, <1>4, <2>1 DEF RetiredInv, p
<1>6. PICK g \in DOMAIN code : g \in Nat /\ golden.pc = Addr(g) /\ At(code, golden.pc) = code[g]
  BY <1>1, ReachedAt DEF RetiredInv
<1>7. golden.pc \in Int
  BY <1>6, Addresses
<1>8. ~ (golden.pc < p)
  <2> SUFFICES ASSUME golden.pc < p PROVE FALSE
    OBVIOUS
  <2>1. Addr(g) < Front0 /\ golden.pc <= Addr(g) /\ code[g].inst_type # NOP
    <3>1. CASE drf.stalled = VALID
      <4>1. p < drf.op.pc
        BY <1>2, <3>1 DEF StallInv, p
      <4> QED BY <1>1, <1>2, <1>6, <1>7, <3>1, <4>1 DEF Front0, RetiredInv
    <3>2. CASE drf.stalled # VALID
      BY <1>1, <1>2, <1>6, <1>7, <3>2 DEF Front0, RetiredInv
    <3> QED BY <3>1, <3>2
  <2>2. InEntry(e, g) \/ InLatch(drf.op, g) \/ InLatch(fetch_stage.op, g)
    BY <2>1 DEF Covered
  <2>3. ~InEntry(e, g)
    <3> HIDE DEF e
    <3> QED BY <1>2, <1>3, <1>6, <1>7 DEF InEntry
  <2>4. ~InLatch(drf.op, g) /\ ~InLatch(fetch_stage.op, g)
    BY <1>1, <1>2, <1>6, <1>7 DEF InLatch
  <2> QED BY <2>2, <2>3, <2>4
<1>9. golden.pc = p
  BY <1>2, <1>5, <1>7, <1>8
<1> QED BY <1>3, <1>9 DEF p

\* A writer at the head leaves; the sequential machine goes on behind it.
LEMMA CommitMoves ==
  ASSUME RegisterPrograms, WorkInv, OriginInv, StallInv, Covered, RetiredInv, OrderInv', Mach, ret = 0,
         NEW c, CommitsWriter(c), SameLatch(drf', drf), step = "commit"
  PROVE  LET p == rob.rob_entry[c].inst_ptr
         IN  /\ rob.rob_entry[c].inst_type \in RegisterTypes /\ golden.pc = p
             /\ At(code, p).inst_type = rob.rob_entry[c].inst_type
             /\ golden' = Arch!Execute(code, golden)
             /\ Reached(code, golden'.pc) /\ At(code, golden'.pc).inst_type # NOP /\ p < golden'.pc
             /\ \A k \in DOMAIN code : code[k].inst_type # NOP /\ p < Addr(k) => golden'.pc <= Addr(k)
             /\ p < drf.op.pc
             /\ \A i \in RobIndex : rob.rob_entry[i].status = VALID /\ i # c => p < rob.rob_entry[i].inst_ptr
<1> DEFINE e == rob.rob_entry
           p == e[c].inst_ptr
<1>1. Removes(c) /\ c \in Writing(e)
  BY DEF CommitsWriter
<1>2. /\ golden.pc = p
      /\ \A i \in RobIndex : e[i].status = VALID => e[i].inst_ptr \in Int /\ golden.pc <= e[i].inst_ptr
  BY <1>1, HeadIsNext
<1>3. c \in RobIndex /\ e[c].status = VALID /\ e[c].inst_type \in Writers /\ code \in Programs
  BY <1>1 DEF Writing, WorkInv, OrderInv
<1>4. e[c].inst_type \in RegisterTypes /\ Reached(code, p) /\ At(code, p).inst_type = e[c].inst_type
  BY <1>3, WriterTypes DEF OriginInv, EntryOrigin
<1>5. golden' = Arch!Execute(code, golden)
  <2>1. golden.halted = FALSE
    <3> DEFINE m == [golden EXCEPT !.regs = regs, !.retired = retired, !.halted = (ret = HALT)]
    <3>1. golden = m /\ "halted" \in DOMAIN golden
      BY DEF Mach
    <3>2. m.halted = (ret = HALT)
      BY <3>1
    <3>3. (ret = HALT) = FALSE
      BY DEF HALT
    <3> HIDE DEF m
    <3> QED BY <3>1, <3>2, <3>3
  <2> QED BY <1>1, <2>1 DEF Removes
<1>6. PICK k \in DOMAIN code : k \in Nat /\ p = Addr(k) /\ At(code, p) = code[k]
                               /\ \A m \in DOMAIN code : code[m].inst_type = HALT => k <= m
  BY <1>3, <1>4, ReachedAt
<1> HIDE DEF p, e
<1>7. golden'.pc = Arch!SkipNops(code, Addr(k + 1))
  <2>1. DOMAIN golden = {"pc", "regs", "mem", "zf", "retired", "halted"}
    BY DEF Mach
  <2>2. golden.pc + 4 = Addr(k + 1)
    BY <1>2, <1>6, Addresses
  <2>3. PICK zero : Arch!Execute(code, golden) = Steps(code, golden, zero)
    <3>1. At(code, golden.pc).inst_type \in RegisterTypes
      BY <1>2, <1>4
    <3> QED BY <2>1, <3>1, Executes
  <2> QED BY <1>5, <2>1, <2>2, <2>3 DEF Steps
<1>8. k + 1 \in Nat /\ \A m \in DOMAIN code : code[m].inst_type = HALT => k + 1 <= m
  <2>1. code[k].inst_type # HALT
    BY <1>4, <1>6, RegisterTypesApart
  <2>2. DOMAIN code \subseteq Nat
    BY <1>3, IndicesAreNat
  <2> QED BY <1>6, <2>1, <2>2
<1>9. /\ Reached(code, golden'.pc) /\ At(code, golden'.pc).inst_type # NOP /\ Addr(k + 1) <= golden'.pc
      /\ \A m \in DOMAIN code : code[m].inst_type # NOP /\ Addr(k + 1) <= Addr(m) => golden'.pc <= Addr(m)
  BY <1>3, <1>7, <1>8, SkipsToNext
<1>10. p < golden'.pc
  BY <1>3, <1>6, <1>9, IndicesAreNat DEF Addr, CodeBase
<1>11. ASSUME NEW m \in DOMAIN code, code[m].inst_type # NOP, p < Addr(m) PROVE golden'.pc <= Addr(m)
  <2>1. m \in Nat
    BY <1>3, IndicesAreNat
  <2>2. Addr(k + 1) <= Addr(m)
    BY <1>6, <1>11, <2>1 DEF Addr, CodeBase
  <2> QED BY <1>9, <1>11, <2>2
<1>12. p < drf.op.pc
  <2>1. Below(e, drf.op)
    BY DEF WorkInv, FrontOnce, NotYetDispatched, e
  <2> QED BY <1>3, <1>4, <2>1, RegisterTypesApart DEF Below, p
<1>13. ASSUME NEW i \in RobIndex, e[i].status = VALID, i # c PROVE p < e[i].inst_ptr
  <2>1. EntriesDiffer(e)
    BY DEF WorkInv, PlacesInv, TrackInv, e
  <2>2. e[i].inst_ptr # p
    BY <1>3, <1>4, <1>13, <2>1, RegisterTypesApart DEF EntriesDiffer, p
  <2>3. e[i].inst_ptr \in Int /\ p <= e[i].inst_ptr /\ p \in Int
    BY <1>2, <1>3, <1>13 DEF p
  <2> QED BY <2>2, <2>3
<1> QED BY <1>2, <1>4, <1>5, <1>9, <1>10, <1>11, <1>12, <1>13 DEF p, e

LEMMA CommitOrigin ==
  ASSUME RegisterPrograms, WorkInv, TagInv, OriginInv, StallInv, Covered, Overwritten, RetiredInv,
         OrderInv', Mach, Commit, ret' = 0
  PROVE  (OriginInv /\ StallInv /\ Covered /\ Overwritten /\ RetiredInv)'
<1> DEFINE e == rob.rob_entry
           f == rob'.rob_entry
<1>1. /\ step = "commit" /\ step' = "issue" /\ ret = 0
      /\ UNCHANGED <<fetch_stage, pc, stage, mem_stage, code>>
      /\ CommitIdles \/ \E c : CommitsOther(c) \/ CommitsWriter(c)
  BY CommitDoes
<1>2. CASE CommitIdles
  <2>1. SameLatch(drf', drf) /\ drf'.executed = drf.executed
    BY <1>2, SameLatchDrf DEF CommitIdles
  <2>2. SameEntries(f, e)
    BY <1>2 DEF CommitIdles, SameEntries
  <2> QED BY <1>1, <1>2, <2>1, <2>2, QuietOrigin DEF CommitIdles
<1>3. ASSUME NEW c, CommitsOther(c) PROVE FALSE
  <2>1. e[c].inst_type \in RegisterTypes \cup {HALT}
    BY <1>3 DEF CommitsOther, Removes, OriginInv, EntryOrigin
  <2>2. e[c].inst_type = HALT
    BY <1>3, <2>1, RegisterTypesApart DEF CommitsOther
  <2> QED BY <1>3, <2>2 DEF CommitsOther, HALT
<1>4. ASSUME NEW c, CommitsWriter(c)
      PROVE  (OriginInv /\ StallInv /\ Covered /\ Overwritten /\ RetiredInv)'
  <2> DEFINE p == e[c].inst_ptr
  <2>1. SameLatch(drf', drf) /\ drf'.executed = drf.executed
    <3>1. drf' = ForwardToDecode(drf, e[c].rd, e[c].rd_value, VALID)
      BY <1>4 DEF CommitsWriter
    <3>2. SameLatch(drf', drf)
      BY <3>1, SameLatchDrf, ForwardSame
    <3>3. drf'.executed = drf.executed
      BY <3>1, SameLatchDrf DEF ForwardToDecode, SameLatch
    <3> QED BY <3>2, <3>3
  <2>2. /\ drf'.op.inst_type = drf.op.inst_type /\ drf'.op.pc = drf.op.pc /\ drf'.op.rd = drf.op.rd
        /\ drf'.stalled = drf.stalled
    BY <2>1 DEF SameLatch, SameInst
  <2>3. /\ e[c].inst_type \in RegisterTypes /\ golden.pc = p
        /\ Reached(code, golden'.pc) /\ At(code, golden'.pc).inst_type # NOP /\ p < golden'.pc
        /\ \A k \in DOMAIN code : code[k].inst_type # NOP /\ p < Addr(k) => golden'.pc <= Addr(k)
        /\ p < drf.op.pc
        /\ \A i \in RobIndex : e[i].status = VALID /\ i # c => p < e[i].inst_ptr
    BY <1>1, <1>4, <2>1, CommitMoves
  <2>4. /\ c \in RobIndex /\ e[c].status = VALID /\ retired' = p
        /\ \A i \in RobIndex : f[i] = IF i = c THEN FreeRobEntry ELSE e[i]
        /\ rename' = ReleaseTag(rename, e[c].rd)
        /\ DOMAIN regs' = DOMAIN regs
    BY <1>4 DEF CommitsWriter, Removes
  <2>5. \A i \in RobIndex : f[i].status = VALID => i # c /\ f[i] = e[i]
    BY <2>4, NotWork DEF FreeRobEntry
  <2>6. \A t \in TagIndex : rename'.reg_rename[t].rename_tag = rename.reg_rename[t].rename_tag
    BY <2>4 DEF TagInv, TableShape, ReleaseTag
  <2>7. /\ code \in Programs /\ drf.op.pc \in Int /\ pc \in Int /\ fetch_stage.op.pc \in Int
        /\ drf.op.pc <= fetch_stage.op.pc /\ fetch_stage.op.pc <= pc
        /\ RobInv(rob) /\ RobOrder(rob, retired, drf.op.pc)
    BY DEF WorkInv, OrderInv, FrontInv, Latch, PlainOp
  <2>8. p \in Int
    BY <2>4, <2>7, WindowRange
  <2>9. IsDecoded /\ IsDecoded' /\ (Renamed' <=> Renamed)
    BY <1>1, <2>2 DEF IsDecoded, Renamed
  <2> HIDE DEF p
  <2>10. OriginInv'
    <3>1. Origin(code, drf.op)'
      BY <1>1, <2>2 DEF OriginInv, Origin
    <3>2. Renamed => rename'.reg_rename[drf.op.rd].rename_tag = At(code, drf.op.pc).rd
      <4> SUFFICES ASSUME Renamed
                   PROVE  rename'.reg_rename[drf.op.rd].rename_tag = At(code, drf.op.pc).rd
        OBVIOUS
      <4>1. drf.op.rd \in TagIndex
        BY <1>1 DEF TagInv, Pending, FrontTag, Tagged
      <4> QED BY <2>6, <4>1 DEF OriginInv
    <3>3. EntryOrigin(code, f)
      BY <2>5 DEF OriginInv, EntryOrigin
    <3>4. EntryRegisters(code, f, rename')
      <4> SUFFICES ASSUME NEW i \in Writing(f)
                   PROVE  rename'.reg_rename[f[i].rd].rename_tag = At(code, f[i].inst_ptr).rd
        BY DEF EntryRegisters
      <4>1. i \in Writing(e) /\ f[i] = e[i]
        BY <2>5 DEF Writing
      <4>2. e[i].rd \in TagIndex
        BY <4>1 DEF TagInv, TagsRecent, Tagged
      <4> QED BY <2>6, <4>1, <4>2 DEF OriginInv, EntryRegisters
    <3>5. \A i \in RobIndex : f[i].status = VALID /\ f[i].inst_type = HALT => drf.op.inst_type = HALT
      BY <2>5 DEF OriginInv
    <3> QED BY <1>1, <2>2, <2>4, <2>9, <3>1, <3>2, <3>3, <3>4, <3>5 DEF OriginInv
  <2>11. StallInv'
    BY <1>1, <2>1, <2>2, <2>5 DEF StallInv
  <2>12. Covered'
    <3> SUFFICES ASSUME NEW k \in DOMAIN code, golden'.pc <= Addr(k), Addr(k) < Front0', code[k].inst_type # NOP
                 PROVE  InEntry(f, k) \/ InLatch(drf'.op, k) \/ InLatch(fetch_stage.op, k)
      BY <1>1 DEF Covered
    <3>1. Front0' = Front0 /\ k \in Nat /\ Addr(k) \in Int /\ golden'.pc \in Int
      <4>1. k \in Nat /\ golden'.pc \in Int
        BY <2>3, <2>7, IndicesAreNat
      <4> QED BY <1>1, <2>2, <4>1, Addresses DEF Front0
    <3>2. p < Addr(k)
      BY <2>3, <2>8, <3>1
    <3>3. InEntry(e, k) \/ InLatch(drf.op, k) \/ InLatch(fetch_stage.op, k)
      BY <2>3, <2>8, <3>1, <3>2 DEF Covered
    <3>4. InEntry(e, k) => InEntry(f, k)
      <4> SUFFICES ASSUME NEW i \in RobIndex, e[i].status = VALID, e[i].inst_ptr = Addr(k)
                   PROVE  InEntry(f, k)
        BY DEF InEntry
      <4>1. i # c
        BY <2>8, <3>1, <3>2 DEF p
      <4>2. f[i] = e[i]
        BY <2>4, <4>1
      <4> QED BY <4>2 DEF InEntry
    <3> QED BY <2>2, <3>3, <3>4 DEF InLatch
  <2>13. Overwritten'
    BY <1>1, <2>2 DEF Overwritten
  <2>14. RetiredInv'
    <3>1. retired' < pc /\ retired' < drf.op.pc /\ retired' < fetch_stage.op.pc
      BY <2>3, <2>4, <2>7, <2>8 DEF p
    <3>2. \A i \in RobIndex : f[i].status = VALID => retired' < f[i].inst_ptr
      BY <2>3, <2>4, <2>5 DEF p
    <3>3. \A k \in DOMAIN code : code[k].inst_type # NOP /\ retired' < Addr(k) => golden'.pc <= Addr(k)
      BY <2>3, <2>4 DEF p
    <3> QED BY <1>1, <2>2, <2>3, <3>1, <3>2, <3>3 DEF RetiredInv
  <2> QED BY <2>10, <2>11, <2>12, <2>13, <2>14
<1> QED BY <1>1, <1>2, <1>3, <1>4

(***************************************************************************)
(* Values.  In front of address p the entries f know what e know.          *)
(***************************************************************************)
WritesBelow(e, j, p) == j \in Writing(e) /\ e[j].inst_ptr < p

Knows(f, e, p) ==
  \A j \in RobIndex :
    /\ WritesBelow(f, j, p) <=> WritesBelow(e, j, p)
    /\ WritesBelow(e, j, p) =>
         /\ f[j].inst_ptr = e[j].inst_ptr /\ f[j].rd = e[j].rd
         /\ e[j].valid = VALID => f[j].valid = VALID /\ f[j].rd_value = e[j].rd_value

LEMMA KnowsValues ==
  ASSUME NEW c, NEW e, NEW f, NEW g, NEW p, Knows(f, e, p)
  PROVE  /\ \A r, v : ValueOf(c, e, g, r, p, v) => ValueOf(c, f, g, r, p, v)
         /\ \A r, tag : Producer(c, e, r, p, tag) => Producer(c, f, r, p, tag)
         /\ \A v : Correct(c, e, g, p, v) => Correct(c, f, g, p, v)
<1>1. \A j, r : j \in RobIndex => (Writes(c, f, j, r, p) <=> Writes(c, e, j, r, p))
  BY DEF Knows, WritesBelow, Writes
<1>2. \A j, r : Writes(c, e, j, r, p) =>
        /\ j \in RobIndex /\ f[j].inst_ptr = e[j].inst_ptr /\ f[j].rd = e[j].rd
        /\ e[j].valid = VALID => f[j].valid = VALID /\ f[j].rd_value = e[j].rd_value
  BY WritingIsIndex DEF Knows, WritesBelow, Writes
<1> HIDE DEF Writes
<1>3. \A j, r : j \in RobIndex /\ Newest(c, e, j, r, p) => Newest(c, f, j, r, p)
  BY <1>1, <1>2 DEF Newest
<1>4. \A j, r : Newest(c, e, j, r, p) => Writes(c, e, j, r, p)
  BY DEF Newest
<1> HIDE DEF Newest
<1>5. \A r, v : ValueOf(c, e, g, r, p, v) => ValueOf(c, f, g, r, p, v)
  BY <1>1, <1>2, <1>3, <1>4 DEF ValueOf
<1>6. \A r, tag : Producer(c, e, r, p, tag) => Producer(c, f, r, p, tag)
  BY <1>2, <1>3, <1>4 DEF Producer
<1>7. \A v : Correct(c, e, g, p, v) => Correct(c, f, g, p, v)
  BY <1>5, Zenon DEF Correct
<1> QED BY <1>5, <1>6, <1>7

\* What is known moves from one buffer and register file to another.
Moves(c, e, g, f, h, p) ==
  /\ \A r, v : ValueOf(c, e, g, r, p, v) => ValueOf(c, f, h, r, p, v)
  /\ \A v : Correct(c, e, g, p, v) => Correct(c, f, h, p, v)

LEMMA MovesReady ==
  ASSUME NEW c, NEW e, NEW g, NEW f, NEW h, NEW op, Moves(c, e, g, f, h, op.pc), Ready(c, e, g, op)
  PROVE  Ready(c, f, h, op)
  BY DEF Ready, Moves

LEMMA KnowsMoves ==
  ASSUME NEW c, NEW e, NEW f, NEW g, NEW p, Knows(f, e, p)
  PROVE  Moves(c, e, g, f, g, p)
  BY KnowsValues DEF Moves

LEMMA KnowsOperands ==
  ASSUME NEW c, NEW e, NEW f, NEW g, NEW op, Knows(f, e, op.pc), Operands(c, e, g, op)
  PROVE  Operands(c, f, g, op)
<1>1. /\ \A r, v : ValueOf(c, e, g, r, op.pc, v) => ValueOf(c, f, g, r, op.pc, v)
      /\ \A r, tag : Producer(c, e, r, op.pc, tag) => Producer(c, f, r, op.pc, tag)
  BY KnowsValues
<1> QED BY <1>1 DEF Operands, Operand

\* An instruction with the same operands.
LEMMA SameOperandsMeans ==
  ASSUME NEW c, NEW e, NEW g, NEW op, NEW o, SameOperands(o, op)
  PROVE  /\ Carried(c, op) => Carried(c, o)
         /\ Operands(c, e, g, op) => Operands(c, e, g, o)
<1>1. Carried(c, op) => Carried(c, o)
  BY DEF SameOperands, Carried, Asking, OperandFields
<1>2. Operands(c, e, g, op) => Operands(c, e, g, o)
  BY DEF SameOperands, Operands
<1> QED BY <1>1, <1>2

\* Who hears of the result of entry i, the only one with its tag, has the value,
\* and nobody asks for this tag any more.
LEMMA HearsOperands ==
  ASSUME NEW c, NEW e, NEW g, NEW op, NEW o, NEW tag, NEW value, Hears(o, op, tag, value),
         \A i \in Writing(e) : e[i].rd = tag => e[i].valid = VALID /\ e[i].rd_value = value,
         Operands(c, e, g, op)
  PROVE  /\ Operands(c, e, g, o) /\ (Carried(c, op) => Carried(c, o))
         /\ o.inst_type \in Sourced1 /\ o.rs1_valid = INVALID => o.rs1 # tag
         /\ o.inst_type \in TwoSource /\ o.rs2_valid = INVALID => o.rs2 # tag
<1>1. ASSUME NEW r, NEW p, Producer(c, e, r, p, tag) PROVE ValueOf(c, e, g, r, p, value)
  <2>1. PICK j \in RobIndex : Newest(c, e, j, r, p) /\ e[j].rd = tag
    BY <1>1 DEF Producer
  <2>2. j \in Writing(e)
    BY <2>1 DEF Newest, Writes
  <2> QED BY <2>1, <2>2 DEF ValueOf
<1>2. /\ o.inst_type = op.inst_type /\ o.pc = op.pc /\ o.rd_value = op.rd_value /\ o.buffer = op.buffer
      /\ o.rs1 = op.rs1 /\ o.rs2 = op.rs2 /\ "rd_value" \in DOMAIN o
  BY DEF Hears, Asking, OperandFields
<1>3. o.inst_type \in Sourced1 =>
        /\ Operand(c, e, g, At(c, o.pc).rs1, o.pc, o.rs1, o.rs1_valid, o.rs1_value)
        /\ o.rs1_valid = INVALID => o.rs1 # tag
  BY <1>1, <1>2, NotWork DEF Hears, Awaits1, Operands, Operand
<1>4. o.inst_type \in TwoSource =>
        /\ Operand(c, e, g, At(c, o.pc).rs2, o.pc, o.rs2, o.rs2_valid, o.rs2_value)
        /\ o.rs2_valid = INVALID => o.rs2 # tag
  BY <1>1, <1>2, NotWork DEF Hears, Awaits2, Operands, Operand
<1>5. Operands(c, e, g, o)
  BY <1>3, <1>4 DEF Operands
<1>6. Carried(c, op) => Carried(c, o)
  BY <1>2 DEF Carried
<1> QED BY <1>3, <1>4, <1>5, <1>6

\* The oldest writer k retires: its value is in the register file.
Retires(c, e, g, k, f, h) ==
  /\ k \in Writing(e) /\ e[k].valid = VALID
  /\ \A i \in Writing(e) : e[i].inst_ptr \in Int /\ (i = k \/ e[k].inst_ptr < e[i].inst_ptr)
  /\ \A i \in RobIndex : f[i] = IF i = k THEN FreeRobEntry ELSE e[i]
  /\ At(c, e[k].inst_ptr).rd \in DOMAIN g
  /\ h = [g EXCEPT ![At(c, e[k].inst_ptr).rd] = e[k].rd_value]

LEMMA RetiresValues ==
  ASSUME NEW c, NEW e, NEW g, NEW k, NEW f, NEW h, Retires(c, e, g, k, f, h),
         NEW p, e[k].inst_ptr < p
  PROVE  /\ Moves(c, e, g, f, h, p)
         /\ \A r, tag : tag # e[k].rd /\ Producer(c, e, r, p, tag) => Producer(c, f, r, p, tag)
<1> DEFINE reg == At(c, e[k].inst_ptr).rd
<1>0. /\ k \in Writing(e) /\ e[k].valid = VALID
      /\ \A i \in Writing(e) : e[i].inst_ptr \in Int /\ (i = k \/ e[k].inst_ptr < e[i].inst_ptr)
      /\ \A i \in RobIndex : f[i] = IF i = k THEN FreeRobEntry ELSE e[i]
      /\ reg \in DOMAIN g /\ h = [g EXCEPT ![reg] = e[k].rd_value]
  BY DEF Retires
<1> HIDE DEF reg
<1>1. \A i \in RobIndex : i \in Writing(f) <=> i \in Writing(e) /\ i # k
  BY <1>0, NotWork DEF Writing, FreeRobEntry
<1>2. k \in RobIndex
  BY <1>0, WritingIsIndex
<1>3. \A i, r : i \in RobIndex => (Writes(c, f, i, r, p) <=> Writes(c, e, i, r, p) /\ i # k)
  BY <1>0, <1>1 DEF Writes
<1>4. \A r : Writes(c, e, k, r, p) <=> r = reg
  BY <1>0 DEF Writes, reg
<1>5. \A i, r : Writes(c, e, i, r, p) /\ i # k => f[i] = e[i] /\ e[k].inst_ptr < e[i].inst_ptr
                                                 /\ e[i].inst_ptr \in Int /\ e[k].inst_ptr \in Int
  BY <1>0, WritingIsIndex DEF Writes
<1> HIDE DEF Writes
<1>6. ASSUME NEW i \in RobIndex, NEW r, Newest(c, e, i, r, p), i # k PROVE Newest(c, f, i, r, p)
  BY <1>3, <1>5, <1>6 DEF Newest
<1>7. ASSUME NEW r, NEW v, ValueOf(c, e, g, r, p, v) PROVE ValueOf(c, f, h, r, p, v)
  <2>1. CASE v = g[r] /\ \A j \in RobIndex : ~Writes(c, e, j, r, p)
    <3>1. r # reg
      BY <1>2, <1>4, <2>1
    <3>2. h[r] = g[r]
      BY <1>0, <3>1
    <3> QED BY <1>3, <2>1, <3>2 DEF ValueOf
  <2>2. ASSUME NEW j \in RobIndex, Newest(c, e, j, r, p), e[j].valid = VALID, e[j].rd_value = v
        PROVE  ValueOf(c, f, h, r, p, v)
    <3>1. CASE j = k
      <4>1. r = reg /\ h[r] = v
        BY <1>0, <1>4, <2>2, <3>1 DEF Newest
      <4>2. \A i \in RobIndex : ~Writes(c, f, i, r, p)
        <5> SUFFICES ASSUME NEW i \in RobIndex, Writes(c, f, i, r, p) PROVE FALSE
          OBVIOUS
        <5>1. Writes(c, e, i, r, p) /\ i # k
          BY <1>3
        <5>2. e[i].inst_ptr <= e[k].inst_ptr
          BY <2>2, <3>1, <5>1 DEF Newest
        <5> QED BY <1>5, <5>1, <5>2
      <4> QED BY <4>1, <4>2 DEF ValueOf
    <3>2. CASE j # k
      <4>1. Newest(c, f, j, r, p) /\ f[j] = e[j]
        BY <1>5, <1>6, <2>2, <3>2 DEF Newest
      <4> QED BY <2>2, <4>1 DEF ValueOf
    <3> QED BY <3>1, <3>2
  <2> QED BY <1>7, <2>1, <2>2 DEF ValueOf
<1>8. \A v : Correct(c, e, g, p, v) => Correct(c, f, h, p, v)
  BY <1>7, Zenon DEF Correct
<1>9. ASSUME NEW r, NEW tag, tag # e[k].rd, Producer(c, e, r, p, tag) PROVE Producer(c, f, r, p, tag)
  <2>1. PICK j \in RobIndex : Newest(c, e, j, r, p) /\ e[j].rd = tag
    BY <1>9 DEF Producer
  <2>2. Newest(c, f, j, r, p) /\ f[j] = e[j]
    BY <1>5, <1>6, <1>9, <2>1 DEF Newest
  <2> QED BY <2>1, <2>2 DEF Producer
<1> QED BY <1>7, <1>8, <1>9 DEF Moves

\* Whoever asks for another tag goes on asking.
LEMMA RetiresOperands ==
  ASSUME NEW c, NEW e, NEW g, NEW f, NEW h, NEW gone, NEW op, Operands(c, e, g, op),
         Moves(c, e, g, f, h, op.pc),
         \A r, tag : tag # gone /\ Producer(c, e, r, op.pc, tag) => Producer(c, f, r, op.pc, tag),
         op.inst_type \in Sourced1 /\ op.rs1_valid = INVALID => op.rs1 # gone,
         op.inst_type \in TwoSource /\ op.rs2_valid = INVALID => op.rs2 # gone
  PROVE  Operands(c, f, h, op)
  BY DEF Operands, Operand, Moves

\* Whatever is at work is an instruction on registers, with an entry that waits for it.
LEMMA TrackOrigin ==
  ASSUME NEW c, NEW e, NEW W, NEW U, TrackInv(e, W, U), EntryOrigin(c, e),
         NEW place \in Place, NEW op, W[place] = Inst(op), op.inst_type # 0
  PROVE  \E j \in Writing(e) :
           /\ e[j].valid = INVALID /\ e[j].inst_ptr = op.pc /\ e[j].rd = op.rd
           /\ e[j].inst_type = op.inst_type /\ e[j].inst_ptr \in Int
           /\ op.inst_type \in RegisterTypes /\ op.inst_type = At(c, op.pc).inst_type
           /\ \A i \in RobIndex : e[i].status = VALID /\ e[i].inst_ptr = op.pc => i = j
<1>1. Holds(W, place) /\ W[place].pc = op.pc /\ W[place].rd = op.rd /\ W[place].inst_type = op.inst_type
  BY InstFields DEF Holds
<1>2. PICK j \in RobIndex :
        /\ Awaits(e, j, W[place])
        /\ \A i \in RobIndex : e[i].status = VALID /\ e[i].inst_ptr = W[place].pc => i = j
  BY <1>1, EntryOfWork
<1>3. /\ e[j].status = VALID /\ e[j].valid = INVALID
      /\ e[j].inst_ptr = op.pc /\ e[j].rd = op.rd /\ e[j].inst_type = op.inst_type
  BY <1>1, <1>2 DEF Awaits, Unfinished, Matches
<1>4. e[j].inst_type # HALT /\ e[j].inst_ptr \in Int
  BY <1>3, NotWork DEF TrackInv, EntriesDiffer, EntryShape
<1>5. e[j].inst_type \in RegisterTypes /\ e[j].inst_type = At(c, e[j].inst_ptr).inst_type
  BY <1>3, <1>4 DEF EntryOrigin
<1>6. j \in Writing(e)
  BY <1>3, <1>5, RegisterTypesApart DEF Writing
<1> QED BY <1>1, <1>2, <1>3, <1>4, <1>5, <1>6

LEMMA QueueOrigin ==
  ASSUME WorkInv, OriginInv, NEW i \in IqIndex, iq[i].status = VALID
  PROVE  LET e == rob.rob_entry
             op == iq[i].op
         IN  \E j \in Writing(e) :
               /\ e[j].valid = INVALID /\ e[j].inst_ptr = op.pc /\ e[j].rd = op.rd
               /\ e[j].inst_type = op.inst_type /\ e[j].inst_ptr \in Int
               /\ op.inst_type \in RegisterTypes /\ op.inst_type = At(code, op.pc).inst_type
<1> DEFINE W == Work(iq, lsq, stage, Open)
<1>1. TrackInv(rob.rob_entry, W, Unaddressed(lsq)) /\ EntryOrigin(code, rob.rob_entry)
  BY DEF WorkInv, PlacesInv, OriginInv
<1>2. W[IqPlace(i)] = Inst(iq[i].op) /\ IqPlace(i) \in Place
  BY WorkAt, PlacesOf
<1>3. iq[i].op.inst_type # 0
  BY NotWork DEF WorkInv, PlacesInv, IqShape, Queued, MOVC, JUMP
<1> HIDE DEF W
<1> QED BY <1>1, <1>2, <1>3, TrackOrigin

LEMMA UnitOrigin ==
  ASSUME WorkInv, OriginInv, NEW u \in (FrontUnits \cup {"MEM"}) \cap Open, stage[u].inst_type # 0
  PROVE  LET e == rob.rob_entry
             op == stage[u]
         IN  \E j \in Writing(e) :
               /\ e[j].valid = INVALID /\ e[j].inst_ptr = op.pc /\ e[j].rd = op.rd
               /\ e[j].inst_type = op.inst_type /\ e[j].inst_ptr \in Int
               /\ op.inst_type \in RegisterTypes /\ op.inst_type = At(code, op.pc).inst_type
<1> DEFINE W == Work(iq, lsq, stage, Open)
<1>1. TrackInv(rob.rob_entry, W, Unaddressed(lsq)) /\ EntryOrigin(code, rob.rob_entry)
  BY DEF WorkInv, PlacesInv, OriginInv
<1>2. W[UnitPlace(u)] = Inst(stage[u]) /\ UnitPlace(u) \in Place
  BY WorkAt, PlacesOf
<1> HIDE DEF W
<1> QED BY <1>1, <1>2, TrackOrigin

-----------------------------------------------------------------------------
(***************************************************************************)
(* The units.                                                              *)
(***************************************************************************)
\* What holds of unit u.
UnitCorrect(u) ==
  stage[u].inst_type # 0 =>
    IF Computed(u) THEN Correct(code, rob.rob_entry, regs, stage[u].pc, stage[u].rd_value)
    ELSE Carried(code, stage[u]) /\ Ready(code, rob.rob_entry, regs, stage[u])

LEMMA UnitsAre ==
  /\ UnitsCorrect(code, rob.rob_entry, regs, Open) <=> \A u \in FrontUnits \cap Open : UnitCorrect(u)
  /\ UnitsCorrect(code, rob.rob_entry, regs, Open)' <=> \A u \in FrontUnits \cap Open' : UnitCorrect(u)'
  BY DEF UnitsCorrect, UnitCorrect

\* A step of the units.
LEMMA QuietValues ==
  ASSUME ValueInv, UNCHANGED <<rob, regs, code, iq>>,
         IsDecoded' => IsDecoded /\ drf'.op = drf.op,
         \A u \in FrontUnits \cap Open' : UnitCorrect(u)'
  PROVE  ValueInv'
<1>1. EntriesCorrect(code, rob.rob_entry, regs)' /\ QueueCorrect(code, rob.rob_entry, regs, iq)'
  BY DEF ValueInv
<1>2. (IsDecoded => LatchCorrect(code, rob.rob_entry, regs, drf.op))'
  BY DEF ValueInv
<1>3. UnitsCorrect(code, rob.rob_entry, regs, Open)'
  BY UnitsAre
<1> QED BY <1>1, <1>2, <1>3 DEF ValueInv

LEMMA UnitStays ==
  ASSUME NEW u, UnitCorrect(u), UNCHANGED <<rob, regs, code>>, stage'[u] = stage[u],
         Computed(u)' <=> Computed(u)
  PROVE  UnitCorrect(u)'
  BY DEF UnitCorrect

\* The units compute with the operands of the sequential machine.
LEMMA Computes ==
  ASSUME NEW c, NEW e, NEW g, NEW op, op.inst_type \in RegisterTypes,
         op.inst_type = At(c, op.pc).inst_type, Carried(c, op), Ready(c, e, g, op),
         NEW b, b = IF op.inst_type \in UsesLiteral THEN op.buffer ELSE op.rs2_value
  PROVE  Correct(c, e, g, op.pc, Result(op.inst_type, op.rs1_value, b, op.rd_value))
<1> DEFINE a == op.rs1_value
           in == At(c, op.pc)
<1>1. in.inst_type \in Sourced1 => ValueOf(c, e, g, in.rs1, op.pc, a)
  BY DEF Ready
<1>2. in.inst_type \in UsesLiteral => b = in.imm
  BY DEF Carried
<1>3. UsesLiteral \cap TwoSource = {}
  BY DEF UsesLiteral, TwoSource, MOVC, ADDL, SUBL, STR, LDR, ADD, SUB, MUL, DIV, AND, OR, EXOR
<1>4. in.inst_type \in TwoSource => ValueOf(c, e, g, in.rs2, op.pc, b)
  BY <1>3 DEF Ready
<1>5. Result(op.inst_type, op.rs1_value, b, op.rd_value) = Result(in.inst_type, a, b, 0)
  BY DEF Carried
<1> HIDE DEF a, in
<1>6. /\ in.inst_type \in Sourced1    => ValueOf(c, e, g, in.rs1, op.pc, a)
      /\ in.inst_type \in TwoSource   => ValueOf(c, e, g, in.rs2, op.pc, b)
      /\ in.inst_type \in UsesLiteral => b = in.imm
      /\ Result(op.inst_type, op.rs1_value, b, op.rd_value) = Result(in.inst_type, a, b, 0)
  BY <1>1, <1>2, <1>4, <1>5
<1> QED BY <1>6, Zenon DEF Correct, in

\* What a unit computes is the result of its instruction.
LEMMA ComputesUnit ==
  ASSUME WorkInv, OriginInv, NEW u \in {"INT_TWO", "MUL_THREE"}, u \in Open, UnitCorrect(u), ~Computed(u),
         stage[u].inst_type # 0, UNCHANGED <<rob, regs, code>>, Computed(u)',
         LET op == stage[u]
             b  == IF op.inst_type \in UsesLiteral THEN op.buffer ELSE op.rs2_value
         IN  stage'[u] = [op EXCEPT !.rd_value = Result(op.inst_type, op.rs1_value, b, @), !.rd_valid = VALID]
  PROVE  UnitCorrect(u)'
<1> DEFINE op == stage[u]
           b  == IF op.inst_type \in UsesLiteral THEN op.buffer ELSE op.rs2_value
<1>1. Carried(code, op) /\ Ready(code, rob.rob_entry, regs, op)
  BY DEF UnitCorrect
<1>2. op.inst_type \in RegisterTypes /\ op.inst_type = At(code, op.pc).inst_type
  <2>1. u \in (FrontUnits \cup {"MEM"}) \cap Open
    BY DEF FrontUnits
  <2> QED BY <2>1, UnitOrigin
<1> HIDE DEF b
<1>3. Correct(code, rob.rob_entry, regs, op.pc, Result(op.inst_type, op.rs1_value, b, op.rd_value))
  BY <1>1, <1>2, Computes DEF b
<1>4. stage'[u].pc = op.pc /\ stage'[u].rd_value = Result(op.inst_type, op.rs1_value, b, op.rd_value)
  <2>1. stage'[u] = [op EXCEPT !.rd_value = Result(op.inst_type, op.rs1_value, b, op.rd_value), !.rd_valid = VALID]
    BY DEF b
  <2>2. "rd_value" \in DOMAIN op /\ "pc" \in DOMAIN op
    <3>1. HasInst(op)
      BY DEF WorkInv, PlacesInv, UnitShape, Units
    <3> QED BY <1>1, <3>1 DEF Carried, HasInst
  <2> HIDE DEF op
  <2> QED BY <2>1, <2>2
<1> HIDE DEF op
<1>5. Correct(code, rob.rob_entry, regs, stage'[u].pc, stage'[u].rd_value)
  BY <1>3, <1>4
<1> QED BY <1>5 DEF UnitCorrect

LEMMA UnitsValueStep ==
  ASSUME WorkInv, OriginInv, ValueInv, IntOne \/ IntTwo \/ MulOne \/ MulThree \/ Branch \/ Mem \/ PushUnits
  PROVE  ValueInv'
<1>1. /\ UNCHANGED <<drf, rob, iq, regs, code>>
      /\ IsDecoded /\ IsDecoded'
  BY UnitsQuiet DEF IsDecoded
<1>2. \A u \in FrontUnits \cap Open : UnitCorrect(u)
  BY UnitsAre DEF ValueInv
<1>3. DOMAIN stage = Units
  BY DEF WorkInv, PlacesInv, UnitShape
<1>4. \A u \in FrontUnits : u \in Units /\ u # "BRANCH" /\ u # "MEM"
  BY DEF FrontUnits, Units
<1> SUFFICES ASSUME NEW u \in FrontUnits \cap Open' PROVE UnitCorrect(u)'
  BY <1>1, QuietValues
<1>5. CASE IntOne \/ MulOne
  <2>1. Open' = Units /\ Open = Units /\ stage' = stage /\ (Computed(u)' <=> Computed(u))
    BY <1>5 DEF IntOne, MulOne, Turn, Open, Drained, Computed, backVars
  <2> QED BY <1>1, <1>2, <1>4, <2>1, UnitStays
<1>6. CASE IntTwo
  <2>1. step = "int_two" /\ step' = "mul_one" /\ Open = Units
    BY <1>6 DEF IntTwo, Turn, Open, Drained
  <2> DEFINE op == stage["INT_TWO"]
             b  == IF op.inst_type \in UsesLiteral \cup {STORE, LOAD} THEN op.buffer ELSE op.rs2_value
  <2>2. CASE op.inst_type = 0
    <3>1. stage' = stage
      BY <1>6, <2>2, NotWork DEF IntTwo
    <3>2. u = "INT_TWO" \/ (Computed(u)' <=> Computed(u))
      BY <2>1 DEF Computed
    <3>3. u = "INT_TWO" => UnitCorrect(u)'
      BY <2>2, <3>1 DEF UnitCorrect
    <3> QED BY <1>1, <1>2, <1>4, <2>1, <3>1, <3>2, <3>3, UnitStays
  <2>3. CASE op.inst_type # 0
    <3>1. "INT_TWO" \in (FrontUnits \cup {"MEM"}) \cap Open
      BY <2>1 DEF FrontUnits, Units
    <3>2. op.inst_type \in RegisterTypes
      BY <2>3, <3>1, UnitOrigin
    <3>3. op.inst_type \notin MemOps /\ STORE \in MemOps /\ LOAD \in MemOps
      BY <3>2, RegisterTypesApart DEF MemOps, Stores, Loads
    <3>4. stage' = [stage EXCEPT !["INT_TWO"].rd_value = Result(op.inst_type, op.rs1_value, b, @),
                                 !["INT_TWO"].rd_valid = VALID]
      BY <1>6, <2>3, <3>3 DEF IntTwo
    <3>5. b = IF op.inst_type \in UsesLiteral THEN op.buffer ELSE op.rs2_value
      BY <3>3
    <3> HIDE DEF b
    <3>6. /\ stage'["INT_TWO"] = [op EXCEPT !.rd_value = Result(op.inst_type, op.rs1_value, b, @), !.rd_valid = VALID]
          /\ \A v \in Units : v # "INT_TWO" => stage'[v] = stage[v]
      BY <1>3, <3>1, <3>4 DEF Units
    <3>7. CASE u = "INT_TWO"
      <4>1. ~Computed(u) /\ Computed(u)' /\ u \in Open /\ UnitCorrect(u)
        BY <1>2, <2>1, <3>1, <3>7 DEF Computed
      <4>2. stage'[u] = [op EXCEPT !.rd_value = Result(op.inst_type, op.rs1_value, IF op.inst_type \in UsesLiteral THEN op.buffer ELSE op.rs2_value, @), !.rd_valid = VALID]
        BY <3>5, <3>6, <3>7
      <4> QED BY <1>1, <2>3, <3>7, <4>1, <4>2, ComputesUnit
    <3>8. CASE u # "INT_TWO"
      <4>1. (Computed(u)' <=> Computed(u)) /\ u \in Units
        BY <1>4, <2>1, <3>8 DEF Computed
      <4> QED BY <1>1, <1>2, <2>1, <3>6, <3>8, <4>1, UnitStays
    <3> QED BY <3>7, <3>8
  <2> QED BY <2>2, <2>3
<1>7. CASE MulThree
  <2>1. step = "mul_three" /\ step' = "branch" /\ Open = Units
    BY <1>7 DEF MulThree, Turn, Open, Drained
  <2> DEFINE op == stage["MUL_THREE"]
  <2>2. CASE op.inst_type # MUL
    <3>1. stage' = stage
      BY <1>7, <2>2 DEF MulThree
    <3>2. u = "MUL_THREE" \/ (Computed(u)' <=> Computed(u))
      BY <2>1 DEF Computed
    <3>3. op.inst_type = 0
      BY <2>2 DEF WorkInv, PlacesInv, UnitShape, UnitTypes, Units
    <3>4. u = "MUL_THREE" => UnitCorrect(u)'
      BY <3>1, <3>3 DEF UnitCorrect
    <3> QED BY <1>1, <1>2, <1>4, <2>1, <3>1, <3>2, <3>4, UnitStays
  <2>3. CASE op.inst_type = MUL
    <3>1. stage' = [stage EXCEPT !["MUL_THREE"].rd_value = Result(MUL, op.rs1_value, op.rs2_value, @),
                                 !["MUL_THREE"].rd_valid = VALID]
      BY <1>7, <2>3 DEF MulThree
    <3>2. MUL \notin UsesLiteral /\ MUL # 0
      BY DEF UsesLiteral, MUL, MOVC, ADDL, SUBL
    <3>3. /\ stage'["MUL_THREE"] = [op EXCEPT !.rd_value = Result(op.inst_type, op.rs1_value, op.rs2_value, @), !.rd_valid = VALID]
          /\ \A v \in Units : v # "MUL_THREE" => stage'[v] = stage[v]
      BY <1>3, <2>3, <3>1 DEF Units
    <3>4. CASE u = "MUL_THREE"
      <4>1. ~Computed(u) /\ Computed(u)' /\ u \in Open /\ UnitCorrect(u)
        BY <1>2, <1>4, <2>1, <3>4 DEF Computed
      <4>2. stage'[u] = [op EXCEPT !.rd_value = Result(op.inst_type, op.rs1_value, IF op.inst_type \in UsesLiteral THEN op.buffer ELSE op.rs2_value, @), !.rd_valid = VALID]
        BY <2>3, <3>2, <3>3, <3>4
      <4> QED BY <1>1, <2>3, <3>2, <3>4, <4>1, <4>2, ComputesUnit
    <3>5. CASE u # "MUL_THREE"
      <4>1. (Computed(u)' <=> Computed(u)) /\ u \in Units
        BY <1>4, <2>1, <3>5 DEF Computed
      <4> QED BY <1>1, <1>2, <2>1, <3>3, <3>5, <4>1, UnitStays
    <3> QED BY <3>4, <3>5
  <2> QED BY <2>2, <2>3
<1>8. CASE Branch
  <2>1. Open = Units /\ (Computed(u)' <=> Computed(u))
    BY <1>8 DEF Branch, Turn, Open, Drained, Computed
  <2>2. stage'[u] = stage[u]
    BY <1>3, <1>4, <1>8 DEF Branch
  <2> QED BY <1>1, <1>2, <1>4, <2>1, <2>2, UnitStays
<1>9. CASE Mem
  <2>1. Open = Units /\ (Computed(u)' <=> Computed(u))
    BY <1>9 DEF Mem, Turn, Open, Drained, Computed
  <2>2. stage'[u] = stage[u]
    BY <1>3, <1>4, <1>9 DEF Mem
  <2> QED BY <1>1, <1>2, <1>4, <2>1, <2>2, UnitStays
<1>10. CASE PushUnits
  <2>1. step = "push_units" /\ step' = "commit" /\ {"INT_ONE", "MUL_ONE", "MUL_TWO"} \subseteq Open
    BY <1>10 DEF PushUnits, Turn, Open, Drained
  <2>2. ~Computed(u)' /\ \A v : ~Computed(v)
    BY <2>1 DEF Computed
  <2>3. \/ stage'[u] = NoOp
        \/ \E v \in {"INT_ONE", "MUL_ONE", "MUL_TWO"} : stage'[u] = stage[v]
    BY <1>3, <1>4, <1>10 DEF PushUnits, FrontUnits, Units
  <2>4. stage'[u] = NoOp => UnitCorrect(u)'
    BY DEF UnitCorrect, NoOp
  <2>5. ASSUME NEW v \in {"INT_ONE", "MUL_ONE", "MUL_TWO"}, stage'[u] = stage[v] PROVE UnitCorrect(u)'
    <3>1. UnitCorrect(v)
      BY <1>2, <2>1 DEF FrontUnits
    <3> QED BY <1>1, <2>2, <2>5, <3>1 DEF UnitCorrect
  <2> QED BY <2>3, <2>4, <2>5
<1> QED BY <1>5, <1>6, <1>7, <1>8, <1>9, <1>10

-----------------------------------------------------------------------------
(***************************************************************************)
(* The queues and the front end.                                           *)
(***************************************************************************)
\* What issues has its operands.
LEMMA IssuedReady ==
  ASSUME WorkInv, OriginInv, ValueInv, FedInv, NEW i \in IqIndex \cap Issued
  PROVE  LET o == IssuedOp(iq[i].op)
         IN  Carried(code, o) /\ Ready(code, rob.rob_entry, regs, o)
<1> DEFINE op == iq[i].op
           e  == rob.rob_entry
           o  == IssuedOp(op)
<1>1. iq[i].status = VALID /\ ReadyToIssue(op)
  <2>1. PICK k \in IqIndex : i = IssueOrder(iq)[k]
    BY Zenon DEF Issued
  <2> QED BY <2>1, IssueOrderReady
<1>2. op.inst_type \in RegisterTypes
  BY <1>1, QueueOrigin
<1>3. Carried(code, op) /\ Operands(code, e, regs, op)
  BY <1>1 DEF ValueInv, QueueCorrect
<1> HIDE DEF e
<1>4. /\ o.inst_type = op.inst_type /\ o.pc = op.pc /\ o.buffer = op.buffer /\ o.rd_value = op.rd_value
      /\ o.rs1_value = op.rs1_value /\ o.rs2_value = op.rs2_value /\ "rd_value" \in DOMAIN o
  <2>1. Asking(op)
    BY DEF FedInv
  <2> HIDE DEF op
  <2> QED BY <2>1 DEF Asking, OperandFields, HasInst, IssuedOp
<1>5. /\ op.inst_type \in Sourced1  => op.rs1_valid = VALID
      /\ op.inst_type \in TwoSource => op.rs2_valid = VALID
  <2>1. op.inst_type \notin {BZ, BNZ} /\ OneSource \cap TwoSource = {} /\ MOVC \notin Sourced1
    BY <1>2 DEF RegisterTypes, BZ, BNZ, MOVC, OR, OneSource, TwoSource, Sourced1, STORE, LOAD, MOV, ADDL,
                SUBL, JUMP, STR, LDR, ADD, SUB, MUL, DIV, AND, EXOR
  <2> HIDE DEF op
  <2> QED BY <1>1, <2>1 DEF ReadyToIssue, Sourced1
<1> HIDE DEF op, o
<1>6. Ready(code, e, regs, op)
  BY <1>3, <1>5, NotWork DEF Operands, Operand, Ready
<1>7. Carried(code, o) /\ Ready(code, e, regs, o)
  BY <1>3, <1>4, <1>6 DEF Carried, Ready
<1> QED BY <1>7 DEF op, o, e

LEMMA IssueValueStep ==
  ASSUME WorkInv, OriginInv, ValueInv, FedInv, Issue
  PROVE  ValueInv'
<1>1. /\ step = "issue" /\ step' = "int_one" /\ UNCHANGED <<drf, rob, regs, code>>
      /\ Open = Units /\ Open' = Units
  BY DEF Issue, Turn, archVars, histVars, Open, Drained
<1>2. /\ iq' = Leave(iq, Issued, FreeIqEntry)
      /\ stage' = [u \in Units |->
                     IF u = "MEM" /\ ToMem # {} THEN lsq[CHOOSE i \in ToMem : TRUE].op
                     ELSE IF Filled(u) = {} THEN stage[u]
                     ELSE IssuedOp(iq[CHOOSE i \in Filled(u) : TRUE].op)]
  BY IssueSteps
<1>3. IsDecoded /\ IsDecoded'
  BY <1>1 DEF IsDecoded
<1>4. QueueCorrect(code, rob.rob_entry, regs, iq)'
  <2>1. IqShape(iq)
    BY DEF WorkInv, PlacesInv
  <2>2. \A i \in IqIndex : iq'[i].status = VALID => iq[i].status = VALID /\ iq'[i].op = iq[i].op
    BY <1>2, <2>1, NotWork DEF Leave, Aged, FreeIqEntry, IqShape
  <2> QED BY <1>1, <2>2 DEF ValueInv, QueueCorrect
<1>5. ASSUME NEW u \in FrontUnits PROVE UnitCorrect(u)'
  <2>1. u \in Units /\ u # "MEM" /\ ~Computed(u) /\ ~Computed(u)'
    BY <1>1 DEF FrontUnits, Units, Computed
  <2>2. UnitCorrect(u)
    BY <1>1, <2>1, UnitsAre DEF ValueInv
  <2>3. CASE Filled(u) = {}
    <3>1. stage'[u] = stage[u]
      BY <1>2, <2>1, <2>3
    <3> QED BY <1>1, <2>1, <2>2, <3>1, UnitStays
  <2>4. CASE Filled(u) # {}
    <3>1. PICK i \in Filled(u) : stage'[u] = IssuedOp(iq[i].op)
      BY <1>2, <2>1, <2>4, Zenon
    <3>2. i \in IqIndex \cap Issued
      BY <3>1 DEF Filled
    <3> DEFINE o == IssuedOp(iq[i].op)
    <3>3. Carried(code, o) /\ Ready(code, rob.rob_entry, regs, o)
      BY <3>2, IssuedReady
    <3> HIDE DEF o
    <3>4. stage'[u] = o
      BY <3>1 DEF o
    <3> QED BY <1>1, <2>1, <3>3, <3>4 DEF UnitCorrect
  <2> QED BY <2>3, <2>4
<1>6. UnitsCorrect(code, rob.rob_entry, regs, Open)'
  BY <1>5, UnitsAre
<1>7. EntriesCorrect(code, rob.rob_entry, regs)' /\ (IsDecoded => LatchCorrect(code, rob.rob_entry, regs, drf.op))'
  BY <1>1, <1>3 DEF ValueInv
<1> QED BY <1>4, <1>6, <1>7 DEF ValueInv

\* The front end: fetch and push leave what is decoded alone.
LEMMA FetchValueStep ==
  ASSUME WorkInv, OriginInv, ValueInv, Fetch PROVE ValueInv'
<1>1. /\ step = "fetch" /\ step' = "push_units" /\ UNCHANGED <<drf, regs, rob, iq, stage, mem_stage, code>>
  BY FetchCases
<1>2. IsDecoded' => IsDecoded /\ drf'.op = drf.op
  BY <1>1 DEF IsDecoded
<1>3. Open' = Open /\ \A u \in FrontUnits : UnitCorrect(u) => UnitCorrect(u)'
  BY <1>1, UnitStays DEF Open, Drained, Computed
<1> QED BY <1>1, <1>2, <1>3, QuietValues, UnitsAre DEF ValueInv

LEMMA PushFrontValueStep ==
  ASSUME WorkInv, ValueInv, PushFront PROVE ValueInv'
<1>1. /\ step = "push_front" /\ step' = "decode" /\ UNCHANGED <<regs, rob, iq, stage, mem_stage, code>>
  BY DEF PushFront, Turn, archVars, backVars, queueVars, histVars
<1>2. IsDecoded' => IsDecoded /\ drf'.op = drf.op
  <2>1. IsDecoded
    BY <1>1 DEF IsDecoded
  <2>2. CASE fetch_stage.stalled = INVALID
    BY <1>1, <2>2, NotWork DEF IsDecoded, PushFront
  <2>3. CASE fetch_stage.stalled # INVALID
    BY <2>1, <2>3 DEF PushFront
  <2> QED BY <2>2, <2>3
<1>3. Open' = Open /\ \A u \in FrontUnits : UnitCorrect(u) => UnitCorrect(u)'
  BY <1>1, UnitStays DEF Open, Drained, Computed
<1> QED BY <1>1, <1>2, <1>3, QuietValues, UnitsAre DEF ValueInv

\* A result that goes to the register file reaches everybody in flight.
LEMMA CommitWriterValues ==
  ASSUME RegisterPrograms, WorkInv, TagInv, OriginInv, StallInv, Covered, RetiredInv, ValueInv, FedInv,
         OrderInv', Mach, ret = 0, step = "commit", step' = "issue", UNCHANGED <<stage, code>>,
         NEW c, CommitsWriter(c)
  PROVE  ValueInv'
<1> DEFINE e     == rob.rob_entry
           f     == rob'.rob_entry
           tag   == e[c].rd
           value == e[c].rd_value
           p     == e[c].inst_ptr
           reg   == rename.reg_rename[tag].rename_tag
<1>1. /\ c \in Writing(e) /\ e[c].status = VALID /\ e[c].valid = VALID
      /\ \A i \in RobIndex : f[i] = IF i = c THEN FreeRobEntry ELSE e[i]
      /\ \A i \in Writing(e) : i = c \/ p < e[i].inst_ptr
      /\ reg \in Regs /\ regs' = [regs EXCEPT ![reg] = value]
      /\ drf' = ForwardToDecode(drf, tag, value, VALID)
      /\ iq' = update_issue_queue_entry(iq, tag, value)
  BY DEF CommitsWriter, Removes
<1>2. SameLatch(drf', drf)
  BY <1>1, SameLatchDrf, ForwardSame
<1>3. p < drf.op.pc /\ \A i \in RobIndex : e[i].status = VALID /\ i # c => p < e[i].inst_ptr
  BY <1>2, CommitMoves
<1>4. reg = At(code, p).rd /\ reg \in DOMAIN regs
  BY <1>1 DEF OriginInv, EntryRegisters
<1>5. \A i \in Writing(e) : e[i].rd = tag => e[i].valid = VALID /\ e[i].rd_value = value
  BY <1>1, OneHolder
<1>6. \A i \in Writing(e) : e[i].inst_ptr \in Int
  BY WritingIsIndex DEF WorkInv, PlacesInv, TrackInv, EntryShape
<1>7. \A i \in RobIndex : i \in Writing(f) <=> i \in Writing(e) /\ i # c
  BY <1>1, NotWork DEF Writing, FreeRobEntry
<1> HIDE DEF reg, value, tag, f, e, p
<1>8. ASSUME NEW q, p < q
      PROVE  /\ Moves(code, e, regs, f, regs', q)
             /\ \A r, t : t # tag /\ Producer(code, e, r, q, t) => Producer(code, f, r, q, t)
  <2>1. Retires(code, e, regs, c, f, regs')
    BY <1>1, <1>4, <1>6 DEF Retires, p, value, tag
  <2> QED BY <1>8, <2>1, RetiresValues DEF p, tag
<1>9. ASSUME NEW op, NEW o, Hears(o, op, tag, value), Operands(code, e, regs, op), Carried(code, op),
             p < op.pc
      PROVE  Operands(code, f, regs', o) /\ Carried(code, o)
  <2>1. /\ Operands(code, e, regs, o) /\ Carried(code, o)
        /\ o.inst_type \in Sourced1 /\ o.rs1_valid = INVALID => o.rs1 # tag
        /\ o.inst_type \in TwoSource /\ o.rs2_valid = INVALID => o.rs2 # tag
    BY <1>5, <1>9, HearsOperands
  <2>2. p < o.pc
    BY <1>9 DEF Hears
  <2> QED BY <1>8, <2>1, <2>2, RetiresOperands
<1>10. EntriesCorrect(code, rob.rob_entry, regs)'
  <2> SUFFICES ASSUME NEW i \in Writing(f)
               PROVE  /\ "rd_value" \in DOMAIN f[i]
                      /\ f[i].valid = VALID => Correct(code, f, regs', f[i].inst_ptr, f[i].rd_value)
    BY DEF EntriesCorrect, f
  <2>1. i \in Writing(e) /\ i # c /\ f[i] = e[i] /\ i \in RobIndex
    BY <1>1, <1>7, WritingIsIndex
  <2>2. /\ "rd_value" \in DOMAIN e[i]
        /\ e[i].valid = VALID => Correct(code, e, regs, e[i].inst_ptr, e[i].rd_value)
    BY <2>1 DEF ValueInv, EntriesCorrect, e
  <2>3. p < e[i].inst_ptr
    BY <1>1, <2>1
  <2> QED BY <1>8, <2>1, <2>2, <2>3 DEF Moves
<1>11. QueueCorrect(code, rob.rob_entry, regs, iq)'
  <2> SUFFICES ASSUME NEW i \in IqIndex, iq'[i].status = VALID
               PROVE  Carried(code, iq'[i].op) /\ Operands(code, f, regs', iq'[i].op)
    BY DEF QueueCorrect, f
  <2>1. iq[i].status = VALID /\ iq'[i].op = TakeValue(iq[i].op, tag, value)
    BY <1>1, QueueHears, NotWork DEF WorkInv, PlacesInv
  <2>2. Hears(iq'[i].op, iq[i].op, tag, value)
    BY <2>1, TakeHears DEF FedInv
  <2>3. Carried(code, iq[i].op) /\ Operands(code, e, regs, iq[i].op)
    BY <2>1 DEF ValueInv, QueueCorrect, e
  <2>4. PICK j \in Writing(e) : e[j].valid = INVALID /\ e[j].inst_ptr = iq[i].op.pc
    BY <2>1, QueueOrigin DEF e
  <2>5. p < iq[i].op.pc
    BY <1>1, <2>4, NotWork
  <2> QED BY <1>9, <2>2, <2>3, <2>5
<1>12. (IsDecoded => LatchCorrect(code, rob.rob_entry, regs, drf.op))'
  <2>1. Hears(drf'.op, drf.op, tag, value)
    BY <1>1, ForwardHears DEF FedInv, WorkInv, FrontOnce, FrontShape
  <2>2. drf'.op.inst_type = drf.op.inst_type /\ IsDecoded
    BY <2>1 DEF Hears, IsDecoded
  <2>3. drf.op.inst_type \in RegisterTypes => Carried(code, drf.op) /\ Operands(code, e, regs, drf.op)
    BY <2>2 DEF ValueInv, LatchCorrect, e
  <2>4. drf.op.inst_type \in RegisterTypes => Operands(code, f, regs', drf'.op) /\ Carried(code, drf'.op)
    BY <1>3, <1>9, <2>1, <2>3
  <2> QED BY <2>2, <2>4 DEF LatchCorrect, f
<1>13. UnitsCorrect(code, rob.rob_entry, regs, Open)'
  <2> SUFFICES ASSUME NEW u \in FrontUnits \cap Open', stage[u].inst_type # 0 PROVE UnitCorrect(u)'
    BY UnitsAre DEF UnitCorrect
  <2>1. u \in FrontUnits \cap Open /\ ~Computed(u) /\ ~Computed(u)'
    BY DEF Open, Drained, Computed
  <2>2. Carried(code, stage[u]) /\ Ready(code, e, regs, stage[u])
    BY <2>1, UnitsAre DEF ValueInv, UnitCorrect, e
  <2>3. PICK j \in Writing(e) : e[j].valid = INVALID /\ e[j].inst_ptr = stage[u].pc
    BY <2>1, UnitOrigin DEF e
  <2>4. p < stage[u].pc
    BY <1>1, <2>3, NotWork
  <2>5. Ready(code, f, regs', stage[u])
    BY <1>8, <2>2, <2>4, MovesReady
  <2> QED BY <2>1, <2>2, <2>5 DEF UnitCorrect, f
<1> QED BY <1>10, <1>11, <1>12, <1>13 DEF ValueInv

LEMMA CommitValueStep ==
  ASSUME RegisterPrograms, WorkInv, TagInv, OriginInv, StallInv, Covered, RetiredInv, ValueInv, FedInv,
         OrderInv', Mach, Commit, ret' = 0
  PROVE  ValueInv'
<1>1. /\ step = "commit" /\ step' = "issue" /\ ret = 0 /\ UNCHANGED <<stage, code>>
      /\ CommitIdles \/ \E c : CommitsOther(c) \/ CommitsWriter(c)
  BY CommitDoes
<1>2. CASE CommitIdles
  <2>1. UNCHANGED <<regs, drf, iq, stage, code>> /\ rob'.rob_entry = rob.rob_entry
    BY <1>1, <1>2 DEF CommitIdles
  <2>2. IsDecoded /\ Open' = Open
    BY <1>1 DEF IsDecoded, Open, Drained
  <2>3. ASSUME NEW u, UnitCorrect(u) PROVE UnitCorrect(u)'
    BY <1>1, <2>1, <2>3 DEF UnitCorrect, Computed
  <2>4. UnitsCorrect(code, rob.rob_entry, regs, Open)'
    BY <2>2, <2>3, UnitsAre DEF ValueInv
  <2> QED BY <2>1, <2>2, <2>4 DEF ValueInv
<1>3. ASSUME NEW c, CommitsOther(c) PROVE FALSE
  <2>1. /\ c \in RobIndex /\ rob.rob_entry[c].status = VALID
        /\ rob.rob_entry[c].inst_type \in Stores \cup {JUMP, HALT}
        /\ rob.rob_entry[c].inst_type = HALT => ret' = HALT
    BY <1>3 DEF CommitsOther, Removes
  <2>2. rob.rob_entry[c].inst_type \in RegisterTypes \cup {HALT}
    BY <2>1 DEF OriginInv, EntryOrigin
  <2>3. ret' = HALT
    BY <2>1, <2>2, RegisterTypesApart
  <2> QED BY <2>3 DEF HALT
<1>4. ASSUME NEW c, CommitsWriter(c) PROVE ValueInv'
  BY <1>1, <1>4, CommitWriterValues
<1> QED BY <1>1, <1>2, <1>3, <1>4

\* Writeback, unit by unit: w is what it has changed so far, `open' the units left.
WrittenBack(w, open) ==
  /\ WriteWork(w, open) /\ HeardInv(rob.rob_entry, w)
  /\ EntriesCorrect(code, w.rob.rob_entry, regs)
  /\ QueueCorrect(code, w.rob.rob_entry, regs, w.iq)
  /\ LatchCorrect(code, w.rob.rob_entry, regs, w.drf.op)
  /\ \A p : Knows(w.rob.rob_entry, rob.rob_entry, p)

LEMMA KnowsMore ==
  ASSUME NEW e, NEW f, NEW h, NEW p, Knows(f, e, p), Knows(h, f, p)
  PROVE  Knows(h, e, p)
  BY DEF Knows

LEMMA EmptyUnit ==
  ASSUME NEW w, NEW u, Empty(u)
  PROVE  WriteUnit(w, u) = w
  BY WriteUnitIdle

\* A result is written to its entry, and everybody in front of it hears.
LEMMA WriteUnitValues ==
  ASSUME WorkInv, TagInv, OriginInv, ValueInv, step = "writeback",
         NEW w, NEW open, WrittenBack(w, open),
         NEW u \in {"INT_TWO", "MUL_THREE"}, u \in open, UnitReady(u), stage[u].inst_type # 0
  PROVE  WrittenBack(WriteUnit(w, u), open \ {u})
<1> DEFINE n     == WriteUnit(w, u)
           e     == w.rob.rob_entry
           f     == n.rob.rob_entry
           op    == stage[u]
           tag   == op.rd
           value == op.rd_value
           W     == Work(w.iq, w.lsq, stage, open)
           place == UnitPlace(u)
<1>1. TrackInv(e, W, Unaddressed(w.lsq)) /\ SameEntries(e, rob.rob_entry) /\ "rob_entry" \in DOMAIN w.rob
  BY DEF WrittenBack, WriteWork, RobInv, RobShape
<1>2. u \in FrontUnits /\ u # "MEM" /\ u \in Units
  BY DEF FrontUnits, Units
<1>3. place \in Place /\ W[place] = Inst(op)
  BY <1>2, PlacesOf, WorkAt
<1>4. EntryOrigin(code, e)
  BY <1>1 DEF SameEntries, OriginInv, EntryOrigin
<1> HIDE DEF W, place, op, e
<1>5. PICK j \in Writing(e) :
        /\ e[j].valid = INVALID /\ e[j].inst_ptr = op.pc /\ e[j].rd = tag
        /\ op.inst_type \in RegisterTypes
        /\ \A i \in RobIndex : e[i].status = VALID /\ e[i].inst_ptr = op.pc => i = j
  <2>1. op.inst_type # 0
    BY DEF op
  <2> QED BY <1>1, <1>3, <1>4, <2>1, TrackOrigin
<1>6. op.inst_type \notin MemOps /\ Holds(W, place) /\ W[place].pc = op.pc /\ W[place].rd = op.rd
  BY <1>3, <1>5, RegisterTypesApart, InstFields DEF Holds, op
<1>7. /\ op.rd_valid = VALID
      /\ n.rob = update_reorder_buffer_entry_data(w.rob, op)
      /\ n.iq = update_issue_queue_entry(w.iq, tag, value)
      /\ n.drf = ForwardToDecode(w.drf, tag, value, VALID)
  <2>1. Broadcasts(u) /\ WriteShape(w)
    BY <1>2, <1>6 DEF Broadcasts, Empty, op, WrittenBack, HeardInv
  <2> QED BY <2>1, WriteUnitCases DEF op
<1>8. \A i \in RobIndex : f[i] = IF i = j THEN FinishedEntry(e[i], op) ELSE e[i]
  <2>1. \A i \in RobIndex :
          f[i] = IF e[i].status = VALID /\ e[i].inst_ptr = W[place].pc
                 THEN FinishedEntry(e[i], op) ELSE e[i]
    BY <1>1, <1>3, <1>6, <1>7, UpdateHits DEF e
  <2> QED BY <1>5, <1>6, <2>1 DEF Writing
<1>9. /\ "rd_value" \in DOMAIN e[j] /\ j \in RobIndex
      /\ {"status", "inst_type", "inst_ptr", "rd", "valid"} \subseteq DOMAIN e[j]
  BY <1>1, <1>5, WritingIsIndex DEF WrittenBack, EntriesCorrect, e, TrackInv, EntryShape, EntryFields
<1>10. /\ f[j].valid = VALID /\ f[j].rd_value = value /\ f[j].inst_ptr = e[j].inst_ptr /\ f[j].rd = e[j].rd
       /\ f[j].status = e[j].status /\ f[j].inst_type = e[j].inst_type /\ "rd_value" \in DOMAIN f[j]
  BY <1>7, <1>8, <1>9 DEF FinishedEntry
<1> HIDE DEF f, n, tag, value
<1>11. Writing(f) = Writing(e) /\ \A i \in RobIndex : i # j => f[i] = e[i]
  BY <1>8, <1>10 DEF Writing
<1>12. \A p : Knows(f, e, p)
  BY <1>5, <1>9, <1>10, <1>11, NotWork DEF Knows, WritesBelow
<1>13. \A i \in Writing(f) : f[i].rd = tag => f[i].valid = VALID /\ f[i].rd_value = value
  <2> SUFFICES ASSUME NEW i \in Writing(f), f[i].rd = tag PROVE i = j
    BY <1>10
  <2>1. i \in Writing(e) /\ i \in RobIndex /\ e[i].rd = e[j].rd
    BY <1>5, <1>10, <1>11, WritingIsIndex
  <2>2. /\ i \in Writing(rob.rob_entry) /\ j \in Writing(rob.rob_entry)
        /\ rob.rob_entry[i].rd = rob.rob_entry[j].rd
    BY <1>1, <1>9, <2>1 DEF SameEntries, Writing
  <2> QED BY <2>2, OneHolder
<1>14. ASSUME NEW o, NEW x, Hears(o, x, tag, value), Operands(code, e, regs, x), Carried(code, x)
       PROVE  Operands(code, f, regs, o) /\ Carried(code, o)
  <2>1. Operands(code, f, regs, x)
    BY <1>12, <1>14, KnowsOperands
  <2> QED BY <1>13, <1>14, <2>1, HearsOperands
<1>15. EntriesCorrect(code, f, regs)
  <2> SUFFICES ASSUME NEW i \in Writing(f)
               PROVE  /\ "rd_value" \in DOMAIN f[i]
                      /\ f[i].valid = VALID => Correct(code, f, regs, f[i].inst_ptr, f[i].rd_value)
    BY DEF EntriesCorrect
  <2>0. \A p, v : Correct(code, e, regs, p, v) => Correct(code, f, regs, p, v)
    BY <1>12, KnowsValues
  <2>1. CASE i = j
    <3>1. u \in FrontUnits \cap Open /\ Computed(u)
      BY <1>2 DEF Open, Drained, Computed
    <3>2. Correct(code, rob.rob_entry, regs, op.pc, value)
      BY <3>1, UnitsAre DEF ValueInv, UnitCorrect, op, value
    <3>3. Knows(e, rob.rob_entry, op.pc)
      BY DEF WrittenBack, e
    <3>4. Correct(code, e, regs, op.pc, value)
      BY <3>2, <3>3, KnowsValues
    <3> QED BY <1>5, <1>10, <2>0, <2>1, <3>4
  <2>2. CASE i # j
    <3>1. i \in Writing(e) /\ f[i] = e[i] /\ i \in RobIndex
      BY <1>11, <2>2, WritingIsIndex
    <3> QED BY <2>0, <3>1 DEF WrittenBack, EntriesCorrect, e
  <2> QED BY <2>1, <2>2
<1>16. QueueCorrect(code, f, regs, n.iq)
  <2> SUFFICES ASSUME NEW i \in IqIndex, n.iq[i].status = VALID
               PROVE  Carried(code, n.iq[i].op) /\ Operands(code, f, regs, n.iq[i].op)
    BY DEF QueueCorrect
  <2>1. w.iq[i].status = VALID /\ n.iq[i].op = TakeValue(w.iq[i].op, tag, value)
    BY <1>7, QueueHears, NotWork DEF WrittenBack, HeardInv
  <2>2. Hears(n.iq[i].op, w.iq[i].op, tag, value)
    BY <2>1, TakeHears DEF WrittenBack, HeardInv
  <2>3. Carried(code, w.iq[i].op) /\ Operands(code, e, regs, w.iq[i].op)
    BY <2>1 DEF WrittenBack, QueueCorrect, e
  <2> QED BY <1>14, <2>2, <2>3
<1>17. LatchCorrect(code, f, regs, n.drf.op)
  <2>1. Hears(n.drf.op, w.drf.op, tag, value)
    BY <1>7, ForwardHears DEF WrittenBack, HeardInv
  <2>2. n.drf.op.inst_type = w.drf.op.inst_type
    BY <2>1 DEF Hears
  <2>3. w.drf.op.inst_type \in RegisterTypes => Carried(code, w.drf.op) /\ Operands(code, e, regs, w.drf.op)
    BY DEF WrittenBack, LatchCorrect, e
  <2> QED BY <1>14, <2>1, <2>2, <2>3 DEF LatchCorrect
<1>18. \A p : Knows(f, rob.rob_entry, p)
  <2>1. \A p : Knows(e, rob.rob_entry, p)
    BY DEF WrittenBack, e
  <2> QED BY <1>12, <2>1, KnowsMore
<1>19. WriteWork(n, open \ {u})
  <2>1. UnitShape(stage) /\ WriteWork(w, open)
    BY DEF WrittenBack, WorkInv, PlacesInv
  <2>2. u \in {"INT_TWO", "MUL_THREE", "MEM"} /\ stage[u].rd_valid = VALID
    BY <1>7 DEF op
  <2> QED BY <1>2, <2>1, <2>2, WriteUnitWork DEF n
<1>20. HeardInv(rob.rob_entry, n)
  <2>1. u \in {"INT_TWO", "MUL_THREE", "MEM"} /\ HeardInv(rob.rob_entry, w)
    BY DEF WrittenBack
  <2> QED BY <2>1, WriteUnitHeard DEF n
<1> QED BY <1>15, <1>16, <1>17, <1>18, <1>19, <1>20 DEF WrittenBack, f, n

LEMMA WritebackValueStep ==
  ASSUME WorkInv, TagInv, OriginInv, ValueInv, FedInv, Writeback
  PROVE  ValueInv'
<1> DEFINE start  == [rob |-> rob, iq |-> iq, lsq |-> lsq, drf |-> drf]
           int    == WriteUnit(start, "INT_TWO")
           mul    == WriteUnit(int, "MUL_THREE")
           branch == WriteUnit(mul, "BRANCH")
           w      == WriteUnit(branch, "MEM")
<1>1. /\ step = "writeback" /\ step' = "dispatch" /\ UNCHANGED <<stage, regs, code, mem_stage>>
      /\ rob' = w.rob /\ iq' = w.iq /\ drf' = w.drf /\ IsDecoded /\ IsDecoded'
  BY DEF Writeback, Turn, archVars, backVars, histVars, IsDecoded
<1>2. Open = Units
  BY <1>1 DEF Open, Drained
<1>3. WrittenBack(start, Units)
  <2>1. WriteWork(start, Units)
    <3>1. SameLatch(drf, drf) /\ RobInv(rob) /\ IqShape(iq) /\ LsqShape(lsq)
      BY SameLatchDrf DEF WorkInv, PlacesInv, OrderInv
    <3>2. TrackInv(rob.rob_entry, Work(iq, lsq, stage, Units), Unaddressed(lsq))
      BY <1>2 DEF WorkInv, PlacesInv
    <3> QED BY <3>1, <3>2 DEF WriteWork, SameEntries
  <2>2. HeardInv(rob.rob_entry, start)
    BY <1>1 DEF WorkInv, PlacesInv, FrontOnce, FrontShape, FedInv, HeardInv, WriteShape
  <2>3. \A p : Knows(rob.rob_entry, rob.rob_entry, p)
    BY DEF Knows
  <2> QED BY <1>1, <2>1, <2>2, <2>3 DEF WrittenBack, ValueInv
<1> HIDE DEF start
<1>4. ASSUME NEW x, NEW open, WrittenBack(x, open), NEW u \in {"INT_TWO", "MUL_THREE"}, u \in open
      PROVE  WrittenBack(WriteUnit(x, u), open \ {u})
  <2>1. CASE Empty(u)
    <3>1. WriteUnit(x, u) = x
      BY <2>1, EmptyUnit
    <3>2. WriteWork(WriteUnit(x, u), open \ {u})
      <4>1. UnitShape(stage) /\ WriteWork(x, open) /\ u \in {"INT_TWO", "MUL_THREE", "MEM"} /\ u # "MEM"
        BY <1>4 DEF WrittenBack, WorkInv, PlacesInv
      <4> QED BY <1>4, <2>1, <4>1, WriteUnitWork
    <3> QED BY <1>4, <3>1, <3>2 DEF WrittenBack
  <2>2. CASE ~Empty(u)
    <3>1. UnitReady(u) /\ stage[u].inst_type # 0
      BY <2>2, UnitsReady DEF Empty
    <3> QED BY <1>1, <1>4, <3>1, WriteUnitValues
  <2> QED BY <2>1, <2>2
<1>5. WrittenBack(int, Units \ {"INT_TWO"})
  BY <1>3, <1>4 DEF Units
<1> HIDE DEF int
<1>6. WrittenBack(mul, (Units \ {"INT_TWO"}) \ {"MUL_THREE"})
  BY <1>4, <1>5 DEF Units
<1> HIDE DEF mul
<1>7. branch = mul
  BY UnitsReady
<1>8. stage["MEM"].inst_type = 0
  <2> SUFFICES ASSUME stage["MEM"].inst_type # 0 PROVE FALSE
    OBVIOUS
  <2>1. "MEM" \in (FrontUnits \cup {"MEM"}) \cap Open /\ "MEM" \in Units
    BY <1>2 DEF Units
  <2>2. stage["MEM"].inst_type \in RegisterTypes
    BY <2>1, UnitOrigin
  <2>3. stage["MEM"].inst_type \in UnitTypes("MEM")
    BY <2>1 DEF WorkInv, PlacesInv, UnitShape
  <2>4. stage["MEM"].inst_type \in {0} \cup MemOps
    BY <2>3 DEF UnitTypes
  <2> QED BY <2>2, <2>4, RegisterTypesApart
<1>9. w = mul
  BY <1>7, <1>8, WriteUnitIdle DEF Empty
<1> HIDE DEF w
<1>10. /\ EntriesCorrect(code, rob'.rob_entry, regs) /\ QueueCorrect(code, rob'.rob_entry, regs, iq')
       /\ LatchCorrect(code, rob'.rob_entry, regs, drf'.op)
       /\ \A p : Knows(rob'.rob_entry, rob.rob_entry, p)
  BY <1>1, <1>6, <1>9 DEF WrittenBack
<1>11. UnitsCorrect(code, rob.rob_entry, regs, Open)'
  <2> SUFFICES ASSUME NEW u \in FrontUnits \cap Open', stage[u].inst_type # 0 PROVE UnitCorrect(u)'
    BY <1>1, UnitsAre DEF UnitCorrect
  <2>1. u \in FrontUnits \cap Open /\ ~Computed(u) /\ ~Computed(u)'
    BY <1>1, <1>2 DEF Open, Drained, Computed, FrontUnits, Units
  <2>2. Carried(code, stage[u]) /\ Ready(code, rob.rob_entry, regs, stage[u])
    BY <2>1, UnitsAre DEF ValueInv, UnitCorrect
  <2>3. Ready(code, rob'.rob_entry, regs, stage[u])
    BY <1>10, <2>2, KnowsMoves, MovesReady
  <2> QED BY <1>1, <2>1, <2>2, <2>3 DEF UnitCorrect
<1> QED BY <1>1, <1>10, <1>11 DEF ValueInv

\* Writers in the buffer are in front of what is dispatched.
LEMMA WritersInFront ==
  ASSUME WorkInv, step = "dispatch" \/ step = "decode", NEW i \in Writing(rob.rob_entry)
  PROVE  rob.rob_entry[i].inst_ptr \in Int /\ drf.op.pc \in Int /\ rob.rob_entry[i].inst_ptr < drf.op.pc
<1>1. Below(rob.rob_entry, drf.op) /\ drf.op.pc \in Int
  BY DEF WorkInv, FrontOnce, NotYetDispatched, OrderInv, FrontInv, Latch, PlainOp
<1>2. i \in RobIndex /\ rob.rob_entry[i].status = VALID /\ rob.rob_entry[i].inst_type # HALT
  BY WriterTypes DEF Writing
<1>3. rob.rob_entry[i].inst_ptr \in Int
  BY <1>2 DEF WorkInv, PlacesInv, TrackInv, EntryShape
<1> QED BY <1>1, <1>2, <1>3 DEF Below

\* The instruction in DRF takes what it knows into the issue queue.
LEMMA DispatchValueStep ==
  ASSUME RegisterPrograms, WorkInv, OriginInv, ValueInv, FedInv, Dispatch
  PROVE  ValueInv'
<1> DEFINE e == rob.rob_entry
           f == rob'.rob_entry
           s == Slot(rob.issue_ptr)
           type == drf.op.inst_type
<1>1. /\ step = "dispatch" /\ step' = "push_front" /\ IsDecoded /\ IsDecoded' /\ Open' = Open
      /\ UNCHANGED <<stage, regs, code>> /\ RobInv(rob) /\ IqShape(iq)
      /\ {"op", "stalled", "executed"} \subseteq DOMAIN drf /\ drf.op.pc \in Int
  BY DEF Dispatch, Turn, IsDecoded, WorkInv, OrderInv, FrontOnce, FrontShape, PlacesInv, archVars, backVars,
         histVars, Open, Drained, FrontInv, Latch, PlainOp
<1>2. /\ drf'.op = drf.op
      /\ \/ f = e
         \/ /\ s \in RobIndex /\ type \in MemOps \cup (MOVC .. HALT) /\ e[s].status # VALID
            /\ \A i \in RobIndex : f[i] = IF i = s THEN NewRobEntry(drf.op) ELSE e[i]
      /\ type \in MemOps \cup (MOVC .. HALT) => type \in RegisterTypes \cup {HALT}
  BY DispatchEntries
<1>3. /\ \A i \in Writing(e) : e[i].inst_ptr \in Int /\ e[i].inst_ptr < drf.op.pc
  BY <1>1, WritersInFront
<1>4. LatchCorrect(code, e, regs, drf.op) /\ Asking(drf.op)
  BY <1>1 DEF ValueInv, FedInv
<1>5. /\ NewRobEntry(drf.op).status = VALID /\ NewRobEntry(drf.op).inst_ptr = drf.op.pc
      /\ NewRobEntry(drf.op).inst_type = type /\ "rd_value" \in DOMAIN NewRobEntry(drf.op)
      /\ type # HALT => NewRobEntry(drf.op).valid = INVALID
  BY DEF NewRobEntry
<1>6. ASSUME NEW i \in IqIndex
      PROVE  iq'[i] = iq[i] \/ (SameOperands(iq'[i].op, drf.op) /\ type \in RegisterTypes)
  <2>1. CASE UNCHANGED iq
    BY <2>1
  <2>2. ASSUME NEW k, HasFree(iq), iq' = add_issue_queue_entry(iq, drf.op, k)
        PROVE  iq'[i] = iq[i] \/ SameOperands(iq'[i].op, drf.op)
    <3> DEFINE o == [drf.op EXCEPT !.lsq_index = k]
    <3>1. iq'[i] = IF i = FirstFree(iq) THEN [status |-> VALID, stage_cycle |-> 0, op |-> o] ELSE iq[i]
      BY <1>1, <2>2 DEF add_issue_queue_entry, IqShape
    <3>2. SameOperands(o, drf.op)
      BY <1>4 DEF SameOperands, Asking, HasInst, OperandFields
    <3> HIDE DEF o
    <3> QED BY <3>1, <3>2
  <2>3. type \in MemOps \/ type \in MOVC .. JUMP => type \in RegisterTypes
    BY <1>2 DEF MemOps, Loads, Stores, STORE, STR, LOAD, LDR, MOVC, HALT, JUMP
  <2> QED BY <1>1, <2>1, <2>2, <2>3, DispatchCases
<1> HIDE DEF e, f, s, type
<1>7. \A i \in RobIndex : i \in Writing(f) =>
        \/ i \in Writing(e) /\ f[i] = e[i]
        \/ f[i].inst_ptr = drf.op.pc /\ f[i].valid = INVALID /\ "rd_value" \in DOMAIN f[i]
  BY <1>2, <1>5, WriterTypes DEF Writing
<1>8. \A i \in RobIndex : i \in Writing(e) => i \in Writing(f) /\ f[i] = e[i]
  BY <1>2 DEF Writing
<1>9. ASSUME NEW p \in Int, p <= drf.op.pc PROVE Knows(f, e, p)
  <2> SUFFICES ASSUME NEW j \in RobIndex
               PROVE  /\ WritesBelow(f, j, p) => WritesBelow(e, j, p)
                      /\ WritesBelow(e, j, p) => WritesBelow(f, j, p) /\ f[j] = e[j]
    BY DEF Knows
  <2>1. WritesBelow(e, j, p) => WritesBelow(f, j, p) /\ f[j] = e[j]
    BY <1>8 DEF WritesBelow
  <2>2. WritesBelow(f, j, p) => WritesBelow(e, j, p)
    BY <1>1, <1>7, <1>9 DEF WritesBelow
  <2> QED BY <2>1, <2>2
<1>10. EntriesCorrect(code, f, regs)
  <2> SUFFICES ASSUME NEW i \in Writing(f)
               PROVE  /\ "rd_value" \in DOMAIN f[i]
                      /\ f[i].valid = VALID => Correct(code, f, regs, f[i].inst_ptr, f[i].rd_value)
    BY DEF EntriesCorrect
  <2>1. CASE i \in Writing(e) /\ f[i] = e[i]
    <3>1. Knows(f, e, e[i].inst_ptr)
      BY <1>1, <1>3, <1>9, <2>1
    <3>2. /\ "rd_value" \in DOMAIN e[i]
          /\ e[i].valid = VALID => Correct(code, e, regs, e[i].inst_ptr, e[i].rd_value)
      BY <2>1 DEF ValueInv, EntriesCorrect, e
    <3> QED BY <2>1, <3>1, <3>2, KnowsValues
  <2> QED BY <1>7, <2>1, WritingIsIndex, NotWork
<1>11. QueueCorrect(code, f, regs, iq')
  <2> SUFFICES ASSUME NEW i \in IqIndex, iq'[i].status = VALID
               PROVE  Carried(code, iq'[i].op) /\ Operands(code, f, regs, iq'[i].op)
    BY DEF QueueCorrect
  <2>1. CASE iq'[i] = iq[i]
    <3>1. PICK j \in Writing(e) : e[j].inst_ptr = iq[i].op.pc
      BY <2>1, QueueOrigin DEF e
    <3>2. Knows(f, e, iq[i].op.pc)
      BY <1>1, <1>3, <1>9, <3>1
    <3>3. Carried(code, iq[i].op) /\ Operands(code, e, regs, iq[i].op)
      BY <2>1 DEF ValueInv, QueueCorrect, e
    <3> QED BY <2>1, <3>2, <3>3, KnowsOperands
  <2>2. CASE SameOperands(iq'[i].op, drf.op) /\ type \in RegisterTypes
    <3>1. Carried(code, drf.op) /\ Operands(code, e, regs, drf.op)
      BY <1>4, <2>2 DEF LatchCorrect, type
    <3>2. Knows(f, e, drf.op.pc)
      BY <1>1, <1>9
    <3>3. Operands(code, f, regs, drf.op)
      BY <3>1, <3>2, KnowsOperands
    <3> QED BY <2>2, <3>1, <3>3, SameOperandsMeans
  <2> QED BY <1>6, <2>1, <2>2
<1>12. LatchCorrect(code, f, regs, drf.op)
  <2>1. Knows(f, e, drf.op.pc)
    BY <1>1, <1>9
  <2> QED BY <1>4, <2>1, KnowsOperands DEF LatchCorrect
<1>13. UnitsCorrect(code, rob.rob_entry, regs, Open)'
  <2> SUFFICES ASSUME NEW u \in FrontUnits \cap Open, stage[u].inst_type # 0 PROVE UnitCorrect(u)'
    BY <1>1, UnitsAre DEF UnitCorrect
  <2>1. ~Computed(u) /\ ~Computed(u)'
    BY <1>1 DEF Computed
  <2>2. Carried(code, stage[u]) /\ Ready(code, e, regs, stage[u])
    BY <2>1, UnitsAre DEF ValueInv, UnitCorrect, e
  <2>3. PICK j \in Writing(e) : e[j].inst_ptr = stage[u].pc
    BY UnitOrigin DEF e
  <2>4. Knows(f, e, stage[u].pc)
    BY <1>1, <1>3, <1>9, <2>3
  <2>5. Ready(code, f, regs, stage[u])
    BY <2>2, <2>4, KnowsMoves, MovesReady
  <2> QED BY <1>1, <2>1, <2>2, <2>5 DEF UnitCorrect, f
<1> QED BY <1>1, <1>2, <1>10, <1>11, <1>12, <1>13 DEF ValueInv, f

\* Decode finds the last writer of a register by its tag; without one the
\* register file has the value.
LEMMA SourceOfDecode ==
  ASSUME WorkInv, TagInv, CountInv, OriginInv, NewerTagIsHigher, ~Renamed, step = "decode", NEW r \in Regs
  PROVE  IF check_if_reg_renamed(rename, r)
         THEN Producer(code, rob.rob_entry, r, drf.op.pc, get_reg_renamed_tag(rename, r))
         ELSE /\ regs_invalid[r] = 0
              /\ ValueOf(code, rob.rob_entry, regs, r, drf.op.pc, regs[r])
<1> DEFINE e   == rob.rob_entry
           tag == get_reg_renamed_tag(rename, r)
<1>1. \A i \in Writing(e) : /\ i \in RobIndex /\ e[i].inst_ptr \in Int /\ e[i].inst_ptr < drf.op.pc
                            /\ rename.reg_rename[e[i].rd].rename_tag = At(code, e[i].inst_ptr).rd
                            /\ Tagged(rename, e[i].rd) /\ i \in Window /\ e[i].inst_type \in Writers
  BY WritersInFront, WritingIsIndex DEF OriginInv, EntryRegisters, TagInv, TagsRecent, Writing, Window
<1>2. \A i \in RobIndex : Writes(code, e, i, r, drf.op.pc) <=> i \in Writing(e) /\ Names(i, r)
  BY <1>1 DEF Writes, Names
<1>3. CASE check_if_reg_renamed(rename, r)
  <2>1. /\ InBuffer(e, tag) /\ Renames(rename, tag, r)
        /\ tag \in TagIndex /\ \A t \in TagIndex : Renames(rename, t, r) => t <= tag
    BY <1>3, RegisterRead, HighestTag
  <2>2. PICK j \in Writing(e) : e[j].rd = tag
    BY <2>1 DEF InBuffer
  <2>3. Names(j, r)
    BY <2>1, <2>2 DEF Names, Renames
  <2> HIDE DEF tag
  <2>4. ASSUME NEW i \in RobIndex, Writes(code, e, i, r, drf.op.pc) PROVE e[i].inst_ptr <= e[j].inst_ptr
    <3>1. i \in Writing(e) /\ Names(i, r)
      BY <1>2, <2>4
    <3>2. e[i].rd \in TagIndex /\ e[i].rd <= tag
      BY <1>1, <2>1, <3>1 DEF Names, Renames, Tagged
    <3>3. ~ (e[j].inst_ptr < e[i].inst_ptr)
      <4> SUFFICES ASSUME e[j].inst_ptr < e[i].inst_ptr PROVE FALSE
        OBVIOUS
      <4>1. e[j].rd < e[i].rd
        BY <1>1, <2>3, <3>1 DEF NewerTagIsHigher, Names
      <4> QED BY <2>1, <2>2, <3>2, <4>1 DEF TagIndex
    <3> QED BY <1>1, <3>1, <3>3
  <2>5. Newest(code, e, j, r, drf.op.pc)
    BY <1>1, <1>2, <2>3, <2>4 DEF Newest
  <2>6. Producer(code, e, r, drf.op.pc, tag)
    BY <1>1, <2>2, <2>5 DEF Producer
  <2> QED BY <1>3, <2>6 DEF tag
<1>4. CASE ~check_if_reg_renamed(rename, r)
  <2>1. regs_invalid[r] = 0 /\ ~ \E i \in Writing(e) : Names(i, r)
    BY <1>4, RegisterRead
  <2>2. ValueOf(code, e, regs, r, drf.op.pc, regs[r])
    BY <1>2, <2>1 DEF ValueOf
  <2> QED BY <1>4, <2>1, <2>2
<1> QED BY <1>3, <1>4

\* What decode hands on has the operands of the sequential machine, or knows
\* who will produce them.
LEMMA DecodedOperands ==
  ASSUME RegisterPrograms, WorkInv, TagInv, CountInv, FedInv, OriginInv, NewerTagIsHigher,
         Decode, step = "decode", drf.stalled # VALID, drf.op.inst_type \in RegisterTypes
  PROVE  Carried(code, drf'.op) /\ Operands(code, rob.rob_entry, regs, drf'.op)
<1> DEFINE e  == rob.rob_entry
           op == drf.op
           o  == drf'.op
           in == At(code, op.pc)
<1>1. ~IsDecoded /\ ~Renamed /\ code \in Programs /\ "op" \in DOMAIN drf
  BY DEF IsDecoded, Renamed, WorkInv, OrderInv, FrontOnce, FrontShape
<1>2. op.inst_type \notin Branches /\ op.inst_type # HALT /\ op.inst_type # 0
  BY DEF RegisterTypes, MOVC, OR, Branches, BZ, BNZ, HALT
<1>3. Asking(op) /\ Unread(op)
  BY <1>1 DEF FedInv
<1>4. /\ op.rs1 = in.rs1 /\ op.rs2 = in.rs2 /\ op.buffer = in.imm /\ op.rd_value = 0
      /\ op.rs1_valid = INVALID /\ op.rs2_valid = INVALID
  BY <1>1, <1>2, FetchedReached DEF OriginInv, Origin
<1>5. ReadsSources(o, op)
  BY <1>1, <1>2, <1>3, DecodeReads
<1> HIDE DEF o
<1>6. /\ o.inst_type = op.inst_type /\ o.pc = op.pc /\ OperandFields \subseteq DOMAIN o
      /\ o.rd_value = op.rd_value /\ o.buffer = op.buffer
  BY <1>5 DEF ReadsSources, SameFront
<1>7. Carried(code, o)
  BY <1>4, <1>6 DEF Carried, OperandFields
<1>8. {"rs1", "rs1_value", "rs1_valid", "rs2", "rs2_value", "rs2_valid"} \subseteq DOMAIN op
  BY <1>3 DEF Asking, OperandFields
<1>9. op.rs1 \in Regs =>
        Operand(code, e, regs, op.rs1, op.pc, Read1(op).rs1, Read1(op).rs1_valid, Read1(op).rs1_value)
  <2> SUFFICES ASSUME op.rs1 \in Regs
               PROVE  Operand(code, e, regs, op.rs1, op.pc, Read1(op).rs1, Read1(op).rs1_valid, Read1(op).rs1_value)
    OBVIOUS
  <2>1. IF check_if_reg_renamed(rename, op.rs1)
        THEN Producer(code, e, op.rs1, op.pc, get_reg_renamed_tag(rename, op.rs1))
        ELSE regs_invalid[op.rs1] = 0 /\ ValueOf(code, e, regs, op.rs1, op.pc, regs[op.rs1])
    BY <1>1, SourceOfDecode
  <2> QED BY <1>4, <1>8, <2>1, NotWork DEF Read1, Operand
<1>10. op.rs2 \in Regs =>
        LET n == Read2(op, op.rs2)
        IN  Operand(code, e, regs, op.rs2, op.pc, n.rs2, n.rs2_valid, n.rs2_value)
  <2> SUFFICES ASSUME op.rs2 \in Regs
               PROVE  LET n == Read2(op, op.rs2)
                      IN  Operand(code, e, regs, op.rs2, op.pc, n.rs2, n.rs2_valid, n.rs2_value)
    OBVIOUS
  <2>1. IF check_if_reg_renamed(rename, op.rs2)
        THEN Producer(code, e, op.rs2, op.pc, get_reg_renamed_tag(rename, op.rs2))
        ELSE regs_invalid[op.rs2] = 0 /\ ValueOf(code, e, regs, op.rs2, op.pc, regs[op.rs2])
    BY <1>1, SourceOfDecode
  <2> QED BY <1>4, <1>8, <2>1, NotWork DEF Read2, Operand
<1>11. Operands(code, e, regs, o)
  BY <1>3, <1>4, <1>5, <1>6, <1>9, <1>10 DEF Operands, ReadsSources, Unread
<1> QED BY <1>7, <1>11 DEF o

LEMMA DecodeValueStep ==
  ASSUME RegisterPrograms, EnoughTags, WorkInv, TagInv, CountInv, FedInv, OriginInv, NewerTagIsHigher,
         ValueInv, Decode
  PROVE  ValueInv'
<1>1. /\ step = "decode" /\ step' = "fetch" /\ UNCHANGED <<regs, rob, iq, stage, mem_stage, code>>
      /\ drf'.op.inst_type = drf.op.inst_type /\ (drf.stalled = VALID => drf'.op = drf.op)
  BY DecodeNames
<1>2. (IsDecoded => LatchCorrect(code, rob.rob_entry, regs, drf.op))'
  <2>1. CASE drf.stalled = VALID
    BY <1>1, <2>1 DEF ValueInv, IsDecoded
  <2>2. CASE drf.stalled # VALID
    <3>1. drf.op.inst_type \in RegisterTypes =>
            Carried(code, drf'.op) /\ Operands(code, rob.rob_entry, regs, drf'.op)
      BY <1>1, <2>2, DecodedOperands
    <3> QED BY <1>1, <3>1 DEF LatchCorrect
  <2> QED BY <2>1, <2>2
<1>3. Open' = Open /\ \A u \in FrontUnits : UnitCorrect(u) => UnitCorrect(u)'
  BY <1>1, UnitStays DEF Open, Drained, Computed
<1>4. UnitsCorrect(code, rob.rob_entry, regs, Open)'
  BY <1>3, UnitsAre DEF ValueInv
<1>5. EntriesCorrect(code, rob.rob_entry, regs)' /\ QueueCorrect(code, rob.rob_entry, regs, iq)'
  BY <1>1 DEF ValueInv
<1> QED BY <1>2, <1>4, <1>5 DEF ValueInv

-----------------------------------------------------------------------------
(***************************************************************************)
(* The register file and the sequential machine at a retirement.           *)
(***************************************************************************)
\* MOVC has no register, MOV no second operand; the others use both.
LEMMA ResultReads ==
  ASSUME NEW type \in RegisterTypes, NEW a, NEW x, NEW b, NEW y,
         type \in Sourced1 => a = x, type \in TwoSource \cup UsesLiteral => b = y
  PROVE  Result(type, a, b, 0) = Result(type, x, y, 0)
<1>1. CASE type = MOVC
  <2>1. type \notin {MOV, ADD, ADDL, SUB, SUBL, MUL, DIV, AND, OR, EXOR} /\ type \in UsesLiteral
    BY <1>1 DEF MOVC, MOV, ADD, ADDL, SUB, SUBL, MUL, DIV, AND, OR, EXOR, UsesLiteral
  <2>2. Result(type, a, b, 0) = b
    BY <1>1, <2>1, Zenon DEF Result
  <2>3. Result(type, x, y, 0) = y
    BY <1>1, <2>1, Zenon DEF Result
  <2> QED BY <2>1, <2>2, <2>3
<1>2. CASE type = MOV
  <2>1. type \notin {MOVC, ADD, ADDL, SUB, SUBL, MUL, DIV, AND, OR, EXOR} /\ type \in Sourced1
    BY <1>2 DEF MOVC, MOV, ADD, ADDL, SUB, SUBL, MUL, DIV, AND, OR, EXOR, Sourced1, OneSource
  <2>2. Result(type, a, b, 0) = a
    BY <1>2, <2>1, Zenon DEF Result
  <2>3. Result(type, x, y, 0) = x
    BY <1>2, <2>1, Zenon DEF Result
  <2> QED BY <2>1, <2>2, <2>3
<1>3. CASE type \notin {MOVC, MOV}
  <2>1. type \in Sourced1 /\ type \in TwoSource \cup UsesLiteral
    BY <1>3 DEF RegisterTypes, MOVC, MOV, ADD, ADDL, SUB, SUBL, MUL, DIV, AND, OR, EXOR, Sourced1, OneSource,
                TwoSource, UsesLiteral
  <2> QED BY <2>1
<1> QED BY <1>1, <1>2, <1>3

\* Nobody writes in front of the instruction that commits.
LEMMA CommitsResult ==
  ASSUME NEW c, NEW e, NEW g, NEW p, NEW v, Correct(c, e, g, p, v), At(c, p).inst_type \in RegisterTypes,
         \A i \in Writing(e) : ~ (e[i].inst_ptr < p)
  PROVE  v = Outcome(At(c, p), g)
<1> DEFINE in == At(c, p)
           b  == IF in.inst_type \in UsesLiteral THEN in.imm ELSE g[in.rs2]
<1>1. \A r, x : ValueOf(c, e, g, r, p, x) => x = g[r]
  BY DEF ValueOf, Newest, Writes
<1>2. PICK x, y :
        /\ in.inst_type \in Sourced1    => ValueOf(c, e, g, in.rs1, p, x)
        /\ in.inst_type \in TwoSource   => ValueOf(c, e, g, in.rs2, p, y)
        /\ in.inst_type \in UsesLiteral => y = in.imm
        /\ v = Result(in.inst_type, x, y, 0)
  BY Zenon DEF Correct
<1>3. TwoSource \cap UsesLiteral = {}
  BY DEF TwoSource, UsesLiteral, MOVC, ADDL, SUBL, STR, LDR, ADD, SUB, MUL, DIV, AND, OR, EXOR
<1>4. /\ in.inst_type \in Sourced1 => x = g[in.rs1]
      /\ in.inst_type \in TwoSource \cup UsesLiteral => y = b
  BY <1>1, <1>2, <1>3
<1> HIDE DEF in, b
<1>5. in.inst_type \in RegisterTypes
  BY DEF in
<1>6. Result(in.inst_type, x, y, 0) = Result(in.inst_type, g[in.rs1], b, 0)
  BY <1>4, <1>5, ResultReads
<1> QED BY <1>2, <1>6 DEF in, b, Outcome

\* The sequential machine has stepped like the machine.
LEMMA MachAfter ==
  ASSUME NEW g, g = [x \in DOMAIN g |-> g[x]]
  PROVE  g = [g EXCEPT !.regs = g.regs, !.retired = g.retired, !.halted = g.halted]
  OBVIOUS

LEMMA CommitMach ==
  ASSUME RegisterPrograms, WorkInv, TagInv, OriginInv, StallInv, Covered, RetiredInv, ValueInv,
         OrderInv', Mach, Commit
  PROVE  Mach'
<1> DEFINE S == {"pc", "regs", "mem", "zf", "retired", "halted"}
<1>1. /\ step = "commit" /\ ret = 0 /\ UNCHANGED code /\ code \in Programs
      /\ CommitIdles \/ \E c : CommitsOther(c) \/ CommitsWriter(c)
  BY CommitDoes DEF WorkInv, OrderInv
<1>2. DOMAIN golden = S /\ golden.regs = regs /\ golden.halted = FALSE
  <2> DEFINE m == [golden EXCEPT !.regs = regs, !.retired = retired, !.halted = (ret = HALT)]
  <2>1. golden = m /\ DOMAIN golden = S
    BY DEF Mach
  <2>2. m.regs = regs /\ m.halted = (ret = HALT)
    BY <2>1
  <2>3. (ret = HALT) = FALSE
    BY <1>1 DEF HALT
  <2> HIDE DEF m
  <2> QED BY <2>1, <2>2, <2>3
<1>3. CASE CommitIdles
  BY <1>3 DEF CommitIdles, Mach
<1>4. ASSUME NEW c, CommitsOther(c) PROVE Mach'
  <2> DEFINE p == rob.rob_entry[c].inst_ptr
  <2>1. /\ c \in RobIndex /\ rob.rob_entry[c].status = VALID /\ Removes(c) /\ retired' = p
        /\ rob.rob_entry[c].inst_type \in Stores \cup {JUMP, HALT} /\ UNCHANGED <<regs, drf>>
        /\ ret' = IF rob.rob_entry[c].inst_type = HALT THEN HALT ELSE ret
        /\ golden' = IF golden.halted THEN golden ELSE Arch!Execute(code, golden)
    BY <1>4 DEF CommitsOther, Removes
  <2>2. /\ rob.rob_entry[c].inst_type \in RegisterTypes \cup {HALT}
        /\ rob.rob_entry[c].inst_type = At(code, p).inst_type
    BY <2>1 DEF OriginInv, EntryOrigin
  <2>3. At(code, p).inst_type = HALT /\ ret' = HALT
    BY <2>1, <2>2, RegisterTypesApart
  <2>4. SameLatch(drf', drf)
    BY <2>1, SameLatchDrf
  <2>5. golden.pc = p
    BY <2>1, <2>4, HeadIsNext
  <2> HIDE DEF p
  <2>6. golden' = [golden EXCEPT !.retired = p, !.halted = TRUE]
    <3>1. At(code, golden.pc).inst_type = HALT
      BY <2>3, <2>5
    <3>2. Arch!Execute(code, golden) = Stops(golden)
      BY <1>2, <3>1, Executes
    <3> QED BY <1>2, <2>1, <2>5, <3>2 DEF Stops
  <2>7. (ret' = HALT) = TRUE
    BY <2>3
  <2>8. golden' = [golden EXCEPT !.retired = p, !.pc = golden.pc, !.regs = regs, !.zf = golden.zf, !.halted = TRUE]
    BY <1>2, <2>6
  <2>9. DOMAIN golden' = S /\ golden' = [golden' EXCEPT !.regs = regs, !.retired = p, !.halted = TRUE]
    <3>1. DOMAIN golden' = S /\ golden' = [x \in DOMAIN golden' |-> golden'[x]]
      BY <1>2, <2>8
    <3>2. golden'.regs = regs /\ golden'.retired = p /\ golden'.halted = TRUE
      BY <1>2, <2>8
    <3> QED BY <3>1, <3>2, MachAfter
  <2> QED BY <2>1, <2>7, <2>9 DEF Mach
<1>5. ASSUME NEW c, CommitsWriter(c) PROVE Mach'
  <2> DEFINE e  == rob.rob_entry
             p  == e[c].inst_ptr
             in == At(code, p)
             h  == [regs EXCEPT ![in.rd] = Outcome(in, regs)]
  <2>1. /\ c \in Writing(e) /\ e[c].valid = VALID /\ retired' = p /\ ret' = ret
        /\ regs' = [regs EXCEPT ![rename.reg_rename[e[c].rd].rename_tag] = e[c].rd_value]
        /\ \A i \in Writing(e) : i = c \/ p < e[i].inst_ptr
        /\ drf' = ForwardToDecode(drf, e[c].rd, e[c].rd_value, VALID)
    BY <1>5 DEF CommitsWriter, Removes
  <2>2. SameLatch(drf', drf)
    BY <2>1, SameLatchDrf, ForwardSame
  <2>3. in.inst_type \in RegisterTypes /\ golden.pc = p /\ golden' = Arch!Execute(code, golden)
    BY <1>1, <1>5, <2>2, CommitMoves
  <2>4. rename.reg_rename[e[c].rd].rename_tag = in.rd
    BY <2>1 DEF OriginInv, EntryRegisters
  <2>5. \A i \in Writing(e) : e[i].inst_ptr \in Int
    BY WritingIsIndex DEF WorkInv, PlacesInv, TrackInv, EntryShape
  <2>6. Correct(code, e, regs, p, e[c].rd_value)
    BY <2>1 DEF ValueInv, EntriesCorrect
  <2> HIDE DEF e, p
  <2>7. \A i \in Writing(e) : ~ (e[i].inst_ptr < p)
    BY <2>1, <2>5 DEF p
  <2>8. e[c].rd_value = Outcome(in, regs)
    BY <2>3, <2>6, <2>7, CommitsResult
  <2>9. regs' = h
    BY <2>1, <2>4, <2>8
  <2>10. PICK zero : golden' = [golden EXCEPT !.retired = p, !.pc = Arch!SkipNops(code, p + 4),
                                             !.regs = h, !.zf = zero]
    <3>1. At(code, golden.pc) = in
      BY <2>3
    <3>2. PICK zero : Arch!Execute(code, golden) = Steps(code, golden, zero)
      BY <1>2, <2>3, <3>1, Executes
    <3>3. [golden.regs EXCEPT ![At(code, golden.pc).rd] = Outcome(At(code, golden.pc), golden.regs)] = h
      BY <1>2, <3>1
    <3> HIDE DEF in
    <3> HIDE DEF h
    <3> QED BY <2>3, <3>2, <3>3 DEF Steps
  <2> HIDE DEF h
  <2>11. golden' = [golden EXCEPT !.retired = p, !.pc = Arch!SkipNops(code, p + 4), !.regs = h, !.zf = zero,
                                  !.halted = FALSE]
    BY <1>2, <2>10
  <2>12. DOMAIN golden' = S /\ golden' = [golden' EXCEPT !.regs = h, !.retired = p, !.halted = FALSE]
    <3>1. DOMAIN golden' = S /\ golden' = [x \in DOMAIN golden' |-> golden'[x]]
      BY <1>2, <2>11
    <3>2. golden'.regs = h /\ golden'.retired = p /\ golden'.halted = FALSE
      BY <1>2, <2>11
    <3> QED BY <3>1, <3>2, MachAfter
  <2>13. (ret' = HALT) = FALSE
    BY <1>1, <2>1 DEF HALT
  <2> QED BY <2>1, <2>9, <2>12, <2>13 DEF Mach
<1> QED BY <1>1, <1>3, <1>4, <1>5

-----------------------------------------------------------------------------
(***************************************************************************)
(* The whole run.                                                          *)
(***************************************************************************)
LEMMA InitIsa ==
  ASSUME RegisterPrograms, Init
  PROVE  IsaInv
<1>1. /\ code \in Programs /\ pc = CodeBase /\ step = "commit" /\ ret = 0 /\ retired = 0
      /\ regs = [r \in Regs |-> 0]
      /\ fetch_stage = [op |-> NoOp, stalled |-> INVALID]
      /\ drf = [op |-> NoOp, stalled |-> INVALID, executed |-> INVALID]
      /\ stage = [u \in Units |-> NoOp] /\ iq = init_issue_queue
      /\ golden = Arch!Boot(code)
  BY DEF Init
<1>2. \A i \in RobIndex : rob.rob_entry[i].status # VALID
  BY NotWork DEF Init, init_reorder_buffer, FreeRobEntry
<1>3. Writing(rob.rob_entry) = {}
  BY <1>2 DEF Writing
<1>4. NoOp.inst_type = 0 /\ INVALID # VALID /\ 0 # HALT /\ 0 \notin RegisterTypes /\ 0 \notin Writers
  BY NotWork, NoOpAsks, RegisterTypesApart DEF Writers, Loads, LOAD, LDR, MOVC, EXOR, HALT
<1>5. golden = [pc |-> Arch!SkipNops(code, CodeBase), regs |-> regs, mem |-> [a \in Arch!Address |-> 0],
                zf |-> INVALID, retired |-> 0, halted |-> FALSE]
  BY <1>1 DEF Arch!Boot, Arch!CodeBase, CodeBase, Arch!INVALID, INVALID
<1>6. Mach
  <2>1. (ret = HALT) = FALSE
    BY <1>1 DEF HALT
  <2>2. /\ DOMAIN golden = {"pc", "regs", "mem", "zf", "retired", "halted"}
        /\ golden.regs = regs /\ golden.retired = 0 /\ golden.halted = FALSE
    BY <1>5
  <2>3. golden = [golden EXCEPT !.regs = regs, !.retired = 0, !.halted = FALSE]
    <3> DEFINE g == [golden EXCEPT !.regs = regs, !.retired = 0, !.halted = FALSE]
    <3>1. DOMAIN g = DOMAIN golden /\ \A x \in DOMAIN golden : g[x] = golden[x]
      BY <2>2
    <3>2. golden = [x \in DOMAIN golden |-> golden[x]] /\ g = [x \in DOMAIN g |-> g[x]]
      BY <1>5
    <3> HIDE DEF g
    <3>3. g = golden
      BY <3>1, <3>2
    <3> QED BY <3>3 DEF g
  <2> QED BY <1>1, <2>1, <2>2, <2>3 DEF Mach
<1>7. CodeBase = Addr(0) /\ 0 < CodeBase /\ CodeBase \in Int
  BY DEF Addr, CodeBase
<1>8. /\ Reached(code, golden.pc) /\ At(code, golden.pc).inst_type # NOP
      /\ \A k \in DOMAIN code : code[k].inst_type # NOP => golden.pc <= Addr(k)
  <2>1. DOMAIN code \subseteq Nat
    BY <1>1, IndicesAreNat
  <2>2. \A k \in DOMAIN code : Addr(0) <= Addr(k)
    BY <2>1 DEF Addr, CodeBase
  <2>3. \A m \in DOMAIN code : code[m].inst_type = HALT => 0 <= m
    BY <2>1
  <2>4. golden.pc = Arch!SkipNops(code, Addr(0))
    BY <1>5, <1>7
  <2> QED BY <1>1, <2>2, <2>3, <2>4, SkipsToNext
<1>9. OriginInv
  <2>1. \E k \in Nat : pc = Addr(k)
    BY <1>1, <1>7
  <2>2. Fetched(code, NoOp) /\ Origin(code, NoOp)
    BY <1>4 DEF Fetched, Origin
  <2>3. ~Renamed
    BY <1>1, <1>4 DEF Renamed
  <2> QED BY <1>1, <1>2, <1>3, <2>1, <2>2, <2>3 DEF OriginInv, EntryOrigin, EntryRegisters
<1>10. StallInv
  BY <1>1, <1>4 DEF StallInv
<1>11. Covered
  <2> SUFFICES ASSUME NEW k \in DOMAIN code PROVE ~ (Addr(k) < pc)
    BY <1>1, <1>4 DEF Covered, Front0
  <2>1. k \in Nat
    BY <1>1, IndicesAreNat
  <2> QED BY <1>1, <2>1 DEF Addr, CodeBase
<1>12. Overwritten
  BY <1>1, <1>4 DEF Overwritten
<1>13. RetiredInv
  BY <1>1, <1>2, <1>4, <1>7, <1>8 DEF RetiredInv
<1>14. ValueInv
  <2>1. EntriesCorrect(code, rob.rob_entry, regs)
    BY <1>3 DEF EntriesCorrect
  <2>2. QueueCorrect(code, rob.rob_entry, regs, iq)
    BY <1>1, NotWork DEF QueueCorrect, init_issue_queue, FreeIqEntry
  <2>3. LatchCorrect(code, rob.rob_entry, regs, drf.op)
    BY <1>1, <1>4 DEF LatchCorrect
  <2>4. UnitsCorrect(code, rob.rob_entry, regs, Open)
    BY <1>1, <1>4 DEF UnitsCorrect, FrontUnits, Units
  <2> QED BY <2>1, <2>2, <2>3, <2>4 DEF ValueInv
<1> QED BY <1>6, <1>9, <1>10, <1>11, <1>12, <1>13, <1>14 DEF IsaInv, Running

\* A broadcast leaves it to DRF whether its instruction is decoded.
LEMMA WritebackExecuted ==
  ASSUME Writeback
  PROVE  drf'.executed = drf.executed
<1> DEFINE D(w) == {"rob", "iq", "lsq", "drf"} \subseteq DOMAIN w /\ w.drf.executed = drf.executed
           start  == [rob |-> rob, iq |-> iq, lsq |-> lsq, drf |-> drf]
           int    == WriteUnit(start, "INT_TWO")
           mul    == WriteUnit(int, "MUL_THREE")
           branch == WriteUnit(mul, "BRANCH")
           w      == WriteUnit(branch, "MEM")
<1>1. ASSUME NEW x, D(x), NEW u PROVE D(WriteUnit(x, u))
  <2>1. \A d, t, v, a : ForwardToDecode(d, t, v, a).executed = d.executed
    BY DEF ForwardToDecode
  <2>2. CASE Idles(u)
    BY <1>1, <2>2, WriteUnitIdle DEF Idles
  <2>3. CASE ~Idles(u) /\ Delivers(u)
    <3> DEFINE l == update_ls_queue_entry_mem_address(x.lsq, stage[u])
    <3>1. WriteUnit(x, u) = [x EXCEPT !.lsq = l]
      BY <2>3, WriteUnitAddress DEF Idles, Delivers
    <3> HIDE DEF l
    <3> QED BY <1>1, <3>1
  <2>4. CASE ~Idles(u) /\ ~Delivers(u)
    <3> DEFINE op == stage[u]
               r  == update_reorder_buffer_entry_data(x.rob, op)
               i  == update_issue_queue_entry(x.iq, op.rd, op.rd_value)
               l  == update_ls_queue_entry_reg(x.lsq, op.rd, op.rd_value)
               d  == ForwardToDecode(x.drf, op.rd, op.rd_value, op.rd_valid)
    <3>1. \/ WriteUnit(x, u) = [x EXCEPT !.rob = r]
          \/ WriteUnit(x, u) = [[x EXCEPT !.rob = r] EXCEPT !.iq = i, !.lsq = l, !.drf = d]
      BY <2>4, WriteUnitResult DEF Idles, Delivers
    <3>2. d.executed = x.drf.executed
      BY <2>1
    <3> HIDE DEF r, i, l, d
    <3> QED BY <1>1, <3>1, <3>2
  <2> QED BY <2>2, <2>3, <2>4
<1>2. D(start)
  OBVIOUS
<1> HIDE DEF start, D
<1>3. D(int)
  BY <1>1, <1>2
<1> HIDE DEF int
<1>4. D(mul)
  BY <1>1, <1>3
<1> HIDE DEF mul
<1>5. D(branch)
  BY <1>1, <1>4
<1> HIDE DEF branch
<1>6. D(w)
  BY <1>1, <1>5
<1>7. drf' = w.drf
  BY DEF Writeback, start, int, mul, branch
<1> HIDE DEF w
<1> QED BY <1>6, <1>7 DEF D

\* The steps that are neither commit nor of the front end.
LEMMA QuietRunning ==
  ASSUME WorkInv, TagInv, FedInv, Running,
         \/ Issue \/ Writeback
         \/ IntOne \/ IntTwo \/ MulOne \/ MulThree \/ Branch \/ Mem \/ PushUnits
  PROVE  Running' /\ UNCHANGED <<code, golden, regs, retired, ret>>
<1>1. OriginInv /\ StallInv /\ Covered /\ Overwritten /\ RetiredInv /\ ValueInv
  BY DEF Running
<1>2. SameLatch(drf, drf) /\ SameEntries(rob.rob_entry, rob.rob_entry)
  BY SameLatchDrf DEF SameEntries
<1>3. CASE Issue
  <2>1. /\ UNCHANGED <<drf, fetch_stage, pc, rename, rob, regs, code, ret, retired, golden>>
        /\ {step, step'} \cap {"push_front", "decode", "fetch"} = {}
    BY <1>3 DEF Issue, Turn, frontVars, archVars, histVars
  <2>2. (OriginInv /\ StallInv /\ Covered /\ Overwritten /\ RetiredInv)'
    BY <1>1, <1>2, <2>1, QuietOrigin
  <2>3. ValueInv'
    BY <1>1, <1>3, IssueValueStep
  <2> QED BY <2>1, <2>2, <2>3 DEF Running
<1>4. CASE Writeback
  <2>1. /\ UNCHANGED <<fetch_stage, pc, rename, regs, code, ret, retired, golden>>
        /\ {step, step'} \cap {"push_front", "decode", "fetch"} = {"push_front"} \cap {step, step'}
        /\ step = "writeback" /\ step' = "dispatch"
    BY <1>4 DEF Writeback, Turn, frontVars, archVars, histVars
  <2>2. SameLatch(drf', drf) /\ SameEntries(rob'.rob_entry, rob.rob_entry) /\ drf'.executed = drf.executed
    BY <1>4, WritebackWorkStep, WritebackExecuted
  <2>3. (OriginInv /\ StallInv /\ Covered /\ Overwritten /\ RetiredInv)'
    BY <1>1, <2>1, <2>2, QuietOrigin
  <2>4. ValueInv'
    BY <1>1, <1>4, WritebackValueStep
  <2> QED BY <2>1, <2>3, <2>4 DEF Running
<1>5. CASE IntOne \/ IntTwo \/ MulOne \/ MulThree \/ Branch \/ Mem \/ PushUnits
  <2>1. UNCHANGED <<drf, fetch_stage, pc, rename, rob, iq, lsq, regs, code, ret, retired, golden>>
    BY <1>5, UnitsQuiet
  <2>2. {step, step'} \cap {"push_front", "decode", "fetch"} = {}
    BY <1>5 DEF IntOne, IntTwo, MulOne, MulThree, Branch, Mem, PushUnits, Turn
  <2>3. (OriginInv /\ StallInv /\ Covered /\ Overwritten /\ RetiredInv)'
    BY <1>1, <1>2, <2>1, <2>2, QuietOrigin
  <2>4. ValueInv'
    BY <1>1, <1>5, UnitsValueStep
  <2> QED BY <2>1, <2>3, <2>4 DEF Running
<1> QED BY <1>3, <1>4, <1>5

\* The front end.
LEMMA FrontRunning ==
  ASSUME RegisterPrograms, EnoughTags, NewerTagIsHigher, WorkInv, TagInv, CountInv, FedInv, Running, Kept,
         Dispatch \/ PushFront \/ Decode \/ Fetch
  PROVE  Running'
<1>1. OriginInv /\ StallInv /\ Covered /\ Overwritten /\ RetiredInv /\ ValueInv
  BY DEF Running
<1>2. CASE Dispatch
  <2>1. (OriginInv /\ StallInv /\ Covered /\ Overwritten /\ RetiredInv)'
    BY <1>1, <1>2, DispatchOrigin
  <2>2. ValueInv'
    BY <1>1, <1>2, DispatchValueStep
  <2> QED BY <2>1, <2>2 DEF Running
<1>3. CASE PushFront
  <2>1. (OriginInv /\ StallInv /\ Covered /\ Overwritten /\ RetiredInv)'
    BY <1>1, <1>3, PushFrontOrigin
  <2>2. ValueInv'
    BY <1>1, <1>3, PushFrontValueStep
  <2> QED BY <2>1, <2>2 DEF Running
<1>4. CASE Decode
  <2>1. (OriginInv /\ StallInv /\ Covered /\ Overwritten /\ RetiredInv)'
    BY <1>1, <1>4, DecodeOrigin
  <2>2. ValueInv'
    BY <1>1, <1>4, DecodeValueStep
  <2> QED BY <2>1, <2>2 DEF Running
<1>5. CASE Fetch
  <2>1. (OriginInv /\ StallInv /\ Covered /\ Overwritten /\ RetiredInv)'
    BY <1>1, <1>5, FetchOrigin
  <2>2. ValueInv'
    BY <1>1, <1>5, FetchValueStep
  <2> QED BY <2>1, <2>2 DEF Running
<1> QED BY <1>2, <1>3, <1>4, <1>5

\* Only commit changes what the sequential machine has.
LEMMA OnlyCommitRetires ==
  ASSUME WorkInv, Next
  PROVE  Commit \/ UNCHANGED <<code, golden, regs, retired, ret>>
<1>1. CASE Issue \/ Writeback \/ Dispatch \/ PushFront \/ Decode \/ Fetch
  BY <1>1 DEF Issue, Writeback, Dispatch, PushFront, Decode, Fetch, archVars, histVars
<1>2. CASE IntOne \/ IntTwo \/ MulOne \/ MulThree \/ Branch \/ Mem \/ PushUnits
  BY <1>2, UnitsQuiet
<1> QED BY <1>1, <1>2 DEF Next

LEMMA CommitIsa ==
  ASSUME RegisterPrograms, WorkInv, TagInv, CountInv, FedInv, IsaInv, OrderInv', Commit
  PROVE  IsaInv'
<1>1. ret = 0 /\ Mach /\ OriginInv /\ StallInv /\ Covered /\ Overwritten /\ RetiredInv /\ ValueInv
  BY DEF Commit, IsaInv, Running
<1>2. Mach'
  BY <1>1, CommitMach
<1>3. ASSUME ret' = 0 PROVE Running'
  <2>1. (OriginInv /\ StallInv /\ Covered /\ Overwritten /\ RetiredInv)'
    BY <1>1, <1>3, CommitOrigin
  <2>2. ValueInv'
    BY <1>1, <1>3, CommitValueStep
  <2> QED BY <2>1, <2>2 DEF Running
<1> QED BY <1>2, <1>3 DEF IsaInv

LEMMA NextIsa ==
  ASSUME RegisterPrograms, EnoughTags, NewerTagIsHigher, WorkInv, TagInv, CountInv, FedInv, IsaInv,
         OrderInv', Kept, [Next]_vars
  PROVE  IsaInv'
<1>1. CASE UNCHANGED vars
  <2>1. UNCHANGED <<code, golden, regs, retired, ret, pc, fetch_stage, drf, rob, rename, iq, stage,
                    mem_stage, step>>
    BY <1>1 DEF vars, frontVars, archVars, backVars, queueVars, histVars
  <2>2. Mach' <=> Mach
    BY <2>1 DEF Mach
  <2>3. OriginInv' <=> OriginInv
    BY <2>1 DEF OriginInv, IsDecoded, Renamed
  <2>4. (StallInv' <=> StallInv) /\ (Overwritten' <=> Overwritten) /\ (RetiredInv' <=> RetiredInv)
    BY <2>1 DEF StallInv, Overwritten, RetiredInv
  <2>5. Covered' <=> Covered
    BY <2>1 DEF Covered, Front0
  <2>6. ValueInv' <=> ValueInv
    BY <2>1 DEF ValueInv, IsDecoded, UnitsCorrect, Computed, Open, Drained
  <2> QED BY <2>1, <2>2, <2>3, <2>4, <2>5, <2>6 DEF IsaInv, Running
<1>2. CASE Commit
  BY <1>2, CommitIsa
<1>3. ASSUME Next, ~Commit PROVE IsaInv'
  <2>1. UNCHANGED <<code, golden, regs, retired, ret>>
    BY <1>3, OnlyCommitRetires
  <2>2. Mach'
    BY <2>1 DEF IsaInv, Mach
  <2>3. Running => Running'
    BY <1>3, QuietRunning, FrontRunning DEF Next
  <2> QED BY <2>1, <2>2, <2>3 DEF IsaInv
<1> QED BY <1>1, <1>2, <1>3

\* What the machine shows of the sequential one is the sequential one.
LEMMA InitArch == ASSUME Init, Mach PROVE Arch!Init
  BY DEF Init, Mach, Arch!Init

LEMMA StepArch ==
  ASSUME WorkInv, Mach, Mach', [Next]_vars
  PROVE  [Arch!Next]_<<code, [golden EXCEPT !.regs = regs, !.retired = retired, !.halted = (ret = HALT)]>>
<1> DEFINE m == [golden EXCEPT !.regs = regs, !.retired = retired, !.halted = (ret = HALT)]
<1>1. m = golden /\ m' = golden'
  BY DEF Mach
<1>2. m.halted = (ret = HALT)
  BY DEF Mach
<1> HIDE DEF m
<1>3. ASSUME UNCHANGED <<code, golden>> PROVE UNCHANGED <<code, m>>
  BY <1>1, <1>3
<1>4. CASE UNCHANGED vars
  <2>1. UNCHANGED <<code, golden>>
    BY <1>4 DEF vars, histVars
  <2> QED BY <1>3, <2>1 DEF m
<1>5. CASE Next /\ ~Commit
  BY <1>3, <1>5, OnlyCommitRetires DEF m
<1>6. CASE Commit
  <2>1. UNCHANGED code /\ ret = 0 /\ (golden' = golden \/ golden' = Arch!Execute(code, golden))
    BY <1>6 DEF Commit, CommitNothing, CommitHalt, CommitStoreOrJump, CommitBranch, CommitResult, Retire,
                histVars
  <2>2. ~ m.halted
    <3>1. (ret = HALT) = FALSE
      BY <2>1 DEF HALT
    <3> QED BY <1>2, <3>1
  <2>3. CASE golden' = golden
    BY <1>3, <2>1, <2>3 DEF m
  <2>4. CASE golden' = Arch!Execute(code, golden)
    <3>1. ~m.halted /\ m' = Arch!Execute(code, m) /\ UNCHANGED code
      BY <1>1, <2>1, <2>2, <2>4
    <3> QED BY <3>1 DEF Arch!Next, m
  <2> QED BY <2>1, <2>3, <2>4
<1> QED BY <1>4, <1>5, <1>6

\* The out-of-order machine implements the sequential one: it retires the
\* instructions of the program one by one in program order and after each has
\* the register file of the sequential machine, although they compute out of
\* order and operands reach them on three ways.  For every program of
\* instructions on registers (MOVC to OR, without DIV) that has a HALT and
\* names existing registers, and every size of the buffer, the queues and the
\* register file with more tags than buffer entries, in every run in which no
\* decoded instruction is overwritten in DRF and the newer of two writers of a
\* register has the higher tag.
THEOREM ImplementsIsaCorrect ==
  ASSUME StraightLine, RegistersExist, EnoughTags, SourcesExist, RegisterPrograms
  PROVE  Spec /\ DecodedIsDispatched /\ []NewerTagIsHigher => ImplementsIsa
<1> DEFINE Inv == WorkInv /\ TagInv /\ CountInv /\ FedInv /\ IsaInv
<1>1. Init => Inv
  BY InitWork, InitTag, InitCount, InitFed, InitIsa
<1>2. Inv /\ NewerTagIsHigher /\ [Next]_vars /\ [Kept]_vars => Inv'
  <2> SUFFICES ASSUME Inv, NewerTagIsHigher, [Next]_vars, [Kept]_vars PROVE Inv'
    OBVIOUS
  <2>1. Kept
    BY DEF Kept, vars
  <2>2. WorkInv' /\ TagInv' /\ CountInv' /\ FedInv'
    BY <2>1, NextWork, NextTag, NextCount, NextFed
  <2>3. OrderInv'
    BY <2>2 DEF WorkInv
  <2> QED BY <2>1, <2>2, <2>3, NextIsa
<1>3. Init /\ Inv => Arch!Init
  BY InitArch DEF IsaInv
<1>4. Inv /\ Inv' /\ [Next]_vars =>
        [Arch!Next]_<<code, [golden EXCEPT !.regs = regs, !.retired = retired, !.halted = (ret = HALT)]>>
  BY StepArch DEF IsaInv
<1>5. DecodedIsDispatched <=> [][Kept]_vars
  BY PTL DEF DecodedIsDispatched, Kept
<1> HIDE DEF Inv
<1>6. Spec /\ DecodedIsDispatched /\ []NewerTagIsHigher => Arch!Spec
  BY <1>1, <1>2, <1>3, <1>4, <1>5, PTL DEF Spec, Arch!Spec
<1> QED BY <1>6 DEF ImplementsIsa

=============================================================================
