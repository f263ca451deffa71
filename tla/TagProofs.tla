------------------------------ MODULE TagProofs -------------------------------
(***************************************************************************)
(* The rename table of the whole simulator: decode takes tags, commit      *)
(* gives them back, and each belongs to one instruction in between, as     *)
(* long as no decoded instruction is lost on its way to the buffer.        *)
(***************************************************************************)
EXTENDS PipelineProofs, FiniteSetTheorems

USE RobSizeAssumption, RenameSizeAssumption

\* Every instruction that can be read writes a register of the machine.
RegistersExist ==
  /\ \A c \in Programs : \A i \in DOMAIN c : c[i].inst_type \in Writers => c[i].rd \in Regs
  /\ \A in \in BeyondCode : in.inst_type \in Writers => in.rd \in Regs

\* There are tags for a full buffer and the instruction in DRF (rob.h: 12 and 24).
EnoughTags == ROB_SIZE < RENAME_TABLE_SIZE

(***************************************************************************)
(* The entries e of the buffer against the table rt.                       *)
(***************************************************************************)
TableShape(rt) ==
  /\ {"reg_rename", "last_rename_pos"} \subseteq DOMAIN rt
  /\ rt.last_rename_pos \in TagIndex
  /\ DOMAIN rt.reg_rename = TagIndex
  /\ \A t \in TagIndex : /\ {"tag_valid", "rename_tag"} \subseteq DOMAIN rt.reg_rename[t]
                         /\ rt.reg_rename[t].tag_valid \in Flag

Tagged(rt, t) == t \in TagIndex /\ rt.reg_rename[t].tag_valid = VALID

\* How many tags ago t was taken, as long as the table is not full.
Age(rt, t) ==
  IF t <= rt.last_rename_pos THEN rt.last_rename_pos - t
  ELSE rt.last_rename_pos - t + RENAME_TABLE_SIZE

\* How many entries have entered the buffer behind entry i.
Younger(ptr, i) == IF i < ptr THEN ptr - 1 - i ELSE ptr - 1 - i + ROB_SIZE

Writing(e) == {i \in RobIndex : e[i].status = VALID /\ e[i].inst_type \in Writers}

\* Writers hold their tags in the order of the program, and no more tags have
\* been taken since than instructions have come behind them.
TagsInOrder(e, rt) ==
  \A i, j \in Writing(e) : e[i].inst_ptr < e[j].inst_ptr => Age(rt, e[j].rd) < Age(rt, e[i].rd)

TagsRecent(e, ptr, rt, more) ==
  \A i \in Writing(e) : Tagged(rt, e[i].rd) /\ Age(rt, e[i].rd) <= Younger(ptr, i) + more

\* The last tag belongs to the youngest writer.
LastInUse(e, rt) == Writing(e) # {} => Tagged(rt, rt.last_rename_pos)

\* A writer that waits in DRF has the last tag.
FrontTag(e, rt, tag) ==
  /\ tag = rt.last_rename_pos /\ Tagged(rt, tag)
  /\ \A i \in Writing(e) : Age(rt, e[i].rd) > 0

InBuffer(e, t) == \E i \in Writing(e) : e[i].rd = t

(***************************************************************************)
(* DRF holds a writer with a tag, from decode on; until dispatch it is the *)
(* only holder.                                                            *)
(***************************************************************************)
Renamed == drf.op.inst_type \in Writers /\ (step = "decode" => drf.stalled = VALID)

Pending ==
  /\ Renamed
  /\ step = "push_front" =>
       ~ \E i \in RobIndex : rob.rob_entry[i].status = VALID /\ Matches(rob.rob_entry[i], drf.op)

\* What comes to decode next names registers of the machine.
NotRenamed ==
  /\ fetch_stage.op.inst_type \in Writers => fetch_stage.op.rd \in Regs
  /\ drf.op.inst_type \in Writers /\ ~Renamed => drf.op.rd \in Regs

\* Only a HALT and an instruction that is not dispatched keep F from DRF.
StallHolds ==
  step = "push_front" /\ fetch_stage.stalled = VALID =>
    drf.stalled = VALID \/ drf.op.inst_type = HALT

TagInv ==
  /\ TableShape(rename)
  /\ \A t \in TagIndex : Tagged(rename, t) => rename.reg_rename[t].rename_tag \in Regs
  /\ TagsInOrder(rob.rob_entry, rename)
  /\ TagsRecent(rob.rob_entry, rob.issue_ptr, rename, IF Pending THEN 1 ELSE 0)
  /\ LastInUse(rob.rob_entry, rename)
  /\ Pending => FrontTag(rob.rob_entry, rename, drf.op.rd)
  /\ \A t \in TagIndex :
       Tagged(rename, t) => (Renamed /\ drf.op.rd = t) \/ InBuffer(rob.rob_entry, t)
  /\ NotRenamed /\ StallHolds

-----------------------------------------------------------------------------
(***************************************************************************)
(* What retirement, dispatch and decode do to the tags, as lemmas about    *)
(* any buffer and table.                                                   *)
(***************************************************************************)
LEMMA WriterTypes ==
  ASSUME NEW t \in Writers PROVE t \notin Stores \cup {JUMP, HALT, 0} /\ t \in MemOps \cup (MOVC .. JUMP)
  BY DEF Writers, Loads, Stores, MemOps, STORE, STR, LOAD, LDR, MOVC, EXOR, JUMP, HALT

LEMMA WritingIsIndex == \A e : Writing(e) \subseteq RobIndex
  BY DEF Writing

\* Results change nothing of this.
LEMMA SameTags ==
  ASSUME NEW e, NEW f, NEW rt, NEW ptr, NEW more, NEW tag,
         Writing(f) = Writing(e),
         \A i \in Writing(e) : f[i].rd = e[i].rd /\ f[i].inst_ptr = e[i].inst_ptr
  PROVE  /\ TagsInOrder(e, rt) => TagsInOrder(f, rt)
         /\ TagsRecent(e, ptr, rt, more) => TagsRecent(f, ptr, rt, more)
         /\ LastInUse(e, rt) => LastInUse(f, rt)
         /\ FrontTag(e, rt, tag) => FrontTag(f, rt, tag)
         /\ \A t : InBuffer(e, t) => InBuffer(f, t)
<1>1. TagsInOrder(e, rt) => TagsInOrder(f, rt)
  BY DEF TagsInOrder
<1>2. TagsRecent(e, ptr, rt, more) => TagsRecent(f, ptr, rt, more)
  BY DEF TagsRecent
<1>3. LastInUse(e, rt) => LastInUse(f, rt)
  BY DEF LastInUse
<1>4. FrontTag(e, rt, tag) => FrontTag(f, rt, tag)
  BY DEF FrontTag
<1>5. \A t : InBuffer(e, t) => InBuffer(f, t)
  BY DEF InBuffer
<1> QED BY <1>1, <1>2, <1>3, <1>4, <1>5

LEMMA AgeIsNat ==
  ASSUME NEW rt, TableShape(rt), NEW t \in TagIndex
  PROVE  Age(rt, t) \in Nat /\ (Age(rt, t) = 0 <=> t = rt.last_rename_pos)
  BY DEF Age, TableShape, TagIndex

\* The oldest writer leaves and gives its tag back: nobody else has it.
LEMMA ReleaseTags ==
  ASSUME NEW rt, TableShape(rt), NEW e, NEW c \in Writing(e),
         \A i \in Writing(e) : i = c \/ e[c].inst_ptr < e[i].inst_ptr,
         NEW ptr, NEW more,
         TagsInOrder(e, rt), TagsRecent(e, ptr, rt, more), LastInUse(e, rt),
         NEW f, \A i \in RobIndex : f[i] = IF i = c THEN FreeRobEntry ELSE e[i],
         NEW rt2, rt2 = ReleaseTag(rt, e[c].rd)
  PROVE  /\ TableShape(rt2)
         /\ \A t : Tagged(rt2, t) <=> Tagged(rt, t) /\ t # e[c].rd
         /\ \A t \in TagIndex : rt2.reg_rename[t].rename_tag = rt.reg_rename[t].rename_tag
         /\ TagsInOrder(f, rt2) /\ TagsRecent(f, ptr, rt2, more) /\ LastInUse(f, rt2)
         /\ \A tag : FrontTag(e, rt, tag) => FrontTag(f, rt2, tag)
         /\ \A t : InBuffer(e, t) /\ t # e[c].rd => InBuffer(f, t)
<1>1. Writing(f) = Writing(e) \ {c}
  BY NotWork DEF Writing, FreeRobEntry
<1>2. \A i \in Writing(f) : f[i] = e[i] /\ i # c /\ i \in Writing(e)
  BY <1>1, WritingIsIndex
<1>3. Tagged(rt, e[c].rd) /\ e[c].rd \in TagIndex
  BY DEF TagsRecent, Tagged
<1> DEFINE d == e[c].rd
<1>4. /\ {"reg_rename", "last_rename_pos"} \subseteq DOMAIN rt2
      /\ rt2.last_rename_pos = rt.last_rename_pos
      /\ DOMAIN rt2.reg_rename = TagIndex
      /\ \A t \in TagIndex :
           rt2.reg_rename[t] = IF t = d THEN [rt.reg_rename[d] EXCEPT !.tag_valid = INVALID]
                               ELSE rt.reg_rename[t]
  BY <1>3 DEF ReleaseTag, TableShape
<1>5. \A t \in TagIndex :
        /\ {"tag_valid", "rename_tag"} \subseteq DOMAIN rt2.reg_rename[t]
        /\ rt2.reg_rename[t].tag_valid = IF t = d THEN INVALID ELSE rt.reg_rename[t].tag_valid
        /\ rt2.reg_rename[t].rename_tag = rt.reg_rename[t].rename_tag
  BY <1>3, <1>4 DEF TableShape
<1>6. TableShape(rt2)
  BY <1>4, <1>5 DEF TableShape, Flag
<1>7. \A t : Tagged(rt2, t) <=> Tagged(rt, t) /\ t # d
  BY <1>5, NotWork DEF Tagged
<1>8. \A t : Age(rt2, t) = Age(rt, t)
  BY <1>4 DEF Age
\* The others are younger, so they have other tags.
<1>9. ASSUME NEW i \in Writing(f)
      PROVE  Age(rt, e[i].rd) < Age(rt, d) /\ e[i].rd # d
  <2>1. Age(rt, e[i].rd) < Age(rt, d)
    BY <1>2 DEF TagsInOrder
  <2>2. e[i].rd \in TagIndex
    BY <1>2 DEF TagsRecent, Tagged
  <2>3. Age(rt, d) \in Nat
    BY <1>3, AgeIsNat
  <2> QED BY <2>1, <2>3
<1> HIDE DEF d
<1>10. TagsInOrder(f, rt2)
  BY <1>2, <1>8 DEF TagsInOrder
<1>11. TagsRecent(f, ptr, rt2, more)
  BY <1>2, <1>7, <1>8, <1>9 DEF TagsRecent
<1>12. Writing(f) # {} => d # rt.last_rename_pos
  <2> SUFFICES ASSUME NEW i \in Writing(f) PROVE d # rt.last_rename_pos
    OBVIOUS
  <2>1. e[i].rd \in TagIndex
    BY <1>2 DEF TagsRecent, Tagged
  <2>2. Age(rt, e[i].rd) \in Nat /\ Age(rt, d) \in Nat /\ Age(rt, e[i].rd) < Age(rt, d)
    BY <1>3, <1>9, <2>1, AgeIsNat DEF d
  <2> QED BY <1>3, <2>2, AgeIsNat DEF d
<1>13. LastInUse(f, rt2)
  BY <1>1, <1>4, <1>7, <1>12 DEF LastInUse
<1>14. \A tag : FrontTag(e, rt, tag) => FrontTag(f, rt2, tag)
  <2> SUFFICES ASSUME NEW tag, FrontTag(e, rt, tag) PROVE FrontTag(f, rt2, tag)
    OBVIOUS
  <2>1. Age(rt, d) > 0 /\ tag = rt.last_rename_pos
    BY DEF FrontTag, d
  <2>2. tag # d
    BY <1>3, <2>1, AgeIsNat DEF d
  <2> QED BY <1>2, <1>4, <1>7, <1>8, <2>2 DEF FrontTag
<1>15. \A t : InBuffer(e, t) /\ t # d => InBuffer(f, t)
  BY <1>1, <1>2 DEF InBuffer, d
<1> QED BY <1>5, <1>6, <1>7, <1>10, <1>11, <1>13, <1>14, <1>15 DEF d

\* The instruction in DRF enters the buffer with its tag.
LEMMA AddTags ==
  ASSUME NEW rt, TableShape(rt), NEW e, NEW ptr \in 0 .. ROB_SIZE,
         NEW s, s = Slot(ptr), s \notin Writing(e),
         NEW u, NEW f, \A i \in RobIndex : f[i] = IF i = s THEN NewRobEntry(u) ELSE e[i],
         NEW more \in {0, 1},
         TagsInOrder(e, rt), TagsRecent(e, ptr, rt, more), LastInUse(e, rt),
         u.inst_type \in Writers =>
           FrontTag(e, rt, u.rd) /\ \A i \in Writing(e) : e[i].inst_ptr < u.pc,
         u.pc \in Int, \A i \in Writing(e) : e[i].inst_ptr \in Int
  PROVE  /\ TagsInOrder(f, rt) /\ TagsRecent(f, s + 1, rt, 0) /\ LastInUse(f, rt)
         /\ \A t : InBuffer(e, t) => InBuffer(f, t)
         /\ u.inst_type \in Writers => InBuffer(f, u.rd)
<1> DEFINE n == NewRobEntry(u)
<1>1. /\ n.status = VALID /\ n.inst_type = u.inst_type /\ n.inst_ptr = u.pc /\ n.rd = u.rd
  BY DEF NewRobEntry
<1> HIDE DEF n
<1>2. s \in RobIndex
  BY SlotIsIndex
<1>3. Writing(f) = IF u.inst_type \in Writers THEN Writing(e) \cup {s} ELSE Writing(e)
  BY <1>1, <1>2 DEF Writing, n
<1>4. /\ \A i \in Writing(e) : f[i] = e[i] /\ i # s
      /\ f[s] = n
  BY <1>2, WritingIsIndex DEF n
<1>5. u.inst_type \in Writers =>
        /\ Tagged(rt, u.rd) /\ Age(rt, u.rd) = 0
        /\ \A i \in Writing(e) : Age(rt, e[i].rd) > 0 /\ e[i].inst_ptr < u.pc
  BY AgeIsNat DEF FrontTag, Tagged
<1>6. TagsInOrder(f, rt)
  <2> SUFFICES ASSUME NEW i \in Writing(f), NEW j \in Writing(f), f[i].inst_ptr < f[j].inst_ptr
               PROVE  Age(rt, f[j].rd) < Age(rt, f[i].rd)
    BY DEF TagsInOrder
  <2>1. CASE i \in Writing(e) /\ j \in Writing(e)
    BY <1>4, <2>1 DEF TagsInOrder
  <2>2. CASE i \in Writing(e) /\ j \notin Writing(e)
    <3>1. j = s /\ u.inst_type \in Writers
      BY <1>3, <2>2
    <3> QED BY <1>1, <1>4, <1>5, <2>2, <3>1
  <2>3. CASE i \notin Writing(e)
    <3>1. i = s /\ u.inst_type \in Writers
      BY <1>3, <2>3
    <3>2. j \in Writing(e) => f[j].inst_ptr < u.pc /\ f[j].inst_ptr \in Int
      BY <1>4, <1>5, <3>1
    <3>3. j \notin Writing(e) => j = s
      BY <1>3
    <3> QED BY <1>1, <1>4, <3>1, <3>2, <3>3
  <2> QED BY <2>1, <2>2, <2>3
<1>7. ASSUME NEW i \in RobIndex, i # s PROVE Younger(s + 1, i) = Younger(ptr, i) + 1
  BY <1>2, <1>7 DEF Younger, Slot, RobIndex
<1>8. Younger(s + 1, s) = 0
  BY <1>2 DEF Younger, RobIndex
<1>9. ASSUME NEW i \in Writing(f)
      PROVE  Tagged(rt, f[i].rd) /\ Age(rt, f[i].rd) <= Younger(s + 1, i) + 0
  <2>1. CASE i \in Writing(e)
    <3>1. Tagged(rt, e[i].rd) /\ Age(rt, e[i].rd) <= Younger(ptr, i) + more
      BY <2>1 DEF TagsRecent
    <3>2. Younger(s + 1, i) = Younger(ptr, i) + 1 /\ Younger(ptr, i) \in Int
      BY <1>4, <1>7, <2>1, WritingIsIndex DEF Younger, RobIndex
    <3>3. Age(rt, e[i].rd) \in Int
      BY <3>1, AgeIsNat DEF Tagged
    <3> QED BY <1>4, <2>1, <3>1, <3>2, <3>3
  <2>2. CASE i \notin Writing(e)
    <3>1. i = s /\ u.inst_type \in Writers
      BY <1>3, <2>2
    <3> QED BY <1>1, <1>4, <1>5, <1>8, <3>1
  <2> QED BY <2>1, <2>2
<1>10. LastInUse(f, rt)
  BY <1>3 DEF LastInUse, FrontTag
<1>11. \A t : InBuffer(e, t) => InBuffer(f, t)
  BY <1>3, <1>4 DEF InBuffer
<1>12. u.inst_type \in Writers => InBuffer(f, u.rd)
  BY <1>1, <1>3, <1>4 DEF InBuffer
<1> QED BY <1>6, <1>9, <1>10, <1>11, <1>12 DEF TagsRecent

\* Decode finds a tag: the one behind the last, or the last if it is free.
LEMMA TagFound ==
  ASSUME EnoughTags, NEW rt, TableShape(rt), NEW e, NEW ptr \in 0 .. ROB_SIZE,
         TagsRecent(e, ptr, rt, 0), LastInUse(e, rt),
         \A t \in TagIndex : Tagged(rt, t) => InBuffer(e, t)
  PROVE  /\ can_rename_reg_tag(rt)
         /\ FirstFreeTag(rt) \in TagIndex /\ ~Tagged(rt, FirstFreeTag(rt))
         /\ \/ Writing(e) = {}
            \/ /\ Tagged(rt, rt.last_rename_pos)
               /\ FirstFreeTag(rt) = IF rt.last_rename_pos = RENAME_TABLE_SIZE - 1 THEN 0
                                     ELSE rt.last_rename_pos + 1
<1> DEFINE p == rt.last_rename_pos
           start == SearchStart(rt)
           next  == IF p = RENAME_TABLE_SIZE - 1 THEN 0 ELSE p + 1
           found == IF Writing(e) = {} THEN start ELSE next
           First(i) == /\ i \in start .. RENAME_TABLE_SIZE - 1 /\ IsFree(rt, i)
                       /\ \A j \in start .. i - 1 : ~IsFree(rt, j)
<1>1. p \in 0 .. RENAME_TABLE_SIZE - 1 /\ start = IF p < RENAME_TABLE_SIZE - 1 THEN p ELSE 0
  BY DEF TableShape, TagIndex, SearchStart
<1>2. \A t \in TagIndex : IsFree(rt, t) <=> ~Tagged(rt, t)
  BY NotWork DEF IsFree, Tagged, TableShape, Flag
<1>3. found \in start .. RENAME_TABLE_SIZE - 1 /\ found \in TagIndex /\ next \in TagIndex
  BY <1>1 DEF TagIndex
<1>4. Age(rt, next) = RENAME_TABLE_SIZE - 1
  BY <1>1 DEF Age
<1>5. ~InBuffer(e, next)
  <2> SUFFICES ASSUME NEW i \in Writing(e), e[i].rd = next PROVE FALSE
    BY DEF InBuffer
  <2>1. RENAME_TABLE_SIZE - 1 <= Younger(ptr, i) + 0
    BY <1>4 DEF TagsRecent
  <2>2. i \in 0 .. ROB_SIZE - 1
    BY WritingIsIndex DEF RobIndex
  <2>3. Younger(ptr, i) <= ROB_SIZE - 1
    BY <2>2 DEF Younger
  <2>4. Younger(ptr, i) \in Int
    BY <2>2 DEF Younger
  <2> QED BY <2>1, <2>3, <2>4 DEF EnoughTags
<1>6. ~Tagged(rt, found)
  <2>1. Writing(e) = {} => \A t : ~InBuffer(e, t)
    BY DEF InBuffer
  <2> QED BY <1>3, <1>5, <2>1
<1>7. Writing(e) # {} => Tagged(rt, p)
  BY DEF LastInUse
<1>8. First(found)
  <2>1. IsFree(rt, found)
    BY <1>2, <1>3, <1>6
  <2>2. ASSUME NEW j \in start .. found - 1 PROVE ~IsFree(rt, j)
    <3>1. Writing(e) # {} /\ j = p
      BY <1>1, <1>3
    <3> QED BY <1>1, <1>2, <1>7, <3>1 DEF TagIndex
  <2> QED BY <1>3, <2>1, <2>2
<1>9. \A i, j : First(i) /\ First(j) => i = j
  BY <1>1
<1>10. FirstFreeTag(rt) = CHOOSE i : First(i)
  BY DEF FirstFreeTag
<1>11. can_rename_reg_tag(rt)
  BY <1>8 DEF can_rename_reg_tag
<1> HIDE DEF First
<1>12. FirstFreeTag(rt) = found
  BY <1>8, <1>9, <1>10
<1> QED BY <1>3, <1>6, <1>7, <1>11, <1>12

\* Decode takes a tag for the instruction in DRF.
LEMMA RenameTags ==
  ASSUME EnoughTags, NEW rt, TableShape(rt), NEW e, NEW ptr \in 0 .. ROB_SIZE,
         TagsInOrder(e, rt), TagsRecent(e, ptr, rt, 0), LastInUse(e, rt),
         \A t \in TagIndex : Tagged(rt, t) => InBuffer(e, t),
         NEW reg, NEW tag, tag = FirstFreeTag(rt), NEW rt2, rt2 = rename_desc_reg(rt, reg)
  PROVE  /\ TableShape(rt2)
         /\ \A t : Tagged(rt2, t) <=> Tagged(rt, t) \/ t = tag
         /\ \A t \in TagIndex : rt2.reg_rename[t].rename_tag =
                                  IF t = tag THEN reg ELSE rt.reg_rename[t].rename_tag
         /\ TagsInOrder(e, rt2) /\ TagsRecent(e, ptr, rt2, 1) /\ LastInUse(e, rt2)
         /\ FrontTag(e, rt2, tag)
<1> DEFINE p == rt.last_rename_pos
<1>1. /\ tag \in TagIndex /\ ~Tagged(rt, tag)
      /\ \/ Writing(e) = {}
         \/ Tagged(rt, p) /\ tag = IF p = RENAME_TABLE_SIZE - 1 THEN 0 ELSE p + 1
  BY TagFound
<1>2. /\ {"reg_rename", "last_rename_pos"} \subseteq DOMAIN rt2
      /\ rt2.last_rename_pos = tag
      /\ DOMAIN rt2.reg_rename = TagIndex
      /\ \A t \in TagIndex : rt2.reg_rename[t] = IF t = tag THEN [tag_valid |-> VALID, rename_tag |-> reg]
                                                 ELSE rt.reg_rename[t]
  BY <1>1 DEF rename_desc_reg, TableShape
<1>3. TableShape(rt2)
  BY <1>1, <1>2 DEF TableShape, Flag
<1>4. \A t : Tagged(rt2, t) <=> Tagged(rt, t) \/ t = tag
  BY <1>1, <1>2 DEF Tagged
<1>5. \A t \in TagIndex : rt2.reg_rename[t].rename_tag =
                            IF t = tag THEN reg ELSE rt.reg_rename[t].rename_tag
  BY <1>2
<1>6. ASSUME NEW i \in Writing(e)
      PROVE  /\ Tagged(rt, e[i].rd) /\ e[i].rd \in TagIndex /\ Age(rt, e[i].rd) \in Nat
             /\ Age(rt2, e[i].rd) = Age(rt, e[i].rd) + 1
  <2>1. Tagged(rt, e[i].rd) /\ e[i].rd \in TagIndex /\ e[i].rd # tag
    BY <1>1 DEF TagsRecent, Tagged
  <2>2. Age(rt, e[i].rd) \in Nat
    BY <2>1, AgeIsNat
  <2>3. p \in TagIndex /\ tag = IF p = RENAME_TABLE_SIZE - 1 THEN 0 ELSE p + 1
    BY <1>1, <1>6 DEF TableShape
  <2>4. Age(rt2, e[i].rd) = Age(rt, e[i].rd) + 1
    <3>1. ASSUME NEW t \in TagIndex, t # tag
          PROVE  (IF t <= tag THEN tag - t ELSE tag - t + RENAME_TABLE_SIZE)
                   = (IF t <= p THEN p - t ELSE p - t + RENAME_TABLE_SIZE) + 1
      <4> HIDE DEF p
      <4> QED BY <2>3, <3>1 DEF TagIndex
    <3> QED BY <1>2, <2>1, <3>1 DEF Age
  <2> QED BY <2>1, <2>2, <2>4
<1>7. TagsInOrder(e, rt2)
  BY <1>6 DEF TagsInOrder
<1>8. TagsRecent(e, ptr, rt2, 1)
  <2> SUFFICES ASSUME NEW i \in Writing(e)
               PROVE  Tagged(rt2, e[i].rd) /\ Age(rt2, e[i].rd) <= Younger(ptr, i) + 1
    BY DEF TagsRecent
  <2>1. Younger(ptr, i) \in Int
    BY WritingIsIndex DEF Younger, RobIndex
  <2>2. Age(rt, e[i].rd) <= Younger(ptr, i)
    BY <2>1 DEF TagsRecent
  <2> QED BY <1>4, <1>6, <2>1, <2>2
<1>9. LastInUse(e, rt2) /\ FrontTag(e, rt2, tag)
  BY <1>2, <1>4, <1>6 DEF LastInUse, FrontTag
<1> QED BY <1>3, <1>4, <1>5, <1>7, <1>8, <1>9

-----------------------------------------------------------------------------
(***************************************************************************)
(* The handlers.  Most leave DRF, the table and the entries' tags alone.   *)
(***************************************************************************)
KeepsTags(f, e) ==
  /\ Writing(f) = Writing(e)
  /\ \A i \in Writing(e) : f[i].rd = e[i].rd /\ f[i].inst_ptr = e[i].inst_ptr

LEMMA QuietTags ==
  ASSUME TagInv, {step, step'} \cap {"push_front", "decode"} = {},
         SameLatch(drf', drf), UNCHANGED rename,
         \/ UNCHANGED fetch_stage
         \/ fetch_stage'.op.inst_type \in Writers => fetch_stage'.op.rd \in Regs,
         rob'.issue_ptr = rob.issue_ptr, KeepsTags(rob'.rob_entry, rob.rob_entry)
  PROVE  TagInv'
<1> DEFINE e == rob.rob_entry
           f == rob'.rob_entry
<1>1. /\ drf'.op.inst_type = drf.op.inst_type /\ drf'.op.rd = drf.op.rd
  BY DEF SameLatch, SameInst
<1>2. (Renamed' <=> Renamed) /\ (Pending' <=> Renamed) /\ (Pending <=> Renamed)
  BY <1>1 DEF Renamed, Pending
<1>3. /\ Writing(f) = Writing(e)
      /\ \A i \in Writing(e) : f[i].rd = e[i].rd /\ f[i].inst_ptr = e[i].inst_ptr
  BY DEF KeepsTags
<1>4. (IF Pending' THEN 1 ELSE 0) = IF Pending THEN 1 ELSE 0
  BY <1>2
<1>5. TagsInOrder(f, rename) /\ LastInUse(f, rename)
  BY <1>3, SameTags DEF TagInv
<1>6. TagsRecent(f, rob.issue_ptr, rename, IF Pending THEN 1 ELSE 0)
  BY <1>3, SameTags DEF TagInv
<1>7. Pending => FrontTag(f, rename, drf.op.rd)
  <2>1. Pending => FrontTag(e, rename, drf.op.rd)
    BY DEF TagInv
  <2> HIDE DEF e, f
  <2> QED BY <1>3, <2>1 DEF FrontTag
<1>8. \A t : InBuffer(e, t) => InBuffer(f, t)
  BY <1>3, SameTags
<1>9. NotRenamed' /\ StallHolds'
  BY <1>1, <1>2 DEF TagInv, NotRenamed, StallHolds
<1>10. \A t \in TagIndex : Tagged(rename, t) => (Renamed' /\ drf'.op.rd = t) \/ InBuffer(f, t)
  BY <1>1, <1>2, <1>8 DEF TagInv
<1>11. Pending' => FrontTag(f, rename, drf'.op.rd)
  BY <1>1, <1>2, <1>7
<1> HIDE DEF e, f
<1> QED BY <1>4, <1>5, <1>6, <1>9, <1>10, <1>11 DEF TagInv, f

LEMMA SameLatchDrf == ASSUME WorkInv PROVE SameLatch(drf, drf)
  BY DEF WorkInv, FrontOnce, FrontShape, SameLatch, SameInst

\* The queues and units.
LEMMA UnitsTagStep ==
  ASSUME WorkInv, TagInv, Issue \/ IntOne \/ IntTwo \/ MulOne \/ MulThree \/ Branch \/ Mem \/ PushUnits
  PROVE  TagInv'
<1>1. UNCHANGED <<drf, fetch_stage, rename, rob>>
  <2>1. ~Redirects(stage["BRANCH"])
    BY DEF WorkInv, OrderInv, BranchUnitIdle, Redirects, BZ, BNZ, JUMP
  <2> QED BY <2>1 DEF Issue, IntOne, IntTwo, MulOne, MulThree, Branch, Mem, PushUnits, execKeeps,
              frontVars, archVars, queueVars
<1>2. {step, step'} \cap {"push_front", "decode"} = {}
  BY DEF Issue, IntOne, IntTwo, MulOne, MulThree, Branch, Mem, PushUnits, Turn
<1>3. KeepsTags(rob'.rob_entry, rob.rob_entry)
  BY <1>1 DEF KeepsTags
<1> QED BY <1>1, <1>2, <1>3, QuietTags, SameLatchDrf

\* Results.
LEMMA WritebackTagStep == ASSUME WorkInv, TagInv, Writeback PROVE TagInv'
<1>1. /\ SameLatch(drf', drf) /\ rob'.issue_ptr = rob.issue_ptr
      /\ SameEntries(rob'.rob_entry, rob.rob_entry)
  BY WritebackWorkStep
<1>2. UNCHANGED <<fetch_stage, rename>> /\ {step, step'} \cap {"push_front", "decode"} = {}
  BY DEF Writeback, Turn, frontVars, archVars
<1>3. KeepsTags(rob'.rob_entry, rob.rob_entry)
  BY <1>1, WritingIsIndex DEF SameEntries, KeepsTags, Writing
<1> QED BY <1>1, <1>2, <1>3, QuietTags

\* A writer at the head of the window is the oldest of all.
LEMMA HeadOldest ==
  ASSUME NEW r, RobInv(r), NEW low, NEW high, RobOrder(r, low, high), EntriesDiffer(r.rob_entry),
         NEW c, c = Slot(r.commit_ptr), c \in Writing(r.rob_entry)
  PROVE  \A i \in Writing(r.rob_entry) :
           i = c \/ r.rob_entry[c].inst_ptr < r.rob_entry[i].inst_ptr
<1> DEFINE e == r.rob_entry
           n == r.buffer_length
<1> SUFFICES ASSUME NEW i \in Writing(e), i # c PROVE e[c].inst_ptr < e[i].inst_ptr
  OBVIOUS
<1>1. c \in 0 .. ROB_SIZE - 1 /\ i \in 0 .. ROB_SIZE - 1 /\ n \in 0 .. ROB_SIZE
  BY WritingIsIndex DEF RobIndex, RobInv, RobShape
<1> DEFINE j == IF i >= c THEN i - c ELSE i - c + ROB_SIZE
<1>2. j \in RobIndex /\ 0 \in RobIndex /\ 0 < j /\ PositionIn(r, j) = i /\ PositionIn(r, 0) = c
  BY <1>1 DEF PositionIn, RobIndex
<1> HIDE DEF j
<1>3. e[i].status = VALID /\ e[c].status = VALID /\ e[c].inst_type # HALT
  BY WriterTypes DEF Writing
<1>4. j < n /\ 0 < n
  BY <1>2, <1>3 DEF RobInv, IsWindow
<1>5. e[c].inst_ptr <= e[i].inst_ptr /\ e[c].inst_ptr \in Int /\ e[i].inst_ptr \in Int
  BY <1>2, <1>4 DEF RobOrder
<1>6. e[c].inst_ptr # e[i].inst_ptr
  BY <1>1, <1>3, SMTT(30) DEF EntriesDiffer, RobIndex
<1> QED BY <1>5, <1>6

\* Commit releases the tag of a writer, which is in use and names a register.
LEMMA CommitCases ==
  ASSUME WorkInv, TagInv, Commit
  PROVE  LET e == rob.rob_entry
             f == rob'.rob_entry
             Register0(i) == rename.reg_rename[e[i].rd].rename_tag
         IN  /\ step = "commit" /\ step' = "issue" /\ UNCHANGED <<fetch_stage, stage>>
             /\ rob'.issue_ptr = rob.issue_ptr /\ SameLatch(drf', drf)
             /\ \A q \in IqIndex : Inst(iq'[q].op) = Inst(iq[q].op)
             /\ \/ /\ UNCHANGED <<rename, regs_invalid>> /\ Writing(f) = Writing(e)
                   /\ \A i \in Writing(e) : f[i] = e[i]
                \/ \E c \in Writing(e) :
                     /\ e[c].valid # INVALID
                     /\ \A i \in Writing(e) : i = c \/ e[c].inst_ptr < e[i].inst_ptr
                     /\ \A i \in RobIndex : f[i] = IF i = c THEN FreeRobEntry ELSE e[i]
                     /\ Tagged(rename, e[c].rd) /\ Register0(c) \in Regs
                     /\ rename' = ReleaseTag(rename, e[c].rd)
                     /\ regs_invalid' = [regs_invalid EXCEPT ![Register0(c)] = @ - 1]
<1> DEFINE e == rob.rob_entry
           f == rob'.rob_entry
           c == Slot(rob.commit_ptr)
           d == e[c].rd
           reg == rename.reg_rename[d].rename_tag
<1>1. /\ RobInv(rob) /\ RobOrder(rob, retired, drf.op.pc) /\ c \in RobIndex /\ EntriesDiffer(e)
      /\ IqShape(iq) /\ SameLatch(drf, drf)
  BY SlotIsIndex, SameLatchDrf DEF WorkInv, OrderInv, PlacesInv, TrackInv, RobInv, RobShape
<1>2. step = "commit" /\ step' = "issue" /\ stage' = stage
  BY DEF Commit, Turn, backVars
<1>3. CASE CommitNothing
  <2>1. f = e /\ rob'.issue_ptr = rob.issue_ptr
    BY <1>1, <1>3 DEF CommitNothing, commit_reorder_buffer_entry, Head0, RobInv, RobShape
  <2>2. UNCHANGED <<drf, fetch_stage, rename, regs_invalid, iq>>
    BY <1>3, SMTT(30) DEF CommitNothing, frontVars, archVars
  <2> QED BY <1>1, <1>2, <2>1, <2>2
<1>4. CASE CommitHalt \/ CommitStoreOrJump \/ CommitBranch \/ CommitResult
  <2>1. Head0.valid # INVALID /\ Head0 = e[c]
    BY <1>4 DEF CommitHalt, CommitStoreOrJump, CommitBranch, CommitResult, Retire, Head0, RobHead
  <2>2. Head0.inst_type \notin Branches /\ e[c].status = VALID
    BY <1>1, <2>1, CommitRobOrder DEF RobInv, IsWindow, Head0
  <2>3. /\ CommitHalt \/ CommitStoreOrJump \/ CommitResult
        /\ rob' = commit_reorder_buffer_entry(rob) /\ fetch_stage' = fetch_stage
    BY <1>4, <2>2 DEF CommitHalt, CommitStoreOrJump, CommitBranch, CommitResult, frontVars
  <2>4. /\ rob'.issue_ptr = rob.issue_ptr
        /\ \A i \in RobIndex : f[i] = IF i = c THEN FreeRobEntry ELSE e[i]
    <3>1. rob'.issue_ptr = rob.issue_ptr /\ f = [e EXCEPT ![c] = FreeRobEntry]
      BY <1>1, <2>1, <2>3, CommitFields DEF Head0
    <3> QED BY <1>1, <3>1 DEF RobInv, RobShape
  <2>5. SameLatch(drf', drf) /\ \A q \in IqIndex : Inst(iq'[q].op) = Inst(iq[q].op)
    <3>1. \/ UNCHANGED <<drf, iq>>
          \/ /\ drf' = ForwardToDecode(drf, Head0.rd, Head0.rd_value, Head0.valid)
             /\ iq' = update_issue_queue_entry(iq, Head0.rd, Head0.rd_value)
      BY <2>3 DEF CommitHalt, CommitStoreOrJump, CommitResult
    <3> QED BY <1>1, <3>1, ForwardSame, BroadcastIq
  <2>6. CASE c \notin Writing(e)
    <3>1. UNCHANGED <<rename, regs_invalid>>
      BY <1>1, <2>1, <2>2, <2>3, <2>6 DEF CommitHalt, CommitStoreOrJump, CommitResult, archVars, Writing
    <3>2. /\ Writing(f) = Writing(e)
          /\ \A i \in Writing(e) : f[i] = e[i]
      BY <2>4, <2>6, NotWork DEF Writing, FreeRobEntry
    <3> QED BY <1>2, <2>3, <2>4, <2>5, <3>1, <3>2
  <2>7. CASE c \in Writing(e)
    <3>1. Tagged(rename, d) /\ d \in TagIndex /\ reg \in Regs
      BY <2>7 DEF TagInv, TagsRecent, Tagged
    <3>2. CommitResult
      BY <2>1, <2>3, <2>7, WriterTypes DEF CommitHalt, CommitStoreOrJump, Writing
    <3>3. /\ rename' = ReleaseTag(rename, d)
          /\ regs_invalid' = [regs_invalid EXCEPT ![reg] = @ - 1]
      <4>1. get_phy_reg_renamed_tag(rename, d) = reg
        BY <3>1 DEF get_phy_reg_renamed_tag, Tagged
      <4>2. ~ (get_phy_reg_renamed_tag(rename, d) < 0)
        BY <3>1, <4>1, PipelineAssumption DEF Regs
      <4> QED BY <2>1, <3>2, <4>1, <4>2 DEF CommitResult
    <3>4. \A i \in Writing(e) : i = c \/ e[c].inst_ptr < e[i].inst_ptr
      BY <1>1, <2>1, <2>7, HeadOldest DEF Head0
    <3> QED BY <1>2, <2>1, <2>3, <2>4, <2>5, <2>7, <3>1, <3>3, <3>4
  <2> QED BY <2>6, <2>7
<1> QED BY <1>3, <1>4 DEF Commit

LEMMA CommitTagStep == ASSUME WorkInv, TagInv, Commit PROVE TagInv'
<1> DEFINE e == rob.rob_entry
           f == rob'.rob_entry
           more == IF Pending THEN 1 ELSE 0
<1>1. /\ step = "commit" /\ step' = "issue" /\ UNCHANGED fetch_stage
      /\ rob'.issue_ptr = rob.issue_ptr /\ SameLatch(drf', drf)
  BY CommitCases
<1>2. CASE /\ UNCHANGED rename /\ Writing(f) = Writing(e)
           /\ \A i \in Writing(e) : f[i] = e[i]
  <2>1. KeepsTags(f, e)
    BY <1>2 DEF KeepsTags
  <2> QED BY <1>1, <1>2, <2>1, QuietTags
<1>3. ASSUME NEW c \in Writing(e),
             \A i \in Writing(e) : i = c \/ e[c].inst_ptr < e[i].inst_ptr,
             \A i \in RobIndex : f[i] = IF i = c THEN FreeRobEntry ELSE e[i],
             rename' = ReleaseTag(rename, e[c].rd)
      PROVE  TagInv'
  <2> DEFINE d == e[c].rd
             rt2 == rename'
  <2>1. /\ TableShape(rename) /\ TagsInOrder(e, rename) /\ LastInUse(e, rename)
        /\ TagsRecent(e, rob.issue_ptr, rename, more)
    BY DEF TagInv
  <2> HIDE DEF more, e, f, rt2
  <2>2. /\ TableShape(rt2) /\ TagsInOrder(f, rt2) /\ LastInUse(f, rt2)
        /\ TagsRecent(f, rob.issue_ptr, rt2, more)
    BY <1>3, <2>1, ReleaseTags DEF rt2
  <2>3. /\ \A t : Tagged(rt2, t) <=> Tagged(rename, t) /\ t # d
        /\ \A t \in TagIndex : rt2.reg_rename[t].rename_tag = rename.reg_rename[t].rename_tag
    BY <1>3, <2>1, ReleaseTags DEF rt2
  <2>4. /\ \A tag : FrontTag(e, rename, tag) => FrontTag(f, rt2, tag)
        /\ \A t : InBuffer(e, t) /\ t # d => InBuffer(f, t)
    BY <1>3, <2>1, ReleaseTags DEF rt2
  <2>5. drf'.op.inst_type = drf.op.inst_type /\ drf'.op.rd = drf.op.rd
    BY <1>1 DEF SameLatch, SameInst
  <2>6. (Renamed' <=> Renamed) /\ (Pending' <=> Renamed) /\ (Pending <=> Renamed)
    BY <1>1, <2>5 DEF Renamed, Pending
  <2>7. more = IF Pending' THEN 1 ELSE 0
    BY <2>6 DEF more
  <2>8. NotRenamed' /\ StallHolds'
    BY <1>1, <2>5, <2>6 DEF TagInv, NotRenamed, StallHolds
  <2>9. Pending' => FrontTag(f, rt2, drf'.op.rd)
    BY <2>4, <2>5, <2>6 DEF TagInv, e
  <2>10. \A t \in TagIndex :
           Tagged(rt2, t) => (Renamed' /\ drf'.op.rd = t) \/ InBuffer(f, t)
    BY <2>3, <2>4, <2>5, <2>6 DEF TagInv, e
  <2>11. \A t \in TagIndex : Tagged(rt2, t) => rt2.reg_rename[t].rename_tag \in Regs
    BY <2>3 DEF TagInv
  <2> QED BY <1>1, <2>2, <2>7, <2>8, <2>9, <2>10, <2>11 DEF TagInv, f, rt2
<1>4. \/ /\ UNCHANGED rename /\ Writing(f) = Writing(e)
         /\ \A i \in Writing(e) : f[i] = e[i]
      \/ \E c \in Writing(e) :
           /\ \A i \in Writing(e) : i = c \/ e[c].inst_ptr < e[i].inst_ptr
           /\ \A i \in RobIndex : f[i] = IF i = c THEN FreeRobEntry ELSE e[i]
           /\ rename' = ReleaseTag(rename, e[c].rd)
  BY CommitCases
<1> HIDE DEF e, f
<1> QED BY <1>2, <1>3, <1>4, Zenon

\* Dispatch: the instruction in DRF takes its tag into the buffer, or waits.
LEMMA DispatchTagStep == ASSUME WorkInv, TagInv, Dispatch PROVE TagInv'
<1> DEFINE e == rob.rob_entry
           f == rob'.rob_entry
           s == Slot(rob.issue_ptr)
           more == IF Pending THEN 1 ELSE 0
<1>1. /\ step = "dispatch" /\ step' = "push_front" /\ rename' = rename
      /\ RobInv(rob) /\ Below(e, drf.op) /\ drf.op.pc \in Int
      /\ \A i \in RobIndex : e[i].inst_ptr \in Int
      /\ rob.issue_ptr \in 0 .. ROB_SIZE
      /\ {"op", "stalled", "executed"} \subseteq DOMAIN drf
      /\ {"op", "stalled"} \subseteq DOMAIN fetch_stage
      /\ fetch_stage.stalled = INVALID \/ drf.op.inst_type = HALT
  BY DEF Dispatch, Turn, archVars, WorkInv, OrderInv, FrontOnce, NotYetDispatched, FrontShape,
         FrontInv, Latch, PlainOp, HaltStays, PlacesInv, TrackInv, EntryShape, RobInv, RobShape
<1>2. Pending <=> drf.op.inst_type \in Writers
  BY <1>1 DEF Pending, Renamed
<1>3. \A i \in RobIndex : e[i].status = VALID /\ drf.op.inst_type \in Writers =>
        e[i].inst_ptr < drf.op.pc
  BY <1>1, WriterTypes DEF Below
<1>4. Stalls \/ UNCHANGED <<drf, fetch_stage>>
  BY <1>1, DispatchCases
<1>5. drf'.op = drf.op /\ fetch_stage'.op = fetch_stage.op
  BY <1>1, <1>4 DEF Stalls, StallFront
<1>6. NotRenamed' /\ (Renamed' <=> drf.op.inst_type \in Writers)
  BY <1>1, <1>5 DEF TagInv, NotRenamed, Renamed
<1>7. StallHolds'
  BY <1>1, <1>4, NotWork DEF Stalls, StallFront, StallHolds
<1>8. \A t \in TagIndex :
        Tagged(rename, t) => (Renamed' /\ drf'.op.rd = t) \/ InBuffer(e, t)
  BY <1>5, <1>6 DEF TagInv, Renamed
<1>9. CASE ~Adds
  <2>1. f = e /\ (rob'.issue_ptr = rob.issue_ptr \/ rob'.issue_ptr = Slot(rob.issue_ptr))
    <3>1. f = e
      BY <1>1, <1>9, DispatchCases
    <3>2. \/ rob' = rob \/ rob' = WrapIssuePtr(rob)
      <4>1. ~can_add_entry_in_reorder_buffer(rob) =>
              add_reorder_buffer_entry(rob, drf.op) = WrapIssuePtr(rob)
        BY DEF add_reorder_buffer_entry
      <4> QED BY <1>9, <4>1, DispatchRob DEF Adds
    <3> QED BY <1>1, <3>1, <3>2 DEF WrapIssuePtr, RobInv, RobShape
  <2>2. \A i \in RobIndex : Younger(rob'.issue_ptr, i) = Younger(rob.issue_ptr, i)
    BY <1>1, <2>1 DEF Younger, Slot, RobIndex
  <2>3. Pending' <=> Pending
    <3>1. ~ \E i \in RobIndex : f[i].status = VALID /\ drf.op.inst_type \in Writers
                                /\ Matches(f[i], drf.op)
      BY <1>1, <1>3, <2>1 DEF Matches
    <3> QED BY <1>2, <1>5, <1>6, <3>1 DEF Pending
  <2>4. TagsRecent(f, rob'.issue_ptr, rename, IF Pending' THEN 1 ELSE 0)
    BY <2>1, <2>2, <2>3, WritingIsIndex DEF TagInv, TagsRecent
  <2>5. Pending' => FrontTag(f, rename, drf'.op.rd)
    BY <1>5, <2>1, <2>3 DEF TagInv
  <2> QED BY <1>1, <1>6, <1>7, <1>8, <2>1, <2>4, <2>5 DEF TagInv
<1>10. CASE Adds
  <2>1. /\ s \in RobIndex /\ rob'.issue_ptr = s + 1
        /\ \A i \in RobIndex : f[i] = IF i = s THEN NewRobEntry(drf.op) ELSE e[i]
    <3>1. /\ s \in RobIndex /\ rob'.issue_ptr = s + 1
          /\ f = [e EXCEPT ![s] = NewRobEntry(drf.op)]
      BY <1>1, <1>10, AddFields DEF Adds
    <3> QED BY <1>1, <3>1 DEF RobInv, RobShape
  <2>2. s \notin Writing(e)
    BY <1>10, NotWork DEF Adds, can_add_entry_in_reorder_buffer, Writing
  <2>3. more \in {0, 1} /\ TableShape(rename) /\ TagsInOrder(e, rename) /\ LastInUse(e, rename)
        /\ TagsRecent(e, rob.issue_ptr, rename, more)
    BY DEF TagInv
  <2>4. drf.op.inst_type \in Writers =>
          FrontTag(e, rename, drf.op.rd) /\ \A i \in Writing(e) : e[i].inst_ptr < drf.op.pc
    BY <1>2, <1>3 DEF TagInv, Writing
  <2>5. \A i \in Writing(e) : e[i].inst_ptr \in Int
    BY <1>1, WritingIsIndex
  <2> HIDE DEF s, e, f, more
  <2>6. /\ TagsInOrder(f, rename) /\ TagsRecent(f, s + 1, rename, 0) /\ LastInUse(f, rename)
        /\ \A t : InBuffer(e, t) => InBuffer(f, t)
    BY <1>1, <2>1, <2>2, <2>3, <2>4, <2>5, AddTags DEF s
  <2>7. ~Pending'
    <3>1. f[s].status = VALID /\ Matches(f[s], drf.op)
      BY <2>1 DEF NewRobEntry, Matches
    <3> QED BY <1>1, <1>5, <2>1, <3>1 DEF Pending, f
  <2> QED BY <1>1, <1>6, <1>7, <1>8, <2>1, <2>3, <2>6, <2>7 DEF TagInv, f
<1> QED BY <1>9, <1>10

LEMMA FetchTagStep == ASSUME RegistersExist, WorkInv, TagInv, Fetch PROVE TagInv'
<1>1. /\ UNCHANGED <<drf, rename, rob>> /\ SameLatch(drf, drf)
      /\ {step, step'} \cap {"push_front", "decode"} = {}
  BY SameLatchDrf DEF Fetch, Turn, archVars, queueVars
<1>2. \/ UNCHANGED fetch_stage
      \/ fetch_stage'.op.inst_type \in Writers => fetch_stage'.op.rd \in Regs
  <2> SUFFICES ASSUME NEW in \in Fetchable, fetch_stage' = [fetch_stage EXCEPT !.op = FetchedOp(in)]
               PROVE  fetch_stage'.op.inst_type \in Writers => fetch_stage'.op.rd \in Regs
    BY DEF Fetch
  <2>1. in.inst_type \in Writers => in.rd \in Regs
    BY DEF RegistersExist, Fetchable, WorkInv, OrderInv
  <2>2. fetch_stage'.op = FetchedOp(in)
    BY DEF WorkInv, FrontOnce, FrontShape
  <2>3. FetchedOp(in).inst_type = in.inst_type /\ FetchedOp(in).rd = in.rd
    BY DEF FetchedOp, NoOp
  <2> QED BY <2>1, <2>2, <2>3
<1>3. KeepsTags(rob'.rob_entry, rob.rob_entry)
  BY <1>1 DEF KeepsTags
<1> QED BY <1>1, <1>2, <1>3, QuietTags

\* The premise of what follows: DRF is not overwritten before its instruction
\* is in the buffer.
Kept ==
  /\ step = "push_front"
  /\ drf.op.inst_type \in MemOps \cup (MOVC .. JUMP)
  /\ drf'.op # drf.op
  => \E i \in Window : Matches(rob.rob_entry[i], drf.op)

LEMMA PushFrontTagStep == ASSUME WorkInv, TagInv, PushFront, Kept PROVE TagInv'
<1> DEFINE e == rob.rob_entry
<1>1. /\ step = "push_front" /\ step' = "decode" /\ UNCHANGED <<rename, rob>>
      /\ fetch_stage.stalled \in Flag
      /\ {"op", "stalled"} \subseteq DOMAIN fetch_stage
      /\ drf.op.inst_type = 0 \/ drf.op.pc < fetch_stage.op.pc
      /\ drf.op.pc \in Int /\ fetch_stage.op.pc \in Int
      /\ \A i \in RobIndex : e[i].inst_ptr \in Int
  BY DEF PushFront, Turn, archVars, queueVars, WorkInv, FrontOnce, FrontShape, FetchedOnce,
         OrderInv, FrontInv, Latch, PlainOp, PlacesInv, TrackInv, EntryShape
<1>2. TableShape(rename) /\ TagsInOrder(e, rename) /\ LastInUse(e, rename)
  BY DEF TagInv
<1>3. CASE fetch_stage.stalled = INVALID
  <2>1. /\ drf' = [op |-> fetch_stage.op, stalled |-> INVALID, executed |-> INVALID]
        /\ fetch_stage' = fetch_stage
    BY <1>3 DEF PushFront
  <2>2. ~Renamed' /\ ~Pending'
    BY <1>1, <2>1, NotWork DEF Renamed, Pending
  <2>3. Renamed => InBuffer(e, drf.op.rd) /\ ~Pending
    <3> SUFFICES ASSUME Renamed PROVE InBuffer(e, drf.op.rd) /\ ~Pending
      OBVIOUS
    <3>1. drf.op.inst_type \in Writers
      BY DEF Renamed
    <3>2. drf'.op # drf.op
      BY <1>1, <2>1, <3>1, WriterTypes
    <3>3. PICK i \in Window : Matches(e[i], drf.op)
      BY <1>1, <3>1, <3>2, WriterTypes DEF Kept
    <3>4. i \in Writing(e) /\ e[i].rd = drf.op.rd
      BY <3>1, <3>3 DEF Window, Matches, Writing
    <3>5. InBuffer(e, drf.op.rd)
      BY <3>4 DEF InBuffer
    <3>6. ~Pending
      BY <1>1, <3>3 DEF Pending, Window
    <3> QED BY <3>5, <3>6
  <2>4. TagsRecent(e, rob.issue_ptr, rename, IF Pending' THEN 1 ELSE 0)
    <3>1. ~Pending
      BY <2>3 DEF Pending
    <3> QED BY <2>2, <3>1 DEF TagInv
  <2>5. NotRenamed' /\ StallHolds'
    BY <1>1, <2>1 DEF TagInv, NotRenamed, StallHolds
  <2>6. \A t \in TagIndex : Tagged(rename, t) => InBuffer(e, t)
    BY <2>3 DEF TagInv
  <2>7. \A t \in TagIndex : Tagged(rename, t) => rename.reg_rename[t].rename_tag \in Regs
    BY DEF TagInv
  <2> QED BY <1>1, <1>2, <2>2, <2>4, <2>5, <2>6, <2>7 DEF TagInv
\* F is held back, and DRF with it.
<1>4. CASE fetch_stage.stalled # INVALID
  <2>1. drf' = drf /\ fetch_stage'.op = fetch_stage.op
    BY <1>1, <1>4 DEF PushFront
  <2>2. (Renamed' <=> Renamed) /\ (Pending' <=> Renamed)
    <3>1. drf.op.inst_type \in Writers => drf.stalled = VALID
      BY <1>1, <1>4, WriterTypes DEF TagInv, StallHolds, Flag
    <3> QED BY <1>1, <2>1, <3>1 DEF Renamed, Pending
  <2>3. Pending <=> Renamed
    <3>1. Below(e, drf.op)
      BY <1>4 DEF WorkInv, FrontOnce, NotYetDispatched
    <3>2. \A i \in RobIndex : e[i].status = VALID /\ drf.op.inst_type \in Writers =>
            e[i].inst_ptr # drf.op.pc
      BY <1>1, <3>1, WriterTypes DEF Below
    <3> QED BY <3>2 DEF Pending, Renamed, Matches
  <2>4. NotRenamed' /\ StallHolds'
    BY <1>1, <2>1, <2>2 DEF TagInv, NotRenamed, StallHolds
  <2> QED BY <1>1, <2>1, <2>2, <2>3, <2>4 DEF TagInv
<1> QED BY <1>3, <1>4

\* What decode does to the destination.
LEMMA ReadKeepsRd ==
  ASSUME NEW op, HasInst(op)
  PROVE  /\ Read1(op).rd = op.rd /\ HasInst(Read1(op))
         /\ \A test : Read2(op, test).rd = op.rd /\ HasInst(Read2(op, test))
  BY DEF Read1, Read2, HasInst

LEMMA DecodeWrites ==
  ASSUME HasInst(drf.op), drf.stalled # VALID, Decode
  PROVE  \/ /\ drf.op.inst_type \in Writers
            /\ \E op : HasInst(op) /\ op.rd = drf.op.rd /\ RenameDest(op)
         \/ drf.op.inst_type \notin Writers /\ rename' = rename
<1> DEFINE one == Read1(drf.op)
<1>1. HasInst(one) /\ one.rd = drf.op.rd
  BY ReadKeepsRd
<1>2. \A test : HasInst(Read2(one, test)) /\ Read2(one, test).rd = drf.op.rd
  BY <1>1, ReadKeepsRd
<1>3. CASE DecodeLoad \/ DecodeMove \/ DecodeLiteral \/ DecodeTwoSource \/ DecodeDivExor
  <2>1. \/ RenameDest(drf.op) \/ RenameDest(one)
        \/ \E test : RenameDest(Read2(one, test))
    BY <1>3 DEF DecodeLoad, DecodeMove, DecodeLiteral, DecodeTwoSource, DecodeDivExor
  <2>2. drf.op.inst_type \in Writers
    BY <1>3 DEF DecodeLoad, DecodeMove, DecodeLiteral, DecodeTwoSource, DecodeDivExor, Writers, Loads,
                MOVC, MOV, ADD, ADDL, SUB, SUBL, MUL, DIV, AND, OR, EXOR
  <2> HIDE DEF one
  <2> QED BY <1>1, <1>2, <2>1, <2>2
<1>4. CASE DecodeStore \/ DecodeJump \/ DecodeHalt \/ DecodePlain
  <2>1. drf.op.inst_type \in Stores \cup {JUMP, HALT} \cup Branches \cup {NOP, 0} /\ rename' = rename
    BY <1>4 DEF DecodeStore, DecodeJump, DecodeHalt, DecodePlain
  <2>2. drf.op.inst_type \notin Writers
    BY <2>1, WriterTypes DEF Branches, NOP, Writers, Loads, LOAD, LDR, MOVC, EXOR, BZ, BNZ
  <2> QED BY <2>1, <2>2
<1> QED BY <1>3, <1>4 DEF Decode

LEMMA DecodeTagStep == ASSUME EnoughTags, WorkInv, TagInv, Decode PROVE TagInv'
<1> DEFINE e == rob.rob_entry
           ptr == rob.issue_ptr
<1>1. /\ step = "decode" /\ step' = "fetch" /\ UNCHANGED rob
      /\ ptr \in 0 .. ROB_SIZE
      /\ {"op", "stalled", "executed"} \subseteq DOMAIN drf /\ HasInst(drf.op)
      /\ {"op", "stalled"} \subseteq DOMAIN fetch_stage
  BY DEF Decode, Turn, queueVars, WorkInv, OrderInv, RobInv, RobShape, FrontOnce, FrontShape
<1>2. drf'.op.inst_type = drf.op.inst_type
  BY <1>1, DecodedOp DEF DecodeStalled, Decoded, SameFront
<1>3. fetch_stage'.op = fetch_stage.op
  BY <1>1 DEF Decode, DecodeStalled, DecodeStore, DecodeLoad, DecodeMove, DecodeLiteral,
              DecodeTwoSource, DecodeDivExor, DecodeJump, DecodeHalt, DecodePlain
<1>4. (Renamed' <=> drf.op.inst_type \in Writers) /\ (Pending' <=> Renamed') /\ (Pending <=> Renamed)
  BY <1>1, <1>2 DEF Renamed, Pending
<1>5. NotRenamed' /\ StallHolds'
  BY <1>1, <1>2, <1>3, <1>4 DEF TagInv, NotRenamed, StallHolds
<1>6. /\ TableShape(rename) /\ TagsInOrder(e, rename) /\ LastInUse(e, rename)
      /\ TagsRecent(e, ptr, rename, IF Pending THEN 1 ELSE 0)
      /\ \A t \in TagIndex : Tagged(rename, t) => rename.reg_rename[t].rename_tag \in Regs
      /\ \A t \in TagIndex : Tagged(rename, t) => (Renamed /\ drf.op.rd = t) \/ InBuffer(e, t)
  BY DEF TagInv
<1>7. CASE drf.stalled = VALID
  <2>1. drf'.op = drf.op /\ rename' = rename
    BY <1>1, <1>7 DEF Decode, DecodeStalled
  <2>2. Renamed' <=> Renamed
    BY <1>1, <1>4, <1>7 DEF Renamed
  <2> QED BY <1>1, <1>4, <1>5, <1>6, <2>1, <2>2 DEF TagInv
<1>8. CASE drf.stalled # VALID
  <2>1. ~Renamed /\ ~Pending
    BY <1>1, <1>4, <1>8 DEF Renamed
  <2>2. CASE drf.op.inst_type \notin Writers
    <3>1. rename' = rename
      BY <1>1, <1>8, <2>2, DecodeWrites
    <3> QED BY <1>1, <1>4, <1>5, <1>6, <2>1, <2>2, <3>1 DEF TagInv
  <2>3. CASE drf.op.inst_type \in Writers
    <3> DEFINE tag == FirstFreeTag(rename)
               rt2 == rename_desc_reg(rename, drf.op.rd)
    <3>1. \A t \in TagIndex : Tagged(rename, t) => InBuffer(e, t)
      BY <1>6, <2>1
    <3>2. TagsRecent(e, ptr, rename, 0)
      BY <1>6, <2>1
    <3>3. can_rename_reg_tag(rename) /\ tag \in TagIndex
      BY <1>1, <1>6, <3>1, <3>2, TagFound
    <3>4. rename' = rt2 /\ drf'.op.rd = tag
      <4>1. PICK op : HasInst(op) /\ op.rd = drf.op.rd /\ RenameDest(op)
        BY <1>1, <1>8, <2>3, DecodeWrites
      <4> QED BY <1>1, <3>3, <4>1 DEF RenameDest, Decoded, HasInst
    <3>5. drf.op.rd \in Regs
      BY <2>1, <2>3 DEF TagInv, NotRenamed
    <3> HIDE DEF tag, rt2
    <3>6. /\ TableShape(rt2)
          /\ \A t : Tagged(rt2, t) <=> Tagged(rename, t) \/ t = tag
          /\ \A t \in TagIndex : rt2.reg_rename[t].rename_tag =
                                   IF t = tag THEN drf.op.rd ELSE rename.reg_rename[t].rename_tag
      BY <1>1, <1>6, <3>1, <3>2, RenameTags DEF tag, rt2
    <3>7. /\ TagsInOrder(e, rt2) /\ TagsRecent(e, ptr, rt2, 1) /\ LastInUse(e, rt2)
          /\ FrontTag(e, rt2, tag)
      BY <1>1, <1>6, <3>1, <3>2, RenameTags DEF tag, rt2
    <3> QED BY <1>1, <1>4, <1>5, <1>6, <2>3, <3>1, <3>4, <3>5, <3>6, <3>7 DEF TagInv
  <2> QED BY <2>2, <2>3
<1> QED BY <1>7, <1>8

LEMMA InitTag == ASSUME Init PROVE TagInv
<1>1. /\ rename = clear_rename_table /\ rob = init_reorder_buffer
      /\ fetch_stage = [op |-> NoOp, stalled |-> INVALID]
      /\ drf = [op |-> NoOp, stalled |-> INVALID, executed |-> INVALID] /\ step = "commit"
  BY DEF Init, init_rename_table
<1>2. TableShape(rename) /\ \A t : ~Tagged(rename, t)
  BY <1>1, NotWork DEF TableShape, clear_rename_table, Tagged, TagIndex, Flag
<1>3. Writing(rob.rob_entry) = {}
  BY <1>1, NotWork DEF Writing, init_reorder_buffer, FreeRobEntry
<1>4. 0 \notin Writers /\ NoOp.inst_type = 0
  BY WriterTypes DEF NoOp
<1>5. ~Renamed /\ ~Pending /\ NotRenamed /\ StallHolds
  BY <1>1, <1>4, NotWork DEF Renamed, Pending, NotRenamed, StallHolds
<1> QED BY <1>2, <1>3, <1>5 DEF TagInv, TagsInOrder, TagsRecent, LastInUse

LEMMA NextTag ==
  ASSUME RegistersExist, EnoughTags, WorkInv, TagInv, Kept, [Next]_vars
  PROVE  TagInv'
<1>1. CASE UNCHANGED vars
  BY <1>1 DEF vars, frontVars, archVars, queueVars, TagInv, Renamed, Pending, NotRenamed, StallHolds
<1>2. CASE Issue \/ IntOne \/ IntTwo \/ MulOne \/ MulThree \/ Branch \/ Mem \/ PushUnits
  BY <1>2, UnitsTagStep
<1> QED BY <1>1, <1>2, CommitTagStep, WritebackTagStep, DispatchTagStep, PushFrontTagStep,
           DecodeTagStep, FetchTagStep DEF Next

-----------------------------------------------------------------------------
(***************************************************************************)
(* Between two cycles every tag has its owner.                             *)
(***************************************************************************)
LEMMA OneHolder ==
  ASSUME TagInv, WorkInv, NEW i \in Writing(rob.rob_entry), NEW j \in Writing(rob.rob_entry),
         rob.rob_entry[i].rd = rob.rob_entry[j].rd
  PROVE  i = j
<1> DEFINE e == rob.rob_entry
<1>1. Tagged(rename, e[i].rd) /\ e[i].rd \in TagIndex /\ TableShape(rename)
  BY DEF TagInv, TagsRecent, Tagged
<1>2. Age(rename, e[i].rd) \in Nat
  BY <1>1, AgeIsNat
<1>3. e[i].inst_ptr = e[j].inst_ptr
  <2>1. e[i].inst_ptr \in Int /\ e[j].inst_ptr \in Int
    BY WritingIsIndex DEF WorkInv, PlacesInv, TrackInv, EntryShape
  <2>2. /\ e[i].inst_ptr < e[j].inst_ptr => Age(rename, e[j].rd) < Age(rename, e[i].rd)
        /\ e[j].inst_ptr < e[i].inst_ptr => Age(rename, e[i].rd) < Age(rename, e[j].rd)
    BY DEF TagInv, TagsInOrder
  <2> QED BY <1>2, <2>1, <2>2
<1>4. e[i].status = VALID /\ e[j].status = VALID /\ e[i].inst_type # HALT
      /\ i \in RobIndex /\ j \in RobIndex
  BY WriterTypes DEF Writing
<1> QED BY <1>3, <1>4 DEF WorkInv, PlacesInv, TrackInv, EntriesDiffer

LEMMA TagsGiveOwners == ASSUME WorkInv, TagInv PROVE TagsOwned
<1> DEFINE e == rob.rob_entry
<1> SUFFICES ASSUME BetweenCycles, NEW t \in TagIndex
             PROVE  Cardinality(Owners(t)) =
                      IF rename.reg_rename[t].tag_valid = VALID THEN 1 ELSE 0
  BY DEF TagsOwned
<1> DEFINE Here == {i \in Writing(e) : e[i].rd = t}
           Front0 == drf.op.inst_type \in Writers /\ drf.op.rd = t
<1>1. Owners(t) = Here \cup IF Front0 THEN {ROB_SIZE} ELSE {}
  BY DEF Owners, Window, IsWriter, Writing
<1>2. Renamed <=> drf.op.inst_type \in Writers
  BY DEF BetweenCycles, Renamed
<1>3. Pending <=> Renamed
  BY DEF BetweenCycles, Pending
<1>4. Tagged(rename, t) <=> rename.reg_rename[t].tag_valid = VALID
  BY DEF Tagged
<1>5. Front0 => Tagged(rename, t) /\ Here = {}
  <2> SUFFICES ASSUME Front0 PROVE Tagged(rename, t) /\ Here = {}
    OBVIOUS
  <2>1. FrontTag(e, rename, t)
    BY <1>2, <1>3 DEF TagInv
  <2>2. Age(rename, t) = 0
    BY <2>1, AgeIsNat DEF FrontTag, TagInv
  <2>3. \A i \in Writing(e) : e[i].rd # t
    BY <2>1, <2>2 DEF FrontTag
  <2> QED BY <2>1, <2>3 DEF FrontTag
<1>6. \A i \in Here : Tagged(rename, t)
  BY DEF TagInv, TagsRecent
<1>7. Tagged(rename, t) => Front0 \/ Here # {}
  BY <1>2 DEF TagInv, InBuffer
<1>8. \A i, j \in Here : i = j
  BY OneHolder
<1> HIDE DEF Here, Front0
<1>9. CASE Tagged(rename, t)
  <2>1. PICK o : Owners(t) = {o}
    <3>1. CASE Front0
      BY <1>1, <1>5, <3>1
    <3>2. CASE ~Front0
      <4>1. PICK o : o \in Here
        BY <1>7, <1>9, <3>2
      <4>2. Here = {o}
        BY <1>8, <4>1
      <4> QED BY <1>1, <3>2, <4>2
    <3> QED BY <3>1, <3>2
  <2> QED BY <1>4, <1>9, <2>1, FS_Singleton
<1>10. CASE ~Tagged(rename, t)
  <2>1. Owners(t) = {}
    BY <1>1, <1>5, <1>6, <1>10
  <2> QED BY <1>4, <1>10, <2>1, FS_EmptySet
<1> QED BY <1>9, <1>10

\* Between two cycles each tag of the rename table has exactly the owner it is
\* marked for, for every program without conditional branches that names
\* existing registers and every size of the buffer, the queues and the memory,
\* in every run in which no decoded instruction is overwritten in DRF.
THEOREM TagsOwnedCorrect ==
  ASSUME StraightLine, RegistersExist, EnoughTags
  PROVE  Spec /\ DecodedIsDispatched => []TagsOwned
<1>1. Init => WorkInv /\ TagInv
  BY InitWork, InitTag
<1>2. WorkInv /\ TagInv /\ [Next]_vars /\ [Kept]_vars => WorkInv' /\ TagInv'
  <2> SUFFICES ASSUME WorkInv, TagInv, [Next]_vars, [Kept]_vars PROVE WorkInv' /\ TagInv'
    OBVIOUS
  <2>1. Kept
    BY DEF Kept, vars
  <2> QED BY <2>1, NextWork, NextTag
<1>3. WorkInv /\ TagInv => TagsOwned
  BY TagsGiveOwners
<1>4. DecodedIsDispatched <=> [][Kept]_vars
  BY PTL DEF DecodedIsDispatched, Kept
<1> QED BY <1>1, <1>2, <1>3, <1>4, PTL DEF Spec

-----------------------------------------------------------------------------
(***************************************************************************)
(* regs_invalid.  The first stages of two units count a writer, commit     *)
(* takes it off again.  Not yet counted are the writers in the issue queue *)
(* and, between issue and those handlers, in the two first stages.         *)
(***************************************************************************)
Fresh ==
  IF step = "int_one" THEN {"INT_ONE", "MUL_ONE"}
  ELSE IF step \in {"int_two", "mul_one"} THEN {"MUL_ONE"} ELSE {}

Waits(i) ==
  \/ \E q \in IqIndex : Matches(rob.rob_entry[i], Inst(iq[q].op))
  \/ \E u \in Fresh : Matches(rob.rob_entry[i], Inst(stage[u]))

Names(i, r) == rename.reg_rename[rob.rob_entry[i].rd].rename_tag = r

Counted(r) == {i \in Writing(rob.rob_entry) : Names(i, r) /\ ~Waits(i)}

CountInv ==
  /\ DOMAIN regs_invalid = Regs
  /\ \A r \in Regs : regs_invalid[r] = Cardinality(Counted(r))
  /\ step \in {"commit", "issue"} => Empty("INT_ONE") /\ Empty("MUL_ONE")

LEMMA CountedFinite ==
  \A r : /\ IsFiniteSet(Counted(r)) /\ Cardinality(Counted(r)) \in Nat
         /\ IsFiniteSet(Counted(r)') /\ Cardinality(Counted(r)') \in Nat
<1>1. IsFiniteSet(RobIndex)
  BY FS_Interval DEF RobIndex
<1>2. \A r : Counted(r) \subseteq RobIndex /\ Counted(r)' \subseteq RobIndex
  BY DEF Counted, Writing
<1> QED BY <1>1, <1>2, FS_Subset, FS_CardinalityType

\* The handlers that count nobody and let nobody go.
LEMMA QuietCount ==
  ASSUME CountInv, UNCHANGED regs_invalid,
         Writing(rob'.rob_entry) = Writing(rob.rob_entry),
         \A i \in Writing(rob.rob_entry) :
           (Waits(i)' <=> Waits(i)) /\ \A r : Names(i, r)' <=> Names(i, r),
         step' \in {"commit", "issue"} => Empty("INT_ONE")' /\ Empty("MUL_ONE")'
  PROVE  CountInv'
<1>1. \A r : Counted(r)' = Counted(r)
  BY DEF Counted
<1> QED BY <1>1 DEF CountInv

\* One writer more or less.
LEMMA CountOne ==
  ASSUME CountInv, NEW a \in Regs, NEW c, NEW n \in {-1, 1},
         regs_invalid' = [regs_invalid EXCEPT ![a] = @ + n],
         \A r : r # a => Counted(r)' = Counted(r),
         IF n = 1 THEN c \notin Counted(a) /\ Counted(a)' = Counted(a) \cup {c}
         ELSE c \in Counted(a) /\ Counted(a)' = Counted(a) \ {c},
         step' \in {"commit", "issue"} => Empty("INT_ONE")' /\ Empty("MUL_ONE")'
  PROVE  CountInv'
<1>1. Cardinality(Counted(a)') = Cardinality(Counted(a)) + n
  <2>1. CASE n = 1
    BY <2>1, CountedFinite, FS_AddElement
  <2>2. CASE n = -1
    BY <2>2, CountedFinite, FS_RemoveElement
  <2> QED BY <2>1, <2>2
<1>2. DOMAIN regs_invalid' = Regs
  BY DEF CountInv
<1>3. ASSUME NEW r \in Regs PROVE regs_invalid'[r] = Cardinality(Counted(r)')
  <2>1. CASE r = a
    BY <1>1, <2>1 DEF CountInv
  <2>2. CASE r # a
    BY <2>2 DEF CountInv
  <2> QED BY <2>1, <2>2
<1> QED BY <1>2, <1>3 DEF CountInv

\* Nothing of what is counted, or waits for it, moves.
LEMMA StillCount ==
  ASSUME WorkInv, CountInv,
         IntTwo \/ MulThree \/ Branch \/ Mem \/ PushFront \/ Fetch \/ PushUnits
  PROVE  CountInv'
<1>1. UNCHANGED <<rob, rename, iq, regs_invalid>>
  <2>1. ~Redirects(stage["BRANCH"])
    BY DEF WorkInv, OrderInv, BranchUnitIdle, Redirects, BZ, BNZ, JUMP
  <2> QED BY <2>1 DEF IntTwo, MulThree, Branch, Mem, PushUnits, PushFront, Fetch, execKeeps,
              frontVars, archVars, queueVars
<1>2. DOMAIN stage = Units /\ {"MUL_ONE", "INT_ONE"} \subseteq Units
  BY DEF WorkInv, PlacesInv, UnitShape, Units
<1>3. Fresh' = Fresh /\ \A u \in Fresh : stage'[u] = stage[u]
  <2>1. CASE IntTwo
    BY <1>2, <2>1 DEF IntTwo, Turn, Fresh
  <2>2. CASE MulThree \/ Branch \/ Mem \/ PushFront \/ Fetch \/ PushUnits
    BY <2>2 DEF MulThree, Branch, Mem, PushFront, Fetch, PushUnits, Turn, Fresh
  <2> QED BY <2>1, <2>2
<1>4. step' \in {"commit", "issue"} => Empty("INT_ONE")' /\ Empty("MUL_ONE")'
  <2>1. CASE PushUnits
    <3>1. stage'["MUL_ONE"] = NoOp /\ stage'["INT_ONE"] = NoOp
      BY <1>2, <2>1 DEF PushUnits
    <3> QED BY <3>1 DEF Empty, NoOp
  <2>2. CASE IntTwo \/ MulThree \/ Branch \/ Mem \/ PushFront \/ Fetch
    BY <2>2 DEF IntTwo, MulThree, Branch, Mem, PushFront, Fetch, Turn
  <2> QED BY <2>1, <2>2
<1>5. \A i : (Waits(i)' <=> Waits(i)) /\ \A r : Names(i, r)' <=> Names(i, r)
  BY <1>1, <1>3 DEF Waits, Names
<1> QED BY <1>1, <1>4, <1>5, QuietCount

LEMMA WritebackCountStep == ASSUME WorkInv, CountInv, Writeback PROVE CountInv'
<1>1. /\ SameEntries(rob'.rob_entry, rob.rob_entry)
      /\ \A i \in IqIndex : Inst(iq'[i].op) = Inst(iq[i].op)
  BY WritebackWorkStep
<1>2. UNCHANGED <<rename, regs_invalid, stage>> /\ step = "writeback" /\ step' = "dispatch"
  BY DEF Writeback, Turn, archVars, backVars
<1>3. Writing(rob'.rob_entry) = Writing(rob.rob_entry)
  BY <1>1 DEF SameEntries, Writing
<1>4. \A i \in Writing(rob.rob_entry) :
        (Waits(i)' <=> Waits(i)) /\ \A r : Names(i, r)' <=> Names(i, r)
  BY <1>1, <1>2, WritingIsIndex DEF SameEntries, Waits, Names, Fresh, Matches
<1> QED BY <1>2, <1>3, <1>4, QuietCount

\* Decode names another register for a free tag only.
LEMMA DecodeCountStep == ASSUME EnoughTags, WorkInv, TagInv, CountInv, Decode PROVE CountInv'
<1> DEFINE e == rob.rob_entry
           tag == FirstFreeTag(rename)
           rt2 == rename_desc_reg(rename, drf.op.rd)
<1>1. /\ step = "decode" /\ step' = "fetch" /\ UNCHANGED <<rob, iq, stage, regs_invalid>>
      /\ rob.issue_ptr \in 0 .. ROB_SIZE /\ HasInst(drf.op)
  BY DEF Decode, Turn, queueVars, backVars, WorkInv, OrderInv, RobInv, RobShape, FrontOnce, FrontShape
<1>2. \A i : Waits(i)' <=> Waits(i)
  BY <1>1 DEF Waits, Fresh
<1>3. rename' = rename \/ (rename' = rt2 /\ drf.stalled # VALID /\ drf.op.inst_type \in Writers)
  <2>1. CASE drf.stalled = VALID
    BY <2>1 DEF Decode, DecodeStalled
  <2>2. CASE drf.stalled # VALID
    <3>1. \A op : op.rd = drf.op.rd /\ RenameDest(op) => rename' = rename \/ rename' = rt2
      BY DEF RenameDest
    <3> HIDE DEF rt2
    <3> QED BY <1>1, <2>2, <3>1, DecodeWrites
  <2> QED BY <2>1, <2>2
<1>4. CASE rename' = rt2 /\ drf.stalled # VALID /\ drf.op.inst_type \in Writers
  <2>1. /\ ~Renamed /\ ~Pending
    BY <1>1, <1>4 DEF Renamed, Pending
  <2>2. /\ TableShape(rename) /\ TagsInOrder(e, rename) /\ LastInUse(e, rename)
        /\ TagsRecent(e, rob.issue_ptr, rename, 0)
        /\ \A t \in TagIndex : Tagged(rename, t) => InBuffer(e, t)
    BY <2>1 DEF TagInv
  <2>3. tag \in TagIndex /\ ~Tagged(rename, tag)
    BY <1>1, <2>2, TagFound
  <2> HIDE DEF tag, rt2
  <2>4. \A t \in TagIndex : rt2.reg_rename[t].rename_tag =
                              IF t = tag THEN drf.op.rd ELSE rename.reg_rename[t].rename_tag
    BY <1>1, <2>2, RenameTags DEF tag, rt2
  <2>5. \A i \in Writing(e) : e[i].rd \in TagIndex /\ e[i].rd # tag
    BY <2>2, <2>3 DEF TagsRecent, Tagged
  <2>6. \A i \in Writing(e) : \A r : Names(i, r)' <=> Names(i, r)
    BY <1>1, <1>4, <2>4, <2>5 DEF Names
  <2> QED BY <1>1, <1>2, <2>6, QuietCount
<1>5. CASE rename' = rename
  <2>1. \A i : \A r : Names(i, r)' <=> Names(i, r)
    BY <1>1, <1>5 DEF Names
  <2> QED BY <1>1, <1>2, <2>1, QuietCount
<1> QED BY <1>3, <1>4, <1>5

\* An instruction enters the buffer and the issue queue together.
LEMMA DispatchCountStep == ASSUME WorkInv, CountInv, Dispatch PROVE CountInv'
<1> DEFINE e == rob.rob_entry
           f == rob'.rob_entry
           s == Slot(rob.issue_ptr)
<1>1. /\ step = "dispatch" /\ step' = "push_front" /\ UNCHANGED <<rename, stage, regs_invalid>>
      /\ RobInv(rob) /\ Below(e, drf.op) /\ drf.op.pc \in Int /\ IqShape(iq) /\ HasInst(drf.op)
      /\ \A i \in RobIndex : e[i].inst_ptr \in Int
  BY DEF Dispatch, Turn, archVars, backVars, WorkInv, OrderInv, FrontOnce, NotYetDispatched,
         FrontShape, FrontInv, Latch, PlainOp, PlacesInv, TrackInv, EntryShape
<1>2. Fresh = {} /\ Fresh' = {}
  BY <1>1 DEF Fresh
<1>3. CASE f = e /\ UNCHANGED iq
  <2>1. \A i : (Waits(i)' <=> Waits(i)) /\ \A r : Names(i, r)' <=> Names(i, r)
    BY <1>1, <1>2, <1>3 DEF Waits, Names
  <2> QED BY <1>1, <1>3, <2>1, QuietCount
<1>4. ASSUME Adds
      PROVE  /\ s \in RobIndex /\ e[s].status # VALID
             /\ \A i \in RobIndex : f[i] = IF i = s THEN NewRobEntry(drf.op) ELSE e[i]
  <2>1. s \in RobIndex /\ f = [e EXCEPT ![s] = NewRobEntry(drf.op)] /\ e[s].status # VALID
    BY <1>1, <1>4, AddFields, NotWork DEF Adds, can_add_entry_in_reorder_buffer
  <2> QED BY <1>1, <2>1 DEF RobInv, RobShape
<1> HIDE DEF s
<1>5. CASE drf.op.inst_type = HALT /\ Adds /\ UNCHANGED iq
  <2>1. Writing(f) = Writing(e) /\ \A i \in Writing(e) : f[i] = e[i]
    BY <1>4, <1>5, WriterTypes DEF Writing, NewRobEntry
  <2>2. \A i \in Writing(e) : (Waits(i)' <=> Waits(i)) /\ \A r : Names(i, r)' <=> Names(i, r)
    BY <1>1, <1>2, <1>5, <2>1 DEF Waits, Names
  <2> QED BY <1>1, <2>1, <2>2, QuietCount
<1>6. CASE /\ drf.op.inst_type \in Queued /\ Adds /\ HasFree(iq)
           /\ \E k : iq' = add_issue_queue_entry(iq, drf.op, k)
  <2> DEFINE n == FirstFree(iq)
  <2>1. /\ n \in IqIndex /\ Inst(iq[n].op) = NoInst
        /\ \A i \in IqIndex : Inst(iq'[i].op) = IF i = n THEN Inst(drf.op) ELSE Inst(iq[i].op)
    BY <1>1, <1>6, AddIqShape
  <2> HIDE DEF n, e, f
  <2>2. drf.op.inst_type # 0
    BY <1>6, NotWork DEF Queued, MOVC, JUMP
  <2>3. \A i : i = s => Waits(i)'
    <3>1. Matches(f[s], Inst(drf.op))
      BY <1>4, <1>6, <2>2, InstFields DEF NewRobEntry, Matches
    <3> QED BY <2>1, <3>1 DEF Waits, f
  <2>4. ASSUME NEW i \in Writing(e)
        PROVE  i # s /\ f[i] = e[i] /\ i \in Writing(f) /\ (Waits(i)' <=> Waits(i))
    <3>1. i # s /\ i \in RobIndex /\ e[i].inst_type \in Writers /\ e[i].status = VALID
      BY <1>4, <1>6, <2>4 DEF Writing
    <3>2. f[i] = e[i]
      BY <1>4, <1>6, <3>1
    <3>3. ~Matches(e[i], NoInst) /\ ~Matches(e[i], Inst(drf.op))
      <4>1. e[i].inst_ptr < drf.op.pc /\ e[i].inst_type # 0
        BY <1>1, <3>1, WriterTypes DEF Below
      <4> QED BY <1>1, <2>2, <3>1, <4>1, InstFields, NotWork DEF Matches
    <3>4. Waits(i)' <=> Waits(i)
      BY <1>2, <2>1, <3>2, <3>3 DEF Waits, f, e
    <3> QED BY <3>1, <3>2, <3>4 DEF Writing
  <2>5. \A i \in Writing(f) : i = s \/ i \in Writing(e)
    BY <1>4, <1>6 DEF Writing
  <2>6. \A r : Counted(r)' = Counted(r)
    <3>1. \A i \in Writing(e) : \A r : Names(i, r)' <=> Names(i, r)
      BY <1>1, <2>4 DEF Names, e, f
    <3> QED BY <2>3, <2>4, <2>5, <3>1 DEF Counted, e, f
  <2> QED BY <1>1, <2>6 DEF CountInv
<1> QED BY <1>1, <1>3, <1>5, <1>6, DispatchCases DEF Queued

\* What is in the issue queue has no result yet.
LEMMA FinishedIsCounted ==
  ASSUME WorkInv, Fresh = {}, NEW c \in Writing(rob.rob_entry),
         rob.rob_entry[c].valid # INVALID
  PROVE  ~Waits(c)
<1> DEFINE e == rob.rob_entry
           W == Work(iq, lsq, stage, Open)
<1> SUFFICES ASSUME NEW q \in IqIndex, Matches(e[c], Inst(iq[q].op)) PROVE FALSE
  BY DEF Waits
<1>1. TrackInv(e, W, Unaddressed(lsq)) /\ IqPlace(q) \in Place /\ W[IqPlace(q)] = Inst(iq[q].op)
  BY PlacesOf, WorkAt DEF WorkInv, PlacesInv
<1>2. c \in RobIndex /\ e[c].status = VALID /\ e[c].inst_type # 0
  BY WriterTypes DEF Writing
<1>3. Holds(W, IqPlace(q)) /\ e[c].inst_ptr = W[IqPlace(q)].pc
  BY <1>1, <1>2 DEF Holds, Matches
<1> HIDE DEF W
<1>4. Awaits(e, c, W[IqPlace(q)])
  BY <1>1, <1>2, <1>3, EntryOfWork
<1> QED BY <1>4 DEF Awaits, Unfinished

\* Commit takes a counted writer off its register.
LEMMA CommitCountStep == ASSUME WorkInv, TagInv, CountInv, Commit PROVE CountInv'
<1> DEFINE e == rob.rob_entry
           f == rob'.rob_entry
           Register0(i) == rename.reg_rename[e[i].rd].rename_tag
<1>1. /\ step = "commit" /\ step' = "issue" /\ UNCHANGED stage
      /\ \A q \in IqIndex : Inst(iq'[q].op) = Inst(iq[q].op)
  BY CommitCases
<1>2. Fresh = {} /\ Fresh' = {} /\ Empty("INT_ONE")' /\ Empty("MUL_ONE")'
  BY <1>1 DEF Fresh, CountInv, Empty
<1>3. \A i : f[i] = e[i] => (Waits(i)' <=> Waits(i))
  BY <1>1, <1>2 DEF Waits
<1>4. CASE /\ UNCHANGED <<rename, regs_invalid>> /\ Writing(f) = Writing(e)
           /\ \A i \in Writing(e) : f[i] = e[i]
  <2>1. \A i \in Writing(e) : \A r : Names(i, r)' <=> Names(i, r)
    BY <1>4 DEF Names
  <2> QED BY <1>2, <1>3, <1>4, <2>1, QuietCount
<1>5. ASSUME NEW c \in Writing(e), e[c].valid # INVALID,
             \A i \in Writing(e) : i = c \/ e[c].inst_ptr < e[i].inst_ptr,
             \A i \in RobIndex : f[i] = IF i = c THEN FreeRobEntry ELSE e[i],
             Tagged(rename, e[c].rd), Register0(c) \in Regs,
             rename' = ReleaseTag(rename, e[c].rd),
             regs_invalid' = [regs_invalid EXCEPT ![Register0(c)] = @ - 1]
      PROVE  CountInv'
  <2> DEFINE a == Register0(c)
             rt2 == rename'
  <2>1. ~Waits(c)
    BY <1>2, <1>5, FinishedIsCounted
  <2>2. /\ TableShape(rename) /\ TagsInOrder(e, rename) /\ LastInUse(e, rename)
        /\ TagsRecent(e, rob.issue_ptr, rename, IF Pending THEN 1 ELSE 0)
        /\ \A i \in Writing(e) : e[i].rd \in TagIndex
    BY DEF TagInv, TagsRecent, Tagged
  <2>3. \A t \in TagIndex : rt2.reg_rename[t].rename_tag = rename.reg_rename[t].rename_tag
    <3> HIDE DEF e, f, rt2
    <3> QED BY <1>5, <2>2, ReleaseTags DEF rt2
  <2>4. Writing(f) = Writing(e) \ {c}
    BY <1>5, NotWork, SMTT(30) DEF Writing, FreeRobEntry
  <2>5. \A i \in Writing(e) : i # c =>
          (Waits(i)' <=> Waits(i)) /\ \A r : Names(i, r)' <=> Names(i, r)
    BY <1>3, <1>5, <2>2, <2>3, WritingIsIndex DEF Names
  <2>6. \A r : Names(c, r) <=> r = a
    BY DEF Names
  <2>7. ASSUME NEW r
        PROVE  /\ c \in Counted(r) <=> r = a
               /\ Counted(r)' = Counted(r) \ {c}
    BY <1>5, <2>1, <2>4, <2>5, <2>6 DEF Counted
  <2>8. PICK b \in Regs : b = a
    BY <1>5
  <2>9. PICK n \in {-1, 1} : n = -1
    OBVIOUS
  <2>10. regs_invalid' = [regs_invalid EXCEPT ![b] = @ + n]
    BY <1>5, <2>8, <2>9
  <2>11. /\ \A r : r # b => Counted(r)' = Counted(r)
         /\ c \in Counted(b) /\ Counted(b)' = Counted(b) \ {c}
    BY <2>7, <2>8
  <2>12. n # 1
    BY <2>9
  <2> QED BY <1>2, <2>10, <2>11, <2>12, CountOne
<1>6. CASE \E c \in Writing(e) :
             /\ e[c].valid # INVALID
             /\ \A i \in Writing(e) : i = c \/ e[c].inst_ptr < e[i].inst_ptr
             /\ \A i \in RobIndex : f[i] = IF i = c THEN FreeRobEntry ELSE e[i]
             /\ Tagged(rename, e[c].rd) /\ Register0(c) \in Regs
             /\ rename' = ReleaseTag(rename, e[c].rd)
             /\ regs_invalid' = [regs_invalid EXCEPT ![Register0(c)] = @ - 1]
  <2> HIDE DEF e, f, Register0
  <2> QED BY <1>5, <1>6, Zenon
<1> QED BY <1>4, <1>6, CommitCases

LEMMA IssuedInst == ASSUME NEW op, HasInst(op) PROVE Inst(IssuedOp(op)) = Inst(op)
<1>1. SameInst(IssuedOp(op), op)
  BY DEF SameInst, IssuedOp, HasInst
<1> QED BY <1>1, SameInstInst

\* What issues waits for its unit's handler to be counted.
LEMMA IssueCountStep == ASSUME WorkInv, CountInv, Issue PROVE CountInv'
<1> DEFINE e == rob.rob_entry
           Int1 == Filled("INT_ONE")
           Mul1 == Filled("MUL_ONE")
<1>1. /\ step = "issue" /\ step' = "int_one" /\ UNCHANGED <<rob, rename, regs_invalid>>
      /\ IqShape(iq) /\ LsqShape(lsq) /\ PlainQueue(iq)
  BY DEF Issue, Turn, archVars, WorkInv, PlacesInv, OrderInv
<1>2. Fresh = {} /\ Fresh' = {"INT_ONE", "MUL_ONE"} /\ Empty("INT_ONE") /\ Empty("MUL_ONE")
  BY <1>1 DEF Fresh, CountInv
<1>3. /\ \A i, j \in Int1 : i = j
      /\ \A i, j \in Mul1 : i = j
      /\ Int1 \cup Mul1 \subseteq IqIndex /\ Issued \cap IqIndex \subseteq Int1 \cup Mul1
  <2>1. Int1 \cup Mul1 \subseteq IqIndex
    BY DEF Filled
  <2> QED BY <1>1, <2>1, FilledOnce, UnitsFilled
<1>4. \A q \in IqIndex : iq'[q].op = IF q \in Issued THEN NoOp ELSE iq[q].op
  BY <1>1, IssueSteps, LeaveShapes
<1>5. /\ stage'["INT_ONE"] = IF Int1 = {} THEN stage["INT_ONE"]
                             ELSE IssuedOp(iq[CHOOSE i \in Int1 : TRUE].op)
      /\ stage'["MUL_ONE"] = IF Mul1 = {} THEN stage["MUL_ONE"]
                             ELSE IssuedOp(iq[CHOOSE i \in Mul1 : TRUE].op)
  BY IssueSteps DEF Units
<1> HIDE DEF Int1, Mul1
<1>6. /\ Int1 = {} => Inst(stage'["INT_ONE"]) = NoInst
      /\ \A q \in Int1 : Inst(stage'["INT_ONE"]) = Inst(iq[q].op)
      /\ Mul1 = {} => Inst(stage'["MUL_ONE"]) = NoInst
      /\ \A q \in Mul1 : Inst(stage'["MUL_ONE"]) = Inst(iq[q].op)
  <2>1. /\ Int1 # {} => (CHOOSE i \in Int1 : TRUE) \in Int1
        /\ Mul1 # {} => (CHOOSE i \in Mul1 : TRUE) \in Mul1
    BY <1>3, ChosenPlace
  <2>2. \A q \in IqIndex : Inst(IssuedOp(iq[q].op)) = Inst(iq[q].op)
    BY <1>1, IssuedInst DEF IqShape
  <2>3. Inst(stage["INT_ONE"]) = NoInst /\ Inst(stage["MUL_ONE"]) = NoInst
    BY <1>2, InstFields DEF Empty
  <2>4. ASSUME NEW q \in Int1 PROVE Inst(stage'["INT_ONE"]) = Inst(iq[q].op)
    <3>1. (CHOOSE i \in Int1 : TRUE) = q /\ Int1 # {}
      BY <1>3, <2>1, <2>4
    <3>2. stage'["INT_ONE"] = IssuedOp(iq[q].op)
      BY <1>5, <3>1
    <3> QED BY <1>3, <2>2, <3>2
  <2>5. ASSUME NEW q \in Mul1 PROVE Inst(stage'["MUL_ONE"]) = Inst(iq[q].op)
    <3>1. (CHOOSE i \in Mul1 : TRUE) = q /\ Mul1 # {}
      BY <1>3, <2>1, <2>5
    <3>2. stage'["MUL_ONE"] = IssuedOp(iq[q].op)
      BY <1>5, <3>1
    <3> QED BY <1>3, <2>2, <3>2
  <2> QED BY <1>5, <2>3, <2>4, <2>5
<1>7. ASSUME NEW i \in Writing(e) PROVE Waits(i)' <=> Waits(i)
  <2> DEFINE M(x) == Matches(e[i], x)
  <2>1. ~M(NoInst)
    BY <1>7, WriterTypes, NotWork DEF Matches, Writing
  <2>2. Waits(i) <=> \E q \in IqIndex : M(Inst(iq[q].op))
    BY <1>2 DEF Waits
  <2>3. Waits(i)' <=> \/ \E q \in IqIndex : M(Inst(iq'[q].op))
                      \/ M(Inst(stage'["INT_ONE"])) \/ M(Inst(stage'["MUL_ONE"]))
    BY <1>1, <1>2 DEF Waits
  <2>4. \A q \in IqIndex : M(Inst(iq'[q].op)) <=> q \notin Issued /\ M(Inst(iq[q].op))
    <3>1. Inst(NoOp) = NoInst
      BY InstFields DEF NoOp
    <3> HIDE DEF M
    <3> QED BY <1>4, <2>1, <3>1
  <2>5. M(Inst(stage'["INT_ONE"])) <=> \E q \in Int1 : M(Inst(iq[q].op))
    <3> HIDE DEF M
    <3> QED BY <1>6, <2>1
  <2>6. M(Inst(stage'["MUL_ONE"])) <=> \E q \in Mul1 : M(Inst(iq[q].op))
    <3> HIDE DEF M
    <3> QED BY <1>6, <2>1
  <2> HIDE DEF M
  <2> QED BY <1>3, <2>2, <2>3, <2>4, <2>5, <2>6
<1>8. \A i : \A r : Names(i, r)' <=> Names(i, r)
  BY <1>1 DEF Names
<1> QED BY <1>1, <1>7, <1>8, QuietCount

\* A unit's handler counts the writer that the unit holds.
LEMMA CountUnit ==
  ASSUME WorkInv, TagInv, CountInv, NEW u \in Fresh, Fresh' = Fresh \ {u},
         step' \notin {"commit", "issue"}, UNCHANGED <<rob, rename, iq, stage>>,
         NEW types, stage[u].inst_type \in types <=> stage[u].inst_type \in Writers,
         CountWriter(stage[u], types)
  PROVE  CountInv'
<1> DEFINE e == rob.rob_entry
           W == Work(iq, lsq, stage, Open)
           op == stage[u]
<1>1. Fresh \subseteq {"INT_ONE", "MUL_ONE"} /\ {"INT_ONE", "MUL_ONE"} \subseteq FrontUnits \cap Open
  BY DEF Fresh, FrontUnits, Open, Units
<1>2. \A i : Waits(i) <=> Waits(i)' \/ Matches(e[i], Inst(op))
  BY DEF Waits
<1>3. \A i : \A r : Names(i, r)' <=> Names(i, r)
  BY DEF Names
<1>4. CASE op.inst_type \notin Writers
  <2>1. UNCHANGED regs_invalid
    BY <1>4 DEF CountWriter
  <2>2. \A i \in Writing(e) : ~Matches(e[i], Inst(op))
    BY <1>4, InstFields DEF Writing, Matches
  <2> QED BY <1>2, <1>3, <2>1, <2>2, QuietCount
<1>5. CASE op.inst_type \in Writers
  <2>1. op.inst_type # 0 /\ Inst(op) = [inst_type |-> op.inst_type, pc |-> op.pc, rd |-> op.rd]
    BY <1>5, WriterTypes DEF Inst
  <2>2. /\ TrackInv(e, W, Unaddressed(lsq))
        /\ \A q \in IqIndex : W[IqPlace(q)] = Inst(iq[q].op) /\ IqPlace(q) \in Front
        /\ \A v \in Fresh : W[UnitPlace(v)] = Inst(stage[v]) /\ UnitPlace(v) \in Front
        /\ Front \subseteq Place
    BY <1>1, WorkAt, PlacesOf DEF WorkInv, PlacesInv, Place
  <2> HIDE DEF W, e
  <2>3. Holds(W, UnitPlace(u)) /\ W[UnitPlace(u)] = Inst(op)
    BY <2>1, <2>2 DEF Holds
  <2>4. PICK c \in RobIndex : /\ Awaits(e, c, Inst(op))
                              /\ \A j \in RobIndex : e[j].status = VALID /\ e[j].inst_ptr = op.pc => j = c
    BY <2>1, <2>2, <2>3, EntryOfWork
  <2>5. c \in Writing(e) /\ Matches(e[c], Inst(op)) /\ e[c].rd = op.rd
    BY <1>5, <2>1, <2>4 DEF Awaits, Unfinished, Matches, Writing
  <2>6. \A i \in Writing(e) : Matches(e[i], Inst(op)) => i = c
    BY <2>1, <2>4 DEF Matches, Writing
  <2>7. ~Waits(c)'
    <3>1. \A p \in Front : p # UnitPlace(u) => ~Matches(e[c], W[p])
      <4> SUFFICES ASSUME NEW p \in Front, p # UnitPlace(u), Matches(e[c], W[p]) PROVE FALSE
        OBVIOUS
      <4>1. Holds(W, p) /\ W[p].pc = W[UnitPlace(u)].pc
        BY <2>1, <2>3, <2>5 DEF Matches, Holds
      <4> QED BY <2>2, <2>3, <4>1 DEF TrackInv, OnePlace
    <3>2. ASSUME NEW q \in IqIndex PROVE ~Matches(e[c], Inst(iq[q].op))
      <4>1. IqPlace(q) # UnitPlace(u) /\ IqPlace(q) \in Front /\ W[IqPlace(q)] = Inst(iq[q].op)
        BY <2>2, PlacesDiffer
      <4> QED BY <3>1, <4>1
    <3>3. ASSUME NEW v \in Fresh \ {u} PROVE ~Matches(e[c], Inst(stage[v]))
      BY <2>2, <3>1, PlacesDiffer
    <3> QED BY <3>2, <3>3 DEF Waits, e
  <2>8. \A i \in Writing(e) : i # c => (Waits(i)' <=> Waits(i))
    BY <1>2, <2>6
  <2>9. Waits(c)
    BY <1>2, <2>5
  <2>10. Tagged(rename, op.rd) /\ rename.reg_rename[op.rd].rename_tag \in Regs
    BY <2>5 DEF TagInv, TagsRecent, Tagged, e
  <2>11. PICK a \in Regs : a = rename.reg_rename[op.rd].rename_tag
    BY <2>10
  <2>12. PICK n \in {-1, 1} : n = 1
    OBVIOUS
  <2>13. regs_invalid' = [regs_invalid EXCEPT ![a] = @ + n]
    <3>1. get_phy_reg_renamed_tag(rename, op.rd) = a /\ a >= 0
      BY <2>10, <2>11, PipelineAssumption DEF get_phy_reg_renamed_tag, Tagged, Regs
    <3> QED BY <1>5, <2>12, <3>1 DEF CountWriter
  <2>14. \A r : Names(c, r) <=> r = a
    BY <2>5, <2>11 DEF Names, e
  <2>15. \A r : /\ c \notin Counted(r)
                /\ Counted(r)' = Counted(r) \cup (IF r = a THEN {c} ELSE {})
    BY <1>3, <2>5, <2>7, <2>8, <2>9, <2>14 DEF Counted, e
  <2>16. /\ \A r : r # a => Counted(r)' = Counted(r)
         /\ c \notin Counted(a) /\ Counted(a)' = Counted(a) \cup {c}
    BY <2>15
  <2> QED BY <2>12, <2>13, <2>16, CountOne
<1> QED BY <1>4, <1>5

LEMMA UnitCountStep == ASSUME WorkInv, TagInv, CountInv, IntOne \/ MulOne PROVE CountInv'
<1>1. /\ UNCHANGED <<rob, rename, iq, stage>>
      /\ stage["INT_ONE"].inst_type # MUL
      /\ stage["MUL_ONE"].inst_type \in {0, MUL}
  <2>1. stage["INT_ONE"].inst_type # MUL /\ stage["MUL_ONE"].inst_type \in {0, MUL}
    BY DEF WorkInv, PlacesInv, UnitShape, UnitTypes, IntTypes, Units, MemOps, Loads, Stores,
           LOAD, LDR, STORE, STR, MUL
  <2> QED BY <2>1 DEF IntOne, MulOne, execKeeps, backVars, queueVars
<1>2. MUL \in Writers /\ 0 \notin Writers
  BY WriterTypes DEF Writers, MUL, MOVC, EXOR
<1>3. CASE IntOne
  <2>1. "INT_ONE" \in Fresh /\ Fresh' = Fresh \ {"INT_ONE"} /\ step' = "int_two"
    BY <1>3 DEF IntOne, Turn, Fresh
  <2>2. CountWriter(stage["INT_ONE"], Writers \ {MUL})
    BY <1>3 DEF IntOne
  <2> QED BY <1>1, <2>1, <2>2, CountUnit
<1>4. CASE MulOne
  <2>1. "MUL_ONE" \in Fresh /\ Fresh' = Fresh \ {"MUL_ONE"} /\ step' = "mul_three"
    BY <1>4 DEF MulOne, Turn, Fresh
  <2>2. CountWriter(stage["MUL_ONE"], {MUL})
    BY <1>4 DEF MulOne
  <2> QED BY <1>1, <1>2, <2>1, <2>2, CountUnit
<1> QED BY <1>3, <1>4

LEMMA InitCount == ASSUME Init PROVE CountInv
<1>1. /\ regs_invalid = [r \in Regs |-> 0] /\ stage = [u \in Units |-> NoOp]
      /\ rob = init_reorder_buffer
  BY DEF Init
<1>2. Writing(rob.rob_entry) = {}
  BY <1>1, NotWork DEF Writing, init_reorder_buffer, FreeRobEntry
<1>3. \A r : Cardinality(Counted(r)) = 0
  BY <1>2, FS_EmptySet DEF Counted
<1>4. Empty("INT_ONE") /\ Empty("MUL_ONE")
  BY <1>1 DEF Empty, Units, NoOp
<1> QED BY <1>1, <1>3, <1>4 DEF CountInv

LEMMA NextCount ==
  ASSUME EnoughTags, WorkInv, TagInv, CountInv, [Next]_vars
  PROVE  CountInv'
<1>1. CASE UNCHANGED vars
  <2>1. UNCHANGED <<rob, rename, regs_invalid, iq, stage, step>>
    BY <1>1 DEF vars, archVars, queueVars, backVars, histVars
  <2>2. \A i : (Waits(i)' <=> Waits(i)) /\ \A r : Names(i, r)' <=> Names(i, r)
    BY <2>1 DEF Waits, Names, Fresh
  <2>3. step' \in {"commit", "issue"} => Empty("INT_ONE")' /\ Empty("MUL_ONE")'
    BY <2>1 DEF CountInv, Empty
  <2> QED BY <2>1, <2>2, <2>3, QuietCount
<1>2. CASE Issue \/ IntOne \/ MulOne
  BY <1>2, IssueCountStep, UnitCountStep
<1>3. CASE IntTwo \/ MulThree \/ Branch \/ Mem \/ PushFront \/ Fetch \/ PushUnits
  BY <1>3, StillCount
<1> QED BY <1>1, <1>2, <1>3, CommitCountStep, WritebackCountStep, DispatchCountStep,
           DecodeCountStep DEF Next

\* Between two cycles nobody is on the way from the issue queue to a counting stage.
LEMMA CountGives == ASSUME WorkInv, CountInv PROVE WritersCounted
<1> DEFINE e == rob.rob_entry
           Left(r) == {i \in Window : /\ e[i].inst_type \in Writers
                                      /\ rename.reg_rename[e[i].rd].rename_tag = r
                                      /\ \A op \in Waiting : ~Matches(e[i], op)}
<1> SUFFICES ASSUME BetweenCycles, NEW r \in Regs PROVE regs_invalid[r] = Cardinality(Left(r))
  BY DEF WritersCounted
<1>1. Fresh = {} /\ IqShape(iq)
  BY DEF BetweenCycles, Fresh, WorkInv, PlacesInv
<1>2. ASSUME NEW i \in Writing(e)
      PROVE  Waits(i) <=> \E op \in Waiting : Matches(e[i], op)
  <2>1. e[i].inst_type # 0
    BY WriterTypes DEF Writing
  <2>2. ASSUME NEW q \in IqIndex
        PROVE  Matches(e[i], Inst(iq[q].op)) <=> iq[q].status = VALID /\ Matches(e[i], iq[q].op)
    <3>1. CASE iq[q].status = VALID
      <4>1. iq[q].op.inst_type # 0
        BY <1>1, <3>1, NotWork DEF IqShape, Queued, MOVC, JUMP
      <4> QED BY <3>1, <4>1, InstFields DEF Matches
    <3>2. CASE iq[q].status # VALID
      <4>1. iq[q].op.inst_type = 0
        BY <1>1, <3>2 DEF IqShape
      <4> QED BY <2>1, <3>2, <4>1, InstFields DEF Matches
    <3> QED BY <3>1, <3>2
  <2> QED BY <1>1, <2>2 DEF Waits, Waiting
<1>3. Counted(r) = Left(r)
  <2>1. \A i : i \in Writing(e) <=> i \in Window /\ e[i].inst_type \in Writers
    BY DEF Writing, Window
  <2> QED BY <1>2, <2>1 DEF Counted, Names
<1> QED BY <1>3 DEF CountInv

\* Between two cycles regs_invalid counts the writers of a register that have
\* left the issue queue and not retired, under the premises of TagsOwnedCorrect.
THEOREM WritersCountedCorrect ==
  ASSUME StraightLine, RegistersExist, EnoughTags
  PROVE  Spec /\ DecodedIsDispatched => []WritersCounted
<1> DEFINE Inv == WorkInv /\ TagInv /\ CountInv
<1>1. Init => Inv
  BY InitWork, InitTag, InitCount
<1>2. Inv /\ [Next]_vars /\ [Kept]_vars => Inv'
  <2> SUFFICES ASSUME Inv, [Next]_vars, [Kept]_vars PROVE Inv'
    OBVIOUS
  <2>1. Kept
    BY DEF Kept, vars
  <2> QED BY <2>1, NextWork, NextTag, NextCount
<1>3. Inv => WritersCounted
  BY CountGives
<1>4. DecodedIsDispatched <=> [][Kept]_vars
  BY PTL DEF DecodedIsDispatched, Kept
<1> QED BY <1>1, <1>2, <1>3, <1>4, PTL DEF Spec

=============================================================================
