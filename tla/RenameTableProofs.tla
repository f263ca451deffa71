------------------------- MODULE RenameTableProofs --------------------------
(***************************************************************************)
(* Theorems about the rename table, for every number of tags and registers *)
(* and every reorder buffer with fewer entries than there are tags,        *)
(* whatever writers are lost between decode and dispatch.                  *)
(***************************************************************************)
EXTENDS RenameTable, SequenceTheorems, FiniteSetTheorems, WellFoundedInduction, TLAPS

USE RenameSizeAssumption, RenameUseAssumption

Held(t) == rename.reg_rename[t].tag_valid = VALID

\* TagsAccounted from the owners' side: each holds its register under its tag,
\* nobody holds a leaked tag, and there is no other tag in use.
OwnerInv ==
  /\ \A k \in Owners :
       /\ Held(outstanding[k].tag)
       /\ rename.reg_rename[outstanding[k].tag].rename_tag = outstanding[k].reg
       /\ outstanding[k].tag \notin leaked
  /\ \A t \in TagIndex : Held(t) => t \in leaked \/ \E k \in Owners : outstanding[k].tag = t
  /\ \A t \in leaked : Held(t)

\* The inductive invariant.
IInv ==
  /\ TypeInv
  /\ Dispatched <= ROB_SIZE
  /\ ~misfreed => OwnerInv
  /\ TagsInCircle

-----------------------------------------------------------------------------
(***************************************************************************)
(* Tags on the circle.                                                     *)
(***************************************************************************)
\* The age of tag t when the search position is p.
AgeFrom(p, t) == IF t <= p THEN p - t ELSE p - t + RENAME_TABLE_SIZE

StartFrom(p) == IF p < RENAME_TABLE_SIZE - 1 THEN p ELSE 0

\* The tags the search from p to f passed by.
Passed(p, f, t) == t \in StartFrom(p) .. f - 1 /\ t # p

\* How far the search position moves from p to f.
Moved(p, f) == IF p < RENAME_TABLE_SIZE - 1 THEN f - p ELSE f + 1

\* The search from p to f makes every tag older by the same distance, but for
\* those it passed by; these were older than f.
LEMMA SearchShiftsAges ==
  ASSUME NEW p \in TagIndex, NEW f \in StartFrom(p) .. RENAME_TABLE_SIZE - 1, NEW t \in TagIndex
  PROVE  /\ AgeFrom(p, t) \in Nat /\ AgeFrom(f, t) \in Nat
         /\ Moved(p, f) \in Int
         /\ AgeFrom(f, f) = 0
         /\ t # f => AgeFrom(f, t) > 0
         /\ t = f \/ Passed(p, f, t) \/ AgeFrom(f, t) = AgeFrom(p, t) + Moved(p, f)
         /\ Passed(p, f, t) => AgeFrom(p, f) < AgeFrom(p, t)
BY DEF AgeFrom, StartFrom, Passed, Moved, TagIndex

\* Every non-empty set of tags has a lowest one.
LEMMA LowestTag ==
  ASSUME NEW I \in SUBSET TagIndex, I # {}
  PROVE  \E i \in I : \A j \in I : i <= j
<1>1. I \subseteq Nat /\ I # {}
  BY DEF TagIndex
<1>2. PICK i \in I : \A j \in I : ~ (<<j, i>> \in OpToRel(<, Nat))
  BY <1>1, NatLessThanWellFounded, WFMin, Zenon
<1>3. \A j \in I : ~ (j < i)
  BY <1>1, <1>2 DEF OpToRel
<1> QED BY <1>1, <1>3

\* Every non-empty set of tags has a highest one.
LEMMA HighestTag ==
  ASSUME NEW I \in SUBSET TagIndex, I # {}
  PROVE  \E i \in I : \A j \in I : j <= i
<1> DEFINE D == {RENAME_TABLE_SIZE - 1 - i : i \in I}
<1>1. D \in SUBSET TagIndex /\ D # {}
  <2>1. \A i \in I : RENAME_TABLE_SIZE - 1 - i \in TagIndex
    BY DEF TagIndex
  <2>2. D # {}
    OBVIOUS
  <2> QED BY <2>1, <2>2
<1>2. PICK x \in D : \A y \in D : x <= y
  BY <1>1, LowestTag
<1>3. PICK i \in I : x = RENAME_TABLE_SIZE - 1 - i
  OBVIOUS
<1>4. ASSUME NEW j \in I PROVE j <= i
  <2>1. RENAME_TABLE_SIZE - 1 - j \in D
    OBVIOUS
  <2>2. RENAME_TABLE_SIZE - 1 - i <= RENAME_TABLE_SIZE - 1 - j
    BY <1>2, <1>3, <2>1
  <2> QED BY <2>2 DEF TagIndex
<1> QED BY <1>4

\* The search stops at the first free tag from its start.
LEMMA SearchFinds ==
  ASSUME TypeInv, can_rename_reg_tag(rename)
  PROVE  /\ FirstFreeTag(rename) \in StartFrom(rename.last_rename_pos) .. RENAME_TABLE_SIZE - 1
         /\ FirstFreeTag(rename) \in TagIndex
         /\ ~Held(FirstFreeTag(rename))
         /\ \A j \in StartFrom(rename.last_rename_pos) .. FirstFreeTag(rename) - 1 : Held(j)
<1> DEFINE start == StartFrom(rename.last_rename_pos)
           Free == {i \in start .. RENAME_TABLE_SIZE - 1 : IsFree(rename, i)}
           First(i) == /\ i \in start .. RENAME_TABLE_SIZE - 1
                       /\ IsFree(rename, i) /\ \A j \in start .. i - 1 : ~IsFree(rename, j)
<1>1. start \in TagIndex /\ SearchStart(rename) = start
  BY DEF TypeInv, TagIndex, StartFrom, SearchStart
<1>2. Free \in SUBSET TagIndex /\ Free # {}
  BY <1>1 DEF can_rename_reg_tag, TagIndex
<1>3. PICK i \in Free : \A j \in Free : i <= j
  BY <1>2, LowestTag
<1>4. First(i)
  BY <1>1, <1>3 DEF TagIndex
<1>5. FirstFreeTag(rename) = CHOOSE j : First(j)
  BY <1>1 DEF FirstFreeTag
<1> HIDE DEF First
<1>6. First(FirstFreeTag(rename))
  BY <1>4, <1>5
<1> USE DEF First
<1>7. \A j \in TagIndex : ~IsFree(rename, j) <=> Held(j)
  <2>1. \A j \in TagIndex : rename.reg_rename[j].tag_valid \in {INVALID, VALID}
    BY DEF TypeInv
  <2> QED BY <2>1 DEF IsFree, Held, VALID, INVALID
<1>8. FirstFreeTag(rename) \in TagIndex
  BY <1>1, <1>6 DEF TagIndex
<1>9. \A j \in start .. FirstFreeTag(rename) - 1 : j \in TagIndex
  BY <1>1, <1>8 DEF TagIndex
<1> QED BY <1>6, <1>7, <1>8, <1>9

\* What TypeInv says of the writers in flight.
LEMMA WritersTyped ==
  ASSUME TypeInv
  PROVE  /\ Len(outstanding) \in Nat
         /\ DOMAIN outstanding = 1 .. Len(outstanding)
         /\ Owners = {k \in 1 .. Len(outstanding) : outstanding[k].owns}
         /\ \A k \in 1 .. Len(outstanding) : outstanding[k] \in Writer
         /\ \A k \in Owners : outstanding[k].tag \in TagIndex
         /\ rename.last_rename_pos \in TagIndex
         /\ pending => Len(outstanding) > 0
         /\ Dispatched \in Int
<1>1. outstanding \in Seq(Writer)
  BY DEF TypeInv
<1>2. Len(outstanding) \in Nat /\ DOMAIN outstanding = 1 .. Len(outstanding)
  BY <1>1, LenProperties
<1>3. \A k \in 1 .. Len(outstanding) : outstanding[k] \in Writer
  BY <1>1, ElementOfSeq
<1>4. pending => Len(outstanding) > 0
  <2>1. ASSUME pending PROVE Len(outstanding) > 0
    <3>1. outstanding # <<>>
      BY <2>1 DEF TypeInv
    <3> QED BY <1>1, <3>1, EmptySeq
  <2> QED BY <2>1
<1>5. rename.last_rename_pos \in TagIndex
  BY DEF TypeInv
<1>6. \A k \in Owners : outstanding[k].tag \in TagIndex
  BY DEF TypeInv, Owners
<1>7. Owners = {k \in 1 .. Len(outstanding) : outstanding[k].owns}
  BY <1>2 DEF Owners
<1>8. Dispatched \in Int
  BY <1>2 DEF Dispatched
<1> QED BY <1>2, <1>3, <1>4, <1>5, <1>6, <1>7, <1>8

LEMMA AgeIsInt ==
  ASSUME TypeInv, NEW t \in TagIndex
  PROVE  Age(t) \in Int
<1>1. rename.last_rename_pos \in Int /\ t \in Int
  BY DEF TypeInv, TagIndex
<1> QED BY <1>1 DEF Age

\* Two owners have different tags.
LEMMA OwnersDiffer ==
  ASSUME TypeInv, TagsInCircle, ~misfreed, NEW j \in Owners, NEW k \in Owners, j # k
  PROVE  outstanding[j].tag # outstanding[k].tag
<1>1. j \in Int /\ k \in Int
  BY WritersTyped
<1>2. Age(outstanding[j].tag) \in Int /\ Age(outstanding[k].tag) \in Int
  BY WritersTyped, AgeIsInt
<1>3. CASE j < k
  BY <1>2, <1>3 DEF TagsInCircle
<1>4. CASE k < j
  BY <1>2, <1>4 DEF TagsInCircle
<1> QED BY <1>1, <1>3, <1>4

-----------------------------------------------------------------------------
(***************************************************************************)
(* Each action keeps the invariant.                                        *)
(***************************************************************************)
\* At the start no tag is in use.
LEMMA InitIInv == Init => IInv
<1> SUFFICES ASSUME Init PROVE IInv
  OBVIOUS
<1> USE DEF Init, init_rename_table, clear_rename_table
<1>1. TypeInv
  BY DEF TypeInv, TagIndex
<1>2. Owners = {}
  BY DEF Owners
<1>3. OwnerInv /\ TagsInCircle
  BY <1>2 DEF OwnerInv, TagsInCircle, Held, VALID, INVALID
<1>4. Dispatched <= ROB_SIZE
  BY DEF Dispatched
<1> QED BY <1>1, <1>3, <1>4 DEF IInv

\* Decode appends a writer that owns the first free tag of the search.  The
\* search passes no owner by: a free tag would be younger than that owner.
LEMMA DecodeRenamed ==
  ASSUME IInv, NEW rd \in Regs, Decode(rd), can_rename_reg_tag(rename)
  PROVE  IInv'
<1> DEFINE n == Len(outstanding)
           p == rename.last_rename_pos
           f == FirstFreeTag(rename)
           w == [reg |-> rd, tag |-> f, owns |-> TRUE]
           cell == [tag_valid |-> VALID, rename_tag |-> rd]
<1>1. /\ f \in StartFrom(p) .. RENAME_TABLE_SIZE - 1 /\ f \in TagIndex /\ ~Held(f)
      /\ \A j \in StartFrom(p) .. f - 1 : Held(j)
  BY SearchFinds DEF IInv
<1>2. /\ ~pending /\ pending' = TRUE
      /\ rename' = [rename EXCEPT !.reg_rename[f] = cell, !.last_rename_pos = f]
      /\ outstanding' = Append(outstanding, w)
      /\ leaked' = leaked /\ misfreed' = misfreed
  BY DEF Decode, rename_desc_reg
<1>3. /\ n \in Nat /\ Owners = {k \in 1 .. n : outstanding[k].owns}
      /\ \A k \in Owners : outstanding[k].tag \in TagIndex
      /\ p \in TagIndex /\ outstanding \in Seq(Writer)
      /\ \A k \in 1 .. n : outstanding[k] \in Writer
  BY WritersTyped DEF IInv, TypeInv
<1>4. w \in Writer
  BY <1>1 DEF Writer, TagIndex
<1>5. /\ outstanding' \in Seq(Writer) /\ outstanding' # <<>> /\ Len(outstanding') = n + 1
      /\ \A k \in 1 .. n : outstanding'[k] = outstanding[k]
      /\ outstanding'[n + 1] = w
  BY <1>2, <1>3, <1>4, AppendProperties
<1>6. DOMAIN outstanding' = 1 .. n + 1
  BY <1>5, LenProperties
<1>7. Owners' = Owners \cup {n + 1} /\ n + 1 \notin Owners
  <2>1. Owners' = {k \in 1 .. n + 1 : outstanding'[k].owns}
    BY <1>6 DEF Owners
  <2>2. 1 .. n + 1 = (1 .. n) \cup {n + 1}
    BY <1>3
  <2> QED BY <2>1, <2>2, <1>3, <1>5
<1>8. /\ rename'.last_rename_pos = f
      /\ \A t \in TagIndex : rename'.reg_rename[t] = IF t = f THEN cell ELSE rename.reg_rename[t]
      /\ rename' \in [reg_rename : [TagIndex -> [tag_valid : {INVALID, VALID},
                                               rename_tag : Regs \cup {0}]],
                      last_rename_pos : TagIndex]
  BY <1>1, <1>2 DEF IInv, TypeInv
<1>9. TypeInv'
  <2>1. \A k \in Owners' : outstanding'[k].tag \in TagIndex
    BY <1>1, <1>3, <1>5, <1>7
  <2>2. \A k \in DOMAIN outstanding' : outstanding'[k].owns => k \in Owners'
    BY DEF Owners
  <2>3. leaked' \subseteq TagIndex /\ misfreed' \in BOOLEAN
    BY <1>2 DEF TypeInv, IInv
  <2>4. pending' \in BOOLEAN /\ outstanding' # <<>>
    BY <1>2, <1>5
  <2> QED BY <2>1, <2>2, <2>3, <2>4, <1>5, <1>8 DEF TypeInv
<1>10. (Dispatched <= ROB_SIZE)'
  BY <1>2, <1>3, <1>5 DEF IInv, Dispatched
<1>11. \A t \in TagIndex : Held(t)' <=> (t = f \/ Held(t))
  BY <1>8 DEF Held
<1>12. ASSUME ~misfreed' PROVE OwnerInv'
  <2>1. OwnerInv
    BY <1>2, <1>12 DEF IInv
  <2>2. f \notin leaked /\ \A k \in Owners : outstanding[k].tag # f
    BY <2>1, <1>1 DEF OwnerInv
  <2>3. ASSUME NEW k \in Owners'
        PROVE  /\ Held(outstanding[k].tag)'
               /\ rename'.reg_rename[outstanding'[k].tag].rename_tag = outstanding'[k].reg
               /\ outstanding'[k].tag \notin leaked'
    <3>1. CASE k \in Owners
      BY <3>1, <2>1, <2>2, <1>2, <1>3, <1>5, <1>8 DEF OwnerInv, Held
    <3>2. CASE k = n + 1
      BY <3>2, <2>2, <1>1, <1>2, <1>5, <1>8 DEF Held
    <3> QED BY <3>1, <3>2, <1>7
  <2>4. ASSUME NEW t \in TagIndex, Held(t)'
        PROVE  t \in leaked' \/ \E k \in Owners' : outstanding'[k].tag = t
    <3>1. CASE t = f
      BY <3>1, <1>5, <1>7
    <3>2. CASE t # f
      BY <3>2, <2>1, <2>4, <1>2, <1>3, <1>5, <1>7, <1>11 DEF OwnerInv
    <3> QED BY <3>1, <3>2
  <2>5. \A t \in leaked' : Held(t)'
    BY <2>1, <1>2, <1>11 DEF OwnerInv, IInv, TypeInv
  <2> QED BY <2>3, <2>4, <2>5 DEF OwnerInv
<1>13. ASSUME ~misfreed' PROVE (\A k \in Owners :
          /\ \A j \in Owners : j < k => Age(outstanding[j].tag) > Age(outstanding[k].tag)
          /\ \A t \in TagIndex : Age(t) < Age(outstanding[k].tag) => Held(t))'
  <2>1. /\ ~misfreed /\ OwnerInv /\ TagsInCircle
    BY <1>2, <1>13 DEF IInv
  <2>2. /\ \A t : Age(t) = AgeFrom(p, t)
        /\ \A t : Age(t)' = AgeFrom(f, t)
    BY <1>8 DEF Age, AgeFrom
  <2>3. \A k \in Owners :
          /\ \A j \in Owners :
               j < k => AgeFrom(p, outstanding[j].tag) > AgeFrom(p, outstanding[k].tag)
          /\ \A t \in TagIndex :
               AgeFrom(p, t) < AgeFrom(p, outstanding[k].tag) => Held(t)
    BY <2>1, <2>2 DEF TagsInCircle, Held
  <2>4. \A t \in TagIndex :
          /\ AgeFrom(p, t) \in Nat /\ AgeFrom(f, t) \in Nat
          /\ t # f => AgeFrom(f, t) > 0
          /\ t = f \/ Passed(p, f, t) \/ AgeFrom(f, t) = AgeFrom(p, t) + Moved(p, f)
          /\ Passed(p, f, t) => AgeFrom(p, f) < AgeFrom(p, t)
    BY <1>1, <1>3, SearchShiftsAges
  <2>5. AgeFrom(f, f) = 0 /\ Moved(p, f) \in Int
    BY <1>1, <1>3, SearchShiftsAges
  <2>6. ASSUME NEW k \in Owners
        PROVE  /\ outstanding[k].tag # f
               /\ AgeFrom(f, outstanding[k].tag) = AgeFrom(p, outstanding[k].tag) + Moved(p, f)
    <3>1. outstanding[k].tag # f /\ outstanding[k].tag \in TagIndex
      BY <2>1, <1>1, <1>3 DEF OwnerInv
    <3>2. ~ (AgeFrom(p, f) < AgeFrom(p, outstanding[k].tag))
      BY <2>3, <1>1
    <3> QED BY <3>1, <3>2, <2>4
  <2>7. ASSUME NEW k \in Owners', NEW j \in Owners', j < k
        PROVE  AgeFrom(f, outstanding'[j].tag) > AgeFrom(f, outstanding'[k].tag)
    <3>1. j \in Owners
      BY <2>7, <1>3, <1>7
    <3>2. CASE k \in Owners
      <4>1. AgeFrom(p, outstanding[j].tag) > AgeFrom(p, outstanding[k].tag)
        BY <3>1, <3>2, <2>3, <2>7
      <4>2. outstanding'[j] = outstanding[j] /\ outstanding'[k] = outstanding[k]
        BY <3>1, <3>2, <1>3, <1>5
      <4>3. /\ AgeFrom(p, outstanding[j].tag) \in Int /\ AgeFrom(p, outstanding[k].tag) \in Int
        BY <3>1, <3>2, <2>4, <1>3
      <4> HIDE DEF f, p
      <4> QED BY <3>1, <3>2, <4>1, <4>2, <4>3, <2>5, <2>6
    <3>3. CASE k = n + 1
      <4>1. outstanding'[k].tag = f /\ outstanding'[j] = outstanding[j]
        BY <3>1, <3>3, <1>3, <1>5
      <4>2. AgeFrom(f, outstanding[j].tag) > 0
        BY <3>1, <2>4, <2>6, <1>3
      <4> QED BY <4>1, <4>2, <2>5
    <3> QED BY <3>2, <3>3, <1>7
  <2>8. ASSUME NEW k \in Owners', NEW t \in TagIndex,
               AgeFrom(f, t) < AgeFrom(f, outstanding'[k].tag)
        PROVE  Held(t)'
    <3>1. k \in Owners
      <4> SUFFICES ASSUME k = n + 1 PROVE FALSE
        BY <1>7
      <4>1. AgeFrom(f, t) < 0 /\ AgeFrom(f, t) \in Nat
        BY <2>4, <2>5, <2>8, <1>5
      <4> QED BY <4>1
    <3>2. outstanding'[k] = outstanding[k] /\ outstanding[k].tag \in TagIndex
      BY <3>1, <1>3, <1>5
    <3>3. AgeFrom(f, t) < AgeFrom(p, outstanding[k].tag) + Moved(p, f)
      BY <3>1, <3>2, <2>6, <2>8
    <3>4. CASE Passed(p, f, t)
      BY <3>4, <1>1, <1>11 DEF Passed
    <3>5. CASE AgeFrom(f, t) = AgeFrom(p, t) + Moved(p, f)
      <4>1. AgeFrom(p, t) \in Int /\ AgeFrom(p, outstanding[k].tag) \in Int
        BY <3>2, <2>4
      <4>2. AgeFrom(p, t) < AgeFrom(p, outstanding[k].tag)
        BY <3>3, <3>5, <4>1, <2>5
      <4> QED BY <3>1, <4>2, <2>3, <1>11
    <3> QED BY <3>4, <3>5, <2>4, <1>11
  <2>9. \A k \in Owners' :
          /\ \A j \in Owners' : j < k => Age(outstanding[j].tag)' > Age(outstanding[k].tag)'
          /\ \A t \in TagIndex : Age(t)' < Age(outstanding[k].tag)' => Held(t)'
    BY <2>7, <2>8, <1>8 DEF Age, AgeFrom
  <2> QED BY <2>9
<1>14. TagsInCircle'
  BY <1>13 DEF TagsInCircle, Held
<1> QED BY <1>9, <1>10, <1>12, <1>14 DEF IInv

\* Writers may leave at either end, and tags at which no owner is left may be
\* released: the owners that stay keep their places on the circle.
LEMMA CircleKept ==
  ASSUME TypeInv, TagsInCircle, ~misfreed, NEW d \in {0, 1},
         rename'.last_rename_pos = rename.last_rename_pos,
         \A k \in Owners' : /\ k \in Int /\ k + d \in Owners
                            /\ outstanding'[k] = outstanding[k + d],
         \A k \in Owners', t \in TagIndex :
           Held(t) /\ Age(t) < Age(outstanding[k + d].tag) => Held(t)'
  PROVE  TagsInCircle'
<1>1. \A t : Age(t)' = Age(t)
  BY DEF Age
<1>2. ASSUME NEW k \in Owners', NEW j \in Owners', j < k
      PROVE  Age(outstanding'[j].tag) > Age(outstanding'[k].tag)
  <2>1. j + d < k + d
    BY <1>2
  <2> QED BY <2>1 DEF TagsInCircle
<1>3. ASSUME NEW k \in Owners', NEW t \in TagIndex, Age(t) < Age(outstanding'[k].tag)
      PROVE  Held(t)'
  <2>1. Held(t)
    BY <1>3 DEF TagsInCircle, Held
  <2> QED BY <1>3, <2>1
<1>4. \A k \in Owners' :
        /\ \A j \in Owners' : j < k => Age(outstanding[j].tag)' > Age(outstanding[k].tag)'
        /\ \A t \in TagIndex : Age(t)' < Age(outstanding[k].tag)' => Held(t)'
  BY <1>2, <1>3 DEF Age
<1> QED BY <1>4 DEF TagsInCircle, Held

\* A writer that found no tag owns none; nothing else changes.
LEMMA DecodeUnrenamed ==
  ASSUME IInv, NEW rd \in Regs, Decode(rd), ~can_rename_reg_tag(rename)
  PROVE  IInv'
<1> DEFINE n == Len(outstanding)
           w == [reg |-> rd, tag |-> rd, owns |-> FALSE]
<1>1. /\ ~pending /\ pending' = TRUE /\ outstanding' = Append(outstanding, w)
      /\ rename' = rename /\ leaked' = leaked /\ misfreed' = misfreed
  BY DEF Decode
<1>2. /\ n \in Nat /\ Owners = {k \in 1 .. n : outstanding[k].owns}
      /\ outstanding \in Seq(Writer) /\ w \in Writer
      /\ \A k \in Owners : outstanding[k].tag \in TagIndex
  BY WritersTyped DEF IInv, TypeInv, Writer
<1>3. /\ outstanding' \in Seq(Writer) /\ outstanding' # <<>> /\ Len(outstanding') = n + 1
      /\ \A k \in 1 .. n : outstanding'[k] = outstanding[k]
      /\ outstanding'[n + 1] = w
  BY <1>1, <1>2, AppendProperties
<1>4. Owners' = Owners
  <2>1. Owners' = {k \in 1 .. n + 1 : outstanding'[k].owns}
    BY <1>3, LenProperties DEF Owners
  <2>2. 1 .. n + 1 = (1 .. n) \cup {n + 1}
    BY <1>2
  <2> QED BY <2>1, <2>2, <1>2, <1>3
<1>5. \A k \in Owners' : k \in Int /\ k + 0 \in Owners /\ outstanding'[k] = outstanding[k + 0]
  BY <1>2, <1>3, <1>4
<1>6. TypeInv'
  BY <1>1, <1>2, <1>3, <1>4, <1>5 DEF TypeInv, IInv, Owners
<1>7. (Dispatched <= ROB_SIZE)'
  BY <1>1, <1>2, <1>3 DEF IInv, Dispatched
<1>8. \A k \in Owners : outstanding'[k] = outstanding[k]
  BY <1>2, <1>3
<1>9. ASSUME OwnerInv PROVE OwnerInv'
  <2>1. \A k \in Owners' :
          /\ Held(outstanding[k].tag)'
          /\ rename'.reg_rename[outstanding'[k].tag].rename_tag = outstanding'[k].reg
          /\ outstanding'[k].tag \notin leaked'
    BY <1>1, <1>4, <1>8, <1>9 DEF OwnerInv, Held
  <2>2. ASSUME NEW t \in TagIndex, Held(t)'
        PROVE  t \in leaked' \/ \E k \in Owners' : outstanding'[k].tag = t
    <3>1. Held(t)
      BY <2>2, <1>1 DEF Held
    <3> QED BY <3>1, <1>1, <1>4, <1>8, <1>9 DEF OwnerInv
  <2>3. \A t \in leaked' : Held(t)'
    BY <1>1, <1>9 DEF OwnerInv, Held
  <2> QED BY <2>1, <2>2, <2>3 DEF OwnerInv
<1>10. TagsInCircle'
  <2>1. CASE misfreed
    BY <2>1, <1>1 DEF TagsInCircle
  <2>2. CASE ~misfreed
    BY <2>2, <1>1, <1>5, CircleKept DEF IInv, Held
  <2> QED BY <2>1, <2>2
<1> QED BY <1>1, <1>6, <1>7, <1>9, <1>10 DEF IInv

LEMMA DispatchIInv ==
  ASSUME IInv, Dispatch
  PROVE  IInv'
<1>1. /\ rename' = rename /\ outstanding' = outstanding /\ pending' = FALSE /\ pending
      /\ leaked' = leaked /\ misfreed' = misfreed /\ Dispatched < ROB_SIZE
  BY DEF Dispatch
<1>2. TypeInv'
  BY <1>1 DEF IInv, TypeInv
<1>3. (Dispatched <= ROB_SIZE)'
  BY <1>1, WritersTyped DEF IInv, Dispatched
<1>4. Owners' = Owners
  BY <1>1 DEF Owners
<1>5. OwnerInv => OwnerInv'
  BY <1>1, <1>4 DEF OwnerInv, Held
<1>6. TagsInCircle'
  BY <1>1, <1>4 DEF IInv, TagsInCircle, Age
<1> QED BY <1>1, <1>2, <1>3, <1>5, <1>6 DEF IInv

\* The writer that is lost leaves its tag among the leaked ones.
LEMMA DropIInv ==
  ASSUME IInv, Drop
  PROVE  IInv'
<1> DEFINE n == Len(outstanding)
           last == outstanding[n]
<1>1. /\ pending /\ pending' = FALSE /\ rename' = rename /\ misfreed' = misfreed
      /\ outstanding' = SubSeq(outstanding, 1, n - 1)
      /\ leaked' = IF last.owns THEN leaked \cup {last.tag} ELSE leaked
  BY DEF Drop
<1>2. /\ n \in Nat /\ n > 0 /\ Owners = {k \in 1 .. n : outstanding[k].owns}
      /\ \A k \in 1 .. n : outstanding[k] \in Writer
      /\ \A k \in Owners : outstanding[k].tag \in TagIndex
  BY <1>1, WritersTyped DEF IInv
<1>3. /\ outstanding' \in Seq(Writer) /\ Len(outstanding') = n - 1
      /\ \A k \in 1 .. n - 1 : outstanding'[k] = outstanding[k]
  <2>1. \A i \in 1 .. n - 1 : outstanding[i] \in Writer
    BY <1>2
  <2>2. /\ outstanding' \in Seq(Writer)
        /\ Len(outstanding') = IF 1 <= n - 1 THEN n - 1 - 1 + 1 ELSE 0
        /\ \A i \in 1 .. n - 1 - 1 + 1 : outstanding'[i] = outstanding[1 + i - 1]
    BY <2>1, <1>1, <1>2, SubSeqProperties
  <2>3. \A i \in 1 .. n - 1 : i \in 1 .. n - 1 - 1 + 1 /\ 1 + i - 1 = i
    BY <1>2
  <2>4. Len(outstanding') = n - 1
    <3> HIDE DEF n
    <3>1. n - 1 - 1 + 1 = n - 1 /\ (~(1 <= n - 1) => n - 1 = 0)
      <4>1. n \in Nat /\ n > 0
        BY <1>2
      <4> QED BY <4>1
    <3>2. CASE 1 <= n - 1
      BY <2>2, <3>1, <3>2
    <3>3. CASE ~(1 <= n - 1)
      BY <2>2, <3>1, <3>3
    <3> QED BY <3>2, <3>3
  <2>5. ASSUME NEW k \in 1 .. n - 1 PROVE outstanding'[k] = outstanding[k]
    <3>1. outstanding'[k] = outstanding[1 + k - 1]
      BY <2>2, <2>3
    <3>2. 1 + k - 1 = k
      BY <2>3
    <3> QED BY <3>1, <3>2
  <2> QED BY <2>2, <2>4, <2>5
<1>4. Owners' = Owners \ {n}
  <2>1. Owners' = {k \in 1 .. n - 1 : outstanding'[k].owns}
    BY <1>3, LenProperties DEF Owners
  <2>2. 1 .. n - 1 = (1 .. n) \ {n}
    BY <1>2
  <2> QED BY <2>1, <2>2, <1>2, <1>3
<1>5. \A k \in Owners' : k \in Int /\ k \in Owners /\ k # n /\ outstanding'[k] = outstanding[k]
  BY <1>2, <1>3, <1>4
<1>6. last.owns => n \in Owners
  BY <1>2
<1>7. TypeInv'
  <2>1. leaked' \subseteq TagIndex
    BY <1>1, <1>2, <1>6 DEF IInv, TypeInv
  <2>2. \A k \in Owners' : outstanding'[k].tag \in TagIndex
    BY <1>2, <1>5
  <2> QED BY <2>1, <2>2, <1>1, <1>3 DEF TypeInv, IInv, Owners
<1>8. (Dispatched <= ROB_SIZE)'
  BY <1>1, <1>2, <1>3 DEF IInv, Dispatched
<1>9. ASSUME ~misfreed, OwnerInv PROVE OwnerInv'
  <2>1. \A k \in Owners' : n \in Owners => outstanding[k].tag # last.tag
    BY <1>5, <1>9, OwnersDiffer DEF IInv
  <2>2. \A k \in Owners' : outstanding'[k].tag \notin leaked'
    BY <2>1, <1>1, <1>5, <1>6, <1>9 DEF OwnerInv
  <2>3. ASSUME NEW k \in Owners'
        PROVE  /\ Held(outstanding[k].tag)'
               /\ rename'.reg_rename[outstanding'[k].tag].rename_tag = outstanding'[k].reg
    <3>1. /\ Held(outstanding[k].tag) /\ outstanding'[k] = outstanding[k]
          /\ rename.reg_rename[outstanding[k].tag].rename_tag = outstanding[k].reg
      BY <1>5, <1>9 DEF OwnerInv
    <3> QED BY <3>1, <1>1 DEF Held
  <2>4. ASSUME NEW t \in TagIndex, Held(t)'
        PROVE  t \in leaked' \/ \E k \in Owners' : outstanding'[k].tag = t
    <3>1. Held(t)
      BY <2>4, <1>1 DEF Held
    <3>2. CASE t \in leaked
      BY <3>2, <1>1
    <3>3. CASE \E k \in Owners : outstanding[k].tag = t
      <4>1. PICK k \in Owners : outstanding[k].tag = t
        BY <3>3
      <4>2. CASE k = n
        BY <4>1, <4>2, <1>1, <1>2
      <4>3. CASE k # n
        BY <4>1, <4>3, <1>4, <1>5
      <4> QED BY <4>2, <4>3
    <3> QED BY <3>1, <3>2, <3>3, <1>9 DEF OwnerInv
  <2>5. \A t \in leaked' : Held(t)'
    BY <1>1, <1>6, <1>9 DEF OwnerInv, Held
  <2> QED BY <2>2, <2>3, <2>4, <2>5 DEF OwnerInv
<1>10. TagsInCircle'
  <2>1. CASE misfreed
    BY <2>1, <1>1 DEF TagsInCircle
  <2>2. CASE ~misfreed
    <3>1. \A k \in Owners' : /\ k \in Int /\ k + 0 \in Owners
                              /\ outstanding'[k] = outstanding[k + 0]
      BY <1>5
    <3> QED BY <2>2, <3>1, <1>1, CircleKept DEF IInv, Held
  <2> QED BY <2>1, <2>2
<1> QED BY <1>1, <1>7, <1>8, <1>9, <1>10 DEF IInv

\* Commit releases the tag of the oldest writer if it owns one; an unrenamed
\* one finds its number free or sets misfreed.
LEMMA CommitIInv ==
  ASSUME IInv, Commit
  PROVE  IInv'
<1> DEFINE n == Len(outstanding)
           w == outstanding[1]
           Found == get_phy_reg_renamed_tag(rename, w.tag) >= 0
<1>1. /\ n \in Nat /\ n > 0 /\ outstanding \in Seq(Writer) /\ outstanding # <<>>
      /\ Owners = {k \in 1 .. n : outstanding[k].owns}
      /\ \A k \in Owners : outstanding[k].tag \in TagIndex
      /\ Dispatched > 0 /\ Head(outstanding) = w /\ w \in Writer
  <2>1. outstanding \in Seq(Writer) /\ n \in Nat
    BY WritersTyped DEF IInv, TypeInv
  <2>2. Dispatched > 0
    BY DEF Commit
  <2>3. n > 0
    BY <2>1, <2>2 DEF Dispatched
  <2>4. outstanding # <<>>
    BY <2>3
  <2>5. w \in Writer
    BY <2>1, <2>3, ElementOfSeq
  <2> QED BY <2>1, <2>2, <2>3, <2>4, <2>5, WritersTyped, HeadTailProperties DEF IInv
<1>2. /\ outstanding' = Tail(outstanding) /\ pending' = pending
      /\ Found => /\ rename' = ReleaseTag(rename, w.tag) /\ leaked' = leaked \ {w.tag}
                   /\ misfreed' = (misfreed \/ ~w.owns)
      /\ ~Found => rename' = rename /\ leaked' = leaked /\ misfreed' = misfreed
  <2>1. get_phy_reg_renamed_tag(rename, w.tag) \in Int
    <3>1. \A t \in TagIndex : rename.reg_rename[t].rename_tag \in Regs \cup {0}
      BY DEF IInv, TypeInv
    <3>2. \A t \in TagIndex : rename.reg_rename[t].rename_tag \in Int
      <4>1. Regs \cup {0} \subseteq Int
        OBVIOUS
      <4> QED BY <3>1, <4>1
    <3>3. w.tag \in TagIndex \/ get_phy_reg_renamed_tag(rename, w.tag) = -1
      BY DEF get_phy_reg_renamed_tag
    <3> QED BY <3>2, <3>3 DEF get_phy_reg_renamed_tag
  <2>2. Found <=> ~(get_phy_reg_renamed_tag(rename, w.tag) < 0)
    BY <2>1
  <2> QED BY <2>2, <1>1 DEF Commit
<1>3. Found => w.tag \in TagIndex /\ Held(w.tag)
  BY DEF get_phy_reg_renamed_tag, Held
<1>4. /\ outstanding' \in Seq(Writer) /\ Len(outstanding') = n - 1
      /\ \A k \in 1 .. n - 1 : outstanding'[k] = outstanding[k + 1]
  BY <1>1, <1>2, HeadTailProperties
<1> HIDE DEF Found
<1>5. \A k \in Owners' : /\ k \in Int /\ k \in 1 .. n - 1 /\ k + 1 \in Owners
                          /\ outstanding'[k] = outstanding[k + 1]
  <2>1. Owners' = {k \in 1 .. n - 1 : outstanding'[k].owns}
    BY <1>4, LenProperties DEF Owners
  <2>2. \A k \in 1 .. n - 1 : k \in Int /\ k + 1 \in 1 .. n
    BY <1>1
  <2> QED BY <2>1, <2>2, <1>1, <1>4
<1>6. \A k \in Owners : k # 1 => k - 1 \in Owners' /\ outstanding'[k - 1] = outstanding[k]
  <2>1. Owners' = {k \in 1 .. n - 1 : outstanding'[k].owns}
    BY <1>4, LenProperties DEF Owners
  <2>2. \A k \in 1 .. n : k # 1 => k - 1 \in 1 .. n - 1 /\ k - 1 + 1 = k
    BY <1>1
  <2> QED BY <2>1, <2>2, <1>1, <1>4
<1>7. /\ rename'.last_rename_pos = rename.last_rename_pos
      /\ \A t \in TagIndex :
           /\ rename'.reg_rename[t].rename_tag = rename.reg_rename[t].rename_tag
           /\ Held(t)' => Held(t)
           /\ Held(t) /\ (Found => t # w.tag) => Held(t)'
           /\ Held(t)' /\ Found => t # w.tag
      /\ rename' \in [reg_rename : [TagIndex -> [tag_valid : {INVALID, VALID},
                                               rename_tag : Regs \cup {0}]],
                      last_rename_pos : TagIndex]
  <2>1. CASE ~Found
    BY <2>1, <1>2 DEF IInv, TypeInv, Held
  <2>2. CASE Found
    <3> DEFINE cells == rename.reg_rename
               Cell == [tag_valid : {INVALID, VALID}, rename_tag : Regs \cup {0}]
               new == [cells EXCEPT ![w.tag] = [cells[w.tag] EXCEPT !.tag_valid = INVALID]]
    <3>1. cells \in [TagIndex -> Cell] /\ rename.last_rename_pos \in TagIndex
      BY DEF IInv, TypeInv
    <3>2. w.tag \in TagIndex /\ cells[w.tag] \in Cell
      BY <2>2, <1>3, <3>1
    <3>3. [cells[w.tag] EXCEPT !.tag_valid = INVALID] \in Cell
      BY <3>2
    <3>4. new \in [TagIndex -> Cell]
      BY <3>1, <3>3
    <3>5. rename' = [rename EXCEPT !.reg_rename = new]
      BY <2>2, <1>2 DEF ReleaseTag
    <3>6. rename'.reg_rename = new /\ rename'.last_rename_pos = rename.last_rename_pos
          /\ rename' \in [reg_rename : [TagIndex -> Cell], last_rename_pos : TagIndex]
      <4> HIDE DEF new, Cell
      <4>1. rename \in [reg_rename : [TagIndex -> Cell], last_rename_pos : TagIndex]
        BY DEF IInv, TypeInv, Cell
      <4> QED BY <4>1, <3>4, <3>5
    <3>7. \A t \in TagIndex : /\ new[t].rename_tag = cells[t].rename_tag
                              /\ (new[t].tag_valid = VALID)
                                   <=> (cells[t].tag_valid = VALID /\ t # w.tag)
      BY <3>1, <3>2 DEF VALID, INVALID
    <3> HIDE DEF new
    <3> QED BY <2>2, <3>6, <3>7 DEF Held
  <2> QED BY <2>1, <2>2
<1>8. TypeInv'
  <2>1. leaked' \subseteq TagIndex /\ misfreed' \in BOOLEAN
    BY <1>1, <1>2 DEF IInv, TypeInv, Writer
  <2>2. \A k \in Owners' : outstanding'[k].tag \in TagIndex
    BY <1>1, <1>5
  <2>3. pending' \in BOOLEAN /\ (pending' => outstanding' # <<>>)
    <3>1. pending => n - 1 > 0
      BY <1>1 DEF Dispatched
    <3>2. n - 1 > 0 => outstanding' # <<>>
      BY <1>4
    <3> QED BY <3>1, <3>2, <1>2 DEF IInv, TypeInv
  <2> QED BY <2>1, <2>2, <2>3, <1>4, <1>7 DEF TypeInv, Owners
<1>9. (Dispatched <= ROB_SIZE)'
  BY <1>1, <1>2, <1>4 DEF IInv, Dispatched
<1>10. ASSUME ~misfreed' PROVE ~misfreed /\ OwnerInv /\ (Found <=> w.owns)
  <2>1. ~misfreed /\ (Found => w.owns)
    <3>1. CASE Found
      BY <3>1, <1>2, <1>10
    <3>2. CASE ~Found
      BY <3>2, <1>2, <1>10
    <3> QED BY <3>1, <3>2
  <2>2. OwnerInv
    BY <2>1 DEF IInv
  <2>3. ASSUME w.owns PROVE Found
    <3>1. 1 \in Owners /\ w.tag \in TagIndex
      BY <2>3, <1>1
    <3>2. Held(w.tag) /\ rename.reg_rename[w.tag].rename_tag = w.reg /\ w.reg \in Nat
      BY <3>1, <2>2, <1>1 DEF OwnerInv, Writer, RenameUseAssumption
    <3> QED BY <3>1, <3>2 DEF get_phy_reg_renamed_tag, Held, Found
  <2>4. w.owns \in BOOLEAN
    BY <1>1 DEF Writer
  <2> QED BY <2>1, <2>2, <2>3
<1>11. ASSUME ~misfreed' PROVE \A k \in Owners : k # 1 /\ Found => outstanding[k].tag # w.tag
  <2> SUFFICES ASSUME NEW k \in Owners, k # 1, Found PROVE outstanding[k].tag # w.tag
    OBVIOUS
  <2>1. 1 \in Owners
    BY <1>1, <1>10, <1>11
  <2> QED BY <2>1, <1>10, <1>11, OwnersDiffer DEF IInv
<1>12. ASSUME ~misfreed' PROVE OwnerInv'
  <2>1. ~misfreed /\ OwnerInv /\ (Found <=> w.owns)
    BY <1>10, <1>12
  <2>2. ASSUME NEW k \in Owners'
        PROVE  /\ Held(outstanding[k].tag)'
               /\ rename'.reg_rename[outstanding'[k].tag].rename_tag = outstanding'[k].reg
               /\ outstanding'[k].tag \notin leaked'
    <3>1. /\ k + 1 \in Owners /\ k + 1 # 1 /\ outstanding'[k] = outstanding[k + 1]
          /\ outstanding[k + 1].tag \in TagIndex
      BY <1>1, <1>5
    <3>2. Found => outstanding[k + 1].tag # w.tag
      BY <3>1, <1>11, <1>12
    <3>3. leaked' \subseteq leaked
      BY <1>2
    <3>4. /\ Held(outstanding[k + 1].tag) /\ outstanding[k + 1].tag \notin leaked
          /\ rename.reg_rename[outstanding[k + 1].tag].rename_tag = outstanding[k + 1].reg
      BY <3>1, <2>1 DEF OwnerInv
    <3> DEFINE tag == outstanding[k + 1].tag
    <3>5. rename'.reg_rename[tag].tag_valid = VALID
      BY <3>1, <3>2, <3>4, <1>7 DEF Held
    <3>6. rename'.reg_rename[tag].rename_tag = outstanding[k + 1].reg
      BY <3>1, <3>4, <1>7
    <3> QED BY <3>1, <3>3, <3>4, <3>5, <3>6 DEF Held
  <2>3. ASSUME NEW t \in TagIndex, Held(t)'
        PROVE  t \in leaked' \/ \E k \in Owners' : outstanding'[k].tag = t
    <3>1. Held(t) /\ (Found => t # w.tag)
      BY <2>3, <1>7
    <3>2. CASE t \in leaked
      BY <3>1, <3>2, <1>2
    <3>3. CASE \E k \in Owners : outstanding[k].tag = t
      <4>1. PICK k \in Owners : outstanding[k].tag = t
        BY <3>3
      <4>2. k # 1
        BY <4>1, <3>1, <2>1, <1>1
      <4> QED BY <4>1, <4>2, <1>6
    <3> QED BY <3>1, <3>2, <3>3, <2>1 DEF OwnerInv
  <2>4. ASSUME NEW t \in leaked' PROVE Held(t)'
    <3>1. t \in leaked /\ (Found => t # w.tag) /\ t \in TagIndex
      BY <2>4, <1>2 DEF IInv, TypeInv
    <3> QED BY <3>1, <2>1, <1>7 DEF OwnerInv
  <2> QED BY <2>2, <2>3, <2>4 DEF OwnerInv
<1>13. TagsInCircle'
  <2>1. CASE misfreed'
    BY <2>1 DEF TagsInCircle
  <2>2. CASE ~misfreed'
    <3>1. ASSUME NEW k \in Owners', NEW t \in TagIndex,
                 Held(t), Age(t) < Age(outstanding[k + 1].tag)
          PROVE  Held(t)'
      <4>1. ASSUME Found PROVE t # w.tag
        <5>1. 1 \in Owners /\ k + 1 \in Owners /\ 1 < k + 1
          BY <4>1, <2>2, <1>1, <1>5, <1>10
        <5>2. Age(w.tag) > Age(outstanding[k + 1].tag)
          BY <5>1, <2>2, <1>10 DEF IInv, TagsInCircle
        <5>3. Age(w.tag) \in Int /\ Age(outstanding[k + 1].tag) \in Int
          <6>1. TypeInv /\ w.tag \in TagIndex /\ outstanding[k + 1].tag \in TagIndex
            BY <5>1, <1>1 DEF IInv
          <6> QED BY <6>1, AgeIsInt
        <5> QED BY <5>2, <5>3, <3>1
      <4> QED BY <4>1, <3>1, <1>7
    <3> QED BY <3>1, <2>2, <1>5, <1>7, <1>10, CircleKept DEF IInv
  <2> QED BY <2>1, <2>2 DEF IInv, TypeInv
<1> QED BY <1>8, <1>9, <1>12, <1>13 DEF IInv

LEMMA NextIInv == IInv /\ [Next]_vars => IInv'
<1> SUFFICES ASSUME IInv, [Next]_vars PROVE IInv'
  OBVIOUS
<1>1. ASSUME NEW rd \in Regs, Decode(rd) PROVE IInv'
  BY <1>1, DecodeRenamed, DecodeUnrenamed
<1>2. CASE Dispatch
  BY <1>2, DispatchIInv
<1>3. CASE Drop
  BY <1>3, DropIInv
<1>4. CASE Commit
  BY <1>4, CommitIInv
<1>5. CASE UNCHANGED vars
  BY <1>5 DEF vars, IInv, TypeInv, OwnerInv, Owners, Held, TagsInCircle, Age, Dispatched
<1> QED BY <1>1, <1>2, <1>3, <1>4, <1>5 DEF Next

-----------------------------------------------------------------------------
(***************************************************************************)
(* What the invariant says.                                                *)
(***************************************************************************)
\* An owner's cell is its own, so a tag in use is owned or leaked.
LEMMA TagsAreAccounted == IInv => TagsAccounted
<1> SUFFICES ASSUME IInv, ~misfreed, NEW t \in TagIndex
             PROVE  /\ Held(t) <=> (Owned(t) \/ t \in leaked)
                    /\ ~(Owned(t) /\ t \in leaked)
  BY DEF TagsAccounted, Held
<1>1. OwnerInv
  BY DEF IInv
<1>2. Owned(t) => Held(t) /\ t \notin leaked
  BY <1>1 DEF OwnerInv, Owned
<1>3. t \in leaked => Held(t)
  BY <1>1 DEF OwnerInv
<1>4. Held(t) => t \in leaked \/ Owned(t)
  BY <1>1 DEF OwnerInv, Owned
<1> QED BY <1>2, <1>3, <1>4

\* The writers in flight cannot own every tag.
LEMMA NotAllOwned ==
  ASSUME IInv, ~pending
  PROVE  ~ \A t \in TagIndex : \E k \in Owners : outstanding[k].tag = t
<1> SUFFICES ASSUME \A t \in TagIndex : \E k \in Owners : outstanding[k].tag = t
             PROVE  FALSE
  OBVIOUS
<1> DEFINE n == Len(outstanding)
           g == [t \in TagIndex |-> CHOOSE k \in Owners : outstanding[k].tag = t]
<1>1. n \in Nat /\ n <= ROB_SIZE /\ Owners \subseteq 1 .. n
  BY WritersTyped DEF IInv, Dispatched
<1>2. \A t \in TagIndex : g[t] \in Owners /\ outstanding[g[t]].tag = t
  OBVIOUS
<1>3. g \in [TagIndex -> 1 .. n]
  BY <1>1, <1>2
<1>4. IsFiniteSet(TagIndex) /\ Cardinality(TagIndex) = RENAME_TABLE_SIZE
  BY FS_Interval DEF TagIndex
<1>5. IsFiniteSet(1 .. n) /\ Cardinality(1 .. n) = IF 1 > n THEN 0 ELSE n - 1 + 1
  <2>1. 1 \in Int /\ n \in Int
    BY <1>1
  <2> HIDE DEF n
  <2> QED BY <2>1, FS_Interval
<1>6. Cardinality(1 .. n) < Cardinality(TagIndex)
  <2>1. (1 > n => 0 = n) /\ n - 1 + 1 = n /\ n < RENAME_TABLE_SIZE
    BY <1>1
  <2> QED BY <2>1, <1>4, <1>5
<1> HIDE DEF g
<1>7. PICK x, y \in TagIndex : x # y /\ g[x] = g[y]
  BY <1>3, <1>4, <1>5, <1>6, FS_PigeonHole
<1> QED BY <1>2, <1>7

\* When the search fails the last tag is in use; a writer that owns it has the
\* whole circle in use behind it.
LEMMA BlockedByLeak == IInv => BlockedOnlyByLeak
<1> SUFFICES ASSUME IInv, ~misfreed, ~pending, ~can_rename_reg_tag(rename)
             PROVE  /\ leaked # {}
                    /\ \/ RENAME_TABLE_SIZE - 1 \in leaked
                       \/ \A t \in TagIndex : ~IsFree(rename, t)
  BY DEF BlockedOnlyByLeak
<1> DEFINE p == rename.last_rename_pos
           z == RENAME_TABLE_SIZE - 1
<1>1. OwnerInv /\ TagsInCircle /\ TypeInv /\ p \in TagIndex /\ z \in TagIndex
  BY WritersTyped DEF IInv, TagIndex
<1>2. \A t \in TagIndex : ~IsFree(rename, t) <=> Held(t)
  <2>1. \A j \in TagIndex : rename.reg_rename[j].tag_valid \in {INVALID, VALID}
    BY <1>1 DEF TypeInv
  <2> QED BY <2>1 DEF IsFree, Held, VALID, INVALID
<1>3. \A t \in SearchStart(rename) .. z : t \in TagIndex /\ Held(t)
  <2>1. SearchStart(rename) \in TagIndex
    BY <1>1 DEF SearchStart, TagIndex
  <2>2. \A t \in SearchStart(rename) .. z : t \in TagIndex
    BY <2>1 DEF TagIndex
  <2> QED BY <2>2, <1>2 DEF can_rename_reg_tag
<1>4. z \in leaked \/ \A t \in TagIndex : Held(t)
  <2>1. CASE p = z
    BY <2>1, <1>3 DEF SearchStart, TagIndex
  <2>2. CASE p # z
    <3>1. SearchStart(rename) = p /\ z \in p .. z
      BY <2>2, <1>1 DEF SearchStart, TagIndex
    <3>2. Held(z)
      BY <3>1, <1>3
    <3>3. ASSUME NEW k \in Owners, outstanding[k].tag = z, NEW t \in TagIndex PROVE Held(t)
      <4>1. CASE t \in p .. z
        BY <4>1, <3>1, <1>3
      <4>2. CASE t \notin p .. z
        <5>1. Age(t) < Age(outstanding[k].tag)
          BY <4>2, <3>3, <2>2, <1>1 DEF Age, TagIndex
        <5> QED BY <5>1, <1>1 DEF TagsInCircle, Held
      <4> QED BY <4>1, <4>2
    <3> QED BY <3>2, <3>3, <1>1 DEF OwnerInv
  <2> QED BY <2>1, <2>2
<1>5. leaked # {}
  <2> SUFFICES ASSUME leaked = {} PROVE FALSE
    OBVIOUS
  <2>1. \A t \in TagIndex : \E k \in Owners : outstanding[k].tag = t
    BY <1>1, <1>4 DEF OwnerInv
  <2> QED BY <2>1, NotAllOwned
<1> QED BY <1>2, <1>4, <1>5

\* While the owners' tags lie on one side of the search position, they rise in
\* program order.
LEMMA TagsRise ==
  ASSUME IInv, ~misfreed, ~Straddles, NEW j \in Owners, NEW k \in Owners, j < k
  PROVE  outstanding[j].tag < outstanding[k].tag
<1> DEFINE p == rename.last_rename_pos
           s == outstanding[j].tag
           t == outstanding[k].tag
<1>1. p \in TagIndex /\ s \in TagIndex /\ t \in TagIndex
  BY WritersTyped DEF IInv
<1>2. Age(s) > Age(t)
  BY DEF IInv, TagsInCircle
<1>3. ~(s <= p /\ p < t) /\ ~(t <= p /\ p < s)
  BY DEF Straddles
<1>4. AgeFrom(p, s) > AgeFrom(p, t)
  BY <1>2 DEF Age, AgeFrom
<1> HIDE DEF p, s, t
<1>5. s < t
  BY <1>1, <1>3, <1>4 DEF AgeFrom, TagIndex
<1> QED BY <1>5 DEF s, t

\* The scan from the last index down meets the newest writer first.
LEMMA LookupFinds == IInv => LookupNewestUnlessStraddling
<1> SUFFICES ASSUME IInv, NEW reg \in Regs, NoneLost(reg),
                    check_if_reg_renamed(rename, reg), ~Straddles
             PROVE  get_reg_renamed_tag(rename, reg) = outstanding[Newest(reg)].tag
  BY DEF LookupNewestUnlessStraddling
<1> DEFINE n == Len(outstanding)
           I == {i \in TagIndex : Renames(rename, i, reg)}
           Highest(i) == /\ i \in TagIndex /\ Renames(rename, i, reg)
                         /\ \A j \in i + 1 .. RENAME_TABLE_SIZE - 1 : ~Renames(rename, j, reg)
           Last(k) == /\ k \in DOMAIN outstanding /\ outstanding[k].reg = reg
                      /\ \A j \in k + 1 .. n : outstanding[j].reg # reg
<1>1. /\ n \in Nat /\ DOMAIN outstanding = 1 .. n
      /\ Owners = {k \in 1 .. n : outstanding[k].owns}
      /\ \A k \in Owners : outstanding[k].tag \in TagIndex
  BY WritersTyped DEF IInv
<1>2. ~misfreed /\ OwnerInv
  BY DEF NoneLost, IInv
<1>3. PICK h \in I : \A j \in I : j <= h
  BY HighestTag DEF check_if_reg_renamed
<1>4. Highest(h)
  BY <1>3 DEF TagIndex
<1>5. PICK k \in Owners : outstanding[k].tag = h
  BY <1>2, <1>3 DEF Renames, OwnerInv, NoneLost, Held
<1>6. outstanding[k].reg = reg
  BY <1>2, <1>3, <1>5 DEF Renames, OwnerInv
<1>7. ASSUME NEW j \in k + 1 .. n PROVE outstanding[j].reg # reg
  <2> SUFFICES ASSUME outstanding[j].reg = reg PROVE FALSE
    OBVIOUS
  <2>1. j \in 1 .. n /\ k < j
    BY <1>1, <1>5
  <2>2. j \in Owners
    BY <2>1, <1>1 DEF NoneLost
  <2>3. h < outstanding[j].tag /\ outstanding[j].tag \in TagIndex
    BY <2>1, <2>2, <1>1, <1>2, <1>5, TagsRise
  <2>4. outstanding[j].tag \in I
    BY <2>2, <2>3, <1>2 DEF OwnerInv, Renames, Held
  <2>5. outstanding[j].tag <= h
    BY <2>4, <1>3
  <2> QED BY <2>3, <2>5, <1>3 DEF TagIndex
<1>8. Last(k)
  BY <1>1, <1>5, <1>6, <1>7
<1>9. \A i, j : Highest(i) /\ Highest(j) => i = j
  BY DEF TagIndex
<1>10. \A i, j : Last(i) /\ Last(j) => i = j
  BY <1>1
<1>11. /\ get_reg_renamed_tag(rename, reg) = CHOOSE i : Highest(i)
       /\ Newest(reg) = CHOOSE i : Last(i)
  BY DEF get_reg_renamed_tag, Newest
<1> HIDE DEF Highest, Last
<1>12. Highest(CHOOSE i : Highest(i)) /\ Last(CHOOSE i : Last(i))
  BY <1>4, <1>8
<1>13. (CHOOSE i : Highest(i)) = h /\ (CHOOSE i : Last(i)) = k
  BY <1>4, <1>8, <1>9, <1>10, <1>12
<1> QED BY <1>5, <1>11, <1>13

-----------------------------------------------------------------------------
\* The inductive invariant holds in every reachable state.
THEOREM InvariantCorrect == Spec => []IInv
BY InitIInv, NextIInv, PTL DEF Spec

\* The table keeps its shape: registers and flags in the cells, the search
\* position inside the table (rename_desc_reg, commit_instruction).
THEOREM RenameTypeCorrect == Spec => []TypeInv
<1>1. IInv => TypeInv
  BY DEF IInv
<1> QED BY <1>1, InvariantCorrect, PTL

\* The linear search of rename_desc_reg hands tags out in a circle, for every
\* size of the table and whatever tags were leaked on the way: an older writer
\* owns a tag farther back, and every tag in front of it is in use.
THEOREM TagsInCircleCorrect == Spec => []TagsInCircle
<1>1. IInv => TagsInCircle
  BY DEF IInv
<1> QED BY <1>1, InvariantCorrect, PTL

\* A tag is in use exactly while one writer in flight owns it or after a lost
\* one leaked it: commit never frees the tag of a younger writer and decode
\* never takes one in use, until an unrenamed writer frees by number.
THEOREM TagsAccountedCorrect == Spec => []TagsAccounted
BY TagsAreAccounted, InvariantCorrect, PTL

\* can_rename_reg_tag fails only when writers were lost between decode and
\* dispatch, and then either all tags are used up or the last one is leaked.
THEOREM BlockedOnlyByLeakCorrect == Spec => []BlockedOnlyByLeak
BY BlockedByLeak, InvariantCorrect, PTL

\* While the tags in use lie on one side of the search position and no writer
\* of the register was lost, decode gives a source the tag of its newest
\* writer, although get_reg_renamed_tag knows nothing of age.
THEOREM LookupNewestCorrect == Spec => []LookupNewestUnlessStraddling
BY LookupFinds, InvariantCorrect, PTL

=============================================================================
