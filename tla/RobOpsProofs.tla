---------------------------- MODULE RobOpsProofs -----------------------------
(***************************************************************************)
(* What the operations of rob.c preserve of any buffer and any program,    *)
(* whoever calls them: the window between the pointers, and the order of   *)
(* the addresses in it.                                                    *)
(***************************************************************************)
EXTENDS RobOps, TLAPS

USE RobSizeAssumption

\* The fields that the proofs speak of exist; the pointers and the length are
\* in range.
RobShape(r) ==
  /\ {"commit_ptr", "issue_ptr", "buffer_length", "rob_entry"} \subseteq DOMAIN r
  /\ r.commit_ptr \in 0 .. ROB_SIZE
  /\ r.issue_ptr \in 0 .. ROB_SIZE
  /\ r.buffer_length \in 0 .. ROB_SIZE
  /\ RobIndex \subseteq DOMAIN r.rob_entry
  /\ \A i \in RobIndex : /\ {"status", "inst_ptr", "inst_type"} \subseteq DOMAIN r.rob_entry[i]
                         /\ r.rob_entry[i].status \in {INVALID, VALID}

RobInv(r) == RobShape(r) /\ IsWindow(r)

\* A folded pointer is an index of the array.
LEMMA SlotIsIndex ==
  ASSUME NEW p \in 0 .. ROB_SIZE
  PROVE  /\ Slot(p) \in RobIndex
         /\ Slot(Slot(p)) = Slot(p)
  BY DEF Slot, RobIndex

\* The offsets 0 .. ROB_SIZE - 1 from the commit pointer reach every slot once.
LEMMA PositionOneToOne ==
  ASSUME NEW r, RobShape(r)
  PROVE  /\ \A j \in RobIndex : PositionIn(r, j) \in RobIndex
         /\ \A j, k \in RobIndex : PositionIn(r, j) = PositionIn(r, k) => j = k
<1> DEFINE c == Slot(r.commit_ptr)
<1>1. c \in RobIndex
  BY SlotIsIndex DEF RobShape
<1>2. \A j \in RobIndex : PositionIn(r, j) = IF c + j < ROB_SIZE THEN c + j ELSE c + j - ROB_SIZE
  BY DEF PositionIn
<1> QED BY <1>1, <1>2 DEF RobIndex

\* The empty buffer of init and clear.
LEMMA InitRobInv == RobInv(init_reorder_buffer)
<1>1. RobShape(init_reorder_buffer)
  BY DEF init_reorder_buffer, RobShape, RobIndex, FreeRobEntry, INVALID, VALID
<1>2. IsWindow(init_reorder_buffer)
  BY DEF init_reorder_buffer, IsWindow, PositionIn, Slot, RobIndex, FreeRobEntry, INVALID, VALID
<1> QED BY <1>1, <1>2 DEF RobInv

\* Two buffers with the same entries, the same length and pointers that fold to
\* the same slots are the same window.
SameBuffer(r, q) ==
  /\ {"commit_ptr", "issue_ptr", "buffer_length", "rob_entry"} \subseteq DOMAIN q
  /\ q.commit_ptr \in 0 .. ROB_SIZE /\ Slot(q.commit_ptr) = Slot(r.commit_ptr)
  /\ q.issue_ptr \in 0 .. ROB_SIZE /\ Slot(q.issue_ptr) = Slot(r.issue_ptr)
  /\ q.buffer_length = r.buffer_length
  /\ q.rob_entry = r.rob_entry

LEMMA SameBufferRobInv ==
  ASSUME NEW r, RobInv(r), NEW q, SameBuffer(r, q)
  PROVE  RobInv(q) /\ \A j : PositionIn(q, j) = PositionIn(r, j)
<1>1. RobShape(q)
  BY DEF RobInv, RobShape, SameBuffer
<1>2. \A j : PositionIn(q, j) = PositionIn(r, j)
  BY DEF SameBuffer, PositionIn
<1>3. IsWindow(q)
  BY <1>2 DEF RobInv, IsWindow, SameBuffer
<1> QED BY <1>1, <1>2, <1>3 DEF RobInv

\* Folding a pointer changes nothing: every reader folds it anyway.
LEMMA FoldKeeps ==
  ASSUME NEW r, RobInv(r)
  PROVE  /\ SameBuffer(r, [r EXCEPT !.issue_ptr = Slot(@)])
         /\ SameBuffer(r, [r EXCEPT !.commit_ptr = Slot(@)])
<1>1. /\ r.commit_ptr \in 0 .. ROB_SIZE /\ r.issue_ptr \in 0 .. ROB_SIZE
      /\ {"commit_ptr", "issue_ptr", "buffer_length", "rob_entry"} \subseteq DOMAIN r
  BY DEF RobInv, RobShape
<1>2. /\ Slot(r.commit_ptr) \in 0 .. ROB_SIZE /\ Slot(Slot(r.commit_ptr)) = Slot(r.commit_ptr)
      /\ Slot(r.issue_ptr) \in 0 .. ROB_SIZE /\ Slot(Slot(r.issue_ptr)) = Slot(r.issue_ptr)
  BY <1>1 DEF Slot
<1> QED BY <1>1, <1>2 DEF SameBuffer

\* An accepted entry fills the free slot behind the window.
LEMMA AddFields ==
  ASSUME NEW r, RobInv(r), NEW u, can_add_entry_in_reorder_buffer(r)
  PROVE  LET q == add_reorder_buffer_entry(r, u)
             s == Slot(r.issue_ptr)
         IN  /\ s \in RobIndex /\ s = PositionIn(r, r.buffer_length)
             /\ r.buffer_length \in 0 .. ROB_SIZE - 1
             /\ {"commit_ptr", "issue_ptr", "buffer_length", "rob_entry"} \subseteq DOMAIN q
             /\ q.commit_ptr = r.commit_ptr
             /\ q.issue_ptr = s + 1
             /\ q.buffer_length = r.buffer_length + 1
             /\ q.rob_entry = [r.rob_entry EXCEPT ![s] = NewRobEntry(u)]
<1>1. /\ Slot(r.issue_ptr) \in RobIndex
      /\ Slot(r.issue_ptr) = PositionIn(r, r.buffer_length)
      /\ r.buffer_length \in 0 .. ROB_SIZE - 1
  BY SlotIsIndex DEF RobInv, RobShape, IsWindow, can_add_entry_in_reorder_buffer
<1>2. add_reorder_buffer_entry(r, u) =
        [r EXCEPT !.rob_entry[Slot(r.issue_ptr)] = NewRobEntry(u),
                  !.buffer_length = @ + 1, !.issue_ptr = Slot(@) + 1]
  BY DEF add_reorder_buffer_entry
<1>3. {"commit_ptr", "issue_ptr", "buffer_length", "rob_entry"} \subseteq DOMAIN r
  BY DEF RobInv, RobShape
<1> QED BY <1>1, <1>2, <1>3

LEMMA AddRobInv ==
  ASSUME NEW r, RobInv(r), NEW u
  PROVE  RobInv(add_reorder_buffer_entry(r, u))
<1> DEFINE q == add_reorder_buffer_entry(r, u)
           s == Slot(r.issue_ptr)
           n == r.buffer_length
           c == Slot(r.commit_ptr)
<1>1. CASE ~can_add_entry_in_reorder_buffer(r)
  BY <1>1, FoldKeeps, SameBufferRobInv DEF add_reorder_buffer_entry, WrapIssuePtr
<1>2. CASE can_add_entry_in_reorder_buffer(r)
  <2>1. /\ s \in RobIndex /\ s = PositionIn(r, n) /\ n \in 0 .. ROB_SIZE - 1
        /\ {"commit_ptr", "issue_ptr", "buffer_length", "rob_entry"} \subseteq DOMAIN q
        /\ q.commit_ptr = r.commit_ptr /\ q.issue_ptr = s + 1 /\ q.buffer_length = n + 1
        /\ q.rob_entry = [r.rob_entry EXCEPT ![s] = NewRobEntry(u)]
    BY <1>2, AddFields
  <2> HIDE DEF q, s, n
  <2>2. /\ {"status", "inst_ptr", "inst_type"} \subseteq DOMAIN NewRobEntry(u)
        /\ NewRobEntry(u).status = VALID
    BY DEF NewRobEntry
  <2>3. \A i \in RobIndex : q.rob_entry[i] = IF i = s THEN NewRobEntry(u) ELSE r.rob_entry[i]
    BY <2>1 DEF RobInv, RobShape
  <2>4. RobShape(q)
    <3>1. \A i \in RobIndex : /\ {"status", "inst_ptr", "inst_type"} \subseteq DOMAIN q.rob_entry[i]
                              /\ q.rob_entry[i].status \in {INVALID, VALID}
      BY <2>2, <2>3 DEF RobInv, RobShape
    <3>2. RobIndex \subseteq DOMAIN q.rob_entry
      BY <2>1 DEF RobInv, RobShape
    <3>3. s + 1 \in 0 .. ROB_SIZE /\ n + 1 \in 0 .. ROB_SIZE
      BY <2>1 DEF RobIndex
    <3> QED BY <2>1, <3>1, <3>2, <3>3 DEF RobInv, RobShape
  <2>5. \A j : PositionIn(q, j) = PositionIn(r, j)
    BY <2>1 DEF PositionIn
  <2>6. c \in 0 .. ROB_SIZE - 1
    BY SlotIsIndex DEF RobInv, RobShape, RobIndex
  <2>7. Slot(q.issue_ptr) = PositionIn(q, q.buffer_length)
    <3>1. PositionIn(q, n + 1) = IF c + (n + 1) < ROB_SIZE THEN c + (n + 1)
                                 ELSE c + (n + 1) - ROB_SIZE
      BY <2>5 DEF PositionIn
    <3>2. s = IF c + n < ROB_SIZE THEN c + n ELSE c + n - ROB_SIZE
      BY <2>1 DEF PositionIn
    <3> HIDE DEF c
    <3> QED BY <2>1, <2>6, <3>1, <3>2 DEF Slot, RobIndex
  <2>8. ASSUME NEW j \in RobIndex
        PROVE  (q.rob_entry[PositionIn(q, j)].status = VALID) <=> (j < n + 1)
    <3>1. PositionIn(r, j) \in RobIndex /\ (PositionIn(r, j) = s <=> j = n)
      BY <2>1, PositionOneToOne DEF RobInv, RobIndex
    <3>2. CASE j = n
      BY <3>1, <3>2, <2>2, <2>3, <2>5, <2>1
    <3>3. CASE j # n
      <4>1. q.rob_entry[PositionIn(q, j)] = r.rob_entry[PositionIn(r, j)]
        BY <3>1, <3>3, <2>3, <2>5
      <4>2. (r.rob_entry[PositionIn(r, j)].status = VALID) <=> (j < n)
        BY DEF RobInv, IsWindow, n
      <4> QED BY <3>3, <4>1, <4>2, <2>1 DEF RobIndex
    <3> QED BY <3>2, <3>3
  <2>9. \A i \in RobIndex : q.rob_entry[i].valid # INVALID => q.rob_entry[i].status = VALID
    BY <2>2, <2>3 DEF RobInv, IsWindow
  <2>10. IsWindow(q)
    BY <2>1, <2>7, <2>8, <2>9 DEF IsWindow
  <2> QED BY <2>4, <2>10 DEF RobInv, q
<1> QED BY <1>1, <1>2

\* A result changes no pointer, and of the entries only allocated ones; their
\* status, address and type stay.
LEMMA UpdateFields ==
  ASSUME NEW r, RobInv(r), NEW u
  PROVE  LET q == update_reorder_buffer_entry_data(r, u)
         IN  /\ {"commit_ptr", "issue_ptr", "buffer_length", "rob_entry"} \subseteq DOMAIN q
             /\ q.commit_ptr = r.commit_ptr /\ q.issue_ptr = r.issue_ptr
             /\ q.buffer_length = r.buffer_length
             /\ DOMAIN q.rob_entry = RobIndex
             /\ \A i \in RobIndex :
                  /\ {"status", "inst_ptr", "inst_type"} \subseteq DOMAIN q.rob_entry[i]
                  /\ q.rob_entry[i].status = r.rob_entry[i].status
                  /\ q.rob_entry[i].inst_ptr = r.rob_entry[i].inst_ptr
                  /\ q.rob_entry[i].inst_type = r.rob_entry[i].inst_type
                  /\ \/ q.rob_entry[i] = r.rob_entry[i]
                     \/ r.rob_entry[i].status = VALID
<1> DEFINE hit(i) == FirstMatch(r, u.pc, i) /\ r.rob_entry[i].rd = u.rd
           entries == [i \in RobIndex |-> IF hit(i) THEN FinishedEntry(r.rob_entry[i], u)
                                         ELSE r.rob_entry[i]]
           q == update_reorder_buffer_entry_data(r, u)
<1>1. {"commit_ptr", "issue_ptr", "buffer_length", "rob_entry"} \subseteq DOMAIN r
  BY DEF RobInv, RobShape
<1>2. q = [r EXCEPT !.rob_entry = entries]
  BY DEF update_reorder_buffer_entry_data
<1>3. ASSUME NEW i \in RobIndex
      PROVE  /\ {"status", "inst_ptr", "inst_type"} \subseteq DOMAIN entries[i]
             /\ entries[i].status = r.rob_entry[i].status
             /\ entries[i].inst_ptr = r.rob_entry[i].inst_ptr
             /\ entries[i].inst_type = r.rob_entry[i].inst_type
             /\ entries[i] = r.rob_entry[i] \/ r.rob_entry[i].status = VALID
  <2> DEFINE e == r.rob_entry[i]
  <2>1. {"status", "inst_ptr", "inst_type"} \subseteq DOMAIN e
    BY DEF RobInv, RobShape
  <2>2. hit(i) => e.status = VALID
    BY DEF FirstMatch
  <2>3. /\ {"status", "inst_ptr", "inst_type"} \subseteq DOMAIN FinishedEntry(e, u)
        /\ FinishedEntry(e, u).status = e.status
        /\ FinishedEntry(e, u).inst_ptr = e.inst_ptr
        /\ FinishedEntry(e, u).inst_type = e.inst_type
    BY <2>1 DEF FinishedEntry
  <2>4. entries[i] = IF hit(i) THEN FinishedEntry(e, u) ELSE e
    OBVIOUS
  <2> QED BY <2>1, <2>2, <2>3, <2>4
<1>4. DOMAIN entries = RobIndex
  OBVIOUS
<1> HIDE DEF entries
<1>5. /\ {"commit_ptr", "issue_ptr", "buffer_length", "rob_entry"} \subseteq DOMAIN q
      /\ q.commit_ptr = r.commit_ptr /\ q.issue_ptr = r.issue_ptr
      /\ q.buffer_length = r.buffer_length /\ q.rob_entry = entries
  BY <1>1, <1>2
<1> QED BY <1>3, <1>4, <1>5

LEMMA UpdateRobInv ==
  ASSUME NEW r, RobInv(r), NEW u
  PROVE  RobInv(update_reorder_buffer_entry_data(r, u))
<1> DEFINE q == update_reorder_buffer_entry_data(r, u)
<1>1. /\ {"commit_ptr", "issue_ptr", "buffer_length", "rob_entry"} \subseteq DOMAIN q
      /\ q.commit_ptr = r.commit_ptr /\ q.issue_ptr = r.issue_ptr
      /\ q.buffer_length = r.buffer_length /\ DOMAIN q.rob_entry = RobIndex
      /\ \A i \in RobIndex : /\ {"status", "inst_ptr", "inst_type"} \subseteq DOMAIN q.rob_entry[i]
                             /\ q.rob_entry[i].status = r.rob_entry[i].status
                             /\ \/ q.rob_entry[i] = r.rob_entry[i]
                                \/ r.rob_entry[i].status = VALID
  BY UpdateFields
<1> HIDE DEF q
<1>2. RobShape(q)
  BY <1>1 DEF RobInv, RobShape
<1>3. \A j : PositionIn(q, j) = PositionIn(r, j)
  BY <1>1 DEF PositionIn
<1>4. \A j \in RobIndex : PositionIn(r, j) \in RobIndex
  BY PositionOneToOne DEF RobInv
<1>5. \A i \in RobIndex : q.rob_entry[i].valid # INVALID => q.rob_entry[i].status = VALID
  BY <1>1 DEF RobInv, IsWindow
<1>6. IsWindow(q)
  BY <1>1, <1>3, <1>4, <1>5 DEF RobInv, IsWindow
<1> QED BY <1>2, <1>6 DEF RobInv, q

\* An entry that may commit is the first of a window that is not empty.
LEMMA HeadInWindow ==
  ASSUME NEW r, RobInv(r), RobHead(r).valid # INVALID
  PROVE  /\ r.buffer_length \in 1 .. ROB_SIZE
         /\ RobHead(r) = r.rob_entry[PositionIn(r, 0)]
<1>1. /\ Slot(r.commit_ptr) \in RobIndex /\ 0 \in RobIndex
      /\ PositionIn(r, 0) = Slot(r.commit_ptr) /\ r.buffer_length \in 0 .. ROB_SIZE
  BY SlotIsIndex DEF RobInv, RobShape, PositionIn, RobIndex
<1>2. r.rob_entry[Slot(r.commit_ptr)].status = VALID
  BY <1>1 DEF RobHead, RobInv, IsWindow
<1> QED BY <1>1, <1>2 DEF RobInv, IsWindow, RobHead

\* A commit frees the first slot: the offsets move up by one.
LEMMA CommitFields ==
  ASSUME NEW r, RobInv(r), RobHead(r).valid # INVALID
  PROVE  LET q == commit_reorder_buffer_entry(r)
             c == Slot(r.commit_ptr)
         IN  /\ {"commit_ptr", "issue_ptr", "buffer_length", "rob_entry"} \subseteq DOMAIN q
             /\ q.commit_ptr = c + 1 /\ q.issue_ptr = r.issue_ptr
             /\ q.buffer_length = r.buffer_length - 1
             /\ q.rob_entry = [r.rob_entry EXCEPT ![c] = FreeRobEntry]
             /\ \A j \in 0 .. ROB_SIZE - 1 :
                  PositionIn(q, j) = IF j = ROB_SIZE - 1 THEN c ELSE PositionIn(r, j + 1)
<1> DEFINE q == commit_reorder_buffer_entry(r)
           c == Slot(r.commit_ptr)
<1>1. q = [r EXCEPT !.rob_entry[c] = FreeRobEntry, !.buffer_length = @ - 1,
                    !.commit_ptr = Slot(@) + 1]
  BY DEF commit_reorder_buffer_entry
<1>2. {"commit_ptr", "issue_ptr", "buffer_length", "rob_entry"} \subseteq DOMAIN r
  BY DEF RobInv, RobShape
<1>3. /\ {"commit_ptr", "issue_ptr", "buffer_length", "rob_entry"} \subseteq DOMAIN q
      /\ q.commit_ptr = c + 1 /\ q.issue_ptr = r.issue_ptr
      /\ q.buffer_length = r.buffer_length - 1
      /\ q.rob_entry = [r.rob_entry EXCEPT ![c] = FreeRobEntry]
  BY <1>1, <1>2
<1>4. c \in 0 .. ROB_SIZE - 1
  BY SlotIsIndex DEF RobInv, RobShape, RobIndex
<1> HIDE DEF q
<1>5. ASSUME NEW j \in 0 .. ROB_SIZE - 1
      PROVE  PositionIn(q, j) = IF j = ROB_SIZE - 1 THEN c ELSE PositionIn(r, j + 1)
  <2>1. PositionIn(q, j) = IF Slot(c + 1) + j < ROB_SIZE THEN Slot(c + 1) + j
                           ELSE Slot(c + 1) + j - ROB_SIZE
    BY <1>3 DEF PositionIn
  <2>2. PositionIn(r, j + 1) = IF c + (j + 1) < ROB_SIZE THEN c + (j + 1)
                               ELSE c + (j + 1) - ROB_SIZE
    BY DEF PositionIn
  <2> HIDE DEF c
  <2> QED BY <1>4, <2>1, <2>2 DEF Slot
<1> QED BY <1>3, <1>5 DEF q

LEMMA CommitRobInv ==
  ASSUME NEW r, RobInv(r)
  PROVE  RobInv(commit_reorder_buffer_entry(r))
<1> DEFINE q == commit_reorder_buffer_entry(r)
           c == Slot(r.commit_ptr)
           n == r.buffer_length
<1>1. CASE RobHead(r).valid = INVALID
  BY <1>1, FoldKeeps, SameBufferRobInv DEF commit_reorder_buffer_entry
<1>2. CASE RobHead(r).valid # INVALID
  <2>1. /\ {"commit_ptr", "issue_ptr", "buffer_length", "rob_entry"} \subseteq DOMAIN q
        /\ q.commit_ptr = c + 1 /\ q.issue_ptr = r.issue_ptr /\ q.buffer_length = n - 1
        /\ q.rob_entry = [r.rob_entry EXCEPT ![c] = FreeRobEntry]
        /\ \A j \in 0 .. ROB_SIZE - 1 :
             PositionIn(q, j) = IF j = ROB_SIZE - 1 THEN c ELSE PositionIn(r, j + 1)
    BY <1>2, CommitFields
  <2>2. n \in 1 .. ROB_SIZE
    BY <1>2, HeadInWindow
  <2>3. c \in RobIndex /\ PositionIn(r, 0) = c /\ 0 \in RobIndex
    BY SlotIsIndex DEF RobInv, RobShape, PositionIn, RobIndex
  <2> HIDE DEF q, c, n
  <2>4. \A i \in RobIndex : q.rob_entry[i] = IF i = c THEN FreeRobEntry ELSE r.rob_entry[i]
    BY <2>1 DEF RobInv, RobShape
  <2>5. RobShape(q)
    <3>1. \A i \in RobIndex : /\ {"status", "inst_ptr", "inst_type"} \subseteq DOMAIN q.rob_entry[i]
                              /\ q.rob_entry[i].status \in {INVALID, VALID}
      BY <2>4 DEF RobInv, RobShape, FreeRobEntry
    <3>2. RobIndex \subseteq DOMAIN q.rob_entry
      BY <2>1 DEF RobInv, RobShape
    <3>3. c + 1 \in 0 .. ROB_SIZE /\ n - 1 \in 0 .. ROB_SIZE
      BY <2>2, <2>3 DEF RobIndex
    <3> QED BY <2>1, <3>1, <3>2, <3>3 DEF RobInv, RobShape
  <2>6. Slot(q.issue_ptr) = PositionIn(q, q.buffer_length)
    <3>1. PositionIn(q, n - 1) = PositionIn(r, n)
      <4>1. n = ROB_SIZE => PositionIn(r, n) = c
        BY <2>3 DEF PositionIn, RobIndex, c
      <4>2. n - 1 \in 0 .. ROB_SIZE - 1 /\ (n - 1) + 1 = n
        BY <2>2
      <4> QED BY <2>1, <2>2, <4>1, <4>2
    <3> QED BY <2>1, <3>1 DEF RobInv, IsWindow, n
  <2>7. ASSUME NEW j \in RobIndex
        PROVE  (q.rob_entry[PositionIn(q, j)].status = VALID) <=> (j < n - 1)
    <3>1. CASE j = ROB_SIZE - 1
      <4>1. q.rob_entry[PositionIn(q, j)].status = INVALID
        BY <2>1, <2>3, <2>4, <3>1 DEF FreeRobEntry, RobIndex
      <4> QED BY <2>2, <3>1, <4>1 DEF INVALID, VALID
    <3>2. CASE j # ROB_SIZE - 1
      <4>1. j + 1 \in RobIndex /\ PositionIn(q, j) = PositionIn(r, j + 1)
        BY <2>1, <3>2 DEF RobIndex
      <4>2. PositionIn(r, j + 1) \in RobIndex /\ PositionIn(r, j + 1) # c
        BY <2>3, <3>2, <4>1, PositionOneToOne DEF RobInv, RobIndex
      <4>3. (r.rob_entry[PositionIn(r, j + 1)].status = VALID) <=> (j + 1 < n)
        BY <4>1 DEF RobInv, IsWindow, n
      <4> QED BY <2>2, <2>4, <4>1, <4>2, <4>3 DEF RobIndex
    <3> QED BY <3>1, <3>2
  <2>8. \A i \in RobIndex : q.rob_entry[i].valid # INVALID => q.rob_entry[i].status = VALID
    BY <2>4 DEF RobInv, IsWindow, FreeRobEntry, INVALID, VALID
  <2>9. IsWindow(q)
    BY <2>1, <2>6, <2>7, <2>8 DEF IsWindow
  <2> QED BY <2>5, <2>9 DEF RobInv, q
<1> QED BY <1>1, <1>2
-----------------------------------------------------------------------------
(***************************************************************************)
(* The addresses in the window rise from the commit pointer on, between    *)
(* the address that left last and the one that may enter next.             *)
(***************************************************************************)
RobOrder(r, low, high) ==
  /\ low \in Int /\ high \in Int /\ low <= high
  /\ \A j \in RobIndex : j < r.buffer_length =>
       LET e == r.rob_entry[PositionIn(r, j)]
       IN  e.inst_ptr \in Int /\ low <= e.inst_ptr /\ e.inst_ptr <= high
           /\ e.inst_type \notin Branches
  /\ \A j, k \in RobIndex : j < k /\ k < r.buffer_length =>
       r.rob_entry[PositionIn(r, j)].inst_ptr <= r.rob_entry[PositionIn(r, k)].inst_ptr

\* An empty buffer is in order.
LEMMA InitRobOrder ==
  ASSUME NEW low \in Int, NEW high \in Int, low <= high
  PROVE  RobOrder(init_reorder_buffer, low, high)
  BY DEF RobOrder, init_reorder_buffer, RobIndex

\* The next address may only rise.
LEMMA RaiseRobOrder ==
  ASSUME NEW r, NEW low, NEW high, RobOrder(r, low, high), NEW top \in Int, high <= top
  PROVE  RobOrder(r, low, top)
  BY DEF RobOrder

LEMMA FoldRobOrder ==
  ASSUME NEW r, RobInv(r), NEW q, SameBuffer(r, q), NEW low, NEW high, RobOrder(r, low, high)
  PROVE  RobOrder(q, low, high)
<1>1. \A j : PositionIn(q, j) = PositionIn(r, j)
  BY SameBufferRobInv
<1> QED BY <1>1 DEF RobOrder, SameBuffer

\* An instruction enters behind all that are in the buffer.
LEMMA AddRobOrder ==
  ASSUME NEW r, RobInv(r), NEW low, NEW high, RobOrder(r, low, high),
         NEW u, u.pc = high, u.inst_type \notin Branches
  PROVE  RobOrder(add_reorder_buffer_entry(r, u), low, high)
<1> DEFINE q == add_reorder_buffer_entry(r, u)
           s == Slot(r.issue_ptr)
           n == r.buffer_length
<1>1. CASE ~can_add_entry_in_reorder_buffer(r)
  BY <1>1, FoldKeeps, FoldRobOrder DEF add_reorder_buffer_entry, WrapIssuePtr
<1>2. CASE can_add_entry_in_reorder_buffer(r)
  <2>1. /\ s \in RobIndex /\ s = PositionIn(r, n) /\ n \in 0 .. ROB_SIZE - 1
        /\ q.commit_ptr = r.commit_ptr /\ q.buffer_length = n + 1
        /\ q.rob_entry = [r.rob_entry EXCEPT ![s] = NewRobEntry(u)]
    BY <1>2, AddFields
  <2> HIDE DEF q, s, n
  <2>2. \A j : PositionIn(q, j) = PositionIn(r, j)
    BY <2>1 DEF PositionIn
  <2>3. NewRobEntry(u).inst_ptr = high /\ NewRobEntry(u).inst_type \notin Branches
    BY DEF NewRobEntry
  <2>4. ASSUME NEW j \in RobIndex, j < n + 1
        PROVE  q.rob_entry[PositionIn(q, j)] = IF j = n THEN NewRobEntry(u)
                                               ELSE r.rob_entry[PositionIn(r, j)]
    <3>1. PositionIn(r, j) \in RobIndex /\ (PositionIn(r, j) = s <=> j = n)
      BY <2>1, PositionOneToOne DEF RobInv, RobIndex
    <3> QED BY <3>1, <2>1, <2>2 DEF RobInv, RobShape
  <2>5. RobOrder(q, low, high)
    <3>1. ASSUME NEW j \in RobIndex, j < n + 1
          PROVE  LET e == q.rob_entry[PositionIn(q, j)]
                 IN  e.inst_ptr \in Int /\ low <= e.inst_ptr /\ e.inst_ptr <= high
                     /\ e.inst_type \notin Branches
      <4>1. CASE j = n
        BY <4>1, <3>1, <2>3, <2>4 DEF RobOrder
      <4>2. CASE j # n
        <5>1. j < n
          BY <3>1, <4>2, <2>1 DEF RobIndex
        <5> QED BY <5>1, <4>2, <3>1, <2>4 DEF RobOrder, n
      <4> QED BY <4>1, <4>2
    <3>2. ASSUME NEW j \in RobIndex, NEW k \in RobIndex, j < k, k < n + 1
          PROVE  q.rob_entry[PositionIn(q, j)].inst_ptr <= q.rob_entry[PositionIn(q, k)].inst_ptr
      <4>1. j < n /\ j < n + 1 /\ j # n
        BY <3>2, <2>1 DEF RobIndex
      <4>2. q.rob_entry[PositionIn(q, j)] = r.rob_entry[PositionIn(r, j)]
        BY <4>1, <2>4
      <4>3. CASE k = n
        BY <4>1, <4>2, <4>3, <3>2, <2>3, <2>4 DEF RobOrder, n
      <4>4. CASE k # n
        <5>1. k < n
          BY <3>2, <4>4, <2>1 DEF RobIndex
        <5> QED BY <5>1, <4>2, <4>4, <3>2, <2>4 DEF RobOrder, n
      <4> QED BY <4>3, <4>4
    <3> QED BY <3>1, <3>2, <2>1 DEF RobOrder
  <2> QED BY <2>5 DEF q
<1> QED BY <1>1, <1>2

\* A result, of whatever instruction, leaves the addresses alone.
LEMMA UpdateRobOrder ==
  ASSUME NEW r, RobInv(r), NEW low, NEW high, RobOrder(r, low, high), NEW u
  PROVE  RobOrder(update_reorder_buffer_entry_data(r, u), low, high)
<1> DEFINE q == update_reorder_buffer_entry_data(r, u)
<1>1. /\ q.commit_ptr = r.commit_ptr /\ q.buffer_length = r.buffer_length
      /\ \A i \in RobIndex : /\ q.rob_entry[i].inst_ptr = r.rob_entry[i].inst_ptr
                             /\ q.rob_entry[i].inst_type = r.rob_entry[i].inst_type
  BY UpdateFields
<1> HIDE DEF q
<1>2. \A j \in RobIndex : PositionIn(q, j) = PositionIn(r, j) /\ PositionIn(r, j) \in RobIndex
  BY <1>1, PositionOneToOne DEF RobInv, PositionIn
<1>3. RobOrder(q, low, high)
  BY <1>1, <1>2 DEF RobOrder
<1> QED BY <1>3 DEF q

\* The address that leaves is the least, and bounds the rest from below.
LEMMA CommitRobOrder ==
  ASSUME NEW r, RobInv(r), NEW low, NEW high, RobOrder(r, low, high),
         RobHead(r).valid # INVALID
  PROVE  /\ RobHead(r).inst_ptr \in Int /\ low <= RobHead(r).inst_ptr
         /\ RobHead(r).inst_ptr <= high
         /\ RobHead(r).inst_type \notin Branches
         /\ RobOrder(commit_reorder_buffer_entry(r), RobHead(r).inst_ptr, high)
<1> DEFINE q == commit_reorder_buffer_entry(r)
           c == Slot(r.commit_ptr)
           n == r.buffer_length
           h == RobHead(r)
<1>1. n \in 1 .. ROB_SIZE /\ h = r.rob_entry[PositionIn(r, 0)] /\ 0 \in RobIndex
  BY HeadInWindow DEF RobIndex
<1>2. /\ h.inst_ptr \in Int /\ low <= h.inst_ptr /\ h.inst_ptr <= high
      /\ h.inst_type \notin Branches
  BY <1>1 DEF RobOrder, n
<1>3. /\ q.buffer_length = n - 1
      /\ q.rob_entry = [r.rob_entry EXCEPT ![c] = FreeRobEntry]
      /\ \A j \in 0 .. ROB_SIZE - 1 :
           PositionIn(q, j) = IF j = ROB_SIZE - 1 THEN c ELSE PositionIn(r, j + 1)
  BY CommitFields
<1>4. c \in RobIndex /\ PositionIn(r, 0) = c
  BY SlotIsIndex DEF RobInv, RobShape, PositionIn, RobIndex
<1> HIDE DEF q, c, n, h
<1>5. ASSUME NEW j \in RobIndex, j < n - 1
      PROVE  /\ j + 1 \in RobIndex /\ j + 1 < n
             /\ q.rob_entry[PositionIn(q, j)] = r.rob_entry[PositionIn(r, j + 1)]
  <2>1. j + 1 \in RobIndex /\ j + 1 < n /\ j # ROB_SIZE - 1
    BY <1>1, <1>5 DEF RobIndex
  <2>2. PositionIn(q, j) = PositionIn(r, j + 1)
    BY <1>3, <2>1 DEF RobIndex
  <2>3. PositionIn(r, j + 1) \in RobIndex /\ PositionIn(r, j + 1) # c
    BY <1>1, <1>4, <2>1, PositionOneToOne DEF RobInv, RobIndex
  <2> QED BY <1>3, <2>1, <2>2, <2>3 DEF RobInv, RobShape
<1>6. ASSUME NEW j \in RobIndex, j < n - 1
      PROVE  LET e == q.rob_entry[PositionIn(q, j)]
             IN  e.inst_ptr \in Int /\ h.inst_ptr <= e.inst_ptr /\ e.inst_ptr <= high
                 /\ e.inst_type \notin Branches
  <2>1. /\ j + 1 \in RobIndex /\ j + 1 < n /\ 0 < j + 1
        /\ q.rob_entry[PositionIn(q, j)] = r.rob_entry[PositionIn(r, j + 1)]
    BY <1>5, <1>6 DEF RobIndex
  <2> QED BY <1>1, <2>1 DEF RobOrder, n
<1>7. ASSUME NEW j \in RobIndex, NEW k \in RobIndex, j < k, k < n - 1
      PROVE  q.rob_entry[PositionIn(q, j)].inst_ptr <= q.rob_entry[PositionIn(q, k)].inst_ptr
  <2>1. j < n - 1 /\ j + 1 < k + 1
    BY <1>1, <1>7 DEF RobIndex
  <2>2. /\ j + 1 \in RobIndex /\ k + 1 \in RobIndex /\ k + 1 < n
        /\ q.rob_entry[PositionIn(q, j)] = r.rob_entry[PositionIn(r, j + 1)]
        /\ q.rob_entry[PositionIn(q, k)] = r.rob_entry[PositionIn(r, k + 1)]
    BY <1>5, <1>7, <2>1
  <2> QED BY <2>1, <2>2 DEF RobOrder, n
<1>8. RobOrder(q, h.inst_ptr, high)
  <2>1. high \in Int
    BY DEF RobOrder
  <2> QED BY <1>2, <1>3, <1>6, <1>7, <2>1 DEF RobOrder
<1> QED BY <1>2, <1>8 DEF q, h

=============================================================================
