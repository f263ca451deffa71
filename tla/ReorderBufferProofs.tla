------------------------ MODULE ReorderBufferProofs -------------------------
(***************************************************************************)
(* Theorems about the reorder buffer, for every size, program and number   *)
(* of tags, whether or not addresses are re-entered.                       *)
(***************************************************************************)
EXTENDS ReorderBuffer, SequenceTheorems, TLAPS

USE RobSizeAssumption

\* The inductive invariant: fields keep their range and the allocated slots
\* are the window that the two pointers and the length describe.
IInv == TypeInv /\ WindowInv

\* A folded pointer is an index of the array.
LEMMA SlotInRange ==
  ASSUME NEW p \in 0 .. ROB_SIZE
  PROVE  /\ Slot(p) \in RobIndex
         /\ Slot(p) \in 0 .. ROB_SIZE
         /\ Slot(Slot(p)) = Slot(p)
  BY DEF Slot, RobIndex

\* A free entry is an entry.
LEMMA FreeEntryType == FreeRobEntry \in RobEntry
  BY DEF FreeRobEntry, RobEntry, INVALID, VALID

\* The offsets 0 .. ROB_SIZE - 1 from the commit pointer reach every slot once.
LEMMA PositionBijective ==
  ASSUME TypeInv
  PROVE  /\ \A j \in RobIndex : Position(j) \in RobIndex
         /\ \A j, k \in RobIndex : Position(j) = Position(k) => j = k
         /\ \A i \in RobIndex : \E j \in RobIndex : Position(j) = i
<1> DEFINE c == Slot(rob.commit_ptr)
<1>1. c \in RobIndex
  BY SlotInRange DEF TypeInv
<1>2. \A j \in RobIndex : Position(j) = IF c + j < ROB_SIZE THEN c + j ELSE c + j - ROB_SIZE
  BY DEF Position
<1>3. \A j \in RobIndex : Position(j) \in RobIndex
  BY <1>1, <1>2 DEF RobIndex
<1>4. \A j, k \in RobIndex : Position(j) = Position(k) => j = k
  BY <1>1, <1>2 DEF RobIndex
<1>5. ASSUME NEW i \in RobIndex
      PROVE  \E j \in RobIndex : Position(j) = i
  <2> DEFINE j == IF i >= c THEN i - c ELSE i + ROB_SIZE - c
  <2>1. j \in RobIndex
    BY <1>1 DEF RobIndex
  <2>2. Position(j) = i
    BY <1>1, <1>2, <2>1 DEF RobIndex
  <2> QED BY <2>1, <2>2
<1> QED BY <1>3, <1>4, <1>5

\* At the start the buffer is empty and nothing executes.
LEMMA InitIInv == Init => IInv
<1> SUFFICES ASSUME Init PROVE IInv
  OBVIOUS
<1>1. TypeInv
  BY FreeEntryType DEF Init, init_reorder_buffer, TypeInv, RobIndex
<1>2. WindowInv
  BY DEF Init, init_reorder_buffer, WindowInv, Position, Slot, RobIndex,
         FreeRobEntry, INVALID, VALID
<1> QED BY <1>1, <1>2 DEF IInv

\* A dispatch fills the free slot behind the window: the window grows by one.
LEMMA DispatchIInv ==
  ASSUME IInv, NEW pc \in Pcs, NEW rd \in TagFor(Code[pc]), Dispatch(pc, rd)
  PROVE  IInv'
<1> DEFINE u == [pc |-> pc, rd |-> rd, inst_type |-> Code[pc]]
           s == Slot(rob.issue_ptr)
           n == rob.buffer_length
<1>1. /\ u \in Uop
      /\ NewRobEntry(u) \in RobEntry
      /\ NewRobEntry(u).status = VALID
  BY CodeAssumption
     DEF TagFor, Uop, NewRobEntry, RobEntry, Pcs, INVALID, VALID, InstTypes
<1>2. /\ s \in RobIndex
      /\ n \in 0 .. ROB_SIZE - 1
      /\ s = Position(n)
  BY SlotInRange DEF IInv, TypeInv, WindowInv, Dispatch,
                     can_add_entry_in_reorder_buffer
<1>3. rob' = [rob EXCEPT !.rob_entry[s] = NewRobEntry(u),
                         !.buffer_length = @ + 1,
                         !.issue_ptr = Slot(@) + 1]
  BY DEF Dispatch, add_reorder_buffer_entry
<1>4. rob' = [commit_ptr |-> rob.commit_ptr, issue_ptr |-> s + 1,
              buffer_length |-> n + 1,
              rob_entry |-> [rob.rob_entry EXCEPT ![s] = NewRobEntry(u)]]
  BY <1>3 DEF IInv, TypeInv
<1>5. TypeInv'
  <2>1. rob' \in [commit_ptr : 0 .. ROB_SIZE, issue_ptr : 0 .. ROB_SIZE,
                  buffer_length : 0 .. ROB_SIZE, rob_entry : [RobIndex -> RobEntry]]
    <3>1. [rob.rob_entry EXCEPT ![s] = NewRobEntry(u)] \in [RobIndex -> RobEntry]
      BY <1>1, <1>2 DEF IInv, TypeInv
    <3>2. /\ rob.commit_ptr \in 0 .. ROB_SIZE
          /\ s + 1 \in 0 .. ROB_SIZE
          /\ n + 1 \in 0 .. ROB_SIZE
      BY <1>2 DEF IInv, TypeInv, RobIndex
    <3> HIDE DEF s, n, u
    <3> QED BY <1>4, <3>1, <3>2
  <2>2. executing' \subseteq Uop /\ inUnit' \subseteq executing'
    BY <1>1 DEF IInv, TypeInv, Dispatch
  <2> QED BY <2>1, <2>2 DEF TypeInv
<1>6. \A j \in RobIndex : Position(j)' = Position(j)
  BY <1>4 DEF Position
<1>7. Slot(rob.issue_ptr)' = Position(rob.buffer_length)'
  <2> DEFINE c == Slot(rob.commit_ptr)
  <2>1. c \in 0 .. ROB_SIZE - 1
    BY SlotInRange DEF IInv, TypeInv, RobIndex
  <2>2. Slot(rob.issue_ptr)' = Slot(s + 1)
    BY <1>4 DEF Slot
  <2>3. Position(rob.buffer_length)' =
          IF c + (n + 1) < ROB_SIZE THEN c + (n + 1) ELSE c + (n + 1) - ROB_SIZE
    BY <1>4 DEF Position
  <2>4. s = IF c + n < ROB_SIZE THEN c + n ELSE c + n - ROB_SIZE
    BY <1>2 DEF Position
  <2> HIDE DEF c, s, n
  <2> QED BY <1>2, <2>1, <2>2, <2>3, <2>4 DEF Slot, RobIndex
<1>8. ASSUME NEW j \in RobIndex
      PROVE  (rob'.rob_entry[Position(j)'].status = VALID) <=> (j < n + 1)
  <2>1. Position(j) = s <=> j = n
    BY <1>2, PositionBijective DEF IInv, RobIndex
  <2>2. CASE j = n
    BY <1>1, <1>2, <1>4, <1>6, <2>1, <2>2 DEF IInv, TypeInv, RobIndex
  <2>3. CASE j # n
    <3>1. rob'.rob_entry[Position(j)'] = rob.rob_entry[Position(j)]
      BY <1>4, <1>6, <2>1, <2>3, PositionBijective DEF IInv, TypeInv
    <3> QED BY <1>2, <2>3, <3>1 DEF IInv, WindowInv, RobIndex
  <2> QED BY <2>2, <2>3
<1>9. \A i \in RobIndex :
        rob'.rob_entry[i].valid = VALID => rob'.rob_entry[i].status = VALID
  BY <1>1, <1>2, <1>4 DEF IInv, TypeInv, WindowInv
<1> QED BY <1>4, <1>5, <1>7, <1>8, <1>9 DEF IInv, WindowInv

\* Folding a pointer keeps the window: every reader folds it anyway.
LEMMA FoldIInv ==
  ASSUME IInv, UNCHANGED <<executing, inUnit>>,
         \/ rob' = [rob EXCEPT !.issue_ptr = Slot(@)]
         \/ rob' = [rob EXCEPT !.commit_ptr = Slot(@)]
  PROVE  IInv'
<1>1. \E c, s \in 0 .. ROB_SIZE :
        /\ Slot(c) = Slot(rob.commit_ptr)
        /\ Slot(s) = Slot(rob.issue_ptr)
        /\ rob' = [commit_ptr |-> c, issue_ptr |-> s,
                   buffer_length |-> rob.buffer_length, rob_entry |-> rob.rob_entry]
  BY SlotInRange DEF IInv, TypeInv
<1>2. TypeInv'
  BY <1>1 DEF IInv, TypeInv
<1>3. /\ Slot(rob.issue_ptr)' = Slot(rob.issue_ptr)
      /\ Slot(rob.commit_ptr)' = Slot(rob.commit_ptr)
      /\ rob'.buffer_length = rob.buffer_length
      /\ rob'.rob_entry = rob.rob_entry
  BY <1>1 DEF Slot
<1>4. \A j : Position(j)' = Position(j)
  BY <1>3 DEF Position
<1>5. WindowInv'
  BY <1>3, <1>4 DEF IInv, WindowInv
<1> QED BY <1>2, <1>5 DEF IInv

\* A result reaches at most one entry, an allocated one, and moves no pointer.
LEMMA WritebackIInv ==
  ASSUME IInv, NEW u \in executing, NEW v \in Values, NEW ok \in {INVALID, VALID},
         Writeback(u, v, ok)
  PROVE  IInv'
<1> DEFINE w == [pc |-> u.pc, rd |-> u.rd, inst_type |-> u.inst_type,
                 rd_value |-> v, rd_valid |-> ok]
           hit(i) == FirstMatch(rob, w.pc, i) /\ rob.rob_entry[i].rd = w.rd
           entries == [i \in RobIndex |-> IF hit(i) THEN FinishedEntry(rob.rob_entry[i], w)
                                         ELSE rob.rob_entry[i]]
<1>1. rob' = [commit_ptr |-> rob.commit_ptr, issue_ptr |-> rob.issue_ptr,
              buffer_length |-> rob.buffer_length, rob_entry |-> entries]
  BY DEF Writeback, update_reorder_buffer_entry_data, IInv, TypeInv
<1>2. ASSUME NEW i \in RobIndex
      PROVE  /\ entries[i] \in RobEntry
             /\ entries[i].status = rob.rob_entry[i].status
             /\ hit(i) => rob.rob_entry[i].status = VALID
             /\ ~hit(i) => entries[i] = rob.rob_entry[i]
  <2>1. rob.rob_entry[i] \in RobEntry
    BY DEF IInv, TypeInv
  <2>2. /\ FinishedEntry(rob.rob_entry[i], w) \in RobEntry
        /\ FinishedEntry(rob.rob_entry[i], w).status = rob.rob_entry[i].status
    BY <2>1 DEF FinishedEntry, RobEntry, INVALID, VALID
  <2>3. hit(i) => rob.rob_entry[i].status = VALID
    BY DEF FirstMatch
  <2> QED BY <2>1, <2>2, <2>3
<1>3. TypeInv'
  <2>1. entries \in [RobIndex -> RobEntry]
    BY <1>2
  <2>2. executing' \subseteq Uop /\ inUnit' \subseteq executing'
    BY DEF Writeback, IInv, TypeInv
  <2> HIDE DEF entries
  <2> QED BY <1>1, <2>1, <2>2 DEF IInv, TypeInv
<1>4. /\ Slot(rob.issue_ptr)' = Slot(rob.issue_ptr)
      /\ Slot(rob.commit_ptr)' = Slot(rob.commit_ptr)
      /\ rob'.buffer_length = rob.buffer_length
      /\ rob'.rob_entry = entries
  BY <1>1 DEF Slot
<1>5. \A j : Position(j)' = Position(j)
  BY <1>4 DEF Position
<1>6. WindowInv'
  <2> HIDE DEF entries, hit
  <2>1. \A j \in RobIndex : Position(j) \in RobIndex
    BY PositionBijective DEF IInv
  <2>2. ASSUME NEW i \in RobIndex, entries[i].valid = VALID
        PROVE  entries[i].status = VALID
    BY <1>2, <2>2 DEF IInv, WindowInv
  <2> QED BY <1>2, <1>4, <1>5, <2>1, <2>2 DEF IInv, WindowInv
<1> QED BY <1>3, <1>6 DEF IInv

\* A commit frees the first slot of the window; a recovery would empty it.
LEMMA CommitIInv ==
  ASSUME IInv, Commit
  PROVE  IInv'
<1> DEFINE c == Slot(rob.commit_ptr)
           n == rob.buffer_length
<1>1. CASE rob' = clear_reorder_buffer
  <2>1. TypeInv'
    BY <1>1, FreeEntryType
       DEF clear_reorder_buffer, init_reorder_buffer, IInv, TypeInv, RobIndex, Commit
  <2>2. WindowInv'
    BY <1>1 DEF clear_reorder_buffer, init_reorder_buffer, WindowInv, Position,
                Slot, RobIndex, FreeRobEntry, INVALID, VALID
  <2> QED BY <2>1, <2>2 DEF IInv
<1>2. CASE rob' = commit_reorder_buffer_entry(rob)
  <2>1. /\ c \in RobIndex
        /\ Position(0) = c
        /\ n \in 0 .. ROB_SIZE
        /\ 0 \in RobIndex
    BY SlotInRange DEF IInv, TypeInv, Position, RobIndex
  <2>2. rob.rob_entry[c].valid = VALID
    BY <2>1 DEF Commit, RobHead, IInv, TypeInv, RobEntry
  <2>3. n > 0
    BY <2>1, <2>2 DEF IInv, WindowInv, RobIndex
  <2>4. rob' = [commit_ptr |-> c + 1, issue_ptr |-> rob.issue_ptr,
                buffer_length |-> n - 1,
                rob_entry |-> [rob.rob_entry EXCEPT ![c] = FreeRobEntry]]
    <3>1. rob' = [rob EXCEPT !.rob_entry[c] = FreeRobEntry,
                             !.buffer_length = @ - 1,
                             !.commit_ptr = Slot(@) + 1]
      BY <1>2 DEF commit_reorder_buffer_entry, Commit
    <3> QED BY <3>1 DEF IInv, TypeInv
  <2>5. TypeInv'
    <3>1. [rob.rob_entry EXCEPT ![c] = FreeRobEntry] \in [RobIndex -> RobEntry]
      BY <2>1, FreeEntryType DEF IInv, TypeInv
    <3>2. /\ c + 1 \in 0 .. ROB_SIZE
          /\ n - 1 \in 0 .. ROB_SIZE
          /\ rob.issue_ptr \in 0 .. ROB_SIZE
      BY <2>1, <2>3 DEF IInv, TypeInv, RobIndex
    <3>3. executing' \subseteq Uop /\ inUnit' \subseteq executing'
      BY DEF Commit, IInv, TypeInv
    <3> HIDE DEF c, n
    <3> QED BY <2>4, <3>1, <3>2, <3>3 DEF TypeInv
  <2>6. ASSUME NEW j \in 0 .. ROB_SIZE - 1
        PROVE  Position(j)' = IF j = ROB_SIZE - 1 THEN c ELSE Position(j + 1)
    <3>1. Position(j)' = IF Slot(c + 1) + j < ROB_SIZE THEN Slot(c + 1) + j
                         ELSE Slot(c + 1) + j - ROB_SIZE
      BY <2>4 DEF Position
    <3>2. Position(j + 1) = IF c + (j + 1) < ROB_SIZE THEN c + (j + 1)
                            ELSE c + (j + 1) - ROB_SIZE
      BY DEF Position
    <3> HIDE DEF c
    <3> QED BY <2>1, <3>1, <3>2 DEF Slot, RobIndex
  <2>7. Slot(rob.issue_ptr)' = Position(rob.buffer_length)'
    <3> PICK m \in 1 .. ROB_SIZE : m = n
      BY <2>1, <2>3
    <3>1. Position(rob.buffer_length)' = Position(rob.buffer_length)
      <4>1. rob'.buffer_length = m - 1
        BY <2>4
      <4>2. m = ROB_SIZE => Position(m) = c
        BY <2>1 DEF Position, RobIndex
      <4>3. Position(m - 1)' = Position(m)
        BY <2>6, <4>2
      <4> QED BY <4>1, <4>3 DEF Position
    <3>2. Slot(rob.issue_ptr)' = Slot(rob.issue_ptr)
      BY <2>4 DEF Slot
    <3> QED BY <3>1, <3>2 DEF IInv, WindowInv
  <2>8. ASSUME NEW j \in RobIndex
        PROVE  (rob'.rob_entry[Position(j)'].status = VALID) <=> (j < n - 1)
    <3>1. CASE j = ROB_SIZE - 1
      <4>1. Position(j)' = c
        BY <2>6, <3>1 DEF RobIndex
      <4>2. rob'.rob_entry[c].status = INVALID
        BY <2>1, <2>4 DEF IInv, TypeInv, FreeRobEntry
      <4> QED BY <2>1, <3>1, <4>1, <4>2 DEF INVALID, VALID
    <3>2. CASE j # ROB_SIZE - 1
      <4>1. j + 1 \in RobIndex
        BY <3>2 DEF RobIndex
      <4>2. /\ Position(j)' = Position(j + 1)
            /\ Position(j + 1) # c
            /\ Position(j + 1) \in RobIndex
        BY <2>1, <2>6, <3>2, <4>1, PositionBijective DEF IInv, RobIndex
      <4>3. rob'.rob_entry[Position(j + 1)] = rob.rob_entry[Position(j + 1)]
        BY <2>4, <4>2 DEF IInv, TypeInv
      <4> QED BY <2>1, <4>1, <4>2, <4>3 DEF IInv, WindowInv, RobIndex
    <3> QED BY <3>1, <3>2
  <2>9. \A i \in RobIndex :
          rob'.rob_entry[i].valid = VALID => rob'.rob_entry[i].status = VALID
    BY <2>1, <2>4 DEF IInv, TypeInv, WindowInv, FreeRobEntry, INVALID, VALID
  <2>10. rob'.buffer_length = n - 1
    BY <2>4
  <2> QED BY <2>5, <2>7, <2>8, <2>9, <2>10 DEF IInv, WindowInv
<1> QED BY <1>1, <1>2 DEF Commit

\* Entering a unit does not touch the buffer.
LEMMA IssueIInv ==
  ASSUME IInv, NEW u \in executing, Issue(u)
  PROVE  IInv'
<1>1. rob' = rob /\ executing' = executing /\ inUnit' = inUnit \cup {u}
  BY DEF Issue
<1>2. TypeInv'
  BY <1>1 DEF IInv, TypeInv
<1>3. \A j : Position(j)' = Position(j)
  BY <1>1 DEF Position
<1>4. WindowInv'
  BY <1>1, <1>3 DEF IInv, WindowInv
<1> QED BY <1>2, <1>4 DEF IInv

LEMMA NextIInv == IInv /\ [Next]_vars => IInv'
<1> SUFFICES ASSUME IInv, [Next]_vars PROVE IInv'
  OBVIOUS
<1>1. CASE SomeDispatch
  BY <1>1, DispatchIInv DEF SomeDispatch
<1>2. CASE DispatchStalls
  BY <1>2, FoldIInv DEF DispatchStalls, WrapIssuePtr
<1>3. CASE SomeWriteback
  BY <1>3, WritebackIInv DEF SomeWriteback, IInv, TypeInv
<1>4. CASE Commit
  BY <1>4, CommitIInv
<1>5. CASE CommitWaits
  <2>1. rob' = [rob EXCEPT !.commit_ptr = Slot(@)]
    BY <1>5 DEF CommitWaits, commit_reorder_buffer_entry
  <2> QED BY <1>5, <2>1, FoldIInv DEF CommitWaits
<1>6. CASE SomeIssue
  BY <1>6, IssueIInv DEF SomeIssue
<1>7. CASE UNCHANGED vars
  BY <1>7 DEF vars, IInv, TypeInv, WindowInv, Position
<1> QED BY <1>1, <1>2, <1>3, <1>4, <1>5, <1>6, <1>7 DEF Next

\* Every field of the buffer keeps its range: no pointer or length leaves
\* 0 .. ROB_SIZE, although rob.c only folds a pointer when it next uses it.
THEOREM TypeCorrect == Spec => []TypeInv
<1>1. IInv => TypeInv
  BY DEF IInv
<1> QED BY InitIInv, NextIInv, <1>1, PTL DEF Spec

\* The allocated entries are always the window between the two pointers, and
\* an entry that may commit is allocated: commit, which looks at the valid
\* field alone, never takes a free slot.
THEOREM WindowCorrect == Spec => []WindowInv
<1>1. IInv => WindowInv
  BY DEF IInv
<1> QED BY InitIInv, NextIInv, <1>1, PTL DEF Spec

-----------------------------------------------------------------------------
(***************************************************************************)
(* Retirement.  The buffer implements the in-order queue, and no entry     *)
(* waits for a result that has gone elsewhere, as long as no address is    *)
(* dispatched again while it is in flight.                                 *)
(***************************************************************************)
\* An executing instruction has its own entry, without a result; no other
\* entry has its address.  Only an ADD can carry an exception.
LinkInv ==
  /\ \A i \in Allocated : /\ rob.rob_entry[i].inst_ptr \in Pcs
                          /\ rob.rob_entry[i].inst_type = Code[rob.rob_entry[i].inst_ptr]
  /\ \A i, j \in Allocated :
       rob.rob_entry[i].inst_ptr = rob.rob_entry[j].inst_ptr
         => i = j \/ rob.rob_entry[i].inst_type = HALT
  /\ \A u \in executing :
       /\ u.inst_type = Code[u.pc] /\ u.inst_type # HALT
       /\ \E i \in Allocated : /\ rob.rob_entry[i].inst_ptr = u.pc
                               /\ rob.rob_entry[i].rd = u.rd
                               /\ rob.rob_entry[i].valid = INVALID
  /\ \A i \in RobIndex :
       rob.rob_entry[i].exception # 0 => rob.rob_entry[i].inst_type = BRANCH

\* The inductive invariant of this module.
LInv == IInv /\ LinkInv /\ NothingStranded

\* Entry i is the one that waits for u, and the step gives it the result.
AwaitsResult(i, u) ==
  LET e == rob.rob_entry[i] IN
  /\ i \in RobIndex
  /\ e.inst_ptr = u.pc /\ e.rd = u.rd /\ e.inst_type = u.inst_type /\ e.valid = INVALID

TakesResult(i, u, v, ok) ==
  /\ rob'.commit_ptr = rob.commit_ptr
  /\ rob'.buffer_length = rob.buffer_length
  /\ rob'.rob_entry =
       [rob.rob_entry EXCEPT ![i] =
          FinishedEntry(@, [pc |-> u.pc, rd |-> u.rd, inst_type |-> u.inst_type,
                            rd_value |-> v, rd_valid |-> ok])]

\* The result of an instruction goes to its own entry, and only there.
LEMMA ResultFindsEntry ==
  ASSUME LInv, NEW u \in executing, NEW v \in Values, NEW ok \in {INVALID, VALID},
         Writeback(u, v, ok)
  PROVE  \E i \in Allocated : AwaitsResult(i, u) /\ TakesResult(i, u, v, ok)
<1> DEFINE w == [pc |-> u.pc, rd |-> u.rd, inst_type |-> u.inst_type,
                 rd_value |-> v, rd_valid |-> ok]
           ent == rob.rob_entry
<1> PICK i \in Allocated : ent[i].inst_ptr = u.pc /\ ent[i].rd = u.rd /\ ent[i].valid = INVALID
  BY DEF LInv, LinkInv
<1>1. /\ u.inst_type = Code[u.pc] /\ u.inst_type # HALT
      /\ ent[i].inst_type = Code[u.pc]
  BY DEF LInv, LinkInv
<1>2. i \in RobIndex /\ ent[i].rd = u.rd /\ ent[i].valid = INVALID
  BY <1>1 DEF Allocated, LInv, LinkInv
<1>3. \A j \in RobIndex : (ent[j].status = VALID /\ ent[j].inst_ptr = u.pc) <=> j = i
  BY <1>1, <1>2 DEF Allocated, LInv, LinkInv
<1>4. \A j \in RobIndex : FirstMatch(rob, w.pc, j) <=> j = i
  <2>1. \A j \in RobIndex : \A k \in 0 .. j - 1 : k \in RobIndex /\ k # j
    BY DEF RobIndex
  <2> QED BY <1>3, <2>1 DEF FirstMatch
<1>5. rob' = [rob EXCEPT !.rob_entry =
                [j \in RobIndex |-> IF FirstMatch(rob, w.pc, j) /\ ent[j].rd = w.rd
                                    THEN FinishedEntry(ent[j], w) ELSE ent[j]]]
  BY DEF Writeback, update_reorder_buffer_entry_data
<1>6. [j \in RobIndex |-> IF FirstMatch(rob, w.pc, j) /\ ent[j].rd = w.rd
                          THEN FinishedEntry(ent[j], w) ELSE ent[j]]
        = [ent EXCEPT ![i] = FinishedEntry(ent[i], w)]
  BY <1>1, <1>2, <1>4 DEF LInv, IInv, TypeInv
<1>7. /\ rob'.commit_ptr = rob.commit_ptr
      /\ rob'.buffer_length = rob.buffer_length
      /\ rob'.rob_entry = [ent EXCEPT ![i] = FinishedEntry(ent[i], w)]
  BY <1>5, <1>6 DEF LInv, IInv, TypeInv
<1> QED BY <1>1, <1>2, <1>7 DEF AwaitsResult, TakesResult

\* The commit of a valid head never recovers and takes exactly the head.
LEMMA CommitTakesHead ==
  ASSUME LInv, Commit
  PROVE  LET c == Slot(rob.commit_ptr) IN
         /\ c \in Allocated /\ rob.rob_entry[c].valid = VALID
         /\ rob.buffer_length \in 1 .. ROB_SIZE /\ Position(0) = c
         /\ rob' = commit_reorder_buffer_entry(rob)
         /\ rob'.commit_ptr = c + 1
         /\ rob'.buffer_length = rob.buffer_length - 1
         /\ rob'.rob_entry = [rob.rob_entry EXCEPT ![c] = FreeRobEntry]
<1> DEFINE c == Slot(rob.commit_ptr)
<1>1. c \in RobIndex /\ 0 \in RobIndex /\ Position(0) = c
  BY SlotInRange DEF LInv, IInv, TypeInv, Position, RobIndex
<1>2. rob.rob_entry[c].valid = VALID
  BY <1>1 DEF Commit, RobHead, LInv, IInv, TypeInv, RobEntry
<1>3. c \in Allocated
  BY <1>1, <1>2 DEF Allocated, LInv, IInv, WindowInv
<1>4. rob.buffer_length \in 1 .. ROB_SIZE
  BY <1>1, <1>3 DEF Allocated, LInv, IInv, TypeInv, WindowInv, RobIndex
<1>5. \A zf : ~Recovers(RobHead(rob), zf)
  BY <1>1 DEF LInv, LinkInv, Recovers, RobHead, BRANCH, BZ, BNZ
<1>6. rob' = commit_reorder_buffer_entry(rob)
  BY <1>5 DEF Commit
<1>7. rob' = [rob EXCEPT !.rob_entry[c] = FreeRobEntry, !.buffer_length = @ - 1,
                         !.commit_ptr = c + 1]
  BY <1>6 DEF commit_reorder_buffer_entry, Commit
<1> HIDE DEF c
<1>8. /\ rob'.commit_ptr = c + 1
      /\ rob'.buffer_length = rob.buffer_length - 1
      /\ rob'.rob_entry = [rob.rob_entry EXCEPT ![c] = FreeRobEntry]
  BY <1>7 DEF LInv, IInv, TypeInv
<1> QED BY <1>1, <1>2, <1>3, <1>4, <1>6, <1>8 DEF c

LEMMA InitLInv == Init => LInv
<1> SUFFICES ASSUME Init PROVE LInv
  OBVIOUS
<1>1. Allocated = {} /\ executing = {}
  BY DEF Init, init_reorder_buffer, Allocated, FreeRobEntry, INVALID, VALID
<1>2. \A i \in RobIndex : rob.rob_entry[i].exception = 0
  BY DEF Init, init_reorder_buffer, FreeRobEntry
<1> QED BY <1>1, <1>2, InitIInv DEF LInv, LinkInv, NothingStranded

\* A dispatch puts the instruction into the free slot behind the window.
LEMMA DispatchExtends ==
  ASSUME IInv, NEW pc \in Pcs, NEW rd \in TagFor(Code[pc]), Dispatch(pc, rd)
  PROVE  LET u == [pc |-> pc, rd |-> rd, inst_type |-> Code[pc]]
             s == Position(rob.buffer_length)
         IN  /\ u \in Uop /\ s \in RobIndex /\ s \notin Allocated
             /\ rob.buffer_length \in 0 .. ROB_SIZE - 1
             /\ rob'.commit_ptr = rob.commit_ptr
             /\ rob'.buffer_length = rob.buffer_length + 1
             /\ rob'.rob_entry = [rob.rob_entry EXCEPT ![s] = NewRobEntry(u)]
<1> DEFINE u == [pc |-> pc, rd |-> rd, inst_type |-> Code[pc]]
           s == Slot(rob.issue_ptr)
<1>1. /\ u \in Uop
      /\ s \in RobIndex
      /\ rob.buffer_length \in 0 .. ROB_SIZE - 1
      /\ s = Position(rob.buffer_length)
      /\ s \notin Allocated
  <2>1. u \in Uop
    BY CodeAssumption DEF TagFor, Uop, Pcs
  <2> QED BY <2>1, SlotInRange DEF IInv, TypeInv, WindowInv, Dispatch, Allocated,
                 can_add_entry_in_reorder_buffer, INVALID, VALID
<1>2. rob' = [rob EXCEPT !.rob_entry[s] = NewRobEntry(u), !.buffer_length = @ + 1,
                         !.issue_ptr = Slot(@) + 1]
  BY DEF Dispatch, add_reorder_buffer_entry
<1> HIDE DEF u, s
<1>3. /\ rob'.commit_ptr = rob.commit_ptr
      /\ rob'.buffer_length = rob.buffer_length + 1
      /\ rob'.rob_entry = [rob.rob_entry EXCEPT ![s] = NewRobEntry(u)]
  BY <1>2 DEF IInv, TypeInv
<1> QED BY <1>1, <1>3 DEF u

\* A step that touches neither an entry nor an instruction at work.
LEMMA KeepLInv ==
  ASSUME LInv, IInv', UNCHANGED executing, rob'.rob_entry = rob.rob_entry
  PROVE  LInv'
<1>1. Allocated' = Allocated
  BY DEF Allocated
<1> QED BY <1>1 DEF LInv, LinkInv, NothingStranded

LEMMA DispatchLInv ==
  ASSUME ~Reentry, LInv, IInv', NEW pc \in Pcs, NEW rd \in TagFor(Code[pc]),
         Dispatch(pc, rd)
  PROVE  LInv'
<1> DEFINE u == [pc |-> pc, rd |-> rd, inst_type |-> Code[pc]]
           s == Position(rob.buffer_length)
           ent == rob.rob_entry
<1>1. /\ u \in Uop /\ s \in RobIndex /\ s \notin Allocated
      /\ rob'.rob_entry = [ent EXCEPT ![s] = NewRobEntry(u)]
      /\ ent \in [RobIndex -> RobEntry]
  BY DispatchExtends DEF LInv, IInv, TypeInv
<1>2. /\ NewRobEntry(u).status = VALID /\ NewRobEntry(u).inst_ptr = pc
      /\ NewRobEntry(u).inst_type = Code[pc] /\ NewRobEntry(u).rd = rd
      /\ NewRobEntry(u).exception = 0
      /\ NewRobEntry(u).valid = IF Code[pc] = HALT THEN VALID ELSE INVALID
  BY DEF NewRobEntry
<1>3. executing' = IF Code[pc] = HALT THEN executing ELSE executing \cup {u}
  BY DEF Dispatch
<1>4. Code[pc] # HALT => \A i \in Allocated : ent[i].inst_ptr # pc
  BY DEF Dispatch, MayDispatch
<1>5. u.pc = pc /\ u.rd = rd /\ u.inst_type = Code[pc]
  OBVIOUS
<1> HIDE DEF u, s
<1>6. /\ Allocated' = Allocated \cup {s}
      /\ rob'.rob_entry[s] = NewRobEntry(u)
      /\ \A i \in RobIndex \ {s} : rob'.rob_entry[i] = ent[i]
  BY <1>1, <1>2 DEF Allocated
<1>7. Allocated \subseteq RobIndex \ {s}
  BY <1>1 DEF Allocated
<1>8. LinkInv'
  <2>1. \A i \in Allocated' : /\ rob'.rob_entry[i].inst_ptr \in Pcs
                              /\ rob'.rob_entry[i].inst_type = Code[rob'.rob_entry[i].inst_ptr]
    BY <1>2, <1>6, <1>7 DEF LInv, LinkInv
  <2>2. \A i, j \in Allocated' :
          rob'.rob_entry[i].inst_ptr = rob'.rob_entry[j].inst_ptr
            => i = j \/ rob'.rob_entry[i].inst_type = HALT
    <3> SUFFICES ASSUME NEW i \in Allocated', NEW j \in Allocated', i # j,
                        rob'.rob_entry[i].inst_ptr = rob'.rob_entry[j].inst_ptr
                 PROVE  rob'.rob_entry[i].inst_type = HALT
      OBVIOUS
    <3>1. CASE i = s \/ j = s
      <4>1. Code[pc] = HALT
        BY <1>2, <1>4, <1>6, <1>7, <3>1
      <4> QED BY <1>2, <1>6, <1>7, <2>1, <3>1, <4>1
    <3>2. CASE i # s /\ j # s
      BY <1>6, <1>7, <3>2 DEF LInv, LinkInv
    <3> QED BY <3>1, <3>2
  <2>3. ASSUME NEW x \in executing'
        PROVE  /\ x.inst_type = Code[x.pc] /\ x.inst_type # HALT
               /\ \E i \in Allocated' : /\ rob'.rob_entry[i].inst_ptr = x.pc
                                        /\ rob'.rob_entry[i].rd = x.rd
                                        /\ rob'.rob_entry[i].valid = INVALID
    <3>1. CASE x \in executing
      BY <1>6, <1>7, <3>1 DEF LInv, LinkInv
    <3>2. CASE x = u /\ Code[pc] # HALT
      BY <1>2, <1>5, <1>6, <3>2
    <3> QED BY <1>3, <3>1, <3>2
  <2>4. \A i \in RobIndex :
          rob'.rob_entry[i].exception # 0 => rob'.rob_entry[i].inst_type = BRANCH
    BY <1>2, <1>6 DEF LInv, LinkInv
  <2> QED BY <2>1, <2>2, <2>3, <2>4 DEF LinkInv
<1>9. NothingStranded'
  <2> SUFFICES ASSUME NEW i \in Allocated'
               PROVE  LET e == rob'.rob_entry[i] IN
                      \/ e.valid = VALID
                      \/ e.inst_type \in Branches
                      \/ \E x \in executing' : x.pc = e.inst_ptr /\ x.rd = e.rd
    BY DEF NothingStranded
  <2>1. CASE i = s
    BY <1>2, <1>3, <1>5, <1>6, <2>1
  <2>2. CASE i # s
    BY <1>3, <1>6, <1>7, <2>2 DEF LInv, NothingStranded
  <2> QED BY <2>1, <2>2
<1> QED BY <1>8, <1>9 DEF LInv

LEMMA WritebackLInv ==
  ASSUME LInv, IInv', NEW u \in executing, NEW v \in Values, NEW ok \in {INVALID, VALID},
         Writeback(u, v, ok)
  PROVE  LInv'
<1> DEFINE w == [pc |-> u.pc, rd |-> u.rd, inst_type |-> u.inst_type,
                 rd_value |-> v, rd_valid |-> ok]
           ent == rob.rob_entry
<1> PICK i \in Allocated : AwaitsResult(i, u) /\ TakesResult(i, u, v, ok)
  BY ResultFindsEntry
<1>1. /\ ent[i].inst_ptr = u.pc /\ ent[i].rd = u.rd /\ ent[i].valid = INVALID
      /\ u.inst_type = ent[i].inst_type
      /\ rob'.rob_entry = [ent EXCEPT ![i] = FinishedEntry(@, w)]
  BY DEF AwaitsResult, TakesResult
<1>2. /\ ent \in [RobIndex -> RobEntry] /\ Allocated \subseteq RobIndex
      /\ executing \subseteq Uop
  BY DEF LInv, IInv, TypeInv, Allocated
<1>3. /\ FinishedEntry(ent[i], w).status = ent[i].status
      /\ FinishedEntry(ent[i], w).inst_ptr = ent[i].inst_ptr
      /\ FinishedEntry(ent[i], w).inst_type = ent[i].inst_type
      /\ FinishedEntry(ent[i], w).rd = ent[i].rd
      /\ FinishedEntry(ent[i], w).valid = ok
      /\ FinishedEntry(ent[i], w).exception =
           IF u.inst_type = BRANCH THEN ok ELSE ent[i].exception
  <2>1. ent[i] \in RobEntry
    BY <1>2
  <2> QED BY <2>1 DEF FinishedEntry, RobEntry
<1>4. executing' = executing \ {u} /\ (u.inst_type \in Branches \/ ok = VALID)
  BY DEF Writeback
<1> HIDE DEF w, ent
<1>5. /\ rob'.rob_entry[i] = FinishedEntry(ent[i], w)
      /\ \A j \in RobIndex \ {i} : rob'.rob_entry[j] = ent[j]
  BY <1>1, <1>2
<1>6. Allocated' = Allocated
  BY <1>2, <1>3, <1>5 DEF Allocated, ent
<1>7. \A j \in Allocated \ {i} : ent[j].inst_ptr # u.pc
  BY <1>1 DEF LInv, LinkInv, ent
<1>8. \A j \in RobIndex : /\ rob'.rob_entry[j].inst_ptr = ent[j].inst_ptr
                          /\ rob'.rob_entry[j].inst_type = ent[j].inst_type
                          /\ rob'.rob_entry[j].rd = ent[j].rd
  BY <1>3, <1>5
<1>9. LinkInv'
  <2>1. /\ \A j \in Allocated' :
             /\ rob'.rob_entry[j].inst_ptr \in Pcs
             /\ rob'.rob_entry[j].inst_type = Code[rob'.rob_entry[j].inst_ptr]
        /\ \A j, k \in Allocated' :
             rob'.rob_entry[j].inst_ptr = rob'.rob_entry[k].inst_ptr
               => j = k \/ rob'.rob_entry[j].inst_type = HALT
    BY <1>2, <1>6, <1>8 DEF LInv, LinkInv, ent
  <2>2. ASSUME NEW x \in executing'
        PROVE  /\ x.inst_type = Code[x.pc] /\ x.inst_type # HALT
               /\ \E j \in Allocated' : /\ rob'.rob_entry[j].inst_ptr = x.pc
                                        /\ rob'.rob_entry[j].rd = x.rd
                                        /\ rob'.rob_entry[j].valid = INVALID
    <3>1. x \in executing /\ x # u /\ x \in Uop /\ u \in Uop
      BY <1>2, <1>4
    <3>2. PICK j \in Allocated : /\ ent[j].inst_ptr = x.pc /\ ent[j].rd = x.rd
                                 /\ ent[j].valid = INVALID
      BY <3>1 DEF LInv, LinkInv, ent
    <3>3. x.inst_type = Code[x.pc] /\ x.inst_type # HALT /\ u.inst_type = Code[u.pc]
      BY <3>1 DEF LInv, LinkInv
    <3>4. j # i
      <4>1. SUFFICES ASSUME j = i PROVE x = u
        BY <3>1
      <4> QED BY <1>1, <3>1, <3>2, <3>3, <4>1 DEF Uop, ent
    <3> QED BY <1>2, <1>5, <1>6, <3>2, <3>3, <3>4
  <2>3. \A j \in RobIndex :
          rob'.rob_entry[j].exception # 0 => rob'.rob_entry[j].inst_type = BRANCH
    BY <1>1, <1>2, <1>3, <1>5 DEF LInv, LinkInv, ent
  <2> QED BY <2>1, <2>2, <2>3 DEF LinkInv
<1>10. NothingStranded'
  <2> SUFFICES ASSUME NEW j \in Allocated'
               PROVE  LET e == rob'.rob_entry[j] IN
                      \/ e.valid = VALID
                      \/ e.inst_type \in Branches
                      \/ \E x \in executing' : x.pc = e.inst_ptr /\ x.rd = e.rd
    BY DEF NothingStranded
  <2>1. CASE j = i
    BY <1>1, <1>3, <1>4, <1>5, <2>1
  <2>2. CASE j # i
    BY <1>2, <1>4, <1>5, <1>6, <1>7, <2>2 DEF LInv, NothingStranded, ent
  <2> QED BY <2>1, <2>2
<1> QED BY <1>9, <1>10 DEF LInv

LEMMA CommitLInv ==
  ASSUME LInv, IInv', Commit
  PROVE  LInv'
<1> DEFINE c == Slot(rob.commit_ptr)
           ent == rob.rob_entry
<1>1. /\ c \in Allocated /\ ent[c].valid = VALID
      /\ rob'.rob_entry = [ent EXCEPT ![c] = FreeRobEntry]
      /\ ent \in [RobIndex -> RobEntry] /\ executing' = executing
  BY CommitTakesHead DEF Commit, LInv, IInv, TypeInv
<1> HIDE DEF c
<1>2. /\ Allocated \subseteq RobIndex
      /\ rob'.rob_entry[c] = FreeRobEntry
      /\ \A j \in RobIndex \ {c} : rob'.rob_entry[j] = ent[j]
  BY <1>1 DEF Allocated
<1>3. Allocated' = Allocated \ {c}
  BY <1>1, <1>2 DEF Allocated, FreeRobEntry, INVALID, VALID
<1>4. LinkInv'
  <2>1. \A x \in executing' : \E i \in Allocated' :
          /\ rob'.rob_entry[i].inst_ptr = x.pc /\ rob'.rob_entry[i].rd = x.rd
          /\ rob'.rob_entry[i].valid = INVALID
    BY <1>1, <1>2, <1>3 DEF LInv, LinkInv, INVALID, VALID
  <2>2. \A i \in RobIndex :
          rob'.rob_entry[i].exception # 0 => rob'.rob_entry[i].inst_type = BRANCH
    BY <1>2 DEF LInv, LinkInv, FreeRobEntry
  <2>3. \A i \in Allocated' : rob'.rob_entry[i] = ent[i] /\ i \in Allocated
    BY <1>2, <1>3
  <2> QED BY <1>1, <2>1, <2>2, <2>3 DEF LInv, LinkInv
<1>5. NothingStranded'
  BY <1>1, <1>2, <1>3 DEF LInv, NothingStranded
<1> QED BY <1>4, <1>5 DEF LInv

LEMMA NextLInv == ~Reentry => (LInv /\ [Next]_vars => LInv')
<1> SUFFICES ASSUME ~Reentry, LInv, [Next]_vars PROVE LInv'
  OBVIOUS
<1>1. IInv'
  BY NextIInv DEF LInv
<1>2. CASE SomeDispatch
  BY <1>1, <1>2, DispatchLInv DEF SomeDispatch
<1>3. CASE DispatchStalls
  <2>1. rob'.rob_entry = rob.rob_entry
    BY <1>3 DEF DispatchStalls, WrapIssuePtr, LInv, IInv, TypeInv
  <2> QED BY <1>1, <1>3, <2>1, KeepLInv DEF DispatchStalls
<1>4. CASE SomeWriteback
  <2>1. inUnit \subseteq executing
    BY DEF LInv, IInv, TypeInv
  <2> QED BY <1>1, <1>4, <2>1, WritebackLInv DEF SomeWriteback
<1>5. CASE Commit
  BY <1>1, <1>5, CommitLInv
<1>6. CASE CommitWaits
  <2>1. rob'.rob_entry = rob.rob_entry
    BY <1>6 DEF CommitWaits, commit_reorder_buffer_entry, LInv, IInv, TypeInv
  <2> QED BY <1>1, <1>6, <2>1, KeepLInv DEF CommitWaits
<1>7. CASE SomeIssue
  BY <1>1, <1>7, KeepLInv DEF SomeIssue, Issue
<1>8. CASE UNCHANGED vars
  BY <1>1, <1>8, KeepLInv DEF vars
<1> QED BY <1>2, <1>3, <1>4, <1>5, <1>6, <1>7, <1>8 DEF Next

\* No result goes to a wrong entry, in a buffer of any size and for any
\* program, as long as no address is dispatched again while it is in flight:
\* an entry without a result has its own instruction at work, or is a branch.
THEOREM NothingStrandedCorrect == ~Reentry => (Spec => []NothingStranded)
<1>1. LInv => NothingStranded
  BY DEF LInv
<1>2. ASSUME ~Reentry PROVE LInv /\ [Next]_vars => LInv'
  BY <1>2, NextLInv
<1>3. ASSUME ~Reentry PROVE Spec => []NothingStranded
  BY <1>1, <1>2, <1>3, InitLInv, PTL DEF Spec
<1> QED BY <1>3

(***************************************************************************)
(* The refinement: what the steps do to the abstract window.               *)
(***************************************************************************)
QueueEntry == [pc : Pcs \cup {0}, rd : Tags \cup {0}, inst_type : {0} \cup InstTypes,
               value : Values \cup {-1, 0}, valid : {INVALID, VALID}]

LEMMA AbstractEntryType ==
  ASSUME NEW e \in RobEntry
  PROVE  AbstractEntry(e) \in QueueEntry
  BY DEF AbstractEntry, QueueEntry, RobEntry

\* The abstract window is a sequence: the slots of the window, oldest first.
WindowIsSeq ==
  /\ AbstractWindow \in Seq(QueueEntry)
  /\ Len(AbstractWindow) = rob.buffer_length
  /\ \A k \in 1 .. rob.buffer_length :
       AbstractWindow[k] = AbstractEntry(rob.rob_entry[Position(k - 1)])

LEMMA WindowSeq == TypeInv => WindowIsSeq
<1> SUFFICES ASSUME TypeInv PROVE WindowIsSeq
  OBVIOUS
<1>1. rob.buffer_length \in Nat
  BY DEF TypeInv
<1>2. ASSUME NEW k \in 1 .. rob.buffer_length
      PROVE  AbstractEntry(rob.rob_entry[Position(k - 1)]) \in QueueEntry
  <2>1. k - 1 \in RobIndex
    BY DEF TypeInv, RobIndex
  <2>2. rob.rob_entry[Position(k - 1)] \in RobEntry
    BY <2>1, PositionBijective DEF TypeInv
  <2> QED BY <2>2, AbstractEntryType
<1>3. AbstractWindow \in [1 .. rob.buffer_length -> QueueEntry]
  BY <1>2 DEF AbstractWindow
<1>4. AbstractWindow \in Seq(QueueEntry)
  BY <1>1, <1>3, SeqDef
<1>5. Len(AbstractWindow) = rob.buffer_length
  BY <1>1, <1>3, <1>4, LenProperties
<1> QED BY <1>4, <1>5 DEF AbstractWindow, WindowIsSeq

LEMMA WindowSeqNext == TypeInv' => WindowIsSeq'
  BY WindowSeq, PTL

WithResult(x, v, ok) == [x EXCEPT !.value = v, !.valid = ok]

\* Finishing an entry and looking at it commute.
LEMMA FinishedQueueEntry ==
  ASSUME NEW e \in RobEntry, NEW v \in Values, NEW ok \in {INVALID, VALID},
         NEW w, w.rd_value = v, w.rd_valid = ok,
         NEW x, x = AbstractEntry(e), NEW f, f = WithResult(x, v, ok)
  PROVE  f = AbstractEntry(FinishedEntry(e, w)) /\ f \in QueueEntry
<1>1. x = [pc |-> e.inst_ptr, rd |-> e.rd, inst_type |-> e.inst_type,
           value |-> e.rd_value, valid |-> e.valid]
  BY DEF AbstractEntry
<1>2. x \in QueueEntry
  BY AbstractEntryType
<1>3. f = [pc |-> x.pc, rd |-> x.rd, inst_type |-> x.inst_type, value |-> v, valid |-> ok]
  BY <1>2 DEF QueueEntry, WithResult
<1>4. AbstractEntry(FinishedEntry(e, w)) =
        [pc |-> e.inst_ptr, rd |-> e.rd, inst_type |-> e.inst_type, value |-> v, valid |-> ok]
  BY DEF AbstractEntry, FinishedEntry, RobEntry
<1>5. f \in QueueEntry
  BY <1>2 DEF QueueEntry, WithResult
<1>6. x.pc = e.inst_ptr /\ x.rd = e.rd /\ x.inst_type = e.inst_type
  BY <1>1
<1> QED BY ONLY <1>3, <1>4, <1>5, <1>6

\* A new entry is an entry of the buffer.
LEMMA NewEntryType ==
  ASSUME NEW u \in Uop
  PROVE  NewRobEntry(u) \in RobEntry
  BY CodeAssumption DEF Uop, NewRobEntry, RobEntry, INVALID, VALID, Pcs

\* The abstract window does not change when the entries it shows do not.
LEMMA SameWindow ==
  ASSUME IInv, IInv', rob'.rob_entry = rob.rob_entry,
         rob'.buffer_length = rob.buffer_length,
         Slot(rob.commit_ptr)' = Slot(rob.commit_ptr)
  PROVE  AbstractWindow' = AbstractWindow
<1>1. \A k : Position(k)' = Position(k)
  BY DEF Position
<1> QED BY <1>1 DEF AbstractWindow

LEMMA DispatchEnters ==
  ASSUME IInv, IInv', NEW pc \in Pcs, NEW rd \in TagFor(Code[pc]), Dispatch(pc, rd)
  PROVE  Retirement!Enter
<1> DEFINE u == [pc |-> pc, rd |-> rd, inst_type |-> Code[pc]]
           n == rob.buffer_length
           s == Position(n)
           e == AbstractEntry(NewRobEntry(u))
           W == AbstractWindow
<1>1. /\ u \in Uop /\ s \in RobIndex
      /\ n \in 0 .. ROB_SIZE - 1
      /\ rob'.commit_ptr = rob.commit_ptr
      /\ rob'.buffer_length = n + 1
      /\ rob'.rob_entry = [rob.rob_entry EXCEPT ![s] = NewRobEntry(u)]
      /\ rob.rob_entry \in [RobIndex -> RobEntry]
  BY DispatchExtends DEF IInv, TypeInv
<1>2. e \in EnteringEntries
  <2>1. e = [pc |-> pc, rd |-> rd, inst_type |-> Code[pc], value |-> -1,
             valid |-> IF Code[pc] = HALT THEN VALID ELSE INVALID]
    BY DEF AbstractEntry, NewRobEntry
  <2>2. rd \in Tags \cup {0}
    BY DEF TagFor
  <2> QED BY <2>1, <2>2 DEF EnteringEntries
<1>3. e \in QueueEntry
  BY <1>1, NewEntryType, AbstractEntryType
<1>4. WindowIsSeq /\ WindowIsSeq'
  BY WindowSeq, WindowSeqNext DEF IInv
<1> HIDE DEF u, e
<1>5. ASSUME NEW k \in 1 .. n + 1
      PROVE  W'[k] = Append(W, e)[k]
  <2>1. Position(k - 1)' = Position(k - 1)
    BY <1>1 DEF Position
  <2>2. W'[k] = AbstractEntry(rob'.rob_entry[Position(k - 1)])
    BY <1>1, <1>4, <2>1 DEF WindowIsSeq
  <2>3. k - 1 \in RobIndex /\ n \in RobIndex /\ Position(k - 1) \in RobIndex
    <3>1. k - 1 \in RobIndex /\ n \in RobIndex
      BY <1>1 DEF RobIndex
    <3> QED BY <3>1, PositionBijective DEF IInv
  <2>4. CASE k = n + 1
    <3>1. Append(W, e)[n + 1] = e
      BY <1>3, <1>4, AppendProperties DEF WindowIsSeq
    <3>2. W'[k] = e
      BY <1>1, <2>2, <2>4 DEF e
    <3> QED BY <2>4, <3>1, <3>2
  <2>5. CASE k \in 1 .. n
    <3>1. Append(W, e)[k] = W[k]
      BY <1>3, <1>4, <2>5, AppendProperties DEF WindowIsSeq
    <3>2. Position(k - 1) # s
      BY <1>1, <2>3, <2>5, PositionBijective DEF IInv
    <3>3. W'[k] = AbstractEntry(rob.rob_entry[Position(k - 1)])
      BY <1>1, <2>2, <2>3, <3>2
    <3> QED BY <1>4, <2>5, <3>1, <3>3 DEF WindowIsSeq
  <2>6. k = n + 1 \/ k \in 1 .. n
    BY <1>1
  <2> QED BY <2>4, <2>5, <2>6
<1>6. W' = Append(W, e)
  <2>1. /\ Append(W, e) \in Seq(QueueEntry) /\ Len(Append(W, e)) = n + 1
        /\ W' \in Seq(QueueEntry) /\ Len(W') = n + 1
    BY <1>1, <1>3, <1>4, AppendProperties DEF WindowIsSeq
  <2> HIDE DEF W, n
  <2> QED BY <1>5, <2>1, SeqEqual
<1>7. Len(W) < ROB_SIZE
  BY <1>1, <1>4 DEF WindowIsSeq
<1> QED BY <1>2, <1>6, <1>7 DEF Retirement!Enter

LEMMA WritebackFinishes ==
  ASSUME LInv, IInv', NEW u \in executing, NEW v \in Values, NEW ok \in {INVALID, VALID},
         Writeback(u, v, ok)
  PROVE  Retirement!Finish
<1> DEFINE w == [pc |-> u.pc, rd |-> u.rd, inst_type |-> u.inst_type,
                 rd_value |-> v, rd_valid |-> ok]
           ent == rob.rob_entry
           n == rob.buffer_length
           W == AbstractWindow
<1> PICK i \in Allocated : AwaitsResult(i, u) /\ TakesResult(i, u, v, ok)
  BY ResultFindsEntry
<1>1. /\ i \in RobIndex /\ ent[i].valid = INVALID /\ ent[i].status = VALID
      /\ rob'.commit_ptr = rob.commit_ptr /\ rob'.buffer_length = n
      /\ rob'.rob_entry = [ent EXCEPT ![i] = FinishedEntry(ent[i], w)]
      /\ ent \in [RobIndex -> RobEntry] /\ n \in 0 .. ROB_SIZE
  BY DEF AwaitsResult, TakesResult, Allocated, LInv, IInv, TypeInv
<1>2. PICK j \in RobIndex : Position(j) = i
  BY <1>1, PositionBijective DEF LInv, IInv
<1>3. j < n
  BY <1>1, <1>2 DEF LInv, IInv, WindowInv
<1>4. WindowIsSeq /\ WindowIsSeq'
  BY WindowSeq, WindowSeqNext DEF LInv, IInv
<1>5. j + 1 \in 1 .. n
  BY <1>1, <1>3 DEF RobIndex
<1> PICK x : x = W[j + 1]
  OBVIOUS
<1>a. PICK f : f = WithResult(x, v, ok)
  OBVIOUS
<1>6. /\ x = W[j + 1] /\ x = AbstractEntry(ent[i])
      /\ x \in QueueEntry
      /\ x.valid = INVALID
  <2>1. W[j + 1] = AbstractEntry(ent[Position((j + 1) - 1)])
    BY <1>4, <1>5 DEF WindowIsSeq
  <2>2. (j + 1) - 1 = j
    BY <1>2 DEF RobIndex
  <2>3. W[j + 1] = AbstractEntry(ent[i])
    BY <1>2, <2>1, <2>2
  <2> QED BY <1>1, <2>3, AbstractEntryType DEF AbstractEntry
<1>7. f = AbstractEntry(FinishedEntry(ent[i], w)) /\ f \in QueueEntry
  <2>1. ent[i] \in RobEntry
    BY <1>1
  <2>2. w.rd_value = v /\ w.rd_valid = ok
    OBVIOUS
  <2> HIDE DEF w, W, ent
  <2> QED BY <1>a, <1>6, <2>1, <2>2, FinishedQueueEntry
<1> HIDE DEF w, ent
<1>8. ASSUME NEW k \in 1 .. n
      PROVE  W'[k] = IF k = j + 1 THEN f ELSE W[k]
  <2>1. Position(k - 1)' = Position(k - 1)
    BY <1>1 DEF Position
  <2>2. W'[k] = AbstractEntry(rob'.rob_entry[Position(k - 1)])
    BY <1>1, <1>4, <2>1 DEF WindowIsSeq
  <2>3. k - 1 \in RobIndex /\ Position(k - 1) \in RobIndex
    <3>1. k - 1 \in RobIndex
      BY <1>1 DEF RobIndex
    <3> QED BY <3>1, PositionBijective DEF LInv, IInv
  <2>4. (Position(k - 1) = i) <=> (k = j + 1)
    BY <1>2, <2>3, PositionBijective DEF LInv, IInv, RobIndex
  <2>5. W[k] = AbstractEntry(ent[Position(k - 1)])
    BY <1>4 DEF WindowIsSeq, ent
  <2> QED BY <1>1, <1>7, <2>2, <2>3, <2>4, <2>5
<1>9. W' = [W EXCEPT ![j + 1] = f]
  <2>1. /\ [W EXCEPT ![j + 1] = f] \in Seq(QueueEntry)
        /\ Len([W EXCEPT ![j + 1] = f]) = n
        /\ \A k \in 1 .. n : [W EXCEPT ![j + 1] = f][k] = IF k = j + 1 THEN f ELSE W[k]
    BY <1>4, <1>5, <1>7, ExceptSeq DEF WindowIsSeq
  <2>2. W' \in Seq(QueueEntry) /\ Len(W') = n
    BY <1>1, <1>4 DEF WindowIsSeq
  <2> HIDE DEF W, n
  <2> QED BY <1>8, <2>1, <2>2, SeqEqual
<1>10. DOMAIN W = 1 .. n /\ W \in [1 .. n -> QueueEntry]
  BY <1>4, LenProperties DEF WindowIsSeq
<1> HIDE DEF W, n
<1>11. W' = [W EXCEPT ![j + 1].value = v, ![j + 1].valid = ok]
  BY <1>a, <1>5, <1>6, <1>9, <1>10 DEF WithResult
<1> QED BY <1>5, <1>6, <1>10, <1>11
       DEF Retirement!Finish, Retirement!INVALID, Retirement!VALID, INVALID, VALID, W

LEMMA CommitRetires ==
  ASSUME LInv, IInv', Commit
  PROVE  Retirement!Retire
<1> DEFINE c == Slot(rob.commit_ptr)
           ent == rob.rob_entry
           n == rob.buffer_length
           W == AbstractWindow
<1>1. /\ c \in RobIndex /\ ent[c].valid = VALID
      /\ n \in 1 .. ROB_SIZE /\ Position(0) = c
      /\ rob'.commit_ptr = c + 1
      /\ rob'.buffer_length = n - 1
      /\ rob'.rob_entry = [ent EXCEPT ![c] = FreeRobEntry]
      /\ ent \in [RobIndex -> RobEntry]
  BY CommitTakesHead DEF Allocated, LInv, IInv, TypeInv
<1>2. WindowIsSeq /\ WindowIsSeq'
  BY WindowSeq, WindowSeqNext DEF LInv, IInv
<1>3. W \in Seq(QueueEntry) /\ Len(W) = n /\ W # <<>>
  <2>1. W \in Seq(QueueEntry) /\ Len(W) = n
    BY <1>2 DEF WindowIsSeq
  <2>2. n # 0
    BY <1>1
  <2> HIDE DEF W, n
  <2> QED BY <2>1, <2>2, EmptySeq
<1>4. Head(W).valid = VALID
  <2>1. W[1] = AbstractEntry(ent[c])
    <3>1. 1 \in 1 .. n /\ 1 - 1 = 0
      BY <1>1
    <3>2. W[1] = AbstractEntry(ent[Position(1 - 1)])
      BY <1>2, <3>1 DEF WindowIsSeq
    <3> QED BY <1>1, <3>1, <3>2
  <2>2. Head(W) = W[1]
    BY <1>3
  <2> QED BY <1>1, <2>1, <2>2 DEF AbstractEntry
<1>5. ASSUME NEW k \in 1 .. n - 1
      PROVE  W'[k] = W[k + 1]
  <2>1. Position(k - 1)' = Position(k)
    <3>1. Position(k - 1)' = IF Slot(c + 1) + (k - 1) < ROB_SIZE THEN Slot(c + 1) + (k - 1)
                             ELSE Slot(c + 1) + (k - 1) - ROB_SIZE
      BY <1>1 DEF Position
    <3>2. Position(k) = IF c + k < ROB_SIZE THEN c + k ELSE c + k - ROB_SIZE
      BY DEF Position
    <3> HIDE DEF c, n
    <3> QED BY <1>1, <3>1, <3>2 DEF Slot, RobIndex
  <2>2. k \in RobIndex /\ 0 \in RobIndex /\ k # 0 /\ k + 1 \in 1 .. n /\ (k + 1) - 1 = k
    BY <1>1 DEF RobIndex
  <2>3. Position(k) \in RobIndex /\ Position(k) # c
    BY <1>1, <2>2, PositionBijective DEF LInv, IInv
  <2>4. W'[k] = AbstractEntry(rob'.rob_entry[Position(k)])
    BY <1>1, <1>2, <2>1 DEF WindowIsSeq
  <2>5. W[k + 1] = AbstractEntry(ent[Position((k + 1) - 1)])
    BY <1>2, <2>2 DEF WindowIsSeq
  <2> HIDE DEF c, W
  <2> QED BY <1>1, <2>2, <2>3, <2>4, <2>5
<1>6. W' = Tail(W)
  <2>1. /\ Tail(W) \in Seq(QueueEntry) /\ Len(Tail(W)) = n - 1
        /\ \A k \in 1 .. n - 1 : Tail(W)[k] = W[k + 1]
    <3> HIDE DEF W, n
    <3> QED BY <1>3, HeadTailProperties
  <2>2. W' \in Seq(QueueEntry) /\ Len(W') = n - 1
    BY <1>1, <1>2 DEF WindowIsSeq
  <2> HIDE DEF W, n
  <2> QED BY <1>5, <2>1, <2>2, SeqEqual
<1> QED BY <1>3, <1>4, <1>6 DEF Retirement!Retire, Retirement!VALID, VALID

LEMMA InitWindow == Init => Retirement!Init
<1> SUFFICES ASSUME Init PROVE AbstractWindow = <<>>
  BY DEF Retirement!Init
<1>1. WindowIsSeq /\ rob.buffer_length = 0
  BY InitIInv, WindowSeq DEF IInv, Init, init_reorder_buffer
<1> QED BY <1>1, EmptySeq DEF WindowIsSeq

LEMMA StepRetires ==
  LInv /\ IInv' /\ [Next]_vars => [Retirement!Next]_AbstractWindow
<1> SUFFICES ASSUME LInv, IInv', [Next]_vars
             PROVE  Retirement!Next \/ AbstractWindow' = AbstractWindow
  OBVIOUS
<1> USE DEF Retirement!Next
<1>1. CASE SomeDispatch
  BY <1>1, DispatchEnters DEF SomeDispatch, LInv
<1>2. CASE DispatchStalls
  <2>1. /\ rob'.rob_entry = rob.rob_entry /\ rob'.buffer_length = rob.buffer_length
        /\ rob'.commit_ptr = rob.commit_ptr
    BY <1>2 DEF DispatchStalls, WrapIssuePtr, LInv, IInv, TypeInv
  <2> QED BY <2>1, SameWindow DEF LInv, Slot
<1>3. CASE SomeWriteback
  <2>1. inUnit \subseteq executing
    BY DEF LInv, IInv, TypeInv
  <2> QED BY <1>3, <2>1, WritebackFinishes DEF SomeWriteback
<1>4. CASE Commit
  BY <1>4, CommitRetires
<1>5. CASE CommitWaits
  <2>1. /\ rob'.rob_entry = rob.rob_entry /\ rob'.buffer_length = rob.buffer_length
        /\ rob'.commit_ptr = Slot(rob.commit_ptr)
    BY <1>5 DEF CommitWaits, commit_reorder_buffer_entry, LInv, IInv, TypeInv
  <2>2. Slot(rob.commit_ptr)' = Slot(rob.commit_ptr)
    BY <2>1, SlotInRange DEF LInv, IInv, TypeInv, Slot
  <2> QED BY <2>1, <2>2, SameWindow DEF LInv
<1>6. CASE SomeIssue
  BY <1>6, SameWindow DEF SomeIssue, Issue, LInv, Slot
<1>7. CASE UNCHANGED vars
  BY <1>7, SameWindow DEF vars, LInv, Slot
<1> QED BY <1>1, <1>2, <1>3, <1>4, <1>5, <1>6, <1>7 DEF Next

\* The circular buffer with its two lazily folded pointers and its match by
\* address is a bounded in-order queue, for every size and program: results
\* arrive once, instructions leave oldest first and only with a result, and the
\* recovery of commit_instruction never empties it.
THEOREM RetiresInOrderCorrect == ~Reentry => (Spec => RetiresInOrder)
<1>1. ASSUME ~Reentry PROVE LInv /\ [Next]_vars => LInv'
  BY <1>1, NextLInv
<1>2. LInv' => IInv'
  BY DEF LInv
<1>3. ASSUME ~Reentry PROVE Spec => Retirement!Spec
  BY <1>1, <1>2, <1>3, InitLInv, InitWindow, StepRetires, PTL DEF Spec, Retirement!Spec
<1> QED BY <1>3 DEF RetiresInOrder

=============================================================================
