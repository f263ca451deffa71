----------------------------- MODULE RenameTable -----------------------------
(***************************************************************************)
(* The rename table with its callers: decode renames a destination,        *)
(* dispatch_instruction moves the decode latch into the reorder buffer or  *)
(* loses it, commit_instruction releases the tag of the writer that        *)
(* leaves.  `outstanding' is the program order of the writers from decode  *)
(* to commit, `pending' says that the last of them is still in the decode  *)
(* latch.  `leaked' (tags of lost writers, never released) and `misfreed'  *)
(* (a commit released a tag that was not its own) are history variables.   *)
(***************************************************************************)
EXTENDS RenameOps, Sequences

CONSTANTS Regs,       \* architectural registers
          ROB_SIZE    \* writers the reorder buffer holds

ASSUME RenameUseAssumption ==
  /\ Regs \subseteq Nat
  /\ ROB_SIZE \in Nat
  /\ ROB_SIZE < RENAME_TABLE_SIZE

VARIABLES rename, outstanding, pending, leaked, misfreed

vars == <<rename, outstanding, pending, leaked, misfreed>>

Init ==
  /\ rename = init_rename_table
  /\ outstanding = <<>> /\ pending = FALSE
  /\ leaked = {} /\ misfreed = FALSE

Dispatched == Len(outstanding) - (IF pending THEN 1 ELSE 0)

\* When no tag is found decode prints "Cannot Rename" and the writer goes on
\* under the number of its architectural register.
Decode(rd) ==
  /\ ~pending /\ pending' = TRUE
  /\ IF can_rename_reg_tag(rename)
     THEN /\ rename' = rename_desc_reg(rename, rd)
          /\ outstanding' = Append(outstanding,
                              [reg |-> rd, tag |-> FirstFreeTag(rename), owns |-> TRUE])
     ELSE /\ outstanding' = Append(outstanding, [reg |-> rd, tag |-> rd, owns |-> FALSE])
          /\ UNCHANGED rename
  /\ UNCHANGED <<leaked, misfreed>>

Dispatch ==
  /\ pending /\ Dispatched < ROB_SIZE
  /\ pending' = FALSE
  /\ UNCHANGED <<rename, outstanding, leaked, misfreed>>

\* The writer in the decode latch is lost: an addition failed, a stalled latch
\* was overwritten, or a taken branch cleared it.  Nobody releases its tag.
Drop ==
  LET last == outstanding[Len(outstanding)] IN
  /\ pending /\ pending' = FALSE
  /\ outstanding' = SubSeq(outstanding, 1, Len(outstanding) - 1)
  /\ leaked' = IF last.owns THEN leaked \cup {last.tag} ELSE leaked
  /\ UNCHANGED <<rename, misfreed>>

\* In program order.  The tag is looked up by number, whoever owns it.
Commit ==
  LET w == Head(outstanding) IN
  /\ Dispatched > 0
  /\ outstanding' = Tail(outstanding)
  /\ IF get_phy_reg_renamed_tag(rename, w.tag) < 0
     THEN UNCHANGED <<rename, leaked, misfreed>>
     ELSE /\ rename' = ReleaseTag(rename, w.tag)
          /\ leaked' = leaked \ {w.tag}
          /\ misfreed' = (misfreed \/ ~w.owns)
  /\ UNCHANGED pending

Next == (\E rd \in Regs : Decode(rd)) \/ Dispatch \/ Drop \/ Commit

Spec == Init /\ [][Next]_vars
-----------------------------------------------------------------------------
(***************************************************************************)
(* Properties.  All but the first speak of the time before an unrenamed    *)
(* writer has released somebody else's tag.                                *)
(***************************************************************************)
Writer == [reg : Regs, tag : Nat, owns : BOOLEAN]

\* The table holds registers and flags, the search position is an index, and
\* the decode latch is one of the writers in flight.
TypeInv ==
  /\ rename \in [reg_rename : [TagIndex -> [tag_valid : {INVALID, VALID},
                                            rename_tag : Regs \cup {0}]],
                 last_rename_pos : TagIndex]
  /\ outstanding \in Seq(Writer)
  /\ \A k \in DOMAIN outstanding : outstanding[k].owns => outstanding[k].tag \in TagIndex
  /\ pending \in BOOLEAN /\ (pending => outstanding # <<>>)
  /\ leaked \subseteq TagIndex /\ misfreed \in BOOLEAN

Owners == {k \in DOMAIN outstanding : outstanding[k].owns}

\* How many places the search position has gone, around the end of the table,
\* since it was at tag t.
Age(t) ==
  LET p == rename.last_rename_pos
  IN  IF t <= p THEN p - t ELSE p - t + RENAME_TABLE_SIZE

\* Older writers own tags farther back on the circle, and no tag between an
\* owner's and the search position is free: the linear search, which never
\* looks below its start, hands tags out in a circle and overtakes nobody,
\* whatever was leaked or released in between.
TagsInCircle ==
  ~misfreed =>
    \A k \in Owners :
      /\ \A j \in Owners : j < k => Age(outstanding[j].tag) > Age(outstanding[k].tag)
      /\ \A t \in TagIndex :
           Age(t) < Age(outstanding[k].tag) => rename.reg_rename[t].tag_valid = VALID

Owned(t) ==
  \E k \in Owners :
    outstanding[k].tag = t /\ outstanding[k].reg = rename.reg_rename[t].rename_tag

\* A tag in use belongs to a writer in flight, under its register, or was
\* leaked by a lost one, and never both: commit frees exactly what decode took.
TagsAccounted ==
  ~misfreed =>
    \A t \in TagIndex :
      /\ rename.reg_rename[t].tag_valid = VALID <=> (Owned(t) \/ t \in leaked)
      /\ ~(Owned(t) /\ t \in leaked)

\* Only lost writers can make decode print "Cannot Rename", since the buffer
\* holds fewer writers than there are tags: either every tag is in use, or the
\* last one is leaked, and then the search never gets past the end again.
BlockedOnlyByLeak ==
  ~misfreed /\ ~pending /\ ~can_rename_reg_tag(rename) =>
    /\ leaked # {}
    /\ \/ RENAME_TABLE_SIZE - 1 \in leaked
       \/ \A t \in TagIndex : ~IsFree(rename, t)

Newest(reg) ==
  CHOOSE k \in DOMAIN outstanding :
    /\ outstanding[k].reg = reg
    /\ \A j \in k + 1 .. Len(outstanding) : outstanding[j].reg # reg

\* Writers in flight own tags on both sides of the search position.
Straddles ==
  \E j, k \in Owners :
    outstanding[j].tag <= rename.last_rename_pos /\ rename.last_rename_pos < outstanding[k].tag

\* Every writer of the register since the last one was lost owns its tag.
NoneLost(reg) ==
  /\ ~misfreed
  /\ \A t \in leaked : rename.reg_rename[t].rename_tag # reg
  /\ \A k \in DOMAIN outstanding : outstanding[k].reg = reg => outstanding[k].owns

\* The highest index is the newest instance of a register, unless the tags in
\* use lie on both sides of the search position or a writer of that register
\* was lost or not renamed.
LookupNewestUnlessStraddling ==
  \A reg \in Regs :
    NoneLost(reg) /\ check_if_reg_renamed(rename, reg) /\ ~Straddles =>
      get_reg_renamed_tag(rename, reg) = outstanding[Newest(reg)].tag

\* What decode needs of the table, even while no writer at all was lost: a
\* source gets the tag of the newest earlier writer ("Logic to check data
\* dependencies and renamed registers").
LookupNewest ==
  \A reg \in Regs :
    leaked = {} /\ NoneLost(reg) /\ check_if_reg_renamed(rename, reg) =>
      get_reg_renamed_tag(rename, reg) = outstanding[Newest(reg)].tag

=============================================================================
