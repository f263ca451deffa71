------------------------------ MODULE RenameOps ------------------------------
(***************************************************************************)
(* The operations of the register rename table (rob.c) on a value of       *)
(* APEX_RENAME.  rat_rename is never used by the program and left out.     *)
(***************************************************************************)
EXTENDS ApexTypes

CONSTANT RENAME_TABLE_SIZE

ASSUME RenameSizeAssumption == RENAME_TABLE_SIZE \in Nat \ {0, 1}

TagIndex == 0 .. RENAME_TABLE_SIZE - 1

clear_rename_table ==
  [reg_rename |-> [i \in TagIndex |-> [tag_valid |-> INVALID, rename_tag |-> 0]],
   last_rename_pos |-> 0]

init_rename_table == clear_rename_table

\* Faulty: every search starts at the first tag.
SearchStartAtZero(rt) == 0

\* Faulty: off by one, the last tag does not wrap.
SearchStartAtLast(rt) == rt.last_rename_pos

\* Where the search for a free tag starts; it ends at the end of the table.
SearchStart(rt) ==
  IF rt.last_rename_pos < RENAME_TABLE_SIZE - 1 THEN rt.last_rename_pos ELSE 0

IsFree(rt, i) == rt.reg_rename[i].tag_valid = INVALID

can_rename_reg_tag(rt) ==
  \E i \in SearchStart(rt) .. RENAME_TABLE_SIZE - 1 : IsFree(rt, i)

FirstFreeTag(rt) ==
  CHOOSE i \in SearchStart(rt) .. RENAME_TABLE_SIZE - 1 :
    IsFree(rt, i) /\ \A j \in SearchStart(rt) .. i - 1 : ~IsFree(rt, j)

\* The table after rename_desc_reg; the new tag is FirstFreeTag.
rename_desc_reg(rt, reg) ==
  [rt EXCEPT !.reg_rename[FirstFreeTag(rt)] = [tag_valid |-> VALID, rename_tag |-> reg],
             !.last_rename_pos = FirstFreeTag(rt)]

Renames(rt, i, reg) ==
  rt.reg_rename[i].tag_valid = VALID /\ rt.reg_rename[i].rename_tag = reg

check_if_reg_renamed(rt, reg) == \E i \in TagIndex : Renames(rt, i, reg)

\* Faulty: the lowest index wins.
get_reg_renamed_tag_lowest(rt, reg) ==
  CHOOSE i \in TagIndex : Renames(rt, i, reg) /\ \A j \in 0 .. i - 1 : ~Renames(rt, j, reg)

\* The scan runs from the last index down: the highest index wins.
get_reg_renamed_tag(rt, reg) ==
  CHOOSE i \in TagIndex :
    Renames(rt, i, reg) /\ \A j \in i + 1 .. RENAME_TABLE_SIZE - 1 : ~Renames(rt, j, reg)

\* -1 when the physical register is not in use.  A number behind the table (an
\* architectural one, when renaming failed) reads rat_rename, which stays zero.
get_phy_reg_renamed_tag(rt, tag) ==
  IF tag \in TagIndex /\ rt.reg_rename[tag].tag_valid = VALID THEN rt.reg_rename[tag].rename_tag ELSE -1

\* Faulty: the tag is never free again.
ReleaseTagForgotten(rt, tag) == rt

\* Faulty: no register is written as register -1.
ReleaseTagUnnamed(rt, tag) ==
  [rt EXCEPT !.reg_rename[tag] = [tag_valid |-> INVALID, rename_tag |-> -1]]

\* What commit_instruction does to the tag of the instruction that leaves.
ReleaseTag(rt, tag) == [rt EXCEPT !.reg_rename[tag].tag_valid = INVALID]

=============================================================================
