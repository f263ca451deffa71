--------------------------- MODULE MC_RenameTable ----------------------------
(***************************************************************************)
(* Instances of RenameTable: five tags, a reorder buffer of three writers  *)
(* and two registers, so that the allocation passes the end of the table   *)
(* while both instances of a register are in flight, and so that lost      *)
(* writers can use every tag up.  Register 1 and register 2 are tag        *)
(* numbers too, so an unrenamed writer can release somebody else's tag.    *)
(***************************************************************************)
EXTENDS RenameTable
=============================================================================
