-------------------------- MODULE MC_ReorderBuffer ---------------------------
(***************************************************************************)
(* An instance of ReorderBuffer: three slots, so that the buffer fills and *)
(* both pointers wrap, and more addresses than slots.                      *)
(***************************************************************************)
EXTENDS ReorderBuffer, TLC

\* ADD shares its number with the stage BRANCH; BZ may end taken or not; JUMP
\* never reaches a unit.
MCCode == (4 :> ADD) @@ (8 :> MUL) @@ (12 :> BZ) @@ (16 :> STORE) @@ (20 :> HALT)
          @@ (24 :> JUMP)

MCValues == {7}
=============================================================================
