---------------------------- MODULE InOrderRetire ----------------------------
(***************************************************************************)
(* What the reorder buffer promises, without its array and its pointers:   *)
(* a bounded queue of instructions.  Each gets its result once, in any     *)
(* order; they leave one at a time, oldest first, and only with a result   *)
(* that may commit.                                                        *)
(***************************************************************************)
EXTENDS Sequences, ApexTypes

CONSTANTS Capacity,   \* how many instructions the queue holds
          Entries,    \* instructions as they enter: no result yet
          Results     \* what they may compute

VARIABLE window

Init == window = <<>>

Enter ==
  /\ Len(window) < Capacity
  /\ \E e \in Entries : window' = Append(window, e)

\* ok = INVALID is a branch that was not taken: a value, and no permission.
Finish ==
  \E j \in DOMAIN window, v \in Results, ok \in {INVALID, VALID} :
    /\ window[j].valid = INVALID
    /\ window' = [window EXCEPT ![j].value = v, ![j].valid = ok]

Retire ==
  /\ window # <<>>
  /\ Head(window).valid = VALID
  /\ window' = Tail(window)

Next == Enter \/ Finish \/ Retire

Spec == Init /\ [][Next]_window

=============================================================================
