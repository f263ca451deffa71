----------------------------- MODULE MC_Session ------------------------------
(***************************************************************************)
(* Files of three lines that end with HALT, with and without the last      *)
(* newline: two lines of every layout the parser has, and of every kind    *)
(* that is not as it should be (blank, unknown, short, a blank character   *)
(* behind the comma); and no file.                                         *)
(***************************************************************************)
EXTENDS Session

R(n)  == [num |-> n, prefixed |-> TRUE]
Spaced(n) == [num |-> n, prefixed |-> FALSE]
Line(op, args) == [op |-> op, args |-> args]

Lines == {
  Line(ADD,   <<R(1), R(2), R(4)>>),
  Line(STORE, <<R(4), R(5), R(8)>>),
  Line(MOVC,  <<R(2), R(7)>>),
  Line(MOV,   <<R(6), R(1)>>),
  Line(JUMP,  <<R(5), R(12)>>),
  Line(BZ,    <<R(-4)>>),
  Line(SUB,   <<R(9)>>),
  Line(MOVC,  <<R(8), Spaced(6)>>),
  Line(Unknown, <<>>),
  Line(Blank, <<>>) }

MCTexts ==
  {NoFile} \cup {[lines |-> <<a, b, Line(HALT, <<>>)>>, terminated |-> t] :
                   a \in Lines, b \in Lines, t \in BOOLEAN}

\* Limits that rise, fall and repeat over a session, and what is refused.
MCCommands ==
  {[func |-> "simulate", num |-> n] : n \in 0 .. 2}
    \cup {[func |-> "display", num |-> 2], [func |-> "exit", num |-> 0]}
=============================================================================
