------------------------------ MODULE ApexTypes ------------------------------
(***************************************************************************)
(* The enumerations of cpu.h.  They stay numbers because the program       *)
(* compares members of different enumerations: update_reorder_buffer_entry *)
(* _data tests an instruction type against the stage number BRANCH, which  *)
(* is the number of the instruction type ADD.                              *)
(***************************************************************************)
EXTENDS Integers

\* The two return codes that are also the values of every flag field.
INVALID == 0
VALID == 1

\* The function-unit stage whose number meets an instruction type.
BRANCH == 7

\* Instruction types; code memory holds 0 where a line has no instruction.
STORE == 1
STR   == 2
LOAD  == 3
LDR   == 4
MOVC  == 5
MOV   == 6
ADD   == 7
ADDL  == 8
SUB   == 9
SUBL  == 10
MUL   == 11
DIV   == 12
AND   == 13
OR    == 14
EXOR  == 15
BZ    == 16
BNZ   == 17
JUMP  == 18
HALT  == 19
NOP   == 20

InstTypes == 1 .. 20

\* The operand classes the switches of cpu.c and ls_iq.c group types by.
Stores    == {STORE, STR}
Loads     == {LOAD, LDR}
MemOps    == Stores \cup Loads
Branches  == {BZ, BNZ}
OneSource == {STORE, LOAD, MOV, ADDL, SUBL, JUMP}
TwoSource == {STR, LDR, ADD, SUB, MUL, DIV, AND, OR, EXOR}
Writers   == Loads \cup (MOVC .. EXOR)

\* Instructions are four bytes apart, the first at address 4000.
CodeBase == 4000
get_code_index(pc) == (pc - CodeBase) \div 4

(***************************************************************************)
(* ROB_SIZE, IQ_SIZE, LSQ_SIZE and RENAME_TABLE_SIZE are constants of the  *)
(* modules that use them, so that a small instance fills up and wraps.     *)
(***************************************************************************)
=============================================================================
