------------------------------- MODULE Parser --------------------------------
(***************************************************************************)
(* create_APEX_instruction (file_parser.c): from a line of text to an      *)
(* entry of code memory.  A line is its mnemonic, given by the instruction *)
(* type, and its operands; an operand is its number and whether one        *)
(* character (R or #) stands before it, since that character is dropped.   *)
(***************************************************************************)
EXTENDS ApexTypes, Sequences

CONSTANT Garbage    \* what a field of fresh memory may hold

Blank   == 0        \* the line has no token at all
Unknown == -1       \* a mnemonic that is none of the program's

\* A blank behind the comma takes the place of the prefix; atoi then meets a
\* letter.
get_num_from_string(token) == IF token.prefixed THEN token.num ELSE 0

\* The fields an instruction type takes its operands to, in the line's order.
Layout == [type \in InstTypes |->
  CASE type \in {STORE, LOAD, ADDL, SUBL} -> <<"rd", "rs1", "imm">>
    [] type \in TwoSource                 -> <<"rd", "rs1", "rs2">>
    [] type = MOVC                        -> <<"rd", "imm">>
    [] type = MOV                         -> <<"rd", "rs1">>
    [] type = JUMP                        -> <<"rs1", "imm">>
    [] type \in Branches                  -> <<"imm">>
    [] OTHER                              -> <<>>]

(***************************************************************************)
(* What strtok finds.  remove_escape_sequences returns an array of its own *)
(* stack frame, cut at the line end only if there is one.  Bytes behind    *)
(* an unterminated line spoil its last token, and the first call of strtok *)
(* may overwrite the array while the dynamic linker binds it.              *)
(***************************************************************************)
Spoilt(line) ==
  IF line.args = <<>> THEN {[line EXCEPT !.op = Unknown]}
  ELSE {[line EXCEPT !.args[Len(line.args)].num = g] : g \in Garbage}

TokensFound(line, isFirst, isTerminated) ==
  {line} \cup (IF isFirst THEN {[op |-> Blank, args |-> <<>>]} ELSE {})
         \cup (IF isTerminated \/ line.op = Blank THEN {} ELSE Spoilt(line))

\* tokens[] is on the stack and never cleared: what a line does not have is
\* left from the lines before it.
Tokenize(tokens, line) ==
  [op  |-> IF line.op = Blank THEN tokens.op ELSE line.op,
   arg |-> [k \in DOMAIN tokens.arg |->
              IF k \in DOMAIN line.args THEN get_num_from_string(line.args[k])
              ELSE tokens.arg[k]]]

\* Faulty: each operand is taken one token further on.
OperandIndexPlusOne(type, f) ==
  1 + ((CHOOSE k \in DOMAIN Layout[type] : Layout[type][k] = f) % 3)

\* Which token of the line a field is taken from.
OperandIndex(type, f) == CHOOSE k \in DOMAIN Layout[type] : Layout[type][k] = f

\* Fields that the layout does not name keep what the memory held; an unknown
\* mnemonic becomes a NOP in its own place.
create_APEX_instruction(ins, tokens) ==
  LET type == IF tokens.op = Unknown THEN NOP ELSE tokens.op IN
  IF tokens.op = Blank THEN ins
  ELSE [f \in DOMAIN ins |->
          IF f = "inst_type" THEN type
          ELSE IF \E k \in DOMAIN Layout[type] : Layout[type][k] = f
          THEN tokens.arg[OperandIndex(type, f)]
          ELSE ins[f]]

=============================================================================
