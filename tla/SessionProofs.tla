---------------------------- MODULE SessionProofs -----------------------------
(***************************************************************************)
(* What the parser leaves in code memory is what the file says, for files  *)
(* of every length and whatever the memory held.                           *)
(***************************************************************************)
EXTENDS Session, SequenceTheorems, TLAPS

Fields == {"rd", "rs1", "rs2", "imm"}

\* The memory has an entry for every line; the lines parsed so far are as
\* written, except those that ProgramAsWritten exempts.
Settled(n) ==
  n > 1 /\ (n < Len(text.lines) \/ text.terminated) => LineLoaded(n)

ParseInv ==
  /\ text \in Texts
  /\ current_instruction \in 0 .. Len(text.lines)
  /\ {"op", "arg"} \subseteq DOMAIN tokens /\ DOMAIN tokens.arg = 1 .. 3
  /\ phase = "opening" => current_instruction = 0
  /\ phase \in {"parsing", "prompt", "running"} =>
       /\ DOMAIN code_memory = 0 .. Len(text.lines) - 1
       /\ \A i \in DOMAIN code_memory : DOMAIN code_memory[i] = Fields \cup {"inst_type"}
       /\ \A n \in 1 .. current_instruction : Settled(n)
  /\ phase \in {"prompt", "running"} => current_instruction = Len(text.lines)

\* The parser's layouts take every field that the machine reads from the
\* operand that the assembly language puts it in, and from no other.
LEMMA LayoutsAgree ==
  ASSUME NEW type \in InstTypes, NEW f \in FieldsRead(type)
  PROVE  /\ f \in Fields
         /\ Operand(type, f) \in 1 .. 3
         /\ Operand(type, f) \in DOMAIN Layout[type]
         /\ OperandIndex(type, f) = Operand(type, f)
         /\ Layout[type][Operand(type, f)] = f
<1> DEFINE fields == Layout[type]
           k == Operand(type, f)
<1> USE DEF STORE, STR, LOAD, LDR, MOVC, MOV, ADD, ADDL, SUB, SUBL, MUL, DIV, AND, OR, EXOR,
            BZ, BNZ, JUMP, HALT, NOP
<1>1. /\ f \in Fields /\ k \in 1 .. 3
      /\ k \in DOMAIN fields /\ fields[k] = f
      /\ \A j \in DOMAIN fields : fields[j] = f => j = k
  <2>1. CASE type \in {STORE, LOAD, ADDL, SUBL}
    <3>1. fields = <<"rd", "rs1", "imm">>
      BY <2>1 DEF Layout, InstTypes, TwoSource, Branches
    <3>2. FieldsRead(type) = {"rd", "rs1", "imm"}
      BY <2>1 DEF FieldsRead, Writers, Stores, Loads, OneSource, TwoSource, Branches
    <3> HIDE DEF fields
    <3> QED BY <3>1, <3>2 DEF Operand, Fields
  <2>2. CASE type \in TwoSource
    <3>1. fields = <<"rd", "rs1", "rs2">>
      BY <2>2 DEF Layout, InstTypes, TwoSource, Branches
    <3>2. FieldsRead(type) = {"rd", "rs1", "rs2"}
      BY <2>2 DEF FieldsRead, Writers, Stores, Loads, OneSource, TwoSource, Branches
    <3> HIDE DEF fields
    <3> QED BY <3>1, <3>2 DEF Operand, Fields
  <2>3. CASE type = MOVC
    <3>1. fields = <<"rd", "imm">>
      BY <2>3 DEF Layout, InstTypes, TwoSource, Branches
    <3>2. FieldsRead(type) = {"rd", "imm"}
      BY <2>3 DEF FieldsRead, Writers, Stores, Loads, OneSource, TwoSource, Branches
    <3> HIDE DEF fields
    <3> QED BY <3>1, <3>2 DEF Operand, Fields
  <2>4. CASE type = MOV
    <3>1. fields = <<"rd", "rs1">>
      BY <2>4 DEF Layout, InstTypes, TwoSource, Branches
    <3>2. FieldsRead(type) = {"rd", "rs1"}
      BY <2>4 DEF FieldsRead, Writers, Stores, Loads, OneSource, TwoSource, Branches
    <3> HIDE DEF fields
    <3> QED BY <3>1, <3>2 DEF Operand, Fields
  <2>5. CASE type = JUMP
    <3>1. fields = <<"rs1", "imm">>
      BY <2>5 DEF Layout, InstTypes, TwoSource, Branches
    <3>2. FieldsRead(type) = {"rs1", "imm"}
      BY <2>5 DEF FieldsRead, Writers, Stores, Loads, OneSource, TwoSource, Branches
    <3> HIDE DEF fields
    <3> QED BY <3>1, <3>2 DEF Operand, Fields
  <2>6. CASE type \in Branches
    <3>1. fields = <<"imm">>
      BY <2>6 DEF Layout, InstTypes, TwoSource, Branches
    <3>2. FieldsRead(type) = {"imm"}
      BY <2>6 DEF FieldsRead, Writers, Stores, Loads, OneSource, TwoSource, Branches
    <3> HIDE DEF fields
    <3> QED BY <3>1, <3>2 DEF Operand, Fields
  <2>7. CASE type \in {HALT, NOP}
    BY <2>7 DEF FieldsRead, Writers, Stores, Loads, OneSource, TwoSource, Branches
  <2> QED BY <2>1, <2>2, <2>3, <2>4, <2>5, <2>6, <2>7 DEF InstTypes, TwoSource, Branches
<1> HIDE DEF fields, k
<1>2. (CHOOSE j \in DOMAIN fields : fields[j] = f) = k
  BY <1>1
<1> QED BY <1>1, <1>2 DEF OperandIndex, fields, k

\* An instruction built from the tokens of a complete line is that line.
LEMMA CreateAsWritten ==
  ASSUME NEW ins, DOMAIN ins = Fields \cup {"inst_type"},
         NEW t, {"op", "arg"} \subseteq DOMAIN t, DOMAIN t.arg = 1 .. 3,
         NEW line, Complete(line)
  PROVE  AsWritten(line, create_APEX_instruction(ins, Tokenize(t, line)))
<1> DEFINE found == Tokenize(t, line)
           new == create_APEX_instruction(ins, found)
<1>1. line.op # Unknown /\ line.op # Blank
  BY DEF InstTypes, Unknown, Blank, Complete
<1>2. /\ found.op = line.op
      /\ \A k \in 1 .. 3 : k \in DOMAIN line.args =>
           found.arg[k] = get_num_from_string(line.args[k])
  BY <1>1 DEF Tokenize
<1> HIDE DEF found
<1>3. new = [f \in DOMAIN ins |->
               IF f = "inst_type" THEN line.op
               ELSE IF \E k \in DOMAIN Layout[line.op] : Layout[line.op][k] = f
               THEN found.arg[OperandIndex(line.op, f)]
               ELSE ins[f]]
  BY <1>1, <1>2 DEF create_APEX_instruction
<1>4. new.inst_type = line.op
  BY <1>3
<1>5. ASSUME NEW f \in FieldsRead(line.op)
      PROVE  new[f] = line.args[Operand(line.op, f)].num
  <2> DEFINE k == Operand(line.op, f)
  <2>1. /\ f \in Fields /\ k \in 1 .. 3 /\ k \in DOMAIN Layout[line.op]
        /\ OperandIndex(line.op, f) = k /\ Layout[line.op][k] = f
    BY LayoutsAgree DEF Complete
  <2>2. k \in DOMAIN line.args /\ line.args[k].prefixed
    BY DEF Complete
  <2> HIDE DEF k
  <2>3. new[f] = found.arg[k]
    BY <1>3, <2>1 DEF Fields
  <2> QED BY <1>2, <2>1, <2>2, <2>3 DEF get_num_from_string, k
<1> QED BY <1>4, <1>5 DEF AsWritten, found, new

LEMMA InitParse == Init => ParseInv
  BY SessionAssumption DEF Init, ParseInv, Settled

LEMMA AllocateParse == ASSUME ParseInv, Allocate PROVE ParseInv'
<1>1. UNCHANGED <<text, current_instruction, tokens>> /\ current_instruction = 0
  BY DEF Allocate, ParseInv
<1>2. CASE LinesCounted = 0
  BY <1>1, <1>2 DEF Allocate, ParseInv
<1>3. CASE LinesCounted # 0
  <2>1. PICK g : code_memory' = [i \in 0 .. Len(text.lines) - 1 |->
                   [inst_type |-> g, rd |-> g, rs1 |-> g, rs2 |-> g, imm |-> g]]
    BY <1>3 DEF Allocate, LinesCounted
  <2>2. phase' = "parsing"
    BY <1>3 DEF Allocate
  <2>3. /\ DOMAIN code_memory' = 0 .. Len(text.lines) - 1
        /\ \A i \in DOMAIN code_memory' : DOMAIN code_memory'[i] = Fields \cup {"inst_type"}
    BY <2>1 DEF Fields
  <2> QED BY <1>1, <2>2, <2>3 DEF ParseInv
<1> QED BY <1>2, <1>3

\* A line goes to its own entry; the entries before it stay.
LEMMA ParseLineParse == ASSUME ParseInv, ParseLine PROVE ParseInv'
<1>0. PICK n : n = current_instruction + 1
  OBVIOUS
<1> DEFINE line == text.lines[n]
           last == n < Len(text.lines) \/ text.terminated
<1>1. /\ phase = "parsing" /\ current_instruction < Len(text.lines)
      /\ UNCHANGED <<argc, text, phase, clock, num_cycle, halt_cycle>>
      /\ current_instruction' = n
  BY <1>0 DEF ParseLine
<1>2. PICK found \in TokensFound(line, n = 1, last) :
        /\ tokens' = Tokenize(tokens, found)
        /\ code_memory' = [code_memory EXCEPT ![n - 1] = create_APEX_instruction(@, tokens')]
  BY <1>0 DEF ParseLine
<1>3. Len(text.lines) \in Nat /\ current_instruction \in 0 .. Len(text.lines)
  BY SessionAssumption DEF ParseInv
<1>4. /\ n \in 1 .. Len(text.lines) /\ n - 1 = current_instruction
      /\ n - 1 \in 0 .. Len(text.lines) - 1
  BY <1>0, <1>1, <1>3
<1>5. {"op", "arg"} \subseteq DOMAIN tokens' /\ DOMAIN tokens'.arg = 1 .. 3
  BY <1>2 DEF Tokenize, ParseInv
<1>6. /\ DOMAIN code_memory = 0 .. Len(text.lines) - 1
      /\ \A i \in DOMAIN code_memory : DOMAIN code_memory[i] = Fields \cup {"inst_type"}
      /\ \A j \in 1 .. current_instruction : Settled(j)
  BY <1>1 DEF ParseInv
<1>7. /\ DOMAIN code_memory' = 0 .. Len(text.lines) - 1
      /\ \A i \in DOMAIN code_memory' : DOMAIN code_memory'[i] = Fields \cup {"inst_type"}
  BY <1>2, <1>6 DEF create_APEX_instruction
<1>8. ASSUME NEW j \in 1 .. current_instruction PROVE Settled(j)'
  <2>1. code_memory'[j - 1] = code_memory[j - 1]
    <3>1. j - 1 # n - 1 /\ j - 1 \in 0 .. Len(text.lines) - 1
      BY <1>3, <1>4
    <3> QED BY <1>2, <1>6, <3>1
  <2>2. Settled(j)
    BY <1>6
  <2> QED BY <1>1, <2>1, <2>2 DEF Settled, LineLoaded
<1>9. Settled(n)'
  <2> SUFFICES ASSUME n > 1, last, Complete(line) PROVE AsWritten(line, code_memory'[n - 1])
    BY <1>1 DEF Settled, LineLoaded
  <2>1. found = line
    BY <1>2, <1>4 DEF TokensFound
  <2>2. code_memory'[n - 1] = create_APEX_instruction(code_memory[n - 1], Tokenize(tokens, line))
    BY <1>2, <1>4, <1>6, <2>1
  <2>3. DOMAIN code_memory[n - 1] = Fields \cup {"inst_type"}
    BY <1>4, <1>6
  <2>4. {"op", "arg"} \subseteq DOMAIN tokens /\ DOMAIN tokens.arg = 1 .. 3
    BY DEF ParseInv
  <2> HIDE DEF line
  <2>5. AsWritten(line, create_APEX_instruction(code_memory[n - 1], Tokenize(tokens, line)))
    BY <2>3, <2>4, CreateAsWritten
  <2> QED BY <2>2, <2>5
<1>10. \A j \in 1 .. current_instruction' : Settled(j)'
  <2> SUFFICES ASSUME NEW j \in 1 .. n PROVE Settled(j)'
    BY <1>1
  <2>1. j \in 1 .. current_instruction \/ j = n
    BY <1>0, <1>3
  <2> QED BY <2>1, <1>8, <1>9
<1> QED BY <1>1, <1>4, <1>5, <1>7, <1>10 DEF ParseInv

LEMMA NextParse == ParseInv /\ [Next]_vars => ParseInv'
<1> SUFFICES ASSUME ParseInv, [Next]_vars PROVE ParseInv'
  OBVIOUS
<1>1. CASE Allocate
  BY <1>1, AllocateParse
<1>2. CASE ParseLine
  BY <1>2, ParseLineParse
<1>3. CASE Loaded
  BY <1>3 DEF Loaded, parserVars, ParseInv, Settled, LineLoaded
<1>4. CASE Pause \/ Cycle \/ (\E c \in Commands : Command(c))
  <2>1. /\ UNCHANGED <<text, parserVars>> /\ phase \in {"prompt", "running"}
        /\ phase' \in {"prompt", "running", "ended", "failed"}
    BY <1>4 DEF Pause, Cycle, Command
  <2> QED BY <2>1 DEF parserVars, ParseInv, Settled, LineLoaded
<1>5. CASE UNCHANGED vars
  BY <1>5 DEF vars, parserVars, ParseInv, Settled, LineLoaded
<1> QED BY <1>1, <1>2, <1>3, <1>4, <1>5 DEF Next

\* Whatever the file is, and whatever memory and stack held: before the first
\* cycle the machine's code memory says what the complete lines say.
THEOREM ProgramAsWrittenCorrect == Spec => []ProgramAsWritten
<1>1. ParseInv => ProgramAsWritten
  <2> SUFFICES ASSUME ParseInv, phase \in {"prompt", "running"},
                      NEW n \in DOMAIN text.lines
               PROVE  Settled(n)
    BY DEF ProgramAsWritten, Settled
  <2>1. n \in 1 .. current_instruction
    BY SessionAssumption DEF ParseInv
  <2> QED BY <2>1 DEF ParseInv
<1> QED BY <1>1, InitParse, NextParse, PTL DEF Spec

-----------------------------------------------------------------------------
(***************************************************************************)
(* The ranges of the variables.  The session loop also keeps the array of  *)
(* tokens and the entries of code memory within the numbers that the file, *)
(* the stack and the heap hold.                                            *)
(***************************************************************************)
TokenType == [op : {Blank, Unknown} \cup InstTypes, arg : [1 .. 3 -> Int]]

RangeInv ==
  /\ argc \in 2 .. 4 /\ text \in Texts
  /\ phase \in {"opening", "parsing", "prompt", "running", "ended", "failed"}
  /\ code_memory = <<>> \/ code_memory \in [0 .. Len(text.lines) - 1 -> Entry]
  /\ current_instruction \in 0 .. Len(text.lines)
  /\ tokens \in TokenType
  /\ clock \in 0 .. MaxClock /\ halt_cycle \in 0 .. MaxClock
  /\ phase = "opening" => current_instruction = 0
  /\ phase = "parsing" => code_memory # <<>>

\* A line that strtok finds has a mnemonic and numbers, spoilt or not.
LEMMA FoundIsLine ==
  ASSUME NEW line \in LineType, NEW isFirst, NEW isTerminated,
         NEW found \in TokensFound(line, isFirst, isTerminated)
  PROVE  found \in LineType
<1> USE SessionAssumption
<1>1. /\ DOMAIN line = {"op", "args"}
      /\ line.op \in InstTypes \cup {Blank, Unknown} /\ line.args \in Seq(OperandType)
  BY DEF LineType
<1>2. CASE found = line
  BY <1>2
<1>3. CASE found = [op |-> Blank, args |-> <<>>]
  BY <1>3 DEF LineType
<1>4. CASE found \in Spoilt(line) /\ line.args = <<>>
  <2>1. found = [line EXCEPT !.op = Unknown]
    BY <1>4 DEF Spoilt
  <2> QED BY <1>1, <2>1 DEF LineType
<1>5. CASE found \in Spoilt(line) /\ line.args # <<>>
  <2> DEFINE n == Len(line.args)
  <2>1. PICK g \in Garbage : found = [line EXCEPT !.args[n].num = g]
    BY <1>5 DEF Spoilt
  <2>2. n \in 1 .. Len(line.args)
    BY <1>1, <1>5
  <2>3. [line.args[n] EXCEPT !.num = g] \in OperandType
    <3>1. line.args[n] \in OperandType
      BY <1>1, <2>2
    <3> QED BY <3>1 DEF OperandType
  <2> DEFINE args == [line.args EXCEPT ![n] = [line.args[n] EXCEPT !.num = g]]
  <2>5. args \in Seq(OperandType)
    BY <1>1, <2>2, <2>3, ExceptSeq
  <2>6. found = [op |-> line.op, args |-> args]
    BY <1>1, <2>1 DEF LineType
  <2> QED BY <1>1, <2>5, <2>6 DEF LineType
<1> QED BY <1>2, <1>3, <1>4, <1>5 DEF TokensFound

LEMMA TokenizeType ==
  ASSUME NEW t \in TokenType, NEW line \in LineType
  PROVE  Tokenize(t, line) \in TokenType
<1>1. /\ line.op \in InstTypes \cup {Blank, Unknown} /\ line.args \in Seq(OperandType)
      /\ t.op \in InstTypes \cup {Blank, Unknown} /\ t.arg \in [1 .. 3 -> Int]
  BY DEF LineType, TokenType
<1>2. \A k \in DOMAIN line.args : get_num_from_string(line.args[k]) \in Int
  <2>1. \A k \in DOMAIN line.args : line.args[k] \in OperandType
    BY <1>1
  <2>2. \A a \in OperandType : get_num_from_string(a) \in Int
    BY DEF OperandType, get_num_from_string
  <2> QED BY <2>1, <2>2
<1> QED BY <1>1, <1>2 DEF Tokenize, TokenType

\* An entry keeps its ranges: an operand is taken from one of the three tokens.
LEMMA CreateType ==
  ASSUME NEW ins \in Entry, NEW t \in TokenType
  PROVE  create_APEX_instruction(ins, t) \in Entry
<1> DEFINE type == IF t.op = Unknown THEN NOP ELSE t.op
           takes(f) == \E k \in DOMAIN Layout[type] : Layout[type][k] = f
           new == [f \in DOMAIN ins |->
                     IF f = "inst_type" THEN type
                     ELSE IF takes(f) THEN t.arg[OperandIndex(type, f)] ELSE ins[f]]
<1>1. CASE t.op = Blank
  BY <1>1 DEF create_APEX_instruction
<1>2. CASE t.op # Blank
  <2>1. create_APEX_instruction(ins, t) = new
    BY <1>2 DEF create_APEX_instruction
  <2>2. type \in InstTypes /\ t.arg \in [1 .. 3 -> Int]
    BY <1>2 DEF TokenType, InstTypes, NOP, Blank, Unknown
  <2>3. DOMAIN Layout[type] \subseteq 1 .. 3
    BY <2>2 DEF Layout
  <2>4. \A f : takes(f) => OperandIndex(type, f) \in 1 .. 3
    BY <2>3 DEF OperandIndex
  <2>5. \A f : takes(f) => t.arg[OperandIndex(type, f)] \in Int
    BY <2>2, <2>4
  <2> HIDE DEF type, takes
  <2>6. DOMAIN ins = {"inst_type", "rd", "rs1", "rs2", "imm"}
    BY DEF Entry
  <2>7. /\ ins.rd \in Int /\ ins.rs1 \in Int /\ ins.rs2 \in Int /\ ins.imm \in Int
    BY DEF Entry
  <2>8. /\ new.inst_type \in InstTypes /\ new.rd \in Int /\ new.rs1 \in Int
        /\ new.rs2 \in Int /\ new.imm \in Int
    BY <2>2, <2>5, <2>6, <2>7
  <2>9. new = [inst_type |-> new.inst_type, rd |-> new.rd, rs1 |-> new.rs1,
               rs2 |-> new.rs2, imm |-> new.imm]
    BY <2>6
  <2> HIDE DEF new
  <2> QED BY <2>1, <2>8, <2>9 DEF Entry
<1> QED BY <1>1, <1>2

LEMMA InitRange == Init => RangeInv
<1> SUFFICES ASSUME Init PROVE RangeInv
  OBVIOUS
<1>1. tokens \in TokenType
  BY SessionAssumption DEF Init, TokenType
<1>2. Len(text.lines) \in Nat
  BY SessionAssumption DEF Init
<1> QED BY <1>1, <1>2, SessionAssumption DEF Init, RangeInv

LEMMA NextRange == RangeInv /\ [Next]_vars => RangeInv'
<1> SUFFICES ASSUME RangeInv, [Next]_vars PROVE RangeInv'
  OBVIOUS
<1>0. Len(text.lines) \in Nat /\ text.lines \in Seq(LineType)
  BY SessionAssumption DEF RangeInv
<1>1. CASE Allocate
  <2>1. CASE LinesCounted = 0
    BY <1>1, <2>1 DEF Allocate, RangeInv
  <2>2. CASE LinesCounted # 0
    <3>1. PICK g \in Garbage : code_memory' = [i \in 0 .. Len(text.lines) - 1 |->
                     [inst_type |-> g, rd |-> g, rs1 |-> g, rs2 |-> g, imm |-> g]]
      BY <1>1, <2>2 DEF Allocate, LinesCounted
    <3>2. code_memory' \in [0 .. Len(text.lines) - 1 -> Entry]
      BY <3>1, SessionAssumption DEF Entry
    <3>3. code_memory' # <<>>
      <4>1. 0 \in DOMAIN code_memory'
        BY <1>0, <2>2, <3>1 DEF LinesCounted
      <4> QED BY <4>1
    <3> QED BY <1>1, <2>2, <3>2, <3>3 DEF Allocate, RangeInv
  <2> QED BY <2>1, <2>2
<1>2. CASE ParseLine
  <2> DEFINE n == current_instruction + 1
  <2>1. /\ phase = "parsing" /\ current_instruction < Len(text.lines)
        /\ UNCHANGED <<argc, text, phase, clock, num_cycle, halt_cycle>>
        /\ current_instruction' = n
    BY <1>2 DEF ParseLine
  <2>2. PICK found \in TokensFound(text.lines[n], n = 1, n < Len(text.lines) \/ text.terminated) :
          /\ tokens' = Tokenize(tokens, found)
          /\ code_memory' = [code_memory EXCEPT ![n - 1] = create_APEX_instruction(@, tokens')]
    BY <1>2 DEF ParseLine
  <2>3. /\ n \in 1 .. Len(text.lines) /\ n - 1 \in 0 .. Len(text.lines) - 1
        /\ tokens \in TokenType /\ code_memory \in [0 .. Len(text.lines) - 1 -> Entry]
    BY <1>0, <2>1 DEF RangeInv
  <2>4. text.lines[n] \in LineType
    BY <1>0, <2>3
  <2> HIDE DEF n
  <2>5. tokens' \in TokenType
    BY <2>2, <2>3, <2>4, FoundIsLine, TokenizeType
  <2>6. code_memory' \in [0 .. Len(text.lines) - 1 -> Entry]
    <3>1. create_APEX_instruction(code_memory[n - 1], tokens') \in Entry
      BY <2>3, <2>5, CreateType
    <3> QED BY <2>2, <2>3, <3>1
  <2>7. code_memory' # <<>>
    <3>1. n - 1 \in DOMAIN code_memory'
      BY <2>3, <2>6
    <3> QED BY <3>1
  <2> QED BY <2>1, <2>3, <2>5, <2>6, <2>7 DEF RangeInv
<1>3. CASE Loaded
  <2>1. halt_cycle' \in 0 .. MaxClock
    BY <1>3, SessionAssumption DEF Loaded
  <2> QED BY <1>3, <2>1 DEF Loaded, parserVars, RangeInv
<1>4. CASE \E c \in Commands : Command(c)
  <2>1. /\ UNCHANGED <<argc, text, parserVars, clock, halt_cycle>>
        /\ phase' \in {"prompt", "running", "ended", "failed"}
    BY <1>4 DEF Command
  <2> QED BY <2>1 DEF parserVars, RangeInv
<1>5. CASE Pause
  BY <1>5 DEF Pause, parserVars, RangeInv
<1>6. CASE Cycle
  <2>1. clock' \in 0 .. MaxClock
    BY <1>6, SessionAssumption DEF Cycle, RangeInv
  <2> QED BY <1>6, <2>1 DEF Cycle, parserVars, RangeInv
<1>7. CASE UNCHANGED vars
  BY <1>7 DEF vars, parserVars, RangeInv
<1> QED BY <1>1, <1>2, <1>3, <1>4, <1>5, <1>6, <1>7 DEF Next

\* Whatever the file and the commands are, every variable keeps its range: code
\* memory has one entry for each line, and an entry's type is one of the
\* enumeration or what the heap held.
THEOREM TypeCorrect == Spec => []TypeInv
<1>1. RangeInv => TypeInv
  BY DEF RangeInv, TypeInv, TokenType
<1> QED BY <1>1, InitRange, NextRange, PTL DEF Spec

=============================================================================
