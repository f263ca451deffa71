------------------------------- MODULE Session -------------------------------
(***************************************************************************)
(* A run of the program from its command line to its end: main.c, the      *)
(* start in APEX_cpu_init and create_code_memory, and the loop of          *)
(* APEX_cpu_run around its cycles.  What a cycle does is in Pipeline; here *)
(* the program commits its HALT in some cycle, or never.                   *)
(***************************************************************************)
EXTENDS Parser, FiniteSets

CONSTANTS Texts,      \* input files: lines, and whether the last one is terminated
          Commands,   \* what the user types: func, num_cycle
          MaxClock    \* bound of the clock

OperandType == [num : Int, prefixed : BOOLEAN]
LineType    == [op : InstTypes \cup {Blank, Unknown}, args : Seq(OperandType)]

ASSUME SessionAssumption ==
  /\ Garbage \subseteq Int /\ 0 \in Garbage
  /\ MaxClock \in Nat
  /\ \A t \in Texts : t.lines \in Seq(LineType) /\ t.terminated \in BOOLEAN

VARIABLES
  argc,          \* 2: commands are read until the end, 4: one command
  text,          \* the input file
  phase,         \* opening, parsing, prompt, running, ended (status 0), failed (1)
  code_memory, current_instruction,
  tokens,        \* the array on the stack of create_APEX_instruction
  clock, num_cycle,
  halt_cycle     \* in which cycle HALT commits; 0: never

parserVars == <<code_memory, current_instruction, tokens>>
vars == <<argc, text, phase, parserVars, clock, num_cycle, halt_cycle>>

NoFile == [lines |-> <<>>, terminated |-> TRUE]   \* missing or empty

Init ==
  /\ argc \in 2 .. 4
  /\ text \in Texts
  /\ phase = IF argc = 3 THEN "failed" ELSE "opening"
  /\ code_memory = <<>> /\ current_instruction = 0
  /\ \E g \in Garbage, op \in {Blank, Unknown} : tokens = [op |-> op, arg |-> [k \in 1 .. 3 |-> g]]
  /\ clock = 0 /\ num_cycle = 0 /\ halt_cycle = 0

\* Faulty: a line without its newline is not counted.
NewlinesCounted == Len(text.lines) - (IF text.terminated THEN 0 ELSE 1)

\* What the first pass over the file counts.
LinesCounted == Len(text.lines)

\* The first pass counts the lines; memory for as many entries is allocated and
\* not cleared.  A missing or empty file ends the program.
Allocate ==
  /\ phase = "opening"
  /\ IF LinesCounted = 0 THEN phase' = "failed" /\ UNCHANGED code_memory
     ELSE /\ phase' = "parsing"
          /\ \E g \in Garbage :
               code_memory' = [i \in 0 .. LinesCounted - 1 |->
                                 [inst_type |-> g, rd |-> g, rs1 |-> g, rs2 |-> g, imm |-> g]]
  /\ UNCHANGED <<argc, text, current_instruction, tokens, clock, num_cycle, halt_cycle>>

\* The second pass: one line, one entry.
ParseLine ==
  /\ phase = "parsing" /\ current_instruction < Len(text.lines)
  /\ LET n == current_instruction + 1 IN
       \E found \in TokensFound(text.lines[n], n = 1, n < Len(text.lines) \/ text.terminated) :
         /\ tokens' = Tokenize(tokens, found)
         /\ code_memory' = [code_memory EXCEPT ![n - 1] = create_APEX_instruction(@, tokens')]
         /\ current_instruction' = n
  /\ UNCHANGED <<argc, text, phase, clock, num_cycle, halt_cycle>>

\* Fetch stays where it finds type 0, so only a branch leads to a HALT behind
\* such an entry.
ReachesHalt ==
  \E h \in DOMAIN code_memory :
    /\ code_memory[h].inst_type = HALT
    /\ \/ \A i \in 0 .. h : code_memory[i].inst_type # 0
       \/ \E i \in DOMAIN code_memory : code_memory[i].inst_type \in Branches \cup {JUMP}

Loaded ==
  /\ phase = "parsing" /\ current_instruction = Len(text.lines)
  /\ phase' = "prompt"
  /\ halt_cycle' \in IF ReachesHalt THEN 0 .. MaxClock ELSE {0}
  /\ UNCHANGED <<argc, text, parserVars, clock, num_cycle>>

\* With argc 4 the command comes from the command line, and a bad one ends the
\* program; otherwise the prompt comes again.
Command(c) ==
  /\ phase = "prompt"
  /\ num_cycle' = c.num
  /\ phase' = CASE c.func = "exit" /\ argc = 2                       -> "ended"
                [] c.func \in {"display", "simulate"} /\ c.num > 0  -> "running"
                [] OTHER -> IF argc = 4 THEN "failed" ELSE "prompt"
  /\ UNCHANGED <<argc, text, parserVars, clock, halt_cycle>>

\* Faulty: the limit is tested when the cycle has been counted.
PauseBeforeLast == clock + 1 = num_cycle

\* The limit of the command is compared with the clock of the whole session.
AtLimit == num_cycle > 0 /\ clock = num_cycle

\* APEX_cpu_run returns 0: back to the loop of commands, or to the end.
Pause ==
  /\ phase = "running" /\ AtLimit
  /\ phase' = IF argc = 2 THEN "prompt" ELSE "ended"
  /\ UNCHANGED <<argc, text, parserVars, clock, num_cycle, halt_cycle>>

\* One cycle.  When it commits HALT, APEX_cpu_run returns HALT and main ends.
Cycle ==
  /\ phase = "running" /\ ~AtLimit
  /\ clock < MaxClock
  /\ clock' = clock + 1
  /\ phase' = IF clock' = halt_cycle THEN "ended" ELSE "running"
  /\ UNCHANGED <<argc, text, parserVars, num_cycle, halt_cycle>>

Next == Allocate \/ ParseLine \/ Loaded \/ (\E c \in Commands : Command(c)) \/ Pause \/ Cycle

Spec == Init /\ [][Next]_vars

\* The process runs on by itself; only the user may wait.
FairSpec == Spec /\ WF_vars(Allocate \/ ParseLine \/ Loaded \/ Pause \/ Cycle)
-----------------------------------------------------------------------------
(***************************************************************************)
(* Properties.                                                             *)
(***************************************************************************)
Entry == [inst_type : Garbage \cup InstTypes, rd : Int, rs1 : Int, rs2 : Int, imm : Int]

\* Variables keep their ranges; the memory has an entry for every line.
TypeInv ==
  /\ argc \in 2 .. 4 /\ text \in Texts
  /\ phase \in {"opening", "parsing", "prompt", "running", "ended", "failed"}
  /\ \/ code_memory = <<>>
     \/ /\ DOMAIN code_memory = 0 .. Len(text.lines) - 1
        /\ \A i \in DOMAIN code_memory : code_memory[i] \in Entry
  /\ current_instruction \in 0 .. Len(text.lines)
  /\ tokens.op \in {Blank, Unknown} \cup InstTypes
  /\ clock \in 0 .. MaxClock /\ halt_cycle \in 0 .. MaxClock

\* The fields decode and the units read of an instruction.
FieldsRead(type) ==
  (IF type \in Writers \cup Stores THEN {"rd"} ELSE {})
    \cup (IF type \in OneSource \cup TwoSource THEN {"rs1"} ELSE {})
    \cup (IF type \in TwoSource THEN {"rs2"} ELSE {})
    \cup (IF type \in Branches \cup {MOVC} \cup (OneSource \ {MOV}) THEN {"imm"} ELSE {})

\* The operand of the line that gives a field: the assembly language has rd
\* before rs1 before rs2 before the literal.
Operand(type, f) ==
  LET before(g, others) == IF g \in FieldsRead(type) /\ f \in others THEN 1 ELSE 0
  IN  1 + before("rd", {"rs1", "rs2", "imm"}) + before("rs1", {"rs2", "imm"})
        + before("rs2", {"imm"})

\* A line that says what it means: a known mnemonic and an operand for every field.
Complete(line) ==
  /\ line.op \in InstTypes
  /\ \A f \in FieldsRead(line.op) :
       /\ Operand(line.op, f) \in DOMAIN line.args
       /\ line.args[Operand(line.op, f)].prefixed

AsWritten(line, ins) ==
  /\ ins.inst_type = line.op
  /\ \A f \in FieldsRead(line.op) : ins[f] = line.args[Operand(line.op, f)].num

LineLoaded(n) == Complete(text.lines[n]) => AsWritten(text.lines[n], code_memory[n - 1])

\* Every field the machine reads of an instruction is the one its line gives,
\* at the address of the line, whatever fresh memory holds and whatever blank,
\* short or unknown lines stand before it: the parser's layouts and the
\* operands decode reads agree.  Only the first and an unterminated last line
\* are exempt.
ProgramAsWritten ==
  phase \in {"prompt", "running"} =>
    \A n \in DOMAIN text.lines :
      n > 1 /\ (n < Len(text.lines) \/ text.terminated) => LineLoaded(n)

\* The same without the exemption of the first line.
FirstLineLoaded ==
  phase \in {"prompt", "running"} /\ (Len(text.lines) > 1 \/ text.terminated) => LineLoaded(1)

\* And of the last one, whether or not a newline ends it.
LastLineLoaded ==
  phase \in {"prompt", "running"} /\ Len(text.lines) > 1 => LineLoaded(Len(text.lines))

\* A limit that the session's clock has not passed is reached or HALT comes
\* first: the test for equality is never jumped over, over any number of
\* commands.
LimitReached == (phase = "running" /\ clock <= num_cycle) ~> phase # "running"

\* The same of every limit: a command gives the prompt back, or the program ends.
\* A number that the clock of the session has passed already is never met.
EveryCommandEnds == phase = "running" ~> phase # "running"

\* A command that returns to the prompt has run a cycle.
EveryCommandSteps == [][phase = "running" /\ phase' = "prompt" => clock # num_cycle]_vars

=============================================================================
