----------------------------- MODULE MC_Pipeline ------------------------------
(***************************************************************************)
(* Programs for the simulator.  A program is deterministic; the breadth of *)
(* a run is its set of programs.                                           *)
(***************************************************************************)
EXTENDS PipelineProperties

In(type, rd, rs1, rs2, imm) ==
  [inst_type |-> type, rd |-> rd, rs1 |-> rs1, rs2 |-> rs2, imm |-> imm]

Program(body) ==
  LET seq == Append(body, In(HALT, 0, 0, 0, 0)) IN [i \in 0 .. Len(seq) - 1 |-> seq[i + 1]]

Nops(n) == [k \in 1 .. n |-> In(NOP, 0, 0, 0, 0)]

\* Behind the code memory: an empty line, or something that looks like code.
MCBeyondCode == {In(0, 0, 0, 0, 0), In(MOVC, 1, 0, 0, 9)}
MCBlank      == {In(0, 0, 0, 0, 0)}

(***************************************************************************)
(* Three register instructions behind a MOVC, over two registers: every    *)
(* dependence, overflow, and a reorder buffer that wraps.                  *)
(***************************************************************************)
Arithmetic ==
  {In(MOVC, 1, 0, 0, 3), In(MOV, 2, 1, 0, 0), In(ADD, 1, 1, 2, 0), In(MUL, 2, 1, 1, 0),
   In(SUB, 1, 2, 1, 0), In(SUBL, 2, 1, 0, 2), In(ADDL, 1, 2, 0, 120), In(OR, 2, 1, 2, 0),
   In(DIV, 2, 1, 2, 0)}

MCArithmetic ==
  {Program(<<In(MOVC, 2, 0, 0, 5)>> \o s) : s \in [1 .. 3 -> Arithmetic]}

(***************************************************************************)
(* Programs that the simulator gets right, for the sizes of rob.h and      *)
(* ls_iq.h: loads and stores of settled registers, branches that are taken *)
(* one instruction or more behind the one that sets the flag, and the      *)
(* repository's own input.asm and test_files/input_test_1.asm.             *)
(***************************************************************************)
Accesses ==
  {In(LOAD, 1, 0, 0, 1), In(LDR, 1, 0, 2, 0), In(STORE, 3, 0, 0, 1), In(STR, 3, 0, 2, 0),
   In(STORE, 1, 0, 0, 2), In(ADD, 3, 3, 2, 0)}

MemoryPrograms ==
  {Program(<<In(MOVC, 2, 0, 0, 1), In(MOVC, 3, 0, 0, 3)>> \o Nops(4) \o s) :
     s \in [1 .. 3 -> Accesses]}

Fillers == {In(MOVC, 3, 0, 0, 4), In(NOP, 0, 0, 0, 0), In(STORE, 1, 0, 0, 1)}

TakenBranches ==
  {Program(<<In(MOVC, 1, 0, 0, x), In(SUBL, 2, 1, 0, 1)>> \o Nops(n) \o
           <<In(IF x = 1 THEN BZ ELSE BNZ, 0, 0, 0, distance), f, g,
             In(ADDL, 4, 1, 0, 2), In(ADD, 4, 4, 4, 0)>>) :
     x \in {1, 2}, n \in {1, 3}, distance \in {8, 12}, f \in Fillers, g \in Fillers}

input_asm ==
  Program(<<In(MOVC, 0, 0, 0, 0), In(MOVC, 3, 0, 0, 3), In(ADD, 4, 0, 3, 0),
            In(MUL, 6, 4, 4, 0), In(STORE, 6, 0, 0, 4), In(SUB, 5, 3, 4, 0),
            In(BZ, 0, 0, 0, 8), In(MOVC, 8, 0, 0, 32), In(ADDL, 11, 5, 0, 4),
            In(SUBL, 10, 0, 0, 8)>>)

input_test_1 ==
  Program(<<In(MOVC, 10, 0, 0, 0), In(MOVC, 15, 0, 0, 44), In(MOVC, 0, 0, 0, 232),
            In(ADD, 6, 0, 15, 0), In(MOVC, 3, 0, 0, 0), In(STORE, 6, 10, 0, 48),
            In(SUB, 5, 6, 15, 0), In(MUL, 5, 6, 3, 0), In(ADD, 10, 15, 3, 0),
            In(MUL, 8, 0, 5, 0), In(MUL, 5, 3, 10, 0), In(LOAD, 3, 10, 0, 4),
            In(OR, 7, 3, 5, 0), In(SUB, 8, 5, 7, 0), In(EXOR, 3, 10, 6, 0),
            In(AND, 9, 5, 10, 0)>>)

\* More writers than tags; the second writer of R1 is decoded while the first,
\* whose operand is late, has yet to compute.
ManyWriters(first) ==
  Program(first \o <<In(MOVC, 1, 0, 0, 2), In(MOVC, 2, 0, 0, 3), In(MUL, 1, 1, 1, 0),
                     In(MUL, 1, 1, 2, 0)>> \o Nops(3) \o <<In(MOVC, 1, 0, 0, 4), In(ADD, 3, 1, 2, 0)>>
                \o [k \in 1 .. 20 |-> In(MOVC, 4 + (k % 12), 0, 0, k)])

P == INSTANCE Parser WITH Garbage <- {0}

\* A program as the parser leaves it in memory that held g: the fields an
\* instruction does not name are g.
Parsed(program, g) ==
  [i \in DOMAIN program |->
     LET ins    == program[i]
         fields == P!Layout[ins.inst_type]
     IN  P!create_APEX_instruction(
           [f \in DOMAIN ins |-> g],
           [op |-> ins.inst_type, arg |-> [k \in DOMAIN fields |-> ins[fields[k]]]])]

\* Memory that malloc took from the system, and memory that was used before.
MCPrograms ==
  MemoryPrograms
    \cup {ManyWriters(<<>>)}
    \cup {Parsed(p, g) : p \in {input_asm, input_test_1} \cup TakenBranches, g \in {0, 1000}}

(***************************************************************************)
(* Programs that overrun queues of two entries.                            *)
(***************************************************************************)
Crowd == {In(LOAD, 1, 0, 0, 1), In(STR, 2, 0, 2, 0), In(MUL, 2, 1, 1, 0),
          In(JUMP, 0, 1, 0, 0), In(EXOR, 1, 2, 1, 0)}

MCOverload == {Program(<<In(MOVC, 2, 0, 0, 1)>> \o s) : s \in [1 .. 4 -> Crowd]}

(***************************************************************************)
(* One program for each disagreement.                                      *)
(***************************************************************************)
MCUntaken == {Program(<<In(MOVC, 1, 0, 0, 2), In(SUBL, 2, 1, 0, 1)>> \o Nops(2)
                      \o <<In(BZ, 0, 0, 0, 8), In(MOVC, 3, 0, 0, 4)>>)}

MCJump == {Program(<<In(MOVC, 1, 0, 0, 100), In(JUMP, 0, 1, 0, 12), In(MOVC, 2, 0, 0, 1)>>)}

\* The load is ready before the store to the same address has its data.
MCLoadPassesStore ==
  {Program(<<In(MOVC, 2, 0, 0, 1), In(MOVC, 3, 0, 0, 3), In(MUL, 3, 3, 3, 0),
             In(MUL, 3, 3, 3, 0), In(STORE, 3, 0, 0, 1), In(LOAD, 1, 0, 0, 1)>>)}

MCNineLoads == {Program([k \in 1 .. 9 |-> In(LOAD, k, 0, 0, 1)])}

\* Each load that a stall loses keeps its tag.
MCManyLoads == {Program([k \in 1 .. 60 |-> In(LOAD, k % 16, 0, 0, 1)])}

(***************************************************************************)
(* One program for each limit of the classes above: in place of MCUntaken  *)
(* in PipelineUntaken.cfg, with the property named, it is violated.        *)
(***************************************************************************)
\* A loop whose second iteration finishes before the first one has
\* committed: EntriesAtWork.
MCLoop ==
  {Program(<<In(MOVC, 1, 0, 0, 5), In(MUL, 3, 1, 1, 0), In(MUL, 3, 3, 3, 0),
             In(MUL, 3, 3, 3, 0), In(ADDL, 4, 1, 0, 1), In(BNZ, 0, 0, 0, -4)>>)}

\* The branch directly behind the instruction that clears the flag: ImplementsIsa.
MCStaleFlag ==
  {Program(<<In(MOVC, 1, 0, 0, 1), In(SUBL, 2, 1, 0, 1), In(BNZ, 0, 0, 0, 12),
             In(MOVC, 3, 0, 0, 4), In(MOVC, 5, 0, 0, 4), In(MOVC, 6, 0, 0, 4)>>)}

\* The store is decoded one cycle before its data register commits: WaitersFed.
MCStoreData ==
  {Program(<<In(MOVC, 2, 0, 0, 1), In(MOVC, 1, 0, 0, 1), In(MOVC, 5, 0, 0, 1),
             In(STORE, 2, 0, 0, 1)>>)}

\* The taken branch clears a writer of R3 from decode; R3 is read at the target:
\* WaitersFed.
MCTakenOverWriter ==
  {Program(<<In(MOVC, 1, 0, 0, 1), In(SUBL, 2, 1, 0, 1)>> \o Nops(1)
           \o <<In(BZ, 0, 0, 0, 8), In(MOVC, 3, 0, 0, 4), In(ADDL, 4, 3, 0, 1)>>)}

\* R1 of the first store and tag 1 of the second one's data are one number:
\* MemoryAtHalt.
MCStoreNumbers ==
  {Program(<<In(MOVC, 2, 0, 0, 1), In(MOVC, 3, 0, 0, 3), In(NOP, 0, 0, 0, 0),
             In(STORE, 1, 0, 0, 2), In(STORE, 3, 0, 0, 1), In(ADD, 3, 3, 2, 0)>>)}

\* The first writer of R1 gets the last tag, the second one tag 0, and R1 is read
\* through the higher of them: ImplementsIsa.
MCStraddle == {ManyWriters([k \in 1 .. 20 |-> In(MOVC, 4 + (k % 12), 0, 0, k)])}

\* rs1 is renamed to tag 0 while register 0 has a writer; rs2 was never written:
\* WaitersFed.
MCDivStatus ==
  {Program(<<In(MOVC, 0, 0, 0, 7), In(NOP, 0, 0, 0, 0), In(DIV, 2, 0, 4, 0)>>)}

=============================================================================
