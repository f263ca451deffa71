--------------------------------- MODULE Isa ---------------------------------
(***************************************************************************)
(* What the out-of-order machine promises: the program runs one            *)
(* instruction at a time, in program order.  The operations are those of   *)
(* the function units (cpu.c) applied to the architectural state.          *)
(***************************************************************************)
EXTENDS Alu

CONSTANTS Programs,           \* the contents of code memory, as functions
          Regs,               \* architectural registers
          DATA_MEMORY_SIZE

\* Index DATA_MEMORY_SIZE is the int behind data_memory (ins_completed): the
\* bound test of mem_stage lets it through.
Address == 0 .. DATA_MEMORY_SIZE

\* Where an instruction that is not a branch taken continues.  NOPs leave the
\* pipeline in decode, so the first instruction from pc on that is not a NOP.
SkipNops(code, pc) ==
  LET rest == {i \in DOMAIN code : i >= get_code_index(pc) /\ code[i].inst_type # NOP}
  IN  IF rest = {} THEN pc
      ELSE CodeBase + 4 * (CHOOSE i \in rest : \A j \in rest : i <= j)

VARIABLES code, machine

Boot(c) == [pc |-> SkipNops(c, CodeBase), regs |-> [r \in Regs |-> 0],
            mem |-> [a \in Address |-> 0], zf |-> INVALID,
            retired |-> 0, halted |-> FALSE]

Taken(in, m) ==
  \/ in.inst_type = BZ  /\ m.zf = VALID
  \/ in.inst_type = BNZ /\ m.zf = INVALID

\* One instruction: operands, result, memory access, next address.
Execute(c, m) ==
  LET in   == c[get_code_index(m.pc)]
      type == in.inst_type
      a    == m.regs[in.rs1]
      b    == IF type \in UsesLiteral \cup {STORE, LOAD, JUMP} THEN in.imm ELSE m.regs[in.rs2]
      addr == a + b
      next == CASE Taken(in, m)  -> m.pc + in.imm
                [] type = JUMP   -> addr
                [] OTHER         -> m.pc + 4
      done == [m EXCEPT !.retired = m.pc, !.pc = SkipNops(c, next)]
  IN  CASE type = HALT        -> [m EXCEPT !.retired = m.pc, !.halted = TRUE]
        [] type \in Stores    -> [done EXCEPT !.mem[addr] = m.regs[in.rd]]
        [] type \in Loads     -> [done EXCEPT !.regs[in.rd] = m.mem[addr]]
        [] type \in MOVC .. EXOR ->
             [done EXCEPT !.regs[in.rd] = Result(type, a, b, 0),
                          !.zf = ZeroFlag(type, a, b, m.zf)]
        [] OTHER              -> done

Init == code \in Programs /\ machine = Boot(code)

Next == /\ ~machine.halted
        /\ machine' = Execute(code, machine)
        /\ UNCHANGED code

Spec == Init /\ [][Next]_<<code, machine>>

=============================================================================
