--------------------------------- MODULE Alu ---------------------------------
(***************************************************************************)
(* What int_two_stage and mul_three_stage compute, on words of WORD_BITS   *)
(* bits (int has 32).  b is the second operand: a register or the literal. *)
(***************************************************************************)
EXTENDS ApexTypes

CONSTANT WORD_BITS

ASSUME WordAssumption == WORD_BITS \in Nat \ {0}

INT_MAX == 2 ^ (WORD_BITS - 1) - 1
INT_MIN == -INT_MAX - 1
Word    == INT_MIN .. INT_MAX

\* Subtraction and multiplication are not guarded; the build wraps around.
ToWord(x) == ((x - INT_MIN) % 2 ^ WORD_BITS) + INT_MIN

\* Faulty: an addition is not guarded.
OverflowsNever(a, b) == FALSE

Overflows(a, b) == a + b > INT_MAX \/ a + b < INT_MIN

Magnitude(x) == IF x < 0 THEN -x ELSE x

\* C division truncates towards zero.  INT_MIN / -1 wraps here; in C it is
\* undefined and the division traps.  No program of a run divides these two.
Quotient(a, b) ==
  LET q == Magnitude(a) \div Magnitude(b) IN ToWord(IF (a < 0) = (b < 0) THEN q ELSE -q)

BitOf(x, k) == (x \div 2 ^ k) % 2

Bitwise2(op(_, _), a, b) ==
  LET sum[k \in 0 .. WORD_BITS] ==
        IF k = 0 THEN 0
        ELSE sum[k - 1] + op(BitOf(a, k - 1), BitOf(b, k - 1)) * 2 ^ (k - 1)
  IN  ToWord(sum[WORD_BITS])

UsesLiteral == {MOVC, ADDL, SUBL}

\* old is what the latch's rd_value held: an addition that overflows keeps it.
Result(type, a, b, old) ==
  CASE type = MOVC          -> b
    [] type = MOV           -> a
    [] type \in {ADD, ADDL} -> IF Overflows(a, b) THEN old ELSE a + b
    [] type \in {SUB, SUBL} -> ToWord(a - b)
    [] type = MUL           -> ToWord(a * b)
    [] type = DIV           -> IF b = 0 THEN 0 ELSE Quotient(a, b)
    [] type = AND           -> Bitwise2(LAMBDA x, y : x * y, a, b)
    [] type = OR            -> Bitwise2(LAMBDA x, y : x + y - x * y, a, b)
    [] type = EXOR          -> Bitwise2(LAMBDA x, y : (x + y) % 2, a, b)

\* Overflow, carry and division by zero leave the zero flag as it was.
SetsZeroFlag(type, a, b) ==
  \/ type \in {ADD, ADDL} /\ ~Overflows(a, b)
  \/ type \in {SUB, SUBL} /\ b <= a
  \/ type = DIV /\ b # 0
  \/ type = MUL

ZeroFlag(type, a, b, zf) ==
  IF SetsZeroFlag(type, a, b)
  THEN IF Result(type, a, b, 0) = 0 THEN VALID ELSE INVALID
  ELSE zf

=============================================================================
