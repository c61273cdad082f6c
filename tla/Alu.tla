-------------------------------- MODULE Alu --------------------------------
(***************************************************************************)
(* The arithmetic and logic unit (gameboy/src/cpu/alu.cpp), as operators.  *)
(* Each takes the flags F, a set of names for the upper half of register   *)
(* F, and the operands, and returns the new value and the new flags: the   *)
(* members of cpu that alu changes.  The code's bit tests are written as   *)
(* the arithmetic they amount to.                                          *)
(***************************************************************************)
EXTENDS Integers

Byte == 0..255
Word == 0..65535
Flag == {"zero", "negative", "half_carry", "carry"}

Bit(v, b) == (v \div 2^b) % 2
Byte8(b) == b[0] + 2 * b[1] + 4 * b[2] + 8 * b[3] + 16 * b[4] + 32 * b[5]
            + 64 * b[6] + 128 * b[7]
signed(v) == IF v < 128 THEN v ELSE v - 256     \* static_cast<int8_t>
word(high, low) == 256 * high + low

Carry(F) == IF "carry" \in F THEN 1 ELSE 0
When(flag, condition) == IF condition THEN {flag} ELSE {}
Zero(v) == When("zero", v = 0)
Result(v, F) == [value |-> v, flags |-> F]

\* full_carry and half_carry at the width of n: 16 and 256, 4096 and 65536.
CarryAt(n, x, y) == (x % n) + (y % n) >= n
BorrowAt(n, x, y) == x % n < y % n

-----------------------------------------------------------------------------
\* Accumulator operations.
Sum(acc, v, c) ==
    LET value == (acc + v + c) % 256
    IN  Result(value, Zero(value)
                      \cup When("half_carry", (acc % 16) + (v % 16) + c > 15)
                      \cup When("carry", acc + v + c > 255))
Difference(acc, v, c) ==
    LET value == (acc - v - c) % 256
    IN  Result(value, {"negative"} \cup Zero(value)
                      \cup When("half_carry", (acc % 16) - (v % 16) - c < 0)
                      \cup When("carry", acc - v - c < 0))

add(F, acc, v) == Sum(acc, v, 0)
add_c(F, acc, v) == Sum(acc, v, Carry(F))
subtract(F, acc, v) == Difference(acc, v, 0)
subtract_c(F, acc, v) == Difference(acc, v, Carry(F))
logical_compare(F, acc, v) == Result(acc, subtract(F, acc, v).flags)

logical_and(F, acc, v) ==
    LET value == Byte8([i \in 0..7 |-> Bit(acc, i) * Bit(v, i)])
    IN  Result(value, {"half_carry"} \cup Zero(value))
logical_or(F, acc, v) ==
    LET value == Byte8([i \in 0..7 |-> IF Bit(acc, i) + Bit(v, i) > 0 THEN 1 ELSE 0])
    IN  Result(value, Zero(value))
logical_xor(F, acc, v) ==
    LET value == Byte8([i \in 0..7 |-> (Bit(acc, i) + Bit(v, i)) % 2])
    IN  Result(value, Zero(value))

complement(F, acc) == Result(255 - acc, F \cup {"negative", "half_carry"})

\* A defect the checks notice: the high digit is compared with 0x99 only.
AdjustAbove9F(F, acc) ==
    LET low == IF "half_carry" \in F \/ acc % 16 > 9 THEN acc + 6 ELSE acc
    IN  low + (IF low > 159 THEN 96 ELSE 0)
\* The two corrections of decimal_adjust after an addition.
AdjustSum(F, acc) ==
    LET low == IF "half_carry" \in F \/ acc % 16 > 9 THEN acc + 6 ELSE acc
    IN  low + (IF "carry" \in F \/ low > 159 THEN 96 ELSE 0)
AdjustDifference(F, acc) ==
    LET low == IF "half_carry" \in F THEN (acc - 6) % 256 ELSE acc
    IN  low - (IF "carry" \in F THEN 96 ELSE 0)
decimal_adjust(F, acc) ==
    LET sum == IF "negative" \in F THEN AdjustDifference(F, acc)
                                   ELSE AdjustSum(F, acc)
    IN  Result(sum % 256, (F \cap {"negative", "carry"}) \cup Zero(sum % 256)
                          \cup When("carry", Bit(sum, 8) = 1))

-----------------------------------------------------------------------------
\* Operations on a register or a byte of memory.
increment(F, v) ==
    LET value == (v + 1) % 256
    IN  Result(value, (F \cap {"carry"}) \cup Zero(value)
                      \cup When("half_carry", CarryAt(16, v, 1)))
decrement(F, v) ==
    LET value == (v - 1) % 256
    IN  Result(value, (F \cap {"carry"}) \cup {"negative"} \cup Zero(value)
                      \cup When("half_carry", BorrowAt(16, v, 1)))

\* A rotation or shift leaves value and moves one bit out into the carry flag.
Shifted(value, out) == Result(value, Zero(value) \cup When("carry", out = 1))

rotate_left(F, v) == Shifted(((2 * v) % 256) + Carry(F), Bit(v, 7))
rotate_right(F, v) == Shifted(v \div 2 + 128 * Carry(F), Bit(v, 0))
rotate_left_c(F, v) == Shifted(((2 * v) % 256) + Bit(v, 7), Bit(v, 7))
rotate_right_c(F, v) == Shifted(v \div 2 + 128 * Bit(v, 0), Bit(v, 0))
shift_left(F, v) == Shifted((2 * v) % 256, Bit(v, 7))
shift_right_arithmetic(F, v) == Shifted(v \div 2 + 128 * Bit(v, 7), Bit(v, 0))
shift_right_logical(F, v) == Shifted(v \div 2, Bit(v, 0))
swap(F, v) == Result(16 * (v % 16) + v \div 16, Zero(v))

\* rotate_..._acc(): the same on the accumulator, without the zero flag.
OnAccumulator(r) == Result(r.value, r.flags \ {"zero"})

test(F, v, b) ==
    (F \cap {"carry"}) \cup {"half_carry"} \cup When("zero", Bit(v, b) = 0)
set(v, b) == IF Bit(v, b) = 1 THEN v ELSE v + 2^b
reset(v, b) == IF Bit(v, b) = 1 THEN v - 2^b ELSE v

-----------------------------------------------------------------------------
\* 16-bit operations.
\* A defect the checks notice: the half carry of the low byte.
add16LowHalf(F, l, r) ==
    Result((l + r) % 65536, (F \cap {"zero"})
                            \cup When("half_carry", CarryAt(16, l, r))
                            \cup When("carry", CarryAt(65536, l, r)))
add16(F, l, r) ==
    Result((l + r) % 65536, (F \cap {"zero"})
                            \cup When("half_carry", CarryAt(4096, l, r))
                            \cup When("carry", CarryAt(65536, l, r)))
increment16(v) == (v + 1) % 65536
decrement16(v) == (v - 1) % 65536

\* Of sp ^ immediate ^ result, the bits 4 and 8 are the carries out of the two
\* digits of the low byte, for a negative immediate as well.
add_to_stack_pointer(sp, immediate) ==
    Result((sp + immediate) % 65536,
           When("half_carry", CarryAt(16, sp, immediate))
           \cup When("carry", CarryAt(256, sp, immediate)))
=============================================================================
