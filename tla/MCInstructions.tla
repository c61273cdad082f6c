--------------------------- MODULE MCInstructions ---------------------------
(***************************************************************************)
(* Short programs run by Instructions from boundary values of the          *)
(* registers, each interrupted at most once, between any two instructions, *)
(* by a handler that saves what it uses and returns with RETI.             *)
(***************************************************************************)
EXTENDS Instructions

CONSTANTS
    Digits,     \* decimal digits of the operands of decimal programs
    Bytes,      \* values of the registers of the other programs
    Words       \* operands of the 16-bit programs
\* The operands are anything a digit, a byte and a word can hold.
ASSUME OperandsAssumption == Digits \subseteq 0..9 /\ Bytes \subseteq Byte /\ Words \subseteq Word

VARIABLES
    m,          \* the machine
    start,      \* the machine when the program began
    program,
    served      \* the interrupt has been taken

progvars == <<m, start, program, served>>

Origin == \hC000
Sub == \hC200
Vector == \h50
Data == \hD000
Registers == {"a", "f", "b", "c", "d", "e", "h", "l", "sp"}

\* Memory that holds bytes from origin on, and memory f with that of g around it.
Code(origin, bytes) == [a \in origin..origin + Len(bytes) - 1 |-> bytes[a - origin + 1]]
Over(f, g) == [a \in DOMAIN f \cup DOMAIN g |-> IF a \in DOMAIN f THEN f[a] ELSE g[a]]

\* PUSH AF, PUSH HL, XOR A, SCF, LD L,A, POP HL, POP AF, RETI.
Handler == Code(Vector, <<\hF5, \hE5, \hAF, \h37, \h6F, \hE1, \hF1, \hD9>>)

\* A program: its bytes, the address at which it has ended, the registers (or
\* the flag "carry") that must end as they began.
Program(kind, code, end, keeps) ==
    [kind |-> kind, code |-> Over(code, Handler), end |-> end, keeps |-> keeps]
Straight(kind, bytes, keeps) ==
    Program(kind, Code(Origin, bytes), Origin + Len(bytes), keeps)
Inverse2(bytes, keeps) == Straight("inverse", bytes, keeps)

Decimal == {Straight("decimal", <<op, \h27>>, {"b"}) : op \in {\h80, \h88, \h90, \h98}}
Wide == {Straight("wide", <<\h7D, op, \h6F, \h7C, op + 7, \h67>>, {"b", "c"}) :
            op \in {\h81, \h91}}

\* The rotations of operand r that pair numbers; the second undoes the first.
TurnBack(r, pair) ==
    Inverse2(<<\hCB, 8 * pair[1] + r, \hCB, 8 * pair[2] + r>>,
             (Registers \ {"f"}) \cup pair[3])
Bitwise ==
    {TurnBack(r, pair) :
        r \in 0..7,
        pair \in {<<0, 1, {}>>, <<2, 3, {"carry"}>>, <<6, 6, {}>>}}
    \cup {Inverse2(<<8 * r + 4, 8 * r + 5>>, (Registers \ {"f"}) \cup {"carry"}) :
            r \in 0..7}
    \cup {Inverse2(<<\h2F, \h2F>>, (Registers \ {"f"}) \cup {"carry"})}
Stacked ==
    {Inverse2(<<\hC5 + 16 * r, \hC1 + 16 * r>>, Registers) : r \in 0..3}
    \cup {Inverse2(<<3 + 16 * r, 11 + 16 * r>>, Registers) : r \in 0..3}
    \cup {Inverse2(<<\hE8, e, \hE8, 256 - e>>, Registers \ {"f"}) :
            e \in {1, \h10, \h7F, \hFF}}
    \cup {Inverse2(<<\h08, 0, \hC1, \h31, 0, \hC1, \hE1, \hF9>>,
                   Registers \ {"h", "l"}),
          Inverse2(<<\h2A, \h2B, \h77>>, Registers \ {"a"})}
Called ==
    {Program("inverse", Over(Code(Origin, <<call_op, Sub % 256, Sub \div 256>>),
                             Code(Sub, <<ret_op, \hC9>>)), Origin + 3, Registers) :
        call_op \in {\hCD, \hC4, \hCC, \hD4, \hDC},
        ret_op \in {\hC9, \hC0, \hC8, \hD0, \hD8}}
    \cup {Program("inverse", Over(Code(Origin, <<\hC7 + 8 * n>>), Code(8 * n, <<\hC9>>)),
                  Origin + 1, Registers) : n \in 0..7}
    \cup {Program("inverse", Over(Code(Origin, <<\h18, e>>),
                                  Code(Origin + 2 + signed(e), <<\h18, 256 - e>>)),
                  Origin + 4, Registers) : e \in {4, \h7F, \hF0, \h81}}

\* One instruction, with an operand for those that have one.
Single ==
    {[kind |-> "single", code |-> Code(Origin, <<op, \hC0, \hD0>>), end |-> 0,
      keeps |-> {}] : op \in (0..255) \ (Undefined \cup {\hCB})}
    \cup {[kind |-> "single", code |-> Code(Origin, <<\hCB, op>>), end |-> 0,
           keeps |-> {}] : op \in 0..255}

BCD == {16 * t + u : t, u \in Digits}
Base == [Reset(TRUE) EXCEPT !.pc = Origin, !.sp = \hDF00]

\* Machines about to run code: with decimal operands, with words, or with byte v
\* in the registers and behind HL.
DecimalStart(code, a, b, f) == [Base EXCEPT !.a = a, !.b = b, !.f = f, !.mem = code]
WideStart(code, hl, bc) == [load16(load16(Base, "hl", hl), "bc", bc) EXCEPT !.mem = code]
StartWith(code, v, f) ==
    [Base EXCEPT !.a = v, !.b = v, !.c = v, !.d = 255 - v, !.e = v,
                 !.h = Data \div 256, !.l = v, !.f = f,
                 !.mem = Over(code, Code(Data + v, <<v>>))]

Starts ==
    {<<p, DecimalStart(p.code, a, b, f)>> :
        p \in Decimal, a, b \in BCD, f \in {{}, {"carry"}}}
    \cup {<<p, WideStart(p.code, hl, bc)>> : p \in Wide, hl, bc \in Words}
    \cup {<<p, StartWith(p.code, v, f)>> :
            p \in Bitwise \cup Stacked \cup Called \cup Single, v \in Bytes,
            f \in {{}, {"carry"}, {"zero"}, Flag}}

ProgInit ==
    \E s \in Starts :
        /\ program = s[1]
        /\ start = s[2]
        /\ m = s[2]
        /\ served = FALSE

Ended == IF program.kind = "single" THEN m.cycles > 0 ELSE m.pc = program.end

RunInstruction ==
    /\ ~Ended
    /\ m' = tick(m)
    /\ UNCHANGED <<start, program, served>>
Interrupt ==
    /\ ~Ended
    /\ ~served
    /\ program.kind # "single"
    /\ m' = dispatch(m, Vector)
    /\ served' = TRUE
    /\ UNCHANGED <<start, program>>
Stay == Ended /\ UNCHANGED progvars

ProgNext == RunInstruction \/ Interrupt \/ Stay
ProgSpec == ProgInit /\ [][ProgNext]_progvars

-----------------------------------------------------------------------------
\* DAA after an addition or subtraction of packed decimal numbers leaves the
\* decimal result and its carry, whatever half carries there were, and even if
\* an interrupt saves and restores the flags in between (alu.cpp:292-326,
\* cpu.cpp:1265-1269).
DecimalArithmetic ==
    Ended /\ program.kind = "decimal" =>
        LET decimal(v) == 10 * (v \div 16) + (v % 16)
            op    == program.code[Origin]
            carry == IF y(op) % 2 = 1 THEN Carry(start.f) ELSE 0
            exact == IF y(op) < 2 THEN decimal(start.a) + decimal(start.b) + carry
                                  ELSE decimal(start.a) - decimal(start.b) - carry
        IN  /\ decimal(m.a) = exact % 100
            /\ "carry" \in m.f <=> exact \notin 0..99
            /\ "zero" \in m.f <=> m.a = 0

\* ADD and ADC, or SUB and SBC, over the two bytes of a word compute what one
\* 16-bit operation does: the value, the carry and, for the sum, the half carry
\* of ADD HL,BC (alu.cpp:12-59, 67-117, 243-256).
WideArithmetic ==
    Ended /\ program.kind = "wide" =>
        LET hl == value(start, "hl")
            bc == value(start, "bc")
            sum == add16(start.f, hl, bc)
        IN  IF program.code[Origin + 1] = \h81
            THEN /\ value(m, "hl") = sum.value
                 /\ {"carry", "half_carry"} \cap m.f = sum.flags \ {"zero"}
            ELSE /\ value(m, "hl") = (hl - bc) % 65536
                 /\ "carry" \in m.f <=> hl < bc

\* An instruction and its counterpart cancel out, interrupted or not: PUSH and
\* POP, CALL or RST and RET, with the same or another condition, INC and DEC, a
\* rotation and its opposite, a jump and the jump back, a moved stack pointer.
\* The program continues behind them with the registers and the memory it had
\* (cpu.cpp:2552-2617).
CounterpartsCancel ==
    Ended /\ program.kind = "inverse" =>
        /\ \A r \in program.keeps \cap Registers : m[r] = start[r]
        /\ "carry" \in program.keeps => Carry(m.f) = Carry(start.f)
        /\ \A address \in DOMAIN start.mem : m.mem[address] = start.mem[address]

\* The table of durations leaves each instruction the four cycles that every
\* access it makes takes, and an instruction that stores reports at least
\* eight cycles and stores at most twice, as the unit models assume.  Of two
\* instructions the table is too short: STOP, whose second byte is fetched, and
\* BIT b,(HL), which stores what it read (instruction_info.h:16-562,
\* cpu.cpp:235-241, 1619-1906).
AccessesFitDuration ==
    m.cycles > 0 /\ m.control # "dispatch" =>
        LET stores == {i \in 1..Len(m.accesses) : m.accesses[i][1] = "write"}
            op     == program.code[Origin]
            known  == program.kind = "single"
                      /\ (op = \h10 \/ (op = \hCB /\ program.code[Origin + 1] \in 64..127))
        IN  /\ m.cycles \in {4, 8, 12, 16, 20, 24}
            /\ 4 * Len(m.accesses) > m.cycles => known
            /\ stores # {} => m.cycles >= 8 /\ \E i, j \in stores : stores = {i, j}
=============================================================================
