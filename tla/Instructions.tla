---------------------------- MODULE Instructions ----------------------------
(***************************************************************************)
(* The instruction set: fetch, decode and execution of cpu::tick           *)
(* (gameboy/src/cpu/cpu.cpp:106-121, 230-2657) and the tables of lengths   *)
(* and durations (gameboy/include/gameboy/cpu/instruction_info.h).         *)
(*                                                                         *)
(* A machine m is a record: the registers, the flags f as a set, sp, pc,   *)
(* the memory that has been given a value, and what the last tick did: the *)
(* accesses it made in order, the cycles it reported and the interrupt     *)
(* control operation it called.  HALT, STOP, EI, DI and RETI act on        *)
(* control state that module Cpu describes; here they name the call.  All  *)
(* of memory is plain here: what an address means is left to the units.    *)
(*                                                                         *)
(* The switch over the opcodes is as regular as the opcodes are, and is    *)
(* written by their fields: opcode = 64*x + 8*y + z.                       *)
(***************************************************************************)
EXTENDS Alu, Sequences

\* The operands in the order in which opcodes number them.
Reg8 == <<"b", "c", "d", "e", "h", "l", "(hl)", "a">>
Reg16 == <<"bc", "de", "hl", "sp">>
StackReg == <<"bc", "de", "hl", "af">>

y(op) == (op \div 8) % 8
z(op) == op % 8
reg_y(op) == Reg8[y(op) + 1]
reg_z(op) == Reg8[z(op) + 1]
pair_y(op) == Reg16[y(op) \div 2 + 1]
stack_y(op) == StackReg[y(op) \div 2 + 1]

\* Opcodes the switch has no case for: std::terminate().
Undefined == {\hD3, \hDB, \hDD, \hE3, \hE4, \hEB, \hEC, \hED, \hF4, \hFC, \hFD}

-----------------------------------------------------------------------------
\* instruction_info.h.
Length3 == {\h01, \h11, \h21, \h31, \h08, \hC2, \hC3, \hC4, \hCA, \hCC, \hCD,
            \hD2, \hD4, \hDA, \hDC, \hEA, \hFA}
Length2 == {\h10, \h18, \h20, \h28, \h30, \h38, \hE0, \hE8, \hF0, \hF8}
           \cup {op \in 0..255 : z(op) = 6 /\ (op < 64 \/ op > 191)}
length(op) == IF op \in Length3 THEN 3 ELSE IF op \in Length2 THEN 2 ELSE 1

\* A defect the checks notice: INC (HL) timed without its store.
LowerCyclesShort(op) ==
    IF z(op) \in {1, 2, 3, 6} \/ op \in {\h34, \h35} THEN 8 ELSE 12
LowerCycles(op) ==
    IF op = \h08 THEN 20
    ELSE IF op \in {\h18, \h20, \h28, \h30, \h38, \h34, \h35, \h36}
            \/ (z(op) = 1 /\ y(op) % 2 = 0) THEN 12
    ELSE IF z(op) \in {1, 2, 3, 6} THEN 8 ELSE 4
MiddleCycles(op) ==
    IF op # \h76 /\ (z(op) = 6 \/ op \in \h70..\h77) THEN 8 ELSE 4
UpperCycles(op) ==
    IF op \in {\hC4, \hCC, \hD4, \hDC, \hCD} THEN 24
    ELSE IF op \in {\hC0, \hC8, \hD0, \hD8} THEN 20
    ELSE IF op \in {\hC9, \hD9, \hC2, \hC3, \hCA, \hD2, \hDA, \hE8, \hEA, \hFA}
            \/ z(op) \in {5, 7} THEN 16
    ELSE IF op \in {\hE0, \hF0, \hF8} \/ (z(op) = 1 /\ y(op) % 2 = 0) THEN 12
    ELSE IF op \in {\hE2, \hF2, \hF9} \/ z(op) = 6 THEN 8 ELSE 4
standard_cycle_count(op) ==
    CASE op < 64 -> LowerCycles(op)
      [] op \in 64..191 -> MiddleCycles(op)
      [] OTHER -> UpperCycles(op)
extended_cycle_count(op) ==
    IF z(op) # 6 THEN 8 ELSE IF op \in 64..127 THEN 12 ELSE 16
get_false_branch_cycle_count(op) == IF op < 64 \/ z(op) = 0 THEN 8 ELSE 12

-----------------------------------------------------------------------------
\* Register pairs (register16.h); F is the upper half of a byte.
FlagByte(F) == (IF "zero" \in F THEN 128 ELSE 0)
               + (IF "negative" \in F THEN 64 ELSE 0)
               + (IF "half_carry" \in F THEN 32 ELSE 0)
               + (IF "carry" \in F THEN 16 ELSE 0)
FlagsOf(v) == When("zero", Bit(v, 7) = 1) \cup When("negative", Bit(v, 6) = 1)
              \cup When("half_carry", Bit(v, 5) = 1)
              \cup When("carry", Bit(v, 4) = 1)

value(m, r) ==
    CASE r = "bc" -> word(m.b, m.c) [] r = "de" -> word(m.d, m.e)
      [] r = "hl" -> word(m.h, m.l) [] r = "af" -> word(m.a, FlagByte(m.f))
      [] OTHER -> m[r]
load16(m, r, v) ==
    LET high == v \div 256
        low  == v % 256
    IN  CASE r = "bc" -> [m EXCEPT !.b = high, !.c = low]
          [] r = "de" -> [m EXCEPT !.d = high, !.e = low]
          [] r = "hl" -> [m EXCEPT !.h = high, !.l = low]
          [] r = "af" -> [m EXCEPT !.a = high, !.f = FlagsOf(low)]
          [] OTHER -> [m EXCEPT ![r] = v]

\* Memory.  Reading shows in the list of accesses only.
Peek(m, address) == IF address \in DOMAIN m.mem THEN m.mem[address] ELSE 0
read_data(m, address) == [m EXCEPT !.accesses = Append(@, <<"read", address>>)]
write_data(m, address, v) ==
    [m EXCEPT !.accesses = Append(@, <<"write", address>>),
              !.mem = [a \in DOMAIN @ \cup {address} |->
                          IF a = address THEN v ELSE @[a]]]
read_immediate(m) == [read_data(m, m.pc) EXCEPT !.pc = increment16(@)]

\* An 8-bit operand: its value, the access it costs, and an assignment to it.
Operand(m, r) == IF r = "(hl)" THEN Peek(m, value(m, "hl")) ELSE m[r]
Fetched(m, r) == IF r = "(hl)" THEN read_data(m, value(m, "hl")) ELSE m
load(m, r, v) == IF r = "(hl)" THEN write_data(m, value(m, "hl"), v)
                               ELSE [m EXCEPT ![r] = v]
load_from(m, r, address) == load(read_data(m, address), r, Peek(m, address))

\* r is the result of an ALU operation for operand reg.
Update(m, reg, r) == load([m EXCEPT !.f = r.flags], reg, r.value)
Modify(m, reg, r) == Update(Fetched(m, reg), reg, r)

-----------------------------------------------------------------------------
\* Stack and jumps.
push(m, v) ==
    LET top   == decrement16(m.sp)
        below == decrement16(top)
    IN  [write_data(write_data(m, top, v \div 256), below, v % 256)
            EXCEPT !.sp = below]
\* A defect the checks notice: the bytes are popped in the order of the pushes.
popSwapped(m, r) ==
    LET next == increment16(m.sp)
    IN  [load16(read_data(read_data(m, m.sp), next), r,
                word(Peek(m, m.sp), Peek(m, next))) EXCEPT !.sp = increment16(next)]
pop(m, r) ==
    LET next == increment16(m.sp)
    IN  [load16(read_data(read_data(m, m.sp), next), r,
                word(Peek(m, next), Peek(m, m.sp))) EXCEPT !.sp = increment16(next)]
jump(m, address) == [m EXCEPT !.pc = address]
jump_relative(m, v) == [m EXCEPT !.pc = (@ + signed(v)) % 65536]
call(m, address) == jump(push(m, m.pc), address)
rst(m, address) == jump(push(m, m.pc), address)
ret(m) == pop(m, "pc")
reti(m) == [ret(m) EXCEPT !.control = "reti"]
\* The part of process_interrupts that dispatches.
dispatch(m, vector) == [rst([m EXCEPT !.accesses = <<>>], vector)
                           EXCEPT !.control = "dispatch"]

store16(m, address, v) ==
    write_data(write_data(m, address, v % 256), (address + 1) % 65536, v \div 256)
load_hlsp(m, immediate) ==
    LET r == add_to_stack_pointer(m.sp, immediate)
    IN  [load16(m, "hl", r.value) EXCEPT !.f = r.flags]

\* The condition of a jump, call or return, and the early return without it.
Holds(m, op) ==
    LET flag == IF y(op) % 4 < 2 THEN "zero" ELSE "carry"
    IN  (flag \in m.f) <=> (y(op) % 2 = 1)
Branch(m, op, taken) ==
    IF Holds(m, op) THEN taken
    ELSE [m EXCEPT !.cycles = get_false_branch_cycle_count(op)]

-----------------------------------------------------------------------------
\* Opcodes 0x00 to 0x3F: the columns every row has, then what a row adds.
Columns(m, op, data) ==
    LET reg == reg_y(op)
        rr  == pair_y(op)
    IN  CASE z(op) = 1 /\ y(op) % 2 = 0 -> load16(m, rr, data)
          [] z(op) = 1 /\ y(op) % 2 = 1 ->
               LET r == add16(m.f, value(m, "hl"), value(m, rr))
               IN  [load16(m, "hl", r.value) EXCEPT !.f = r.flags]
          [] z(op) = 3 /\ y(op) % 2 = 0 -> load16(m, rr, increment16(value(m, rr)))
          [] z(op) = 3 /\ y(op) % 2 = 1 -> load16(m, rr, decrement16(value(m, rr)))
          [] z(op) = 4 -> Modify(m, reg, increment(m.f, Operand(m, reg)))
          [] z(op) = 5 -> Modify(m, reg, decrement(m.f, Operand(m, reg)))
          [] z(op) = 6 -> load(m, reg, data)
          [] OTHER -> Branch(m, op, jump_relative(m, data))   \* JR cc

Row_00(m, op, data) ==
    CASE op = \h00 -> m
      [] op = \h02 -> write_data(m, value(m, "bc"), m.a)
      [] op = \h07 -> Update(m, "a", OnAccumulator(rotate_left_c(m.f, m.a)))
      [] op = \h08 -> store16(m, data, m.sp)
      [] op = \h0A -> load_from(m, "a", value(m, "bc"))
      [] op = \h0F -> Update(m, "a", OnAccumulator(rotate_right_c(m.f, m.a)))
      [] OTHER -> Columns(m, op, data)
Row_10(m, op, data) ==
    CASE op = \h10 -> [m EXCEPT !.control = "stop"]
      [] op = \h12 -> write_data(m, value(m, "de"), m.a)
      [] op = \h17 -> Update(m, "a", OnAccumulator(rotate_left(m.f, m.a)))
      [] op = \h18 -> jump_relative(m, data)
      [] op = \h1A -> load_from(m, "a", value(m, "de"))
      [] op = \h1F -> Update(m, "a", OnAccumulator(rotate_right(m.f, m.a)))
      [] OTHER -> Columns(m, op, data)
Row_20(m, op, data) ==
    LET hl == value(m, "hl")
    IN  CASE op = \h22 -> load16(write_data(m, hl, m.a), "hl", increment16(hl))
          [] op = \h27 -> Update(m, "a", decimal_adjust(m.f, m.a))
          [] op = \h2A -> load16(load_from(m, "a", hl), "hl", increment16(hl))
          [] op = \h2F -> Update(m, "a", complement(m.f, m.a))
          [] OTHER -> Columns(m, op, data)
Row_30(m, op, data) ==
    LET hl == value(m, "hl")
        kept == m.f \cap {"zero"}
    IN  CASE op = \h32 -> load16(write_data(m, hl, m.a), "hl", decrement16(hl))
          [] op = \h37 -> [m EXCEPT !.f = kept \cup {"carry"}]
          [] op = \h3A -> load16(load_from(m, "a", hl), "hl", decrement16(hl))
          [] op = \h3F -> [m EXCEPT !.f = kept \cup ({"carry"} \ m.f)]
          [] OTHER -> Columns(m, op, data)

\* Opcodes 0x40 to 0x7F: LD r,r' and HALT.
Load(m, op) == load(Fetched(m, reg_z(op)), reg_y(op), Operand(m, reg_z(op)))
Row_70(m, op) == IF op = \h76 THEN [m EXCEPT !.control = "halt"] ELSE Load(m, op)

\* Opcodes 0x80 to 0xBF, and the same operations on an immediate.
Arithmetic(m, op, v) ==
    CASE y(op) = 0 -> add(m.f, m.a, v)      [] y(op) = 1 -> add_c(m.f, m.a, v)
      [] y(op) = 2 -> subtract(m.f, m.a, v) [] y(op) = 3 -> subtract_c(m.f, m.a, v)
Logic(m, op, v) ==
    CASE y(op) = 4 -> logical_and(m.f, m.a, v)
      [] y(op) = 5 -> logical_xor(m.f, m.a, v)
      [] y(op) = 6 -> logical_or(m.f, m.a, v)
      [] y(op) = 7 -> logical_compare(m.f, m.a, v)
Accumulate(m, op, v) ==
    Update(m, "a", IF y(op) < 4 THEN Arithmetic(m, op, v) ELSE Logic(m, op, v))

\* Opcodes 0xC0 to 0xFF.
Control(m, op, data) ==
    CASE z(op) = 0 -> Branch(m, op, ret(m))
      [] z(op) = 2 -> Branch(m, op, jump(m, data))
      [] z(op) = 4 -> Branch(m, op, call(m, data))
      [] op = \hC3 -> jump(m, data)
      [] op = \hC9 -> ret(m)
      [] op = \hCD -> call(m, data)
      [] op = \hD9 -> reti(m)
      [] z(op) = 1 /\ y(op) % 2 = 0 -> pop(m, stack_y(op))
      [] z(op) = 5 /\ y(op) % 2 = 0 -> push(m, value(m, stack_y(op)))
      [] z(op) = 6 -> Accumulate(m, op, data)
      [] z(op) = 7 -> rst(m, 8 * y(op))
Row_E0(m, op, data) ==
    CASE op = \hE0 -> write_data(m, \hFF00 + data, m.a)
      [] op = \hE2 -> write_data(m, \hFF00 + m.c, m.a)
      [] op = \hE8 -> LET r == add_to_stack_pointer(m.sp, signed(data))
                      IN  [m EXCEPT !.sp = r.value, !.f = r.flags]
      [] op = \hE9 -> jump(m, value(m, "hl"))
      [] op = \hEA -> write_data(m, data, m.a)
      [] OTHER -> Control(m, op, data)
Row_F0(m, op, data) ==
    CASE op = \hF0 -> load_from(m, "a", \hFF00 + data)
      [] op = \hF2 -> load_from(m, "a", \hFF00 + m.c)
      [] op = \hF3 -> [m EXCEPT !.control = "di"]
      [] op = \hF8 -> load_hlsp(m, signed(data))
      [] op = \hF9 -> [m EXCEPT !.sp = value(m, "hl")]
      [] op = \hFA -> load_from(m, "a", data)
      [] op = \hFB -> [m EXCEPT !.control = "ei"]
      [] OTHER -> Control(m, op, data)

\* decode(), first table: the immediate operand is read before the switch.
decode(op, fetched) ==
    LET m    == CASE length(op) = 3 -> read_immediate(read_immediate(fetched))
                  [] length(op) = 2 -> read_immediate(fetched)
                  [] OTHER -> fetched
        low  == Peek(fetched, fetched.pc)
        data == CASE length(op) = 3 ->
                       word(Peek(fetched, increment16(fetched.pc)), low)
                  [] length(op) = 2 -> low
                  [] OTHER -> 0
        timed == [m EXCEPT !.cycles = standard_cycle_count(op)]
    IN  CASE op < 16 -> Row_00(timed, op, data)
          [] op \in 16..31 -> Row_10(timed, op, data)
          [] op \in 32..47 -> Row_20(timed, op, data)
          [] op \in 48..63 -> Row_30(timed, op, data)
          [] op \in 64..111 -> Load(timed, op)
          [] op \in 112..127 -> Row_70(timed, op)
          [] op \in 128..191 ->
               Accumulate(Fetched(timed, reg_z(op)), op, Operand(timed, reg_z(op)))
          [] op \in 192..223 -> Control(timed, op, data)
          [] op \in 224..239 -> Row_E0(timed, op, data)
          [] OTHER -> Row_F0(timed, op, data)

-----------------------------------------------------------------------------
\* decode(), second table, behind the prefix 0xCB.
Rotate(F, v, op) ==
    CASE y(op) = 0 -> rotate_left_c(F, v) [] y(op) = 1 -> rotate_right_c(F, v)
      [] y(op) = 2 -> rotate_left(F, v)   [] y(op) = 3 -> rotate_right(F, v)
Shift(F, v, op) ==
    CASE y(op) = 4 -> shift_left(F, v) [] y(op) = 5 -> shift_right_arithmetic(F, v)
      [] y(op) = 6 -> swap(F, v)       [] y(op) = 7 -> shift_right_logical(F, v)
\* BIT b,(HL) stores the byte it has tested, as the other operations do.
BIT(m, op, v) ==
    LET tested == [Fetched(m, reg_z(op)) EXCEPT !.f = test(@, v, y(op))]
    IN  IF z(op) = 6 THEN load(tested, "(hl)", v) ELSE tested
RES(m, op, v) == load(Fetched(m, reg_z(op)), reg_z(op), reset(v, y(op)))
SET(m, op, v) == load(Fetched(m, reg_z(op)), reg_z(op), set(v, y(op)))
decode_extended(op, fetched) ==
    LET m == [fetched EXCEPT !.cycles = extended_cycle_count(op)]
        v == Operand(m, reg_z(op))
    IN  CASE op < 32 -> Modify(m, reg_z(op), Rotate(m.f, v, op))
          [] op \in 32..63 -> Modify(m, reg_z(op), Shift(m.f, v, op))
          [] op \in 64..127 -> BIT(m, op, v)
          [] op \in 128..191 -> RES(m, op, v)
          [] OTHER -> SET(m, op, v)

\* tick() of a running processor up to the interrupt control, which Cpu has.
tick(m) ==
    LET op  == Peek(m, m.pc)
        one == read_immediate([m EXCEPT !.accesses = <<>>, !.control = "none"])
    IN  IF op = \hCB THEN decode_extended(Peek(one, one.pc), read_immediate(one))
                     ELSE decode(op, one)

\* reset(): the registers a cartridge finds, as one for the CGB or not.
Reset(cgb) ==
    [a |-> IF cgb THEN \h11 ELSE \h01,
     f |-> FlagsOf(IF cgb THEN \h80 ELSE \hB0),
     b |-> 0,                            c |-> IF cgb THEN 0 ELSE \h13,
     d |-> IF cgb THEN \hFF ELSE 0,      e |-> IF cgb THEN \h56 ELSE \hD8,
     h |-> IF cgb THEN 0 ELSE \h01,      l |-> IF cgb THEN \h0D ELSE \h4D,
     sp |-> \hFFFE, pc |-> \h0100, mem |-> <<>>,
     accesses |-> <<>>, cycles |-> 0, control |-> "none"]
=============================================================================
