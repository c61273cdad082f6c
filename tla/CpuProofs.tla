----------------------------- MODULE CpuProofs -----------------------------
(***************************************************************************)
(* Proofs about the processor.  First its control, for every set of        *)
(* interrupt sources and instruction lengths, monochrome or colour.  Then  *)
(* its instructions, from every machine and every memory, and the short    *)
(* programs made of them, for all operands and wherever the interrupt that *)
(* each program suffers at most once falls.                                *)
(***************************************************************************)
EXTENDS MCCpu, MCInstructions, TLAPS

\* The states an instruction may leave to EndOfInstruction.
RegsType ==
    [flags : SUBSET Sources, enable : SUBSET Sources, ime : BOOLEAN,
     ei : {-1, 0, 1}, di : {-1, 0, 1}, stopped : BOOLEAN, halted : BOOLEAN,
     key : [prepare : BOOLEAN, double : BOOLEAN], rewind : BOOLEAN]

\* The inductive invariant.
IInv == TypeOK /\ DelayIsOneInstruction /\ NoMissedWakeup

\* A delay that is under way at the end of an instruction was either started by
\* that very instruction or is used up by it; only a running processor counts.
Delayed(r) ==
    /\ r.ei = -1 \/ r.di = -1
    /\ r.halted => r.ei # 1 /\ r.di # 1

LEMMA InitIInv == Init => IInv
<1> SUFFICES ASSUME Init PROVE IInv
  OBVIOUS
<1>1. interrupt_flags \subseteq Sources /\ interrupt_enable \subseteq Sources
  BY Zenon DEF Init
<1>2. /\ interrupt_master_enable \in BOOLEAN
      /\ is_stopped \in BOOLEAN
      /\ is_halted \in BOOLEAN
      /\ rewound \in BOOLEAN
  BY Zenon DEF Init
<1>3. key_1 \in [prepare : BOOLEAN, double : BOOLEAN]
  BY DEF Init
<1>4. TypeOK
  BY <1>1, <1>2, <1>3 DEF Init, TypeOK, Idle, UnhaltDelay, DispatchCycles
<1>5. DelayIsOneInstruction /\ NoMissedWakeup
  BY DEF Init, DelayIsOneInstruction, NoMissedWakeup, Idle
<1> QED
  BY <1>4, <1>5 DEF IInv

\* The state an instruction starts from has the type of the states it may leave.
LEMMA RegsTyped == IInv => Regs \in RegsType /\ Delayed(Regs)
BY DEF IInv, TypeOK, DelayIsOneInstruction, Regs, RegsType, Delayed, Idle

\* What tick() does after the instruction keeps the invariant.
LEMMA EndOfInstructionIInv ==
    ASSUME IInv, NEW r \in RegsType, Delayed(r),
           NEW cycles \in {4, 8, 12, 16, 20, 24},
           EndOfInstruction(r, cycles)
    PROVE  IInv'
<1> DEFINE wait == wait_before_unhalt - cycles
           halted == r.halted /\ ~(wait_before_unhalt > 0 /\ wait <= 0)
<1>1. wait_before_unhalt' \in {0, 4, 8, 12}
  <2>1. wait_before_unhalt \in {0, 4, 8, 12}
    BY DEF IInv, TypeOK, UnhaltDelay
  <2> QED
    BY <2>1 DEF EndOfInstruction
<1>2. /\ is_halted' = halted
      /\ phase' = "process_interrupts"
      /\ extra_cycles' = 0
      /\ interrupt_flags' = r.flags
      /\ interrupt_enable' = r.enable
      /\ is_stopped' = r.stopped
      /\ key_1' = r.key
      /\ rewound' = r.rewind
  BY DEF EndOfInstruction
<1>3. cycle_count' \in 0..44
  <2>1. cycles + extra_cycles \in 0..44
    BY DEF IInv, TypeOK, DispatchCycles
  <2>2. (cycles + extra_cycles) \div 2 \in 0..44
    BY <2>1
  <2>3. \/ cycle_count' = cycles + extra_cycles
        \/ cycle_count' = (cycles + extra_cycles) \div 2
    BY DEF EndOfInstruction
  <2> QED
    BY <2>1, <2>2, <2>3
<1>4. /\ pending_enable' \in {-1, 0}
      /\ pending_disable' \in {-1, 0}
      /\ pending_enable' = -1 \/ pending_disable' = -1
  <2>1. r.ei \in {-1, 0, 1} /\ r.di \in {-1, 0, 1}
    BY DEF RegsType
  <2>2. CASE halted
    BY <2>1, <2>2 DEF EndOfInstruction, Delayed
  <2>3. CASE ~halted
    BY <2>1, <2>3 DEF EndOfInstruction, Countdown, Delayed, Idle
  <2> QED
    BY <2>2, <2>3
<1>5. interrupt_master_enable' \in BOOLEAN
  <2>1. r.ime \in BOOLEAN
    BY DEF RegsType
  <2>2. \/ interrupt_master_enable' = r.ime
        \/ interrupt_master_enable' = ((r.ime \/ r.ei = 0) /\ r.di # 0)
    BY Zenon DEF EndOfInstruction
  <2> QED
    BY <2>1, <2>2, Zenon
<1>6. /\ r.flags \subseteq Sources /\ r.enable \subseteq Sources
      /\ r.stopped \in BOOLEAN /\ r.halted \in BOOLEAN /\ r.rewind \in BOOLEAN
      /\ r.key \in [prepare : BOOLEAN, double : BOOLEAN]
  BY DEF RegsType
<1>7. halted \in BOOLEAN
  OBVIOUS
<1> HIDE DEF halted
<1>8. TypeOK'
  BY <1>1, <1>2, <1>3, <1>4, <1>5, <1>6, <1>7
     DEF TypeOK, UnhaltDelay, DispatchCycles
<1>9. DelayIsOneInstruction'
  BY <1>4 DEF DelayIsOneInstruction, Idle
<1>10. NoMissedWakeup'
  BY <1>2 DEF NoMissedWakeup
<1> QED
  BY <1>8, <1>9, <1>10 DEF IInv

\* Every instruction keeps the invariant.
LEMMA InstructionIInv == IInv /\ Instruction => IInv'
<1> SUFFICES ASSUME IInv, Instruction PROVE IInv'
  OBVIOUS
<1> USE DEF Execute
<1>0. Regs \in RegsType /\ Delayed(Regs)
  BY RegsTyped
<1>a. IInv /\ TypeOK /\ DelayIsOneInstruction
  BY DEF IInv
<1>1. ASSUME NEW cycles \in OrdinaryCycles, Ordinary(cycles) PROVE IInv'
  BY <1>0, <1>1, CyclesAssumption, EndOfInstructionIInv DEF Ordinary
<1>2. CASE EI
  <2> DEFINE r == [Regs EXCEPT !.di = Idle, !.ei = IF @ = Idle THEN 1 ELSE @]
  <2>1. r \in RegsType /\ Delayed(r)
    BY <1>0, <1>2, ZenonT(60) DEF EI, RegsType, Delayed, Regs, Idle
  <2> QED
    BY <1>2, <2>1, EndOfInstructionIInv DEF EI
<1>3. CASE DI
  <2> DEFINE r == [Regs EXCEPT !.ei = Idle, !.di = IF @ = Idle THEN 1 ELSE @]
  <2>1. r \in RegsType /\ Delayed(r)
    BY <1>0, <1>3, ZenonT(60) DEF DI, RegsType, Delayed, Regs, Idle
  <2> QED
    BY <1>3, <2>1, EndOfInstructionIInv DEF DI
<1>4. CASE RETI
  <2> DEFINE r == [Regs EXCEPT !.ei = Idle, !.di = Idle, !.ime = TRUE]
  <2>1. r \in RegsType /\ Delayed(r)
    BY <1>0, <1>4, Zenon DEF RETI, RegsType, Delayed, Regs, Idle
  <2> QED
    BY <1>4, <2>1, EndOfInstructionIInv DEF RETI
<1>5. CASE HALT
  <2> DEFINE r == IF pending_enable # Idle
                  THEN [Regs EXCEPT !.ime = TRUE, !.ei = Idle, !.rewind = TRUE]
                  ELSE IF pending_disable # Idle
                  THEN [Regs EXCEPT !.ime = FALSE, !.di = Idle, !.rewind = TRUE]
                  ELSE [Regs EXCEPT !.halted = TRUE]
  <2>1. r \in RegsType /\ Delayed(r)
    <3>1. CASE pending_enable # Idle
      BY <1>0, <1>a, <3>1, Zenon DEF RegsType, Delayed, Regs, Idle, DelayIsOneInstruction
    <3>2. CASE pending_enable = Idle /\ pending_disable # Idle
      BY <1>0, <1>a, <3>2, ZenonT(60) DEF RegsType, Delayed, Regs, Idle, DelayIsOneInstruction
    <3>3. CASE pending_enable = Idle /\ pending_disable = Idle
      <4>0. r = [Regs EXCEPT !.halted = TRUE]
        BY <3>3
      <4> HIDE DEF r
      <4>1. r \in RegsType /\ r.ei = pending_enable /\ r.di = pending_disable
        BY <1>0, <4>0, Zenon DEF RegsType, Regs
      <4>2. {pending_enable, pending_disable} \subseteq {-1, 0}
            /\ (pending_enable = -1 \/ pending_disable = -1)
        BY <1>a DEF DelayIsOneInstruction, Idle
      <4> QED
        BY <4>1, <4>2 DEF Delayed
    <3> QED
      BY <3>1, <3>2, <3>3
  <2> QED
    BY <1>5, <2>1, EndOfInstructionIInv DEF HALT
<1>6. CASE STOP
  <2> DEFINE r == IF key_1.prepare
                  THEN [Regs EXCEPT !.key = [prepare |-> FALSE,
                                             double  |-> ~key_1.double]]
                  ELSE [Regs EXCEPT !.stopped = TRUE, !.halted = TRUE]
  <2>1. r \in RegsType /\ Delayed(r)
    <3>1. CASE key_1.prepare
      <4>1. [prepare |-> FALSE, double |-> ~key_1.double]
                \in [prepare : BOOLEAN, double : BOOLEAN]
        OBVIOUS
      <4> QED
        BY <1>0, <3>1, <4>1, Zenon DEF RegsType, Delayed, Regs
    <3>2. CASE ~key_1.prepare
      <4>1. r \in RegsType /\ r.ei = pending_enable /\ r.di = pending_disable
        BY <1>0, <3>2, Zenon DEF RegsType, Regs, Idle
      <4>2. {pending_enable, pending_disable} \subseteq {-1, 0}
            /\ (pending_enable = -1 \/ pending_disable = -1)
        BY <1>a DEF DelayIsOneInstruction, Idle
      <4> QED
        BY <4>1, <4>2 DEF Delayed
    <3> QED
      BY <3>1, <3>2
  <2> QED
    BY <1>6, <2>1, EndOfInstructionIInv DEF STOP
<1>7. ASSUME NEW data \in SUBSET Sources, WriteIE(data) \/ WriteIF(data)
      PROVE  IInv'
  <2>1. [Regs EXCEPT !.enable = data] \in RegsType
        /\ Delayed([Regs EXCEPT !.enable = data])
    BY <1>0, <1>7, Zenon DEF WriteIE, WriteIF, RegsType, Delayed, Regs
  <2>2. [Regs EXCEPT !.flags = data] \in RegsType
        /\ Delayed([Regs EXCEPT !.flags = data])
    BY <1>0, <1>7, Zenon DEF WriteIE, WriteIF, RegsType, Delayed, Regs
  <2> QED
    BY <1>7, <2>1, <2>2, EndOfInstructionIInv DEF WriteIE, WriteIF
<1>8. ASSUME NEW prepare \in BOOLEAN, WriteKey1(prepare) PROVE IInv'
  <2> DEFINE r == IF Cgb THEN [Regs EXCEPT !.key = [prepare |-> prepare,
                                                    double  |-> FALSE]]
                  ELSE Regs
  <2>1. r \in RegsType /\ Delayed(r)
    BY <1>0, <1>8, ZenonT(60) DEF WriteKey1, RegsType, Delayed, Regs
  <2> QED
    BY <1>8, <2>1, EndOfInstructionIInv DEF WriteKey1
<1> QED
  BY <1>1, <1>2, <1>3, <1>4, <1>5, <1>6, <1>7, <1>8 DEF Instruction

\* So do the steps the program does not choose.
LEMMA NextIInv == IInv /\ [Next]_vars => IInv'
<1> SUFFICES ASSUME IInv, [Next]_vars PROVE IInv'
  OBVIOUS
<1>0. TypeOK /\ DelayIsOneInstruction /\ NoMissedWakeup
  BY DEF IInv
<1>1. CASE Instruction
  BY <1>1, InstructionIInv
<1>2. CASE HaltedTick
  BY <1>2, RegsTyped, EndOfInstructionIInv DEF HaltedTick
<1>3. CASE NoInterrupt
  BY <1>0, <1>3
     DEF NoInterrupt, IInv, TypeOK, DelayIsOneInstruction, NoMissedWakeup, Pending
<1>4. CASE ServeInterrupt
  <2>1. /\ is_halted' \in BOOLEAN
        /\ is_stopped' \in BOOLEAN
        /\ interrupt_master_enable' \in BOOLEAN
        /\ rewound' \in BOOLEAN
    BY <1>0, <1>4, Zenon DEF ServeInterrupt, TypeOK
  <2>2. /\ interrupt_flags' \subseteq Sources
        /\ extra_cycles' \in {0, DispatchCycles}
    BY <1>0, <1>4 DEF ServeInterrupt, TypeOK
  <2>3. /\ wait_before_unhalt' \in {0, 4, 8, UnhaltDelay}
        /\ is_halted' => wait_before_unhalt' # 0
    BY <1>0, <1>4 DEF ServeInterrupt, TypeOK, UnhaltDelay
  <2>4. /\ UNCHANGED <<interrupt_enable, pending_enable, pending_disable,
                       key_1, cycle_count>>
        /\ phase' = "execute"
    BY <1>4 DEF ServeInterrupt
  <2> QED
    BY <1>0, <2>1, <2>2, <2>3, <2>4
       DEF IInv, TypeOK, DelayIsOneInstruction, NoMissedWakeup
<1>5. ASSUME NEW source \in Sources, RequestInterrupt(source) PROVE IInv'
  <2>1. interrupt_flags' = interrupt_flags \cup {source} /\ UNCHANGED control
    BY <1>5 DEF RequestInterrupt
  <2>2. TypeOK' /\ DelayIsOneInstruction'
    BY <1>0, <2>1 DEF control, TypeOK, DelayIsOneInstruction
  <2>3. NoMissedWakeup'
    <3>1. CASE source = "joypad"
      BY <1>0, <2>1, <3>1 DEF control, NoMissedWakeup, Pending
    <3>2. CASE source # "joypad"
      BY <1>5, <2>1, <3>2 DEF control, RequestInterrupt, NoMissedWakeup
    <3> QED
      BY <3>1, <3>2
  <2> QED
    BY <2>2, <2>3 DEF IInv
<1>6. CASE UNCHANGED vars
  BY <1>0, <1>6
     DEF vars, control, IInv, TypeOK, DelayIsOneInstruction, NoMissedWakeup, Pending
<1> QED
  BY <1>1, <1>2, <1>3, <1>4, <1>5, <1>6 DEF Next, Step

LEMMA Inductive == Spec => []IInv
BY InitIInv, NextIInv, PTL DEF Spec

\* The control members of class cpu keep their ranges (cpu.h:76-95).
THEOREM TypeCorrect == Spec => []TypeOK
<1>1. IInv => TypeOK
  BY DEF IInv
<1> QED
  BY <1>1, Inductive, PTL

\* The effect of EI and DI is delayed by one instruction at most, and the two
\* delays exclude each other (cpu.cpp:135-151).
THEOREM DelayBounded == Spec => []DelayIsOneInstruction
<1>1. IInv => DelayIsOneInstruction
  BY DEF IInv
<1> QED
  BY <1>1, Inductive, PTL

\* HALT loses no wake-up (cpu.cpp:164-198).
THEOREM WakeupKept == Spec => []NoMissedWakeup
<1>1. IInv => NoMissedWakeup
  BY DEF IInv
<1> QED
  BY <1>1, Inductive, PTL

-----------------------------------------------------------------------------
\* The inductive invariant of the handler's shield: while it holds, nothing that
\* could set IME is under way.
Shield ==
    /\ shielded \in BOOLEAN
    /\ shielded => ~interrupt_master_enable /\ pending_enable = Idle

MCInv == IInv /\ Shield

\* An instruction that leaves IME clear, or the DI of the one before in place,
\* and no EI under way, leaves interrupts off.
LEMMA StaysDisabled ==
    ASSUME NEW r, NEW cycles, EndOfInstruction(r, cycles), r.ei = Idle,
           ~r.ime \/ (r.di = 0 /\ pending_disable' = Idle)
    PROVE  ~interrupt_master_enable' /\ pending_enable' = Idle
<1>1. r.ei # 0 /\ Countdown(r.ei) = r.ei /\ 0 # Idle
  BY DEF Idle, Countdown
<1>2. \/ /\ interrupt_master_enable' = r.ime /\ pending_enable' = r.ei
         /\ pending_disable' = r.di
      \/ /\ interrupt_master_enable' = ((r.ime \/ r.ei = 0) /\ r.di # 0)
         /\ pending_enable' = Countdown(r.ei)
  BY Zenon DEF EndOfInstruction
<1> QED
  BY <1>1, <1>2, Zenon

LEMMA InitShield == MCInit => MCInv
BY InitIInv, Zenon DEF MCInit, MCInv, Shield

\* Every step keeps the shield up or is EI, RETI or a dispatch.
LEMMA NextShield == MCInv /\ [MCNext]_mcvars => MCInv'
<1> SUFFICES ASSUME MCInv, [MCNext]_mcvars PROVE MCInv'
  OBVIOUS
<1>0. IInv /\ Shield
  BY DEF MCInv
<1>1. CASE UNCHANGED mcvars
  <2>1. IInv'
    BY <1>0, <1>1, NextIInv DEF mcvars
  <2> QED
    BY <1>0, <1>1, <2>1 DEF mcvars, vars, control, MCInv, Shield
<1>2. CASE MCNext
  <2>1. IInv'
    BY <1>0, <1>2, NextIInv DEF MCNext
  <2>2. shielded' \in BOOLEAN
    <3>1. (pending_enable = Idle) \in BOOLEAN /\ ((shielded \/ DisableArrives) /\ ~EI /\ ~RETI) \in BOOLEAN
      BY Zenon
    <3> QED
      BY <1>2, <3>1, Zenon DEF MCNext, History
  <2>3. ASSUME shielded' PROVE ~interrupt_master_enable' /\ pending_enable' = Idle
    <3>1. CASE Dispatch
      BY <1>2, <2>3, <3>1, Zenon DEF MCNext, History, Dispatch, ServeInterrupt
    <3>2. CASE ~Dispatch
      <4>1. (shielded \/ DisableArrives) /\ ~EI /\ ~RETI
        BY <1>2, <2>3, <3>2, Zenon DEF MCNext, History
      <4>2. /\ pending_enable = Idle
            /\ \/ ~interrupt_master_enable
               \/ pending_disable = 0 /\ pending_disable' = Idle
        <5>1. CASE shielded
          BY <1>0, <5>1, Zenon DEF Shield
        <5>2. CASE DisableArrives
          BY <1>0, <5>2 DEF DisableArrives, IInv, DelayIsOneInstruction, Idle
        <5> QED
          BY <4>1, <5>1, <5>2
      <4>3. CASE \E source \in Sources : RequestInterrupt(source)
        BY <4>2, <4>3 DEF RequestInterrupt, control, Idle
      <4>4. CASE NoInterrupt \/ ServeInterrupt
        BY <3>2, <4>2, <4>4 DEF NoInterrupt, ServeInterrupt, Dispatch, Idle
      <4>5. CASE HaltedTick
        BY <4>2, <4>5, StaysDisabled DEF HaltedTick, Regs
      <4>6. CASE Instruction
        <5> USE DEF Execute
        <5>1. ASSUME NEW cycles \in OrdinaryCycles, Ordinary(cycles)
              PROVE  ~interrupt_master_enable' /\ pending_enable' = Idle
          BY <4>2, <5>1, StaysDisabled DEF Ordinary, Regs
        <5>2. CASE DI
          <6> DEFINE r == [Regs EXCEPT !.ei = Idle, !.di = IF @ = Idle THEN 1 ELSE @]
          <6>1. r.ei = Idle /\ (~r.ime \/ (r.di = 0 /\ pending_disable' = Idle))
            BY <4>2 DEF Regs, Idle
          <6>2. EndOfInstruction(r, 4)
            BY <5>2 DEF DI
          <6> HIDE DEF r
          <6> QED
            BY <6>1, <6>2, StaysDisabled
        <5>3. CASE HALT
          <6> DEFINE r == IF pending_enable # Idle
                          THEN [Regs EXCEPT !.ime = TRUE, !.ei = Idle, !.rewind = TRUE]
                          ELSE IF pending_disable # Idle
                          THEN [Regs EXCEPT !.ime = FALSE, !.di = Idle, !.rewind = TRUE]
                          ELSE [Regs EXCEPT !.halted = TRUE]
          <6>1. r.ei = Idle /\ (~r.ime \/ (r.di = 0 /\ pending_disable' = Idle))
            BY <4>2 DEF Regs, Idle
          <6> QED
            BY <5>3, <6>1, StaysDisabled, Zenon DEF HALT
        <5>4. CASE STOP
          <6> DEFINE r == IF key_1.prepare
                          THEN [Regs EXCEPT !.key = [prepare |-> FALSE,
                                                     double  |-> ~key_1.double]]
                          ELSE [Regs EXCEPT !.stopped = TRUE, !.halted = TRUE]
          <6>1. r.ei = Idle /\ (~r.ime \/ (r.di = 0 /\ pending_disable' = Idle))
            BY <4>2 DEF Regs, Idle
          <6> QED
            BY <5>4, <6>1, StaysDisabled, Zenon DEF STOP
        <5>5. ASSUME NEW data \in SUBSET Sources, WriteIE(data) \/ WriteIF(data)
              PROVE  ~interrupt_master_enable' /\ pending_enable' = Idle
          BY <4>2, <5>5, StaysDisabled DEF WriteIE, WriteIF, Regs
        <5>6. ASSUME NEW prepare \in BOOLEAN, WriteKey1(prepare)
              PROVE  ~interrupt_master_enable' /\ pending_enable' = Idle
          BY <4>2, <5>6, StaysDisabled DEF WriteKey1, Regs
        <5> QED
          BY <4>1, <4>6, <5>1, <5>2, <5>3, <5>4, <5>5, <5>6 DEF Instruction
      <4> QED
        BY <1>2, <4>3, <4>4, <4>5, <4>6 DEF MCNext, Next, Step
    <3> QED
      BY <3>1, <3>2
  <2> QED
    BY <2>1, <2>2, <2>3 DEF MCInv, Shield
<1> QED
  BY <1>1, <1>2

\* Once a dispatch or a DI has switched interrupts off, none is dispatched before
\* EI or RETI (cpu.cpp:135-151, 191-196): after a dispatch as long as no EI was
\* pending at it, else the first instruction of the handler turns IME on.
THEOREM HandlerUninterrupted == MCSpec => HandlerShielded
<1>1. MCInv /\ [MCNext]_mcvars => [Dispatch => ~shielded]_mcvars
  BY DEF MCInv, Shield, Dispatch
<1> QED
  BY <1>1, InitShield, NextShield, PTL DEF MCSpec, HandlerShielded

-----------------------------------------------------------------------------
(* THE ARITHMETIC AND LOGIC UNIT: what an operation returns is a byte or a word and flags. *)

LEMMA Interval == ASSUME NEW n \in Int PROVE \A l : l \in 0..n <=> l \in Int /\ 0 <= l /\ l <= n
  BY SMT
LEMMA IsWord == \A l : l \in Word <=> l \in Int /\ 0 <= l /\ l <= 65535
<1> DEFINE n == 65535
<1>1. Word = 0..n
  BY DEF Word
<1>2. n = 65535
  OBVIOUS
<1>4. n \in Int
  OBVIOUS
<1> HIDE DEF n
<1>3. \A l : l \in Word <=> l \in Int /\ 0 <= l /\ l <= n
  BY <1>1, <1>4, Interval
<1> QED
  BY <1>2, <1>3
LEMMA IsByte == \A l : l \in Byte <=> l \in Int /\ 0 <= l /\ l <= 255
<1> DEFINE n == 255
<1>1. Byte = 0..n
  BY DEF Byte
<1>2. n = 255
  OBVIOUS
<1>4. n \in Int
  OBVIOUS
<1> HIDE DEF n
<1>3. \A l : l \in Byte <=> l \in Int /\ 0 <= l /\ l <= n
  BY <1>1, <1>4, Interval
<1> QED
  BY <1>2, <1>3

LEMMA PowerOfBit == ASSUME NEW b \in 0..7 PROVE 2^b \in {1,2,4,8,16,32,64,128}
<1>1. ASSUME b = 0 PROVE 2^b = 1
  <2>1. 2^0 = 1
    OBVIOUS
  <2> QED
    BY <2>1, <1>1, Zenon
<1>2. ASSUME b = 1 PROVE 2^b = 2
  <2>1. 2^1 = 2
    OBVIOUS
  <2> QED
    BY <2>1, <1>2, Zenon
<1>3. ASSUME b = 2 PROVE 2^b = 4
  <2>1. 2^2 = 4
    OBVIOUS
  <2> QED
    BY <2>1, <1>3, Zenon
<1>4. ASSUME b = 3 PROVE 2^b = 8
  <2>1. 2^3 = 8
    OBVIOUS
  <2> QED
    BY <2>1, <1>4, Zenon
<1>5. ASSUME b = 4 PROVE 2^b = 16
  <2>1. 2^4 = 16
    OBVIOUS
  <2> QED
    BY <2>1, <1>5, Zenon
<1>6. ASSUME b = 5 PROVE 2^b = 32
  <2>1. 2^5 = 32
    OBVIOUS
  <2> QED
    BY <2>1, <1>6, Zenon
<1>7. ASSUME b = 6 PROVE 2^b = 64
  <2>1. 2^6 = 64
    OBVIOUS
  <2> QED
    BY <2>1, <1>7, Zenon
<1>8. ASSUME b = 7 PROVE 2^b = 128
  <2>1. 2^7 = 128
    OBVIOUS
  <2> QED
    BY <2>1, <1>8, Zenon
<1>9. b = 0 \/ b = 1 \/ b = 2 \/ b = 3 \/ b = 4 \/ b = 5 \/ b = 6 \/ b = 7
  OBVIOUS
<1> QED
  BY <1>1, <1>2, <1>3, <1>4, <1>5, <1>6, <1>7, <1>8, <1>9

AluResult == [value : Byte, flags : SUBSET Flag]

LEMMA BitRange == ASSUME NEW v \in Int, NEW b \in 0..8 PROVE Bit(v, b) \in {0, 1}
<1>1. b = 0 \/ b = 1 \/ b = 2 \/ b = 3 \/ b = 4 \/ b = 5 \/ b = 6 \/ b = 7 \/ b = 8
  OBVIOUS
<1> QED
  BY <1>1 DEF Bit

LEMMA ByteOfBits ==
    ASSUME NEW b, \A i \in 0..7 : b[i] \in {0, 1}
    PROVE  Byte8(b) \in Byte
<1>1. /\ b[0] \in 0..1 /\ b[1] \in 0..1 /\ b[2] \in 0..1 /\ b[3] \in 0..1
      /\ b[4] \in 0..1 /\ b[5] \in 0..1 /\ b[6] \in 0..1 /\ b[7] \in 0..1
  OBVIOUS
<1>2. \A s, t, u, v \in 0..1 : s + 2 * t + 4 * u + 8 * v \in 0..15
  OBVIOUS
<1>3. /\ b[0] + 2 * b[1] + 4 * b[2] + 8 * b[3] \in 0..15
      /\ b[4] + 2 * b[5] + 4 * b[6] + 8 * b[7] \in 0..15
  BY <1>1, <1>2
<1>4. Byte8(b) = (b[0] + 2 * b[1] + 4 * b[2] + 8 * b[3])
                 + 16 * (b[4] + 2 * b[5] + 4 * b[6] + 8 * b[7])
  BY <1>1 DEF Byte8
<1> QED
  BY <1>3, <1>4, IsByte

LEMMA ResultType ==
    ASSUME NEW v \in Byte, NEW F \in SUBSET Flag
    PROVE  /\ Result(v, F) \in AluResult
           /\ Result(v, F).value = v /\ Result(v, F).flags = F
  BY DEF Result, AluResult

LEMMA WhenType ==
    ASSUME NEW flag \in Flag, NEW c PROVE When(flag, c) \in SUBSET Flag
  BY DEF When

LEMMA Sums ==
    ASSUME NEW F \in SUBSET Flag, NEW acc \in Byte, NEW v \in Byte
    PROVE  /\ add(F, acc, v) \in AluResult /\ add_c(F, acc, v) \in AluResult
           /\ subtract(F, acc, v) \in AluResult /\ subtract_c(F, acc, v) \in AluResult
           /\ logical_compare(F, acc, v) \in AluResult
<1>1. Carry(F) \in {0, 1}
  BY DEF Carry
<1>2. ASSUME NEW c \in {0, 1} PROVE Sum(acc, v, c) \in AluResult
  BY IsByte, WhenType, ResultType DEF Sum, When, Zero, Flag, Result, AluResult
<1>3. ASSUME NEW c \in {0, 1} PROVE Difference(acc, v, c) \in AluResult
  BY IsByte, WhenType, ResultType DEF Difference, When, Zero, Flag, Result, AluResult
<1> QED
  BY <1>1, <1>2, <1>3 DEF add, add_c, subtract, subtract_c, logical_compare, Result, AluResult

LEMMA Logicals ==
    ASSUME NEW F \in SUBSET Flag, NEW acc \in Byte, NEW v \in Byte
    PROVE  /\ logical_and(F, acc, v) \in AluResult
           /\ logical_or(F, acc, v) \in AluResult
           /\ logical_xor(F, acc, v) \in AluResult
           /\ complement(F, acc) \in AluResult
<1>1. \A i \in 0..7 : Bit(acc, i) \in {0, 1} /\ Bit(v, i) \in {0, 1}
  BY IsByte, BitRange
<1>2. Byte8([i \in 0..7 |-> Bit(acc, i) * Bit(v, i)]) \in Byte
  <2> DEFINE b == [i \in 0..7 |-> Bit(acc, i) * Bit(v, i)]
  <2>1. ASSUME NEW i \in 0..7 PROVE b[i] \in {0, 1}
    <3>1. b[i] = Bit(acc, i) * Bit(v, i)
      OBVIOUS
    <3>2. \A p, q \in {0, 1} : p * q \in {0, 1}
      OBVIOUS
    <3> QED
      BY <3>1, <3>2, <1>1
  <2> HIDE DEF b
  <2> QED
    BY <2>1, ByteOfBits DEF b
<1>3. Byte8([i \in 0..7 |-> IF Bit(acc, i) + Bit(v, i) > 0 THEN 1 ELSE 0]) \in Byte
  BY ByteOfBits
<1>4. Byte8([i \in 0..7 |-> (Bit(acc, i) + Bit(v, i)) % 2]) \in Byte
  <2> DEFINE b == [i \in 0..7 |-> (Bit(acc, i) + Bit(v, i)) % 2]
  <2>1. ASSUME NEW i \in 0..7 PROVE b[i] \in {0, 1}
    BY <1>1
  <2> HIDE DEF b
  <2> QED
    BY <2>1, ByteOfBits DEF b
<1>5. ASSUME NEW w \in Byte, NEW G \in SUBSET Flag
      PROVE  Result(w, G \cup Zero(w)) \in AluResult
  BY DEF Result, AluResult, Zero, When, Flag
<1>6. logical_and(F, acc, v) \in AluResult
  BY <1>2, <1>5, Zenon DEF logical_and, Flag
<1>7. ASSUME NEW w \in Byte PROVE Result(w, Zero(w)) \in AluResult
  BY DEF Result, AluResult, Zero, When, Flag
<1>8. logical_or(F, acc, v) \in AluResult
  BY <1>3, <1>7 DEF logical_or
<1>9. logical_xor(F, acc, v) \in AluResult
  BY <1>4, <1>7 DEF logical_xor
<1>10. complement(F, acc) \in AluResult
  BY IsByte DEF complement, Result, AluResult, Flag
<1> QED
  BY <1>6, <1>8, <1>9, <1>10

LEMMA Counts ==
    ASSUME NEW F \in SUBSET Flag, NEW v \in Byte
    PROVE  /\ increment(F, v) \in AluResult /\ decrement(F, v) \in AluResult
           /\ decimal_adjust(F, v) \in AluResult
<1>1. increment(F, v) \in AluResult /\ decrement(F, v) \in AluResult
  BY IsByte DEF increment, decrement, Result, AluResult, Zero, When, Flag
<1>2. AdjustSum(F, v) \in Int /\ AdjustDifference(F, v) \in Int
  BY IsByte DEF AdjustSum, AdjustDifference
<1> QED
  BY IsByte, <1>1, <1>2 DEF decimal_adjust, Result, AluResult, Zero, When, Flag

LEMMA Rotations ==
    ASSUME NEW F \in SUBSET Flag, NEW v \in Byte
    PROVE  /\ rotate_left(F, v) \in AluResult /\ rotate_right(F, v) \in AluResult
           /\ rotate_left_c(F, v) \in AluResult /\ rotate_right_c(F, v) \in AluResult
           /\ shift_left(F, v) \in AluResult
           /\ shift_right_arithmetic(F, v) \in AluResult
           /\ shift_right_logical(F, v) \in AluResult
           /\ swap(F, v) \in AluResult
<1>1. ASSUME NEW w \in Byte, NEW out PROVE Shifted(w, out) \in AluResult
  BY IsByte DEF Shifted, Result, AluResult, Zero, When, Flag
<1>2. Carry(F) \in {0, 1}
  BY DEF Carry
<1>3. /\ ((2 * v) % 256) + Carry(F) \in Byte
      /\ v \div 2 + 128 * Carry(F) \in Byte
      /\ (2 * v) % 256 \in Byte
      /\ v \div 2 \in Byte
      /\ 16 * (v % 16) + v \div 16 \in Byte
  BY IsByte, <1>2
<1>4. /\ ((2 * v) % 256) + Bit(v, 7) \in Byte
      /\ v \div 2 + 128 * Bit(v, 0) \in Byte
      /\ v \div 2 + 128 * Bit(v, 7) \in Byte
  BY IsByte, BitRange, <1>3
<1>5. swap(F, v) \in AluResult
  BY IsByte, <1>3 DEF swap, Result, AluResult, Zero, When, Flag
<1> QED
  BY <1>1, <1>3, <1>4, <1>5
     DEF rotate_left, rotate_right, rotate_left_c, rotate_right_c, shift_left,
         shift_right_arithmetic, shift_right_logical

LEMMA AccumulatorForms ==
    ASSUME NEW r \in AluResult PROVE OnAccumulator(r) \in AluResult
  BY DEF OnAccumulator, AluResult, Result

LEMMA SingleBits ==
    ASSUME NEW v \in Byte, NEW b \in 0..7
    PROVE  set(v, b) \in Byte /\ reset(v, b) \in Byte
<1>1. \A n \in {1, 2, 4, 8, 16, 32, 64, 128} :
         /\ (v \div n) % 2 = 1 => v - n \in Byte
         /\ (v \div n) % 2 # 1 => v + n \in Byte
  BY IsByte
<1>2. 2^b \in {1, 2, 4, 8, 16, 32, 64, 128}
  BY PowerOfBit, Zenon
<1> QED
  BY <1>1, <1>2 DEF set, reset, Bit

LEMMA TestedFlags ==
    ASSUME NEW F \in SUBSET Flag, NEW v \in Byte, NEW b
    PROVE  test(F, v, b) \in SUBSET Flag
  BY DEF test, When, Flag

WordResult == [value : Word, flags : SUBSET Flag]
LEMMA Words16 ==
    ASSUME NEW F \in SUBSET Flag, NEW l \in Word, NEW r \in Word, NEW n \in Int
    PROVE  /\ add16(F, l, r) \in WordResult
           /\ add_to_stack_pointer(l, n) \in WordResult
           /\ increment16(l) \in Word /\ decrement16(l) \in Word
           /\ l \div 256 \in Byte /\ l % 256 \in Byte
<1>1. add16(F, l, r) \in WordResult
  BY IsWord DEF add16, WordResult, Result, When, Flag
<1>2. add_to_stack_pointer(l, n) \in WordResult
  BY IsWord DEF add_to_stack_pointer, WordResult, Result, When, Flag
<1>3. increment16(l) \in Word /\ decrement16(l) \in Word
  BY IsWord DEF increment16, decrement16
<1>4. l \div 256 \in Byte /\ l % 256 \in Byte
  BY IsByte, IsWord
<1> QED
  BY <1>1, <1>2, <1>3, <1>4

-----------------------------------------------------------------------------
(* MACHINES: what a helper of an instruction reads, stores and keeps. *)

Fields == {"a", "f", "b", "c", "d", "e", "h", "l", "sp", "pc", "mem", "accesses",
           "cycles", "control"}
Half == {"a", "b", "c", "d", "e", "h", "l"}
Controls == {"none", "halt", "stop", "ei", "di", "reti", "dispatch"}
Access == {"read", "write"} \X Word

Machine(q) ==
    /\ q = [x \in Fields |-> q[x]]
    /\ \A r \in Half : q[r] \in Byte
    /\ q.f \in SUBSET Flag
    /\ q.sp \in Word /\ q.pc \in Word
    /\ q.mem = [a \in DOMAIN q.mem |-> q.mem[a]]
    /\ \A a \in DOMAIN q.mem : q.mem[a] \in Byte
    /\ q.accesses \in Seq(Access)
    /\ q.cycles \in Nat
    /\ q.control \in Controls

\* n is q but for the fields of S.
Keeps(n, q, S) == \A x \in Fields \ S : n[x] = q[x]

\* n reads and then w writes.
Accessed(q, n, w) ==
    /\ Len(q.accesses) = n + w
    /\ \A i \in 1..n + w : q.accesses[i][1] = IF i <= n THEN "read" ELSE "write"

LEMMA AppendAccess ==
    ASSUME NEW s \in Seq(Access), NEW kind \in {"read", "write"}, NEW a \in Word
    PROVE  /\ Append(s, <<kind, a>>) \in Seq(Access)
           /\ Len(Append(s, <<kind, a>>)) = Len(s) + 1
           /\ \A i \in 1..Len(s) : Append(s, <<kind, a>>)[i] = s[i]
           /\ Append(s, <<kind, a>>)[Len(s) + 1][1] = kind
<1>1. <<kind, a>> \in Access
  BY DEF Access
<1> QED
  BY <1>1

LEMMA ReadData ==
    ASSUME NEW q, Machine(q), NEW a \in Word
    PROVE  /\ Machine(read_data(q, a))
           /\ Keeps(read_data(q, a), q, {"accesses"})
           /\ \A n \in Nat : Accessed(q, n, 0) => Accessed(read_data(q, a), n + 1, 0)
<1> DEFINE s == Append(q.accesses, <<"read", a>>)
           r == [q EXCEPT !.accesses = s]
<1>1. read_data(q, a) = r
  BY DEF read_data
<1>2. s \in Seq(Access) /\ Len(s) = Len(q.accesses) + 1
      /\ (\A i \in 1..Len(q.accesses) : s[i] = q.accesses[i])
      /\ s[Len(q.accesses) + 1][1] = "read"
  BY AppendAccess DEF Machine
<1> HIDE DEF s
<1>3. Machine(r) /\ Keeps(r, q, {"accesses"}) /\ r.accesses = s
  BY <1>2, Zenon DEF Machine, Keeps, Fields, Half
<1> HIDE DEF r
<1>4. ASSUME NEW n \in Nat, Accessed(q, n, 0) PROVE Accessed(r, n + 1, 0)
  <2>1. Len(q.accesses) = n /\ Len(s) = n + 1
    BY <1>2, <1>4 DEF Accessed
  <2>2. \A i \in 1..n + 1 : s[i][1] = "read"
    BY <1>2, <1>4, <2>1 DEF Accessed
  <2> QED
    BY <1>3, <2>1, <2>2 DEF Accessed
<1> QED
  BY <1>1, <1>3, <1>4

LEMMA WriteData ==
    ASSUME NEW q, Machine(q), NEW a \in Word, NEW v \in Byte
    PROVE  /\ Machine(write_data(q, a, v))
           /\ Keeps(write_data(q, a, v), q, {"accesses", "mem"})
           /\ DOMAIN write_data(q, a, v).mem = DOMAIN q.mem \cup {a}
           /\ write_data(q, a, v).mem[a] = v
           /\ \A b \in DOMAIN q.mem : b # a => write_data(q, a, v).mem[b] = q.mem[b]
           /\ \A n, w \in Nat : Accessed(q, n, w) =>
                                Accessed(write_data(q, a, v), n, w + 1)
<1> DEFINE s == Append(q.accesses, <<"write", a>>)
           g == [b \in DOMAIN q.mem \cup {a} |-> IF b = a THEN v ELSE q.mem[b]]
           r == [q EXCEPT !.accesses = s, !.mem = g]
<1>1. write_data(q, a, v) = r
  BY DEF write_data, Machine, Fields
<1>2. s \in Seq(Access) /\ Len(s) = Len(q.accesses) + 1
      /\ (\A i \in 1..Len(q.accesses) : s[i] = q.accesses[i])
      /\ s[Len(q.accesses) + 1][1] = "write"
  BY AppendAccess DEF Machine
<1>3. /\ DOMAIN g = DOMAIN q.mem \cup {a} /\ g[a] = v
      /\ \A b \in DOMAIN q.mem : b # a => g[b] = q.mem[b]
      /\ g = [b \in DOMAIN g |-> g[b]]
      /\ \A b \in DOMAIN g : g[b] \in Byte
  BY Zenon DEF Machine
<1> HIDE DEF s, g
<1>4. Machine(r) /\ Keeps(r, q, {"accesses", "mem"}) /\ r.accesses = s /\ r.mem = g
  BY <1>2, <1>3, Zenon DEF Machine, Keeps, Fields, Half
<1> HIDE DEF r
<1>5. ASSUME NEW n \in Nat, NEW w \in Nat, Accessed(q, n, w)
      PROVE  Accessed(r, n, w + 1)
  <2>1. Len(q.accesses) = n + w /\ Len(s) = n + w + 1
    BY <1>2, <1>5 DEF Accessed
  <2>2. \A i \in 1..n + w + 1 : s[i][1] = IF i <= n THEN "read" ELSE "write"
    BY <1>2, <1>5, <2>1 DEF Accessed
  <2> QED
    BY <1>4, <2>1, <2>2 DEF Accessed
<1> QED
  BY <1>1, <1>3, <1>4, <1>5

LEMMA SetByte ==
    ASSUME NEW q, Machine(q), NEW r \in Half, NEW v \in Byte
    PROVE  /\ Machine([q EXCEPT ![r] = v])
           /\ Keeps([q EXCEPT ![r] = v], q, {r})
           /\ [q EXCEPT ![r] = v][r] = v
  BY DEF Machine, Keeps, Fields, Half

LEMMA SetFlags ==
    ASSUME NEW q, Machine(q), NEW F \in SUBSET Flag
    PROVE  /\ Machine([q EXCEPT !.f = F])
           /\ Keeps([q EXCEPT !.f = F], q, {"f"})
           /\ [q EXCEPT !.f = F].f = F
  BY DEF Machine, Keeps, Fields, Half

LEMMA SetWord ==
    ASSUME NEW q, Machine(q), NEW r \in {"sp", "pc"}, NEW v \in Word
    PROVE  /\ Machine([q EXCEPT ![r] = v])
           /\ Keeps([q EXCEPT ![r] = v], q, {r})
           /\ [q EXCEPT ![r] = v][r] = v
  BY DEF Machine, Keeps, Fields, Half

LEMMA SetControl ==
    ASSUME NEW q, Machine(q), NEW s \in Controls
    PROVE  /\ Machine([q EXCEPT !.control = s])
           /\ Keeps([q EXCEPT !.control = s], q, {"control"})
  BY DEF Machine, Keeps, Fields, Half

LEMMA SetCycles ==
    ASSUME NEW q, Machine(q), NEW n \in Nat
    PROVE  /\ Machine([q EXCEPT !.cycles = n])
           /\ Keeps([q EXCEPT !.cycles = n], q, {"cycles"})
           /\ [q EXCEPT !.cycles = n].cycles = n
  BY DEF Machine, Keeps, Fields, Half

LEMMA PeekByte == ASSUME NEW q, Machine(q), NEW a PROVE Peek(q, a) \in Byte
<1>1. 0 \in Byte
  BY IsByte
<1>2. a \in DOMAIN q.mem => q.mem[a] \in Byte
  BY Zenon DEF Machine
<1> QED
  BY <1>1, <1>2 DEF Peek

LEMMA StepWord ==
    ASSUME NEW v \in Word PROVE increment16(v) \in Word /\ decrement16(v) \in Word
  BY IsWord DEF increment16, decrement16

-----------------------------------------------------------------------------
(* REGISTERS: what loading and storing an operand changes. *)

Pair == {"bc", "de", "hl", "af", "sp", "pc"}
Halves(r) ==
    CASE r = "bc" -> {"b", "c"} [] r = "de" -> {"d", "e"} [] r = "hl" -> {"h", "l"}
      [] r = "af" -> {"a", "f"} [] OTHER -> {r}

LEMMA Flagged ==
    ASSUME NEW F \in SUBSET Flag
    PROVE  FlagByte(F) \in Byte /\ FlagsOf(FlagByte(F)) = F
<1>1. FlagByte(F) \in Byte
  BY IsByte DEF FlagByte
<1>2. 2^7 = 128 /\ 2^6 = 64 /\ 2^5 = 32 /\ 2^4 = 16
  OBVIOUS
<1>3. /\ Bit(FlagByte(F), 7) = 1 <=> "zero" \in F
      /\ Bit(FlagByte(F), 6) = 1 <=> "negative" \in F
      /\ Bit(FlagByte(F), 5) = 1 <=> "half_carry" \in F
      /\ Bit(FlagByte(F), 4) = 1 <=> "carry" \in F
  BY <1>2 DEF Bit, FlagByte
<1>4. FlagsOf(FlagByte(F)) = F
  BY <1>3, Zenon DEF FlagsOf, When, Flag
<1> QED
  BY <1>1, <1>4

LEMMA FlagsType == ASSUME NEW v PROVE FlagsOf(v) \in SUBSET Flag
  BY DEF FlagsOf, When, Flag

LEMMA WordOfBytes ==
    ASSUME NEW p \in Byte, NEW r \in Byte
    PROVE  /\ word(p, r) \in Word
           /\ word(p, r) \div 256 = p /\ word(p, r) % 256 = r
  BY IsByte, IsWord DEF word

LEMMA BytesOfWord ==
    ASSUME NEW v \in Word
    PROVE  v \div 256 \in Byte /\ v % 256 \in Byte /\ word(v \div 256, v % 256) = v
  BY IsByte, IsWord DEF word

LEMMA ValueType ==
    ASSUME NEW q, Machine(q), NEW r \in Pair PROVE value(q, r) \in Word
<1>1. word(q.a, FlagByte(q.f)) \in Word
  BY Flagged, WordOfBytes DEF Machine, Half
<1>2. word(q.b, q.c) \in Word /\ word(q.d, q.e) \in Word /\ word(q.h, q.l) \in Word
  BY WordOfBytes DEF Machine, Half
<1> QED
  BY <1>1, <1>2 DEF value, Pair, Machine

LEMMA Load16 ==
    ASSUME NEW q, Machine(q), NEW r \in Pair, NEW v \in Word
    PROVE  /\ Machine(load16(q, r, v))
           /\ Keeps(load16(q, r, v), q, Halves(r))
           /\ r # "af" => value(load16(q, r, v), r) = v
           /\ r = "af" => /\ load16(q, r, v).a = v \div 256
                          /\ load16(q, r, v).f = FlagsOf(v % 256)
<1> DEFINE high == v \div 256
           low  == v % 256
<1>1. high \in Byte /\ low \in Byte /\ word(high, low) = v
  BY BytesOfWord
<1>2. FlagsOf(low) \in SUBSET Flag
  BY FlagsType
<1>6. load16(q, r, v) = CASE r = "bc" -> [q EXCEPT !.b = high, !.c = low]
          [] r = "de" -> [q EXCEPT !.d = high, !.e = low]
          [] r = "hl" -> [q EXCEPT !.h = high, !.l = low]
          [] r = "af" -> [q EXCEPT !.a = high, !.f = FlagsOf(low)]
          [] OTHER -> [q EXCEPT ![r] = v]
  BY DEF load16
<1> HIDE DEF high, low
<1> DEFINE t == load16(q, r, v)
<1>9. \A p : /\ value(p, "bc") = word(p.b, p.c)
            /\ value(p, "de") = word(p.d, p.e)
            /\ value(p, "hl") = word(p.h, p.l)
            /\ value(p, "sp") = p.sp
            /\ value(p, "pc") = p.pc
  BY DEF value
<1>10. /\ Halves("bc") = {"b", "c"} /\ Halves("de") = {"d", "e"}
       /\ Halves("hl") = {"h", "l"} /\ Halves("sp") = {"sp"}
       /\ Halves("pc") = {"pc"}
  BY DEF Halves
<1>3. CASE r = "bc"
  <2>1. load16(q, r, v) = [q EXCEPT !.b = high, !.c = low]
    BY <1>3, <1>6
  <2>2. value(t, r) = word(t.b, t.c)
    BY <1>3, <1>9
  <2> HIDE DEF t
  <2>3. t = load16(q, r, v)
    BY DEF t
  <2> QED
    <3>3. /\ Machine([q EXCEPT !.b = high, !.c = low])
          /\ Keeps([q EXCEPT !.b = high, !.c = low], q, {"b", "c"})
          /\ [q EXCEPT !.b = high, !.c = low].b = high
          /\ [q EXCEPT !.b = high, !.c = low].c = low
      BY <1>1, Zenon DEF Machine, Keeps, Fields, Half
    <3>1. Machine(t) /\ Keeps(t, q, {"b", "c"}) /\ t.b = high /\ t.c = low
      BY <2>1, <2>3, <3>3
    <3>2. Halves(r) = {"b", "c"} /\ r # "af"
      BY <1>3, <1>10
    <3> QED
      BY <1>1, <2>2, <2>3, <3>1, <3>2
<1>7. CASE r = "de"
  <2>1. load16(q, r, v) = [q EXCEPT !.d = high, !.e = low]
    BY <1>7, <1>6
  <2>2. value(t, r) = word(t.d, t.e)
    BY <1>7, <1>9
  <2> HIDE DEF t
  <2>3. t = load16(q, r, v)
    BY DEF t
  <2> QED
    <3>3. /\ Machine([q EXCEPT !.d = high, !.e = low])
          /\ Keeps([q EXCEPT !.d = high, !.e = low], q, {"d", "e"})
          /\ [q EXCEPT !.d = high, !.e = low].d = high
          /\ [q EXCEPT !.d = high, !.e = low].e = low
      BY <1>1, Zenon DEF Machine, Keeps, Fields, Half
    <3>1. Machine(t) /\ Keeps(t, q, {"d", "e"}) /\ t.d = high /\ t.e = low
      BY <2>1, <2>3, <3>3
    <3>2. Halves(r) = {"d", "e"} /\ r # "af"
      BY <1>7, <1>10
    <3> QED
      BY <1>1, <2>2, <2>3, <3>1, <3>2
<1>8. CASE r = "hl"
  <2>1. load16(q, r, v) = [q EXCEPT !.h = high, !.l = low]
    BY <1>8, <1>6
  <2>2. value(t, r) = word(t.h, t.l)
    BY <1>8, <1>9
  <2> HIDE DEF t
  <2>3. t = load16(q, r, v)
    BY DEF t
  <2> QED
    <3>3. /\ Machine([q EXCEPT !.h = high, !.l = low])
          /\ Keeps([q EXCEPT !.h = high, !.l = low], q, {"h", "l"})
          /\ [q EXCEPT !.h = high, !.l = low].h = high
          /\ [q EXCEPT !.h = high, !.l = low].l = low
      BY <1>1, Zenon DEF Machine, Keeps, Fields, Half
    <3>1. Machine(t) /\ Keeps(t, q, {"h", "l"}) /\ t.h = high /\ t.l = low
      BY <2>1, <2>3, <3>3
    <3>2. Halves(r) = {"h", "l"} /\ r # "af"
      BY <1>8, <1>10
    <3> QED
      BY <1>1, <2>2, <2>3, <3>1, <3>2
<1>4. CASE r = "af"
  <2>1. load16(q, r, v) = [q EXCEPT !.a = high, !.f = FlagsOf(low)]
    BY <1>4, <1>6
  <2> DEFINE F == FlagsOf(low)
  <2> HIDE DEF F
  <2>2. F \in SUBSET Flag
    BY <1>2 DEF F
  <2>3. /\ Machine([q EXCEPT !.a = high, !.f = F])
        /\ Keeps([q EXCEPT !.a = high, !.f = F], q, {"a", "f"})
        /\ [q EXCEPT !.a = high, !.f = F].a = high
        /\ [q EXCEPT !.a = high, !.f = F].f = F
    BY <1>1, <2>2, Zenon DEF Machine, Keeps, Fields, Half
  <2> QED
    BY <1>4, <2>1, <2>3, Zenon DEF Halves, high, low, F
<1>5. CASE r \in {"sp", "pc"}
  <2>1. load16(q, r, v) = [q EXCEPT ![r] = v]
    BY <1>5, <1>6
  <2> QED
    <3>1. Machine([q EXCEPT ![r] = v])
      BY <1>5, SetWord
    <3>2. Keeps([q EXCEPT ![r] = v], q, Halves(r))
      BY <1>5, <1>10, SetWord
    <3>3. [q EXCEPT ![r] = v][r] = v
      BY <1>5, SetWord, Zenon
    <3>4. value(load16(q, r, v), r) = v
      BY <1>5, <1>9, <2>1, <3>3, Zenon
    <3>5. r # "af"
      BY <1>5
    <3> QED
      BY <3>1, <3>2, <3>4, <3>5, <2>1
<1> QED
  BY <1>3, <1>4, <1>5, <1>7, <1>8 DEF Pair

LEMMA ReadImmediate ==
    ASSUME NEW q, Machine(q)
    PROVE  /\ Machine(read_immediate(q))
           /\ Keeps(read_immediate(q), q, {"accesses", "pc"})
           /\ read_immediate(q).pc = increment16(q.pc)
           /\ \A n \in Nat : Accessed(q, n, 0) => Accessed(read_immediate(q), n + 1, 0)
<1> DEFINE r == read_data(q, q.pc)
           s == [r EXCEPT !.pc = increment16(r.pc)]
<1>1. read_immediate(q) = s
  BY DEF read_immediate
<1>2. Machine(r) /\ Keeps(r, q, {"accesses"})
      /\ \A n \in Nat : Accessed(q, n, 0) => Accessed(r, n + 1, 0)
  BY ReadData, ZenonT(60) DEF Machine
<1> HIDE DEF r
<1>3. r.pc = q.pc /\ increment16(r.pc) \in Word
  BY <1>2, StepWord DEF Keeps, Fields, Machine
<1>4. Machine(s) /\ Keeps(s, r, {"pc"}) /\ s.pc = increment16(r.pc)
  BY <1>2, <1>3, SetWord
<1> HIDE DEF s
<1>5. Keeps(s, q, {"accesses", "pc"}) /\ s.accesses = r.accesses
  BY <1>2, <1>4 DEF Keeps, Fields
<1> QED
  BY <1>1, <1>2, <1>3, <1>4, <1>5 DEF Accessed

Reg == Half \cup {"(hl)"}
LEMMA OperandByte ==
    ASSUME NEW q, Machine(q), NEW r \in Reg PROVE Operand(q, r) \in Byte
  BY PeekByte, Zenon DEF Operand, Machine, Reg, Half

LEMMA FetchedOperand ==
    ASSUME NEW q, Machine(q), NEW r \in Reg
    PROVE  /\ Machine(Fetched(q, r))
           /\ Keeps(Fetched(q, r), q, {"accesses"})
           /\ r # "(hl)" => Fetched(q, r) = q
           /\ \A n \in Nat : Accessed(q, n, 0) =>
                Accessed(Fetched(q, r), IF r = "(hl)" THEN n + 1 ELSE n, 0)
<1>1. value(q, "hl") \in Word
  BY ValueType DEF Pair
<1> QED
  BY <1>1, ReadData DEF Fetched, Keeps

\* Memory n holds what q holds outside S, and what it has been given stays.
Stored(n, q, S) ==
    /\ DOMAIN q.mem \subseteq DOMAIN n.mem
    /\ \A x : x \notin S => Peek(n, x) = Peek(q, x)

LEMMA SameMemory ==
    ASSUME NEW q, NEW n, n.mem = q.mem
    PROVE  Stored(n, q, {}) /\ \A x : Peek(n, x) = Peek(q, x)
  BY DEF Stored, Peek

LEMMA WriteByte ==
    ASSUME NEW q, Machine(q), NEW x \in Word, NEW v \in Byte
    PROVE  /\ Machine(write_data(q, x, v))
           /\ Keeps(write_data(q, x, v), q, {"accesses", "mem"})
           /\ Stored(write_data(q, x, v), q, {x})
           /\ Peek(write_data(q, x, v), x) = v
           /\ \A n, w \in Nat : Accessed(q, n, w) =>
                                Accessed(write_data(q, x, v), n, w + 1)
<1> DEFINE t == write_data(q, x, v)
<1>1. /\ Machine(t) /\ Keeps(t, q, {"accesses", "mem"})
      /\ DOMAIN t.mem = DOMAIN q.mem \cup {x}
      /\ t.mem[x] = v
      /\ \A b \in DOMAIN q.mem : b # x => t.mem[b] = q.mem[b]
      /\ \A n, w \in Nat : Accessed(q, n, w) => Accessed(t, n, w + 1)
  BY WriteData
<1> HIDE DEF t
<1>2. Stored(t, q, {x}) /\ Peek(t, x) = v
  BY <1>1 DEF Stored, Peek
<1> QED
  BY <1>1, <1>2 DEF t

LEMMA LoadByte ==
    ASSUME NEW q, Machine(q), NEW r \in Reg, NEW v \in Byte
    PROVE  /\ Machine(load(q, r, v))
           /\ r \in Half => Keeps(load(q, r, v), q, {r}) /\ load(q, r, v)[r] = v
           /\ r = "(hl)" => /\ Keeps(load(q, r, v), q, {"accesses", "mem"})
                            /\ Stored(load(q, r, v), q, {value(q, "hl")})
                            /\ Peek(load(q, r, v), value(q, "hl")) = v
           /\ \A n, w \in Nat : Accessed(q, n, w) =>
                 Accessed(load(q, r, v), n, IF r = "(hl)" THEN w + 1 ELSE w)
<1>1. "(hl)" \notin Half /\ "accesses" \notin Half
  BY DEF Half
<1>2. CASE r = "(hl)"
  <2>1. value(q, "hl") \in Word
    BY ValueType DEF Pair
  <2>2. load(q, r, v) = write_data(q, value(q, "hl"), v)
    BY <1>2 DEF load
  <2> QED
    BY <1>1, <1>2, <2>1, <2>2, WriteByte
<1>3. CASE r \in Half
  <2>1. load(q, r, v) = [q EXCEPT ![r] = v]
    BY <1>1, <1>3 DEF load
  <2>2. /\ Machine([q EXCEPT ![r] = v])
        /\ Keeps([q EXCEPT ![r] = v], q, {r})
        /\ [q EXCEPT ![r] = v][r] = v
    BY <1>3, SetByte
  <2>3. [q EXCEPT ![r] = v].accesses = q.accesses
    BY <1>1, <1>3, <2>2 DEF Keeps, Fields
  <2> QED
    BY <1>1, <1>3, <2>1, <2>2, <2>3 DEF Accessed
<1> QED
  BY <1>2, <1>3 DEF Reg

LEMMA UpdateResult ==
    ASSUME NEW q, Machine(q), NEW r \in Reg, NEW res \in AluResult
    PROVE  /\ Machine(Update(q, r, res))
           /\ Update(q, r, res).f = res.flags
           /\ r \in Half => /\ Keeps(Update(q, r, res), q, {r, "f"})
                            /\ Update(q, r, res)[r] = res.value
           /\ r = "(hl)" => /\ Keeps(Update(q, r, res), q, {"accesses", "mem", "f"})
                            /\ Stored(Update(q, r, res), q, {value(q, "hl")})
                            /\ Peek(Update(q, r, res), value(q, "hl")) = res.value
           /\ \A n, w \in Nat : Accessed(q, n, w) =>
                 Accessed(Update(q, r, res), n, IF r = "(hl)" THEN w + 1 ELSE w)
<1> DEFINE F == res.flags
           v == res.value
           s == [q EXCEPT !.f = F]
           t == load(s, r, v)
<1>1. Update(q, r, res) = t
  BY DEF Update
<1>2. F \in SUBSET Flag /\ v \in Byte
  BY DEF AluResult
<1> HIDE DEF F, v
<1>3. Machine(s) /\ Keeps(s, q, {"f"}) /\ s.f = F
  BY <1>2, SetFlags
<1> HIDE DEF s
<1>4. value(s, "hl") = value(q, "hl") /\ s.accesses = q.accesses /\ s.mem = q.mem
  BY <1>3 DEF Keeps, Fields, value
<1>5. /\ Machine(t)
      /\ r \in Half => Keeps(t, s, {r}) /\ t[r] = v
      /\ r = "(hl)" => /\ Keeps(t, s, {"accesses", "mem"})
                       /\ Stored(t, s, {value(s, "hl")})
                       /\ Peek(t, value(s, "hl")) = v
      /\ \A n, w \in Nat : Accessed(s, n, w) =>
             Accessed(t, n, IF r = "(hl)" THEN w + 1 ELSE w)
  BY <1>2, <1>3, LoadByte, Zenon
<1> HIDE DEF t
<1>6. \A n, w \in Nat : Accessed(q, n, w) => Accessed(s, n, w)
  BY <1>4 DEF Accessed
<1>7. t.f = F
  BY <1>3, <1>5 DEF Keeps, Fields, Reg, Half
<1>8. r \in Half => Keeps(t, q, {r, "f"})
  BY <1>3, <1>5 DEF Keeps
<1>9. r = "(hl)" => Keeps(t, q, {"accesses", "mem", "f"})
  BY <1>3, <1>5 DEF Keeps
<1>10. r = "(hl)" => /\ Stored(t, q, {value(q, "hl")})
                     /\ Peek(t, value(q, "hl")) = v
  BY <1>4, <1>5 DEF Stored, Peek
<1> QED
  BY <1>1, <1>5, <1>6, <1>7, <1>8, <1>9, <1>10 DEF F, v

LEMMA ModifyResult ==
    ASSUME NEW q, Machine(q), NEW r \in Reg, NEW res \in AluResult
    PROVE  /\ Machine(Modify(q, r, res))
           /\ Modify(q, r, res).f = res.flags
           /\ r \in Half => /\ Keeps(Modify(q, r, res), q, {r, "f"})
                            /\ Modify(q, r, res)[r] = res.value
           /\ r = "(hl)" => /\ Keeps(Modify(q, r, res), q, {"accesses", "mem", "f"})
                            /\ Stored(Modify(q, r, res), q, {value(q, "hl")})
                            /\ Peek(Modify(q, r, res), value(q, "hl")) = res.value
           /\ \A n \in Nat : Accessed(q, n, 0) =>
                 IF r = "(hl)" THEN Accessed(Modify(q, r, res), n + 1, 1)
                               ELSE Accessed(Modify(q, r, res), n, 0)
<1> DEFINE s == Fetched(q, r)
           t == Update(s, r, res)
<1>1. Modify(q, r, res) = t
  BY DEF Modify
<1>2. /\ Machine(s) /\ Keeps(s, q, {"accesses"})
      /\ r # "(hl)" => s = q
      /\ \A n \in Nat : Accessed(q, n, 0) =>
            Accessed(s, IF r = "(hl)" THEN n + 1 ELSE n, 0)
  BY FetchedOperand
<1> HIDE DEF s
<1>3. /\ Machine(t)
      /\ t.f = res.flags
      /\ r \in Half => Keeps(t, s, {r, "f"}) /\ t[r] = res.value
      /\ r = "(hl)" => /\ Keeps(t, s, {"accesses", "mem", "f"})
                       /\ Stored(t, s, {value(s, "hl")})
                       /\ Peek(t, value(s, "hl")) = res.value
      /\ \A n, w \in Nat : Accessed(s, n, w) =>
             Accessed(t, n, IF r = "(hl)" THEN w + 1 ELSE w)
  BY <1>2, UpdateResult, Zenon
<1> HIDE DEF t
<1>4. value(s, "hl") = value(q, "hl") /\ s.mem = q.mem
  BY <1>2 DEF Keeps, Fields, value
<1>5. "(hl)" \notin Half
  BY DEF Half
<1>6. r \in Half => Keeps(t, q, {r, "f"})
  BY <1>2, <1>3, <1>5
<1>7. r = "(hl)" => Keeps(t, q, {"accesses", "mem", "f"})
  BY <1>2, <1>3 DEF Keeps
<1>8. r = "(hl)" => /\ Stored(t, q, {value(q, "hl")})
                    /\ Peek(t, value(q, "hl")) = res.value
  BY <1>3, <1>4 DEF Stored, Peek
<1>9. ASSUME NEW n \in Nat, Accessed(q, n, 0)
      PROVE  IF r = "(hl)" THEN Accessed(t, n + 1, 1) ELSE Accessed(t, n, 0)
  <2>1. CASE r = "(hl)"
    BY <1>2, <1>3, <1>9, <2>1
  <2>2. CASE r # "(hl)"
    BY <1>2, <1>3, <1>9, <2>2
  <2> QED
    BY <2>1, <2>2
<1> QED
  BY <1>1, <1>3, <1>6, <1>7, <1>8, <1>9

LEMMA PushWord ==
    ASSUME NEW q, Machine(q), NEW v \in Word
    PROVE  /\ Machine(push(q, v))
           /\ Keeps(push(q, v), q, {"accesses", "mem", "sp"})
           /\ push(q, v).sp = decrement16(decrement16(q.sp))
           /\ Stored(push(q, v), q,
                     {decrement16(q.sp), decrement16(decrement16(q.sp))})
           /\ Peek(push(q, v), decrement16(q.sp)) = v \div 256
           /\ Peek(push(q, v), decrement16(decrement16(q.sp))) = v % 256
           /\ \A n \in Nat : Accessed(q, n, 0) => Accessed(push(q, v), n, 2)
<1> DEFINE top   == decrement16(q.sp)
           below == decrement16(top)
           high  == v \div 256
           low   == v % 256
           s == write_data(q, top, high)
           t == write_data(s, below, low)
           u == [t EXCEPT !.sp = below]
<1>1. push(q, v) = u
  BY DEF push
<1>2. top \in Word /\ below \in Word /\ top # below
  <2>1. q.sp \in Word
    BY DEF Machine
  <2> QED
    BY <2>1, StepWord, IsWord DEF decrement16
<1>3. high \in Byte /\ low \in Byte
  BY BytesOfWord
<1> HIDE DEF top, below, high, low
<1>4. /\ Machine(s) /\ Keeps(s, q, {"accesses", "mem"}) /\ Stored(s, q, {top})
      /\ Peek(s, top) = high
      /\ \A n, w \in Nat : Accessed(q, n, w) => Accessed(s, n, w + 1)
  BY <1>2, <1>3, WriteByte
<1> HIDE DEF s
<1>5. /\ Machine(t) /\ Keeps(t, s, {"accesses", "mem"}) /\ Stored(t, s, {below})
      /\ Peek(t, below) = low
      /\ \A n, w \in Nat : Accessed(s, n, w) => Accessed(t, n, w + 1)
  BY <1>2, <1>3, <1>4, WriteByte, Zenon
<1> HIDE DEF t
<1>6. Machine(u) /\ Keeps(u, t, {"sp"}) /\ u.sp = below
  BY <1>2, <1>5, SetWord
<1> HIDE DEF u
<1>7. u.mem = t.mem /\ u.accesses = t.accesses
  BY <1>6 DEF Keeps, Fields
<1>8. Keeps(u, q, {"accesses", "mem", "sp"})
  BY <1>4, <1>5, <1>6 DEF Keeps
<1>9. Stored(u, q, {top, below}) /\ Peek(u, top) = high /\ Peek(u, below) = low
  <2>1. Stored(u, t, {}) /\ \A x : Peek(u, x) = Peek(t, x)
    BY <1>7, SameMemory
  <2> QED
    BY <1>2, <1>4, <1>5, <2>1 DEF Stored
<1>10. ASSUME NEW n \in Nat, Accessed(q, n, 0) PROVE Accessed(u, n, 2)
  <2>1. Accessed(s, n, 1)
    BY <1>4, <1>10
  <2>2. Accessed(t, n, 2)
    BY <1>5, <2>1
  <2> QED
    BY <1>7, <2>2 DEF Accessed
<1> QED
  BY <1>1, <1>6, <1>8, <1>9, <1>10 DEF top, below, high, low

LEMMA PopWord ==
    ASSUME NEW q, Machine(q), NEW r \in Pair \ {"sp"}
    PROVE  /\ Machine(pop(q, r))
           /\ Keeps(pop(q, r), q, {"accesses", "sp"} \cup Halves(r))
           /\ pop(q, r).sp = increment16(increment16(q.sp))
           /\ r # "af" => value(pop(q, r), r) = word(Peek(q, increment16(q.sp)),
                                                     Peek(q, q.sp))
           /\ r = "af" => /\ pop(q, r).a = Peek(q, increment16(q.sp))
                          /\ pop(q, r).f = FlagsOf(Peek(q, q.sp))
           /\ \A n \in Nat : Accessed(q, n, 0) => Accessed(pop(q, r), n + 2, 0)
<1> DEFINE next == increment16(q.sp)
           over == increment16(next)
           high == Peek(q, next)
           low  == Peek(q, q.sp)
           v == word(high, low)
           s == read_data(q, q.sp)
           t == read_data(s, next)
           u == load16(t, r, v)
           w == [u EXCEPT !.sp = over]
<1>1. pop(q, r) = w
  BY DEF pop
<1>2. next \in Word /\ over \in Word /\ q.sp \in Word
  <2>1. q.sp \in Word
    BY DEF Machine
  <2> QED
    BY <2>1, StepWord
<1>3. v \in Word /\ v \div 256 = high /\ v % 256 = low
  <2>1. high \in Byte /\ low \in Byte
    BY PeekByte
  <2> HIDE DEF high, low
  <2> QED
    BY <2>1, WordOfBytes
<1> HIDE DEF next, over, high, low, v
<1>4. /\ Machine(s) /\ Keeps(s, q, {"accesses"})
      /\ \A n \in Nat : Accessed(q, n, 0) => Accessed(s, n + 1, 0)
  BY <1>2, ReadData
<1> HIDE DEF s
<1>5. /\ Machine(t) /\ Keeps(t, s, {"accesses"})
      /\ \A n \in Nat : Accessed(s, n, 0) => Accessed(t, n + 1, 0)
  BY <1>2, <1>4, ReadData
<1> HIDE DEF t
<1>6. /\ Machine(u)
      /\ Keeps(u, t, Halves(r))
      /\ r # "af" => value(u, r) = v
      /\ r = "af" => u.a = high /\ u.f = FlagsOf(low)
  BY <1>3, <1>5, Load16
<1> HIDE DEF u
<1>7. Machine(w) /\ Keeps(w, u, {"sp"}) /\ w.sp = over
  BY <1>2, <1>6, SetWord
<1> HIDE DEF w
<1>8. Keeps(w, q, {"accesses", "sp"} \cup Halves(r))
  BY <1>4, <1>5, <1>6, <1>7 DEF Keeps
<1>9. r # "sp" => value(w, r) = value(u, r)
  BY <1>7 DEF Keeps, Fields, value, Pair
<1>10. w.a = u.a /\ w.f = u.f
  BY <1>7 DEF Keeps, Fields
<1>11. w.accesses = t.accesses
  <2>1. Halves(r) \subseteq {"a", "b", "c", "d", "e", "f", "h", "l", "sp", "pc"}
    BY DEF Halves, Pair
  <2> QED
    BY <1>6, <1>7, <2>1 DEF Keeps, Fields
<1>12. ASSUME NEW n \in Nat, Accessed(q, n, 0) PROVE Accessed(w, n + 2, 0)
  <2>1. Accessed(s, n + 1, 0)
    BY <1>4, <1>12
  <2>2. Accessed(t, n + 1 + 1, 0)
    BY <1>5, <2>1
  <2> QED
    BY <1>11, <2>2 DEF Accessed
<1> QED
  BY <1>1, <1>6, <1>7, <1>8, <1>9, <1>10, <1>12 DEF next, over, high, low, v

\* t is q but for the word v stored at x, the low byte first.
WordStored(t, q, x, v) ==
    /\ Machine(t) /\ Keeps(t, q, {"accesses", "mem"})
    /\ Stored(t, q, {x, increment16(x)})
    /\ Peek(t, x) = v % 256 /\ Peek(t, increment16(x)) = v \div 256

LEMMA StoreWord ==
    ASSUME NEW q, Machine(q), NEW x \in Word, NEW v \in Word
    PROVE  /\ WordStored(store16(q, x, v), q, x, v)
           /\ \A n \in Nat : Accessed(q, n, 0) => Accessed(store16(q, x, v), n, 2)
<1> DEFINE next == increment16(x)
           high  == v \div 256
           low   == v % 256
           s == write_data(q, x, low)
           t == write_data(s, next, high)
<1>1. store16(q, x, v) = t
  BY DEF store16, increment16
<1>2. next \in Word /\ next # x
  BY StepWord, IsWord DEF increment16
<1>3. high \in Byte /\ low \in Byte
  BY BytesOfWord
<1> HIDE DEF next, high, low
<1>4. /\ Machine(s) /\ Keeps(s, q, {"accesses", "mem"}) /\ Stored(s, q, {x})
      /\ Peek(s, x) = low
      /\ \A n, w \in Nat : Accessed(q, n, w) => Accessed(s, n, w + 1)
  BY <1>3, WriteByte, Zenon
<1> HIDE DEF s
<1>5. /\ Machine(t) /\ Keeps(t, s, {"accesses", "mem"}) /\ Stored(t, s, {next})
      /\ Peek(t, next) = high
      /\ \A n, w \in Nat : Accessed(s, n, w) => Accessed(t, n, w + 1)
  BY <1>2, <1>3, <1>4, WriteByte, Zenon
<1> HIDE DEF t
<1>6. Keeps(t, q, {"accesses", "mem"})
  BY <1>4, <1>5 DEF Keeps
<1>7. Stored(t, q, {x, next}) /\ Peek(t, x) = low /\ Peek(t, next) = high
  BY <1>2, <1>4, <1>5 DEF Stored
<1>8. ASSUME NEW n \in Nat, Accessed(q, n, 0) PROVE Accessed(t, n, 2)
  <2>1. Accessed(s, n, 1)
    BY <1>4, <1>8
  <2> QED
    BY <1>5, <2>1
<1>9. WordStored(t, q, x, v)
  BY <1>5, <1>6, <1>7 DEF WordStored, next, high, low
<1> QED
  BY <1>1, <1>8, <1>9

LEMMA LoadFrom ==
    ASSUME NEW q, Machine(q), NEW x \in Word
    PROVE  /\ Machine(load_from(q, "a", x))
           /\ Keeps(load_from(q, "a", x), q, {"accesses", "a"})
           /\ load_from(q, "a", x).a = Peek(q, x)
           /\ \A n \in Nat : Accessed(q, n, 0) =>
                             Accessed(load_from(q, "a", x), n + 1, 0)
<1> DEFINE s == read_data(q, x)
           v == Peek(q, x)
           t == load(s, "a", v)
<1>1. load_from(q, "a", x) = t
  BY DEF load_from
<1>2. v \in Byte
  BY PeekByte
<1> HIDE DEF v
<1>3. /\ Machine(s) /\ Keeps(s, q, {"accesses"})
      /\ \A n \in Nat : Accessed(q, n, 0) => Accessed(s, n + 1, 0)
  BY ReadData
<1> HIDE DEF s
<1>4. "a" \in Half /\ "a" \in Reg /\ "a" # "(hl)"
  BY DEF Half, Reg
<1>5. /\ Machine(t) /\ Keeps(t, s, {"a"}) /\ t["a"] = v
      /\ \A n, w \in Nat : Accessed(s, n, w) => Accessed(t, n, w)
  BY <1>2, <1>3, <1>4, LoadByte, Zenon
<1> HIDE DEF t
<1>6. Keeps(t, q, {"accesses", "a"})
  BY <1>3, <1>5 DEF Keeps
<1> QED
  BY <1>1, <1>3, <1>5, <1>6 DEF v

LEMMA Jump ==
    ASSUME NEW q, Machine(q), NEW x \in Word
    PROVE  /\ Machine(jump(q, x))
           /\ Keeps(jump(q, x), q, {"pc"})
           /\ jump(q, x).pc = x
           /\ \A n, w \in Nat : Accessed(q, n, w) => Accessed(jump(q, x), n, w)
<1> DEFINE t == [q EXCEPT !.pc = x]
<1>1. Machine(t) /\ Keeps(t, q, {"pc"}) /\ t.pc = x
  BY SetWord
<1>2. jump(q, x) = t
  BY DEF jump
<1> HIDE DEF t
<1>3. t.accesses = q.accesses
  BY <1>1 DEF Keeps, Fields
<1> QED
  BY <1>1, <1>2, <1>3 DEF Accessed

LEMMA SignedRange == ASSUME NEW v \in Byte PROVE 
    signed(v) \in Int /\ -128 <= signed(v) /\ signed(v) <= 127
  BY IsByte DEF signed

LEMMA JumpRelative ==
    ASSUME NEW q, Machine(q), NEW v \in Byte
    PROVE  /\ Machine(jump_relative(q, v))
           /\ Keeps(jump_relative(q, v), q, {"pc"})
           /\ jump_relative(q, v).pc = (q.pc + signed(v)) % 65536
           /\ \A n, w \in Nat : Accessed(q, n, w) => Accessed(jump_relative(q, v), n, w)
<1> DEFINE x == (q.pc + signed(v)) % 65536
<1>1. jump_relative(q, v) = jump(q, x)
  BY DEF jump_relative, jump
<1>2. x \in Word
  <2>1. q.pc \in Int /\ signed(v) \in Int
    BY SignedRange, IsWord DEF Machine
  <2>2. \A n \in Int : n % 65536 \in Word
    BY IsWord
  <2> QED
    BY <2>1, <2>2
<1> HIDE DEF x
<1> QED
  BY <1>1, <1>2, Jump DEF x

\* t is q at x, with the address where it was on the stack.
Entered(t, q, x) ==
    /\ Machine(t) /\ Keeps(t, q, {"accesses", "mem", "sp", "pc"})
    /\ t.pc = x /\ t.sp = decrement16(decrement16(q.sp))
    /\ Stored(t, q, {decrement16(q.sp), decrement16(decrement16(q.sp))})
    /\ Peek(t, decrement16(q.sp)) = q.pc \div 256
    /\ Peek(t, decrement16(decrement16(q.sp))) = q.pc % 256

LEMMA Call ==
    ASSUME NEW q, Machine(q), NEW x \in Word
    PROVE  Entered(call(q, x), q, x)
<1> DEFINE s == push(q, q.pc)
           t == jump(s, x)
<1>1. call(q, x) = t
  BY DEF call
<1>2. q.pc \in Word
  BY DEF Machine
<1>3. /\ Machine(s)
      /\ Keeps(s, q, {"accesses", "mem", "sp"})
      /\ s.sp = decrement16(decrement16(q.sp))
      /\ Stored(s, q, {decrement16(q.sp), decrement16(decrement16(q.sp))})
      /\ Peek(s, decrement16(q.sp)) = q.pc \div 256
      /\ Peek(s, decrement16(decrement16(q.sp))) = q.pc % 256
  BY <1>2, PushWord, ZenonT(60)
<1> HIDE DEF s
<1>4. /\ Machine(t) /\ Keeps(t, s, {"pc"}) /\ t.pc = x
  BY <1>3, Jump
<1> HIDE DEF t
<1>5. t.mem = s.mem /\ t.sp = s.sp
  BY <1>4 DEF Keeps, Fields
<1>6. Keeps(t, q, {"accesses", "mem", "sp", "pc"})
  BY <1>3, <1>4 DEF Keeps
<1>7. \A y1 : Peek(t, y1) = Peek(s, y1)
  BY <1>5 DEF Peek
<1>8. Stored(t, q, {decrement16(q.sp), decrement16(decrement16(q.sp))})
  BY <1>3, <1>5, <1>7 DEF Stored
<1>9. Entered(t, q, x)
  BY <1>3, <1>4, <1>5, <1>6, <1>7, <1>8 DEF Entered
<1> QED
  BY <1>1, <1>9

Opcode == 0..255
Durations == {4, 8, 12, 16, 20, 24}

LEMMA Fields8 == ASSUME NEW op \in Opcode
    PROVE  y(op) \in 0..7 /\ z(op) \in 0..7 /\ op = 64 * (op \div 64) + 8 * y(op) + z(op)
  BY DEF Opcode, y, z

LEMMA Registers8 ==
    ASSUME NEW n \in 0..7
    PROVE  Reg8[n + 1] \in Reg /\ (Reg8[n + 1] = "(hl)" <=> n = 6)
  BY DEF Reg8, Reg, Half
LEMMA RegisterOperands == ASSUME NEW op \in Opcode
    PROVE  /\ reg_y(op) \in Reg /\ (reg_y(op) = "(hl)" <=> y(op) = 6)
           /\ reg_z(op) \in Reg /\ (reg_z(op) = "(hl)" <=> z(op) = 6)
  BY Fields8, Registers8 DEF reg_y, reg_z
LEMMA PairOperands == ASSUME NEW op \in Opcode
    PROVE  /\ pair_y(op) \in {"bc", "de", "hl", "sp"}
           /\ stack_y(op) \in {"bc", "de", "hl", "af"}
<1>1. y(op) \div 2 \in 0..3
  BY Fields8
<1> QED
  BY <1>1 DEF pair_y, stack_y, Reg16, StackReg

LEMMA LowerTables == ASSUME NEW op \in 0..63
    PROVE  /\ z(op) = 1 /\ y(op) % 2 = 0 => length(op) = 3 /\ standard_cycle_count(op) = 12
           /\ z(op) = 1 /\ y(op) % 2 = 1 => length(op) = 1 /\ standard_cycle_count(op) = 8
           /\ z(op) = 3 => length(op) = 1 /\ standard_cycle_count(op) = 8
           /\ z(op) \in {4, 5} =>
                length(op) = 1 /\ standard_cycle_count(op) = IF y(op) = 6 THEN 12 ELSE 4
           /\ z(op) = 6 =>
                length(op) = 2 /\ standard_cycle_count(op) = IF y(op) = 6 THEN 12 ELSE 8
           /\ z(op) = 0 /\ y(op) > 2 => length(op) = 2 /\ standard_cycle_count(op) = 12
           /\ z(op) = 2 => length(op) = 1 /\ standard_cycle_count(op) = 8
           /\ z(op) = 7 => length(op) = 1 /\ standard_cycle_count(op) = 4
<1> DEFINE i == y(op)
           j == z(op)
<1>1. i \in 0..7 /\ j \in 0..7 /\ op = 8 * i + j
  BY DEF y, z
<1>2. op \in Length3 <=> (j = 1 /\ i % 2 = 0) \/ (i = 1 /\ j = 0)
  BY <1>1 DEF Length3
<1>3. op \in Length2 <=> j = 6 \/ (j = 0 /\ i > 1)
  BY <1>1 DEF Length2
<1>4. length(op) = IF (j = 1 /\ i % 2 = 0) \/ (i = 1 /\ j = 0) THEN 3
                   ELSE IF j = 6 \/ (j = 0 /\ i > 1) THEN 2 ELSE 1
  BY <1>2, <1>3 DEF length
<1>5. standard_cycle_count(op) = LowerCycles(op)
  BY DEF standard_cycle_count
<1>6. LowerCycles(op) =
        IF i = 1 /\ j = 0 THEN 20
        ELSE IF (j = 0 /\ i > 2) \/ (i = 6 /\ j \in {4, 5, 6}) \/ (j = 1 /\ i % 2 = 0)
        THEN 12 ELSE IF j \in {1, 2, 3, 6} THEN 8 ELSE 4
  BY <1>1 DEF LowerCycles
<1> HIDE DEF i, j
<1> QED
  BY <1>1, <1>4, <1>5, <1>6 DEF i, j
LEMMA MiddleTables == ASSUME NEW op \in 64..191
    PROVE  /\ length(op) = 1
           /\ standard_cycle_count(op) =
                IF op # \h76 /\ (z(op) = 6 \/ (op < 128 /\ y(op) = 6)) THEN 8 ELSE 4
  BY DEF y, z, length, standard_cycle_count, MiddleCycles, Length2, Length3
LEMMA UpperTables == ASSUME NEW op \in 192..255
    PROVE  LET i == y(op)
               j == z(op)
           IN  /\ length(op) =
                    IF (i < 4 /\ j \in {2, 4}) \/ (i = 0 /\ j = 3) \/ (i = 1 /\ j = 5)
                       \/ (i \in {5, 7} /\ j = 2) THEN 3
                    ELSE IF j = 6 \/ (i > 3 /\ j = 0) THEN 2 ELSE 1
               /\ standard_cycle_count(op) =
                    IF (i < 4 /\ j = 4) \/ (i = 1 /\ j = 5) THEN 24
                    ELSE IF i < 4 /\ j = 0 THEN 20
                    ELSE IF (i \in {1, 3} /\ j = 1) \/ (i < 4 /\ j = 2) \/ (i = 0 /\ j = 3)
                            \/ (i = 5 /\ j = 0) \/ (i \in {5, 7} /\ j = 2) \/ j \in {5, 7}
                         THEN 16
                    ELSE IF (j = 0 /\ i \in {4, 6, 7}) \/ (j = 1 /\ i % 2 = 0) THEN 12
                    ELSE IF (j = 2 /\ i \in {4, 6}) \/ (i = 7 /\ j = 1) \/ j = 6 THEN 8
                    ELSE 4
<1> DEFINE i == y(op)
           j == z(op)
<1>1. i \in 0..7 /\ j \in 0..7 /\ op = 192 + 8 * i + j
  BY DEF y, z
<1>2. op \in Length3 <=>
        \/ i < 4 /\ j \in {2, 4}
        \/ i = 0 /\ j = 3
        \/ i = 1 /\ j = 5
        \/ i \in {5, 7} /\ j = 2
  BY <1>1 DEF Length3
<1>3. op \in Length2 <=> j = 6 \/ (i > 3 /\ j = 0)
  BY <1>1 DEF Length2
<1>4. standard_cycle_count(op) = UpperCycles(op)
  BY DEF standard_cycle_count
<1>5. UpperCycles(op) =
        IF (i < 4 /\ j = 4) \/ (i = 1 /\ j = 5) THEN 24
        ELSE IF i < 4 /\ j = 0 THEN 20
        ELSE IF (i \in {1, 3} /\ j = 1) \/ (i < 4 /\ j = 2) \/ (i = 0 /\ j = 3)
                \/ (i = 5 /\ j = 0) \/ (i \in {5, 7} /\ j = 2) \/ j \in {5, 7}
             THEN 16
        ELSE IF (j = 0 /\ i \in {4, 6, 7}) \/ (j = 1 /\ i % 2 = 0) THEN 12
        ELSE IF (j = 2 /\ i \in {4, 6}) \/ (i = 7 /\ j = 1) \/ j = 6 THEN 8
        ELSE 4
  BY <1>1 DEF UpperCycles
<1> HIDE DEF i, j
<1>6. length(op) =
        IF (i < 4 /\ j \in {2, 4}) \/ (i = 0 /\ j = 3) \/ (i = 1 /\ j = 5)
           \/ (i \in {5, 7} /\ j = 2) THEN 3
        ELSE IF j = 6 \/ (i > 3 /\ j = 0) THEN 2 ELSE 1
  BY <1>2, <1>3 DEF length
<1> QED
  BY <1>4, <1>5, <1>6 DEF i, j

-----------------------------------------------------------------------------
(* DURATIONS: every instruction has the time for its accesses. *)

\* A machine whose last tick made n reads, then w writes, and reported c cycles.
Timed(q, n, w, c) == Machine(q) /\ Accessed(q, n, w) /\ q.cycles = c

LEMMA KeepsTime ==
    ASSUME NEW q, NEW n, NEW w, NEW c, Timed(q, n, w, c), NEW t, Machine(t),
           NEW S, Keeps(t, q, S), "accesses" \notin S, "cycles" \notin S
    PROVE  Timed(t, n, w, c)
<1>1. t.cycles = q.cycles /\ t.accesses = q.accesses
  BY DEF Keeps, Fields
<1> QED
  BY <1>1 DEF Timed, Accessed

LEMMA TimedFlags ==
    ASSUME NEW q, NEW n, NEW w, NEW c, Timed(q, n, w, c), NEW F \in SUBSET Flag
    PROVE  Timed([q EXCEPT !.f = F], n, w, c)
<1> DEFINE t == [q EXCEPT !.f = F]
<1>1. Machine(t) /\ Keeps(t, q, {"f"})
  BY SetFlags DEF Timed
<1> HIDE DEF t
<1>2. Timed(t, n, w, c)
  BY <1>1, KeepsTime
<1> QED
  BY <1>2 DEF t
LEMMA TimedControl ==
    ASSUME NEW q, NEW n, NEW w, NEW c, Timed(q, n, w, c), NEW s \in Controls
    PROVE  Timed([q EXCEPT !.control = s], n, w, c)
<1> DEFINE t == [q EXCEPT !.control = s]
<1>1. Machine(t) /\ Keeps(t, q, {"control"})
  BY SetControl DEF Timed
<1> HIDE DEF t
<1>2. Timed(t, n, w, c)
  BY <1>1, KeepsTime
<1> QED
  BY <1>2 DEF t
LEMMA TimedPointer ==
    ASSUME NEW q, NEW n, NEW w, NEW c, Timed(q, n, w, c), NEW v \in Word
    PROVE  Timed([q EXCEPT !.sp = v], n, w, c)
<1> DEFINE t == [q EXCEPT !["sp"] = v]
<1>1. Machine(t) /\ Keeps(t, q, {"sp"})
  BY SetWord DEF Timed
<1> HIDE DEF t
<1>2. Timed(t, n, w, c)
  BY <1>1, KeepsTime
<1> QED
  BY <1>2 DEF t
LEMMA HalvesAreRegisters ==
    ASSUME NEW r \in Pair PROVE "accesses" \notin Halves(r) /\ "cycles" \notin Halves(r)
  BY DEF Pair, Halves
LEMMA TimedLoad16 ==
    ASSUME NEW q, NEW n, NEW w, NEW c, Timed(q, n, w, c), NEW r \in Pair, NEW v \in Word
    PROVE  Timed(load16(q, r, v), n, w, c)
<1> DEFINE t == load16(q, r, v)
<1>1. Machine(t) /\ Keeps(t, q, Halves(r))
  BY Load16 DEF Timed
<1> HIDE DEF t
<1>2. Timed(t, n, w, c)
  BY <1>1, KeepsTime, HalvesAreRegisters
<1> QED
  BY <1>2 DEF t
LEMMA TimedWrite ==
    ASSUME NEW q, NEW n \in Nat, NEW w \in Nat, NEW c, Timed(q, n, w, c), NEW x \in Word,
           NEW v \in Byte
    PROVE  Timed(write_data(q, x, v), n, w + 1, c)
<1> DEFINE t == write_data(q, x, v)
<1>1. Machine(t) /\ Keeps(t, q, {"accesses", "mem"}) /\ Accessed(t, n, w + 1)
  BY WriteByte, Zenon DEF Timed
<1> HIDE DEF t
<1>2. t.cycles = q.cycles
  BY <1>1 DEF Keeps, Fields
<1>3. Timed(t, n, w + 1, c)
  BY <1>1, <1>2 DEF Timed
<1> QED
  BY <1>3 DEF t
LEMMA TimedImmediate ==
    ASSUME NEW q, NEW n \in Nat, NEW c, Timed(q, n, 0, c)
    PROVE  Timed(read_immediate(q), n + 1, 0, c)
<1> DEFINE t == read_immediate(q)
<1>1. Machine(t) /\ Keeps(t, q, {"accesses", "pc"}) /\ Accessed(t, n + 1, 0)
  BY ReadImmediate DEF Timed
<1> HIDE DEF t
<1>2. t.cycles = q.cycles
  BY <1>1 DEF Keeps, Fields
<1>3. Timed(t, n + 1, 0, c)
  BY <1>1, <1>2 DEF Timed
<1> QED
  BY <1>3 DEF t
LEMMA TimedFetched ==
    ASSUME NEW q, NEW n \in Nat, NEW c, Timed(q, n, 0, c), NEW r \in Reg
    PROVE  Timed(Fetched(q, r), IF r = "(hl)" THEN n + 1 ELSE n, 0, c)
<1> DEFINE t == Fetched(q, r)
           k == IF r = "(hl)" THEN n + 1 ELSE n
<1>1. Machine(t) /\ Keeps(t, q, {"accesses"}) /\ Accessed(t, k, 0)
  BY FetchedOperand DEF Timed
<1> HIDE DEF t, k
<1>2. t.cycles = q.cycles
  BY <1>1 DEF Keeps, Fields
<1>3. Timed(t, k, 0, c)
  BY <1>1, <1>2 DEF Timed
<1> QED
  BY <1>3 DEF t, k
LEMMA TimedLoad ==
    ASSUME NEW q, NEW n \in Nat, NEW w \in Nat, NEW c, Timed(q, n, w, c), NEW r \in Reg,
           NEW v \in Byte
    PROVE  Timed(load(q, r, v), n, IF r = "(hl)" THEN w + 1 ELSE w, c)
<1> DEFINE t == load(q, r, v)
           k == IF r = "(hl)" THEN w + 1 ELSE w
<1>1. /\ Machine(t) /\ Accessed(t, n, k)
      /\ r \in Half => Keeps(t, q, {r})
      /\ r = "(hl)" => Keeps(t, q, {"accesses", "mem"})
  BY LoadByte, Zenon DEF Timed
<1> HIDE DEF t, k
<1>2. t.cycles = q.cycles
  <2>1. CASE r \in Half
    <3>1. "cycles" \notin {r} /\ Keeps(t, q, {r})
      BY <1>1, <2>1 DEF Half
    <3> QED
      BY <3>1 DEF Keeps, Fields
  <2>2. CASE r = "(hl)"
    BY <1>1, <2>2 DEF Keeps, Fields
  <2> QED
    BY <2>1, <2>2 DEF Reg
<1>3. Timed(t, n, k, c)
  BY <1>1, <1>2 DEF Timed
<1> QED
  BY <1>3 DEF t, k
LEMMA TimedUpdate ==
    ASSUME NEW q, NEW n \in Nat, NEW w \in Nat, NEW c, Timed(q, n, w, c), NEW r \in Reg,
           NEW res \in AluResult
    PROVE  Timed(Update(q, r, res), n, IF r = "(hl)" THEN w + 1 ELSE w, c)
<1> DEFINE s == [q EXCEPT !.f = res.flags]
<1>1. res.flags \in SUBSET Flag /\ res.value \in Byte
  BY DEF AluResult
<1>2. Timed(s, n, w, c)
  BY <1>1, TimedFlags
<1> HIDE DEF s
<1>3. Timed(load(s, r, res.value), n, IF r = "(hl)" THEN w + 1 ELSE w, c)
  BY <1>1, <1>2, TimedLoad
<1> QED
  BY <1>3 DEF s, Update
LEMMA TimedModify ==
    ASSUME NEW q, NEW n \in Nat, NEW c, Timed(q, n, 0, c), NEW r \in Reg, NEW res \in AluResult
    PROVE  IF r = "(hl)" THEN Timed(Modify(q, r, res), n + 1, 1, c)
                         ELSE Timed(Modify(q, r, res), n, 0, c)
<1> DEFINE s == Fetched(q, r)
<1>1. CASE r = "(hl)"
  <2>1. Timed(s, n + 1, 0, c) /\ n + 1 \in Nat
    BY <1>1, TimedFetched
  <2> HIDE DEF s
  <2>2. Timed(Update(s, r, res), n + 1, 0 + 1, c)
    BY <1>1, <2>1, TimedUpdate
  <2>3. Timed(Update(s, r, res), n + 1, 1, c)
    BY <2>2
  <2> QED
    BY <1>1, <2>3 DEF s, Modify
<1>2. CASE r # "(hl)"
  <2>1. s = q
    BY <1>2 DEF Fetched
  <2>2. Timed(Update(q, r, res), n, 0, c)
    BY <1>2, TimedUpdate
  <2> QED
    BY <1>2, <2>1, <2>2 DEF Modify
<1> QED
  BY <1>1, <1>2
LEMMA TimedPush ==
    ASSUME NEW q, NEW n \in Nat, NEW c, Timed(q, n, 0, c), NEW v \in Word
    PROVE  Timed(push(q, v), n, 2, c)
<1> DEFINE t == push(q, v)
<1>1. Machine(t) /\ Keeps(t, q, {"accesses", "mem", "sp"}) /\ Accessed(t, n, 2)
  BY PushWord, ZenonT(60) DEF Timed
<1> HIDE DEF t
<1>2. t.cycles = q.cycles
  BY <1>1 DEF Keeps, Fields
<1>3. Timed(t, n, 2, c)
  BY <1>1, <1>2 DEF Timed
<1> QED
  BY <1>3 DEF t
LEMMA TimedPop ==
    ASSUME NEW q, NEW n \in Nat, NEW c, Timed(q, n, 0, c), NEW r \in Pair \ {"sp"}
    PROVE  Timed(pop(q, r), n + 2, 0, c)
<1> DEFINE t == pop(q, r)
           S == {"accesses", "sp"} \cup Halves(r)
<1>1. Machine(t) /\ Keeps(t, q, S) /\ Accessed(t, n + 2, 0)
  BY PopWord DEF Timed
<1>2. "cycles" \notin S
  BY HalvesAreRegisters
<1> HIDE DEF t, S
<1>3. t.cycles = q.cycles
  BY <1>1, <1>2 DEF Keeps, Fields
<1>4. Timed(t, n + 2, 0, c)
  BY <1>1, <1>3 DEF Timed
<1> QED
  BY <1>4 DEF t
LEMMA TimedStore16 ==
    ASSUME NEW q, NEW n \in Nat, NEW c, Timed(q, n, 0, c), NEW x \in Word, NEW v \in Word
    PROVE  Timed(store16(q, x, v), n, 2, c)
<1> DEFINE t == store16(q, x, v)
<1>1. Machine(t) /\ Keeps(t, q, {"accesses", "mem"}) /\ Accessed(t, n, 2)
  <2>1. WordStored(t, q, x, v) /\ Accessed(t, n, 2)
    BY StoreWord, ZenonT(60) DEF Timed
  <2> HIDE DEF t
  <2> QED
    BY <2>1 DEF WordStored
<1> HIDE DEF t
<1>2. t.cycles = q.cycles
  BY <1>1 DEF Keeps, Fields
<1>3. Timed(t, n, 2, c)
  BY <1>1, <1>2 DEF Timed
<1> QED
  BY <1>3 DEF t
LEMMA TimedJump ==
    ASSUME NEW q, NEW n, NEW w, NEW c, Timed(q, n, w, c), NEW x \in Word
    PROVE  Timed(jump(q, x), n, w, c)
<1> DEFINE t == jump(q, x)
<1>1. Machine(t) /\ Keeps(t, q, {"pc"})
  BY Jump DEF Timed
<1> HIDE DEF t
<1>2. Timed(t, n, w, c)
  BY <1>1, KeepsTime
<1> QED
  BY <1>2 DEF t
LEMMA TimedRelative ==
    ASSUME NEW q, NEW n, NEW w, NEW c, Timed(q, n, w, c), NEW v \in Byte
    PROVE  Timed(jump_relative(q, v), n, w, c)
<1> DEFINE t == jump_relative(q, v)
<1>1. Machine(t) /\ Keeps(t, q, {"pc"})
  BY JumpRelative DEF Timed
<1> HIDE DEF t
<1>2. Timed(t, n, w, c)
  BY <1>1, KeepsTime
<1> QED
  BY <1>2 DEF t
LEMMA TimedCall ==
    ASSUME NEW q, NEW n \in Nat, NEW c, Timed(q, n, 0, c), NEW x \in Word
    PROVE  Timed(call(q, x), n, 2, c) /\ Timed(rst(q, x), n, 2, c)
<1>1. q.pc \in Word
  BY DEF Timed, Machine
<1>2. Timed(push(q, q.pc), n, 2, c)
  BY <1>1, TimedPush
<1>3. Timed(jump(push(q, q.pc), x), n, 2, c)
  BY <1>2, TimedJump
<1> QED
  BY <1>3 DEF call, rst
LEMMA TimedReturn ==
    ASSUME NEW q, NEW n \in Nat, NEW c, Timed(q, n, 0, c)
    PROVE  Timed(ret(q), n + 2, 0, c) /\ Timed(reti(q), n + 2, 0, c)
<1>1. "pc" \in Pair \ {"sp"}
  BY DEF Pair
<1>5. "reti" \in Controls
  BY DEF Controls
<1>2. Timed(pop(q, "pc"), n + 2, 0, c)
  BY <1>1, TimedPop
<1>3. Timed(ret(q), n + 2, 0, c)
  BY <1>2 DEF ret
<1>4. Timed([ret(q) EXCEPT !.control = "reti"], n + 2, 0, c)
  BY <1>3, <1>5, TimedControl
<1> QED
  BY <1>3, <1>4 DEF reti
LEMMA TimedLoadFrom ==
    ASSUME NEW q, NEW n \in Nat, NEW c, Timed(q, n, 0, c), NEW x \in Word
    PROVE  Timed(load_from(q, "a", x), n + 1, 0, c)
<1> DEFINE t == load_from(q, "a", x)
<1>1. Machine(t) /\ Keeps(t, q, {"accesses", "a"}) /\ Accessed(t, n + 1, 0)
  BY LoadFrom DEF Timed
<1> HIDE DEF t
<1>2. t.cycles = q.cycles
  BY <1>1 DEF Keeps, Fields
<1>3. Timed(t, n + 1, 0, c)
  BY <1>1, <1>2 DEF Timed
<1> QED
  BY <1>3 DEF t

\* The last tick made at least one read, then at most two writes, each in four of
\* the cycles it reported.
Fits(t) ==
    \E n \in 1..5, w \in 0..2, c \in Durations : Timed(t, n, w, c) /\ 4 * (n + w) <= c

LEMMA FitsWith ==
    ASSUME NEW t, NEW n \in 1..5, NEW w \in 0..2, NEW c \in Durations,
           Timed(t, n, w, c), 4 * (n + w) <= c
    PROVE  Fits(t)
  BY DEF Fits
LEMMA FitsByte ==
    ASSUME NEW t, NEW n \in 1..5, NEW c \in Durations, NEW r,
           Timed(t, n, IF r = "(hl)" THEN 1 ELSE 0, c),
           4 * (n + IF r = "(hl)" THEN 1 ELSE 0) <= c
    PROVE  Fits(t)
<1>1. (IF r = "(hl)" THEN 1 ELSE 0) \in 0..2
  OBVIOUS
<1> QED
  BY <1>1, FitsWith

\* The machine that a standard instruction works on: its bytes have been read.
Fetching(q, op) == Timed(q, length(op), 0, standard_cycle_count(op))
Immediate(op, data) == data \in Word /\ (length(op) # 3 => data \in Byte)

LEMMA Branching ==
    ASSUME NEW op \in Opcode, NEW q, Fetching(q, op), NEW taken, Fits(taken),
           length(op) \in {1, 2, 3},
           4 * length(op) <= get_false_branch_cycle_count(op)
    PROVE  Fits(Branch(q, op, taken))
<1> DEFINE c == get_false_branch_cycle_count(op)
           t == [q EXCEPT !.cycles = c]
           n == length(op)
<1>1. c \in {8, 12}
  BY DEF get_false_branch_cycle_count
<1>2. 4 * n <= c /\ n \in {1, 2, 3}
  OBVIOUS
<1>3. Machine(q) /\ Accessed(q, n, 0)
  BY DEF Fetching, Timed
<1> HIDE DEF c, n
<1>4. Machine(t) /\ Keeps(t, q, {"cycles"}) /\ t.cycles = c
  BY <1>1, <1>3, SetCycles
<1> HIDE DEF t
<1>5. t.accesses = q.accesses
  BY <1>4 DEF Keeps, Fields
<1>6. Timed(t, n, 0, c)
  BY <1>3, <1>4, <1>5 DEF Timed, Accessed
<1>7. n \in 1..5 /\ 0 \in 0..2 /\ c \in Durations /\ 4 * (n + 0) <= c
  BY <1>1, <1>2 DEF Durations
<1>8. Fits(t)
  <2>1. n \in 1..5 /\ 0 \in 0..2 /\ c \in Durations /\ 4 * (n + 0) <= c
    BY <1>1, <1>2 DEF Durations
  <2> QED
    BY <1>6, <2>1, FitsWith
<1> QED
  BY <1>8 DEF Branch, c, t

LEMMA WordSums ==
    ASSUME NEW F \in SUBSET Flag, NEW l \in Word, NEW r \in Word
    PROVE  add16(F, l, r).value \in Word /\ add16(F, l, r).flags \in SUBSET Flag
<1>1. 0 \in Int
  OBVIOUS
<1> QED
  BY <1>1, Words16 DEF WordResult
LEMMA StackSums ==
    ASSUME NEW l \in Word, NEW n \in Int
    PROVE  /\ add_to_stack_pointer(l, n).value \in Word
           /\ add_to_stack_pointer(l, n).flags \in SUBSET Flag
<1>1. {} \in SUBSET Flag
  OBVIOUS
<1> QED
  BY <1>1, Words16, ZenonT(60) DEF WordResult

LEMMA ColumnsFit ==
    ASSUME NEW op \in 0..63, NEW q, Fetching(q, op), NEW data, Immediate(op, data),
           z(op) \in {1, 3, 4, 5, 6} \/ (z(op) = 0 /\ y(op) > 3)
    PROVE  Fits(Columns(q, op, data))
<1> DEFINE i == y(op)
           j == z(op)
           rr == pair_y(op)
           reg == reg_y(op)
           n == length(op)
           c == standard_cycle_count(op)
           col == Columns(q, op, data)
<1>1. i \in 0..7 /\ j \in 0..7 /\ op \in Opcode
  BY Fields8 DEF Opcode
<1>2. Timed(q, n, 0, c)
  BY DEF Fetching
<1>3. data \in Word /\ (n # 3 => data \in Byte)
  BY DEF Immediate
<1>4. rr \in Pair /\ rr # "af" /\ "hl" \in Pair
  BY PairOperands, <1>1 DEF Pair
<1>5. value(q, rr) \in Word /\ value(q, "hl") \in Word
  BY <1>2, <1>4, ValueType DEF Timed
<1>6. reg \in Reg /\ (reg = "(hl)" <=> i = 6)
  BY <1>1, RegisterOperands
<1>7. /\ j = 1 /\ i % 2 = 0 => n = 3 /\ c = 12
      /\ j = 1 /\ i % 2 = 1 => n = 1 /\ c = 8
      /\ j = 3 => n = 1 /\ c = 8
      /\ j \in {4, 5} => n = 1 /\ c = IF i = 6 THEN 12 ELSE 4
      /\ j = 6 => n = 2 /\ c = IF i = 6 THEN 12 ELSE 8
      /\ j = 0 /\ i > 2 => n = 2 /\ c = 12
  BY LowerTables
<1>8. /\ j = 1 /\ i % 2 = 0 => col = load16(q, rr, data)
      /\ j = 1 /\ i % 2 = 1 =>
           LET r == add16(q.f, value(q, "hl"), value(q, rr))
           IN  col = [load16(q, "hl", r.value) EXCEPT !.f = r.flags]
      /\ j = 3 /\ i % 2 = 0 => col = load16(q, rr, increment16(value(q, rr)))
      /\ j = 3 /\ i % 2 = 1 => col = load16(q, rr, decrement16(value(q, rr)))
      /\ j = 4 => col = Modify(q, reg, increment(q.f, Operand(q, reg)))
      /\ j = 5 => col = Modify(q, reg, decrement(q.f, Operand(q, reg)))
      /\ j = 6 => col = load(q, reg, data)
      /\ j = 0 => col = Branch(q, op, jump_relative(q, data))
  BY <1>1 DEF Columns
<1>9. q.f \in SUBSET Flag /\ Operand(q, reg) \in Byte
  BY <1>2, <1>6, OperandByte, Zenon DEF Timed, Machine
<1> HIDE DEF i, j, rr, reg, n, c, col
<1> SUFFICES Fits(col)
  BY DEF col
<1>10. CASE j = 1 /\ i % 2 = 0
  <2>1. n = 3 /\ c = 12 /\ col = load16(q, rr, data)
    BY <1>7, <1>8, <1>10
  <2>2. Timed(col, 3, 0, 12)
    BY <1>2, <1>3, <1>4, <2>1, TimedLoad16
  <2> QED
    BY <2>2 DEF Fits, Durations
<1>11. CASE j = 1 /\ i % 2 = 1
  <2> DEFINE r == add16(q.f, value(q, "hl"), value(q, rr))
             s == load16(q, "hl", r.value)
  <2>1. r.value \in Word /\ r.flags \in SUBSET Flag
    BY <1>5, <1>9, WordSums, Zenon
  <2>2. n = 1 /\ c = 8 /\ col = [s EXCEPT !.f = r.flags]
    BY <1>7, <1>8, <1>11
  <2> HIDE DEF r
  <2>3. Timed(s, 1, 0, 8)
    BY <1>2, <1>4, <2>1, <2>2, TimedLoad16
  <2> HIDE DEF s
  <2>4. Timed(col, 1, 0, 8)
    BY <2>1, <2>2, <2>3, TimedFlags
  <2> QED
    BY <2>4 DEF Fits, Durations
<1>12. CASE j = 3
  <2>1. increment16(value(q, rr)) \in Word /\ decrement16(value(q, rr)) \in Word
    BY <1>5, StepWord
  <2>2. \E v \in Word : col = load16(q, rr, v)
    <3>1. i % 2 = 0 \/ i % 2 = 1
      BY <1>1 DEF i
    <3> QED
      BY <1>8, <1>12, <2>1, <3>1
  <2>3. Timed(col, 1, 0, 8)
    BY <1>2, <1>4, <1>7, <1>12, <2>2, TimedLoad16
  <2> QED
    BY <2>3 DEF Fits, Durations
<1>13. CASE j \in {4, 5}
  <2>1. increment(q.f, Operand(q, reg)) \in AluResult
        /\ decrement(q.f, Operand(q, reg)) \in AluResult
    BY <1>9, Counts
  <2>2. PICK r \in AluResult : col = Modify(q, reg, r)
    BY <1>8, <1>13, <2>1
  <2>3. Timed(q, 1, 0, c) /\ 1 \in Nat
    BY <1>2, <1>7, <1>13
  <2>4. CASE reg = "(hl)"
    <3>1. Timed(q, 1, 0, 12)
      BY <1>6, <1>7, <1>13, <2>3, <2>4
    <3>2. Timed(col, 1 + 1, 1, 12)
      BY <1>6, <2>2, <2>4, <3>1, TimedModify
    <3> QED
      BY <3>2 DEF Fits, Durations
  <2>5. CASE reg # "(hl)"
    <3>1. Timed(q, 1, 0, 4)
      BY <1>6, <1>7, <1>13, <2>3, <2>5
    <3>2. Timed(col, 1, 0, 4)
      BY <1>6, <2>2, <2>5, <3>1, TimedModify
    <3> QED
      BY <3>2 DEF Fits, Durations
  <2> QED
    BY <2>4, <2>5
<1>14. CASE j = 6
  <2>1. n = 2 /\ c \in Durations /\ data \in Byte /\ col = load(q, reg, data)
    BY <1>3, <1>7, <1>8, <1>14 DEF Durations
  <2>2. Timed(col, 2, IF reg = "(hl)" THEN 0 + 1 ELSE 0, c)
    BY <1>2, <1>6, <2>1, TimedLoad
  <2>3. 4 * (2 + IF reg = "(hl)" THEN 1 ELSE 0) <= c /\ 2 \in 1..5
    BY <1>6, <1>7, <1>14
  <2>4. (IF reg = "(hl)" THEN 0 + 1 ELSE 0) = IF reg = "(hl)" THEN 1 ELSE 0
    OBVIOUS
  <2> QED
    BY <2>1, <2>2, <2>3, <2>4, FitsByte
<1>15. CASE j = 0
  <2> DEFINE s == jump_relative(q, data)
  <2>1. i > 3
    BY <1>15 DEF i, j
  <2>2. n = 2 /\ c = 12 /\ data \in Byte /\ col = Branch(q, op, s)
    BY <1>1, <1>3, <1>7, <1>8, <1>15, <2>1
  <2>3. Timed(s, 2, 0, 12)
    BY <1>2, <2>2, TimedRelative
  <2> HIDE DEF s
  <2>5. Fits(s)
    BY <2>3 DEF Fits, Durations
  <2>6. 4 * length(op) <= get_false_branch_cycle_count(op) /\ length(op) \in {1, 2, 3}
    BY <1>1, <2>2 DEF get_false_branch_cycle_count, n
  <2> QED
    BY <1>1, <2>2, <2>5, <2>6, Branching
<1>16. j \in {1, 3, 4, 5, 6} \/ j = 0
  BY DEF j
<1>17. i % 2 = 0 \/ i % 2 = 1
  BY <1>1 DEF i
<1> QED
  BY <1>10, <1>11, <1>12, <1>13, <1>14, <1>15, <1>16, <1>17

LEMMA ControlTables ==
    /\ length(\h00) = 1 /\ standard_cycle_count(\h00) = 4
    /\ length(\h08) = 3 /\ standard_cycle_count(\h08) = 20
    /\ length(\h10) = 2 /\ standard_cycle_count(\h10) = 4
    /\ length(\h18) = 2 /\ standard_cycle_count(\h18) = 12
  BY DEF length, Length2, Length3, standard_cycle_count, LowerCycles, y, z

LEMMA RotatedAccumulator ==
    ASSUME NEW q, Machine(q)
    PROVE  /\ OnAccumulator(rotate_left_c(q.f, q.a)) \in AluResult
           /\ OnAccumulator(rotate_right_c(q.f, q.a)) \in AluResult
           /\ OnAccumulator(rotate_left(q.f, q.a)) \in AluResult
           /\ OnAccumulator(rotate_right(q.f, q.a)) \in AluResult
           /\ decimal_adjust(q.f, q.a) \in AluResult
           /\ complement(q.f, q.a) \in AluResult
<1>1. q.f \in SUBSET Flag /\ q.a \in Byte
  BY DEF Machine, Half
<1> QED
  BY <1>1, Rotations, AccumulatorForms, Counts, Logicals, Zenon

LEMMA AccumulatorFits ==
    ASSUME NEW q, Timed(q, 1, 0, 4), NEW res \in AluResult
    PROVE  Fits(Update(q, "a", res))
<1>1. "a" \in Reg
  BY DEF Reg, Half
<1>2. Timed(Update(q, "a", res), 1, 0, 4)
  BY <1>1, TimedUpdate
<1> QED
  BY <1>2 DEF Fits, Durations
LEMMA StoreFits ==
    ASSUME NEW q, Timed(q, 1, 0, 8), NEW x \in Word
    PROVE  Timed(write_data(q, x, q.a), 1, 1, 8)
<1>1. q.a \in Byte
  BY DEF Timed, Machine, Half
<1>2. Timed(write_data(q, x, q.a), 1, 0 + 1, 8)
  BY <1>1, TimedWrite, Zenon
<1> QED
  BY <1>2
LEMMA LoadFits ==
    ASSUME NEW q, Timed(q, 1, 0, 8), NEW x \in Word
    PROVE  Timed(load_from(q, "a", x), 2, 0, 8)
<1>1. Timed(load_from(q, "a", x), 1 + 1, 0, 8)
  BY TimedLoadFrom
<1> QED
  BY <1>1

LEMMA Row_00Fits ==
    ASSUME NEW op \in Int, 0 <= op, op < 16, NEW q, Fetching(q, op), NEW data,
           Immediate(op, data)
    PROVE  Fits(Row_00(q, op, data))
<1> DEFINE i == y(op)
           j == z(op)
           n == length(op)
           c == standard_cycle_count(op)
           row == Row_00(q, op, data)
<1>1. i \in 0..7 /\ j \in 0..7 /\ op = 8 * i + j
  BY DEF y, z
<1>2. Timed(q, n, 0, c) /\ Machine(q) /\ q.sp \in Word
  BY Zenon DEF Fetching, Timed, Machine
<1>3. data \in Word /\ value(q, "bc") \in Word
  BY <1>2, ValueType DEF Immediate, Pair
<1>4. /\ j = 2 => n = 1 /\ c = 8
      /\ j = 7 => n = 1 /\ c = 4
  BY LowerTables
<1>5. /\ op = 0 => n = 1 /\ c = 4
      /\ op = 8 => n = 3 /\ c = 20
  BY ControlTables
<1>6. /\ op = 0 => row = q
      /\ op = 2 => row = write_data(q, value(q, "bc"), q.a)
      /\ op = 7 => row = Update(q, "a", OnAccumulator(rotate_left_c(q.f, q.a)))
      /\ op = 8 => row = store16(q, data, q.sp)
      /\ op = 10 => row = load_from(q, "a", value(q, "bc"))
      /\ op = 15 => row = Update(q, "a", OnAccumulator(rotate_right_c(q.f, q.a)))
      /\ op \notin {0, 2, 7, 8, 10, 15} => row = Columns(q, op, data)
  BY DEF Row_00
<1>7. op \notin {0, 2, 7, 8, 10, 15} => j \in {1, 3, 4, 5, 6}
  BY <1>1
<1>8. /\ op \in {2, 10} => j = 2
      /\ op \in {7, 15} => j = 7
  BY <1>1
<1>9. op \in 0..63
  OBVIOUS
<1> HIDE DEF i, j, n, c, row
<1> SUFFICES Fits(row)
  BY DEF row
<1>10. CASE op = 0
  <2>1. Timed(row, 1, 0, 4)
    BY <1>2, <1>5, <1>6, <1>10
  <2> QED
    BY <2>1 DEF Fits, Durations
<1>11. CASE op = 2
  <2>1. Timed(row, 1, 1, 8)
    BY <1>2, <1>3, <1>4, <1>6, <1>8, <1>11, StoreFits
  <2> QED
    BY <2>1 DEF Fits, Durations
<1>12. CASE op = 8
  <2>1. Timed(row, 3, 2, 20)
    BY <1>2, <1>3, <1>5, <1>6, <1>12, TimedStore16
  <2> QED
    BY <2>1 DEF Fits, Durations
<1>13. CASE op = 10
  <2>1. Timed(row, 2, 0, 8)
    BY <1>2, <1>3, <1>4, <1>6, <1>8, <1>13, LoadFits
  <2> QED
    BY <2>1 DEF Fits, Durations
<1>14. CASE op \in {7, 15}
  <2>1. Timed(q, 1, 0, 4)
    BY <1>2, <1>4, <1>8, <1>14
  <2> QED
    BY <1>2, <1>6, <1>14, <2>1, RotatedAccumulator, AccumulatorFits
<1>15. CASE op \notin {0, 2, 7, 8, 10, 15}
  <2>1. Fits(Columns(q, op, data))
    BY <1>7, <1>9, <1>15, ColumnsFit DEF j
  <2> QED
    BY <1>6, <1>15, <2>1
<1> QED
  BY <1>10, <1>11, <1>12, <1>13, <1>14, <1>15

LEMMA Row_10Fits ==
    ASSUME NEW op \in Int, 16 < op, op < 32, NEW q, Fetching(q, op), NEW data,
           Immediate(op, data)
    PROVE  Fits(Row_10(q, op, data))
<1> DEFINE i == y(op)
           j == z(op)
           n == length(op)
           c == standard_cycle_count(op)
           row == Row_10(q, op, data)
<1>1. i \in 0..7 /\ j \in 0..7 /\ op = 8 * i + j
  BY DEF y, z
<1>2. Timed(q, n, 0, c) /\ Machine(q)
  BY DEF Fetching, Timed
<1>3. data \in Word /\ value(q, "de") \in Word
  BY <1>2, ValueType DEF Immediate, Pair
<1>4. /\ j = 2 => n = 1 /\ c = 8
      /\ j = 7 => n = 1 /\ c = 4
  BY LowerTables
<1>5. op = 24 => n = 2 /\ c = 12 /\ data \in Byte
  BY ControlTables DEF Immediate
<1>6. /\ op = 18 => row = write_data(q, value(q, "de"), q.a)
      /\ op = 23 => row = Update(q, "a", OnAccumulator(rotate_left(q.f, q.a)))
      /\ op = 24 => row = jump_relative(q, data)
      /\ op = 26 => row = load_from(q, "a", value(q, "de"))
      /\ op = 31 => row = Update(q, "a", OnAccumulator(rotate_right(q.f, q.a)))
      /\ op \notin {18, 23, 24, 26, 31} => row = Columns(q, op, data)
  BY DEF Row_10
<1>7. op \notin {18, 23, 24, 26, 31} => j \in {1, 3, 4, 5, 6}
  BY <1>1
<1>8. /\ op \in {18, 26} => j = 2
      /\ op \in {23, 31} => j = 7
  BY <1>1
<1>9. op \in 0..63
  OBVIOUS
<1> HIDE DEF i, j, n, c, row
<1> SUFFICES Fits(row)
  BY DEF row
<1>10. CASE op = 18
  <2>1. Timed(row, 1, 1, 8)
    BY <1>2, <1>3, <1>4, <1>6, <1>8, <1>10, StoreFits
  <2> QED
    BY <2>1 DEF Fits, Durations
<1>11. CASE op = 24
  <2>1. Timed(row, 2, 0, 12)
    BY <1>2, <1>3, <1>5, <1>6, <1>11, TimedRelative
  <2> QED
    BY <2>1 DEF Fits, Durations
<1>12. CASE op = 26
  <2>1. Timed(row, 2, 0, 8)
    BY <1>2, <1>3, <1>4, <1>6, <1>8, <1>12, LoadFits
  <2> QED
    BY <2>1 DEF Fits, Durations
<1>13. CASE op \in {23, 31}
  <2>1. Timed(q, 1, 0, 4)
    BY <1>2, <1>4, <1>8, <1>13
  <2> QED
    BY <1>2, <1>6, <1>13, <2>1, RotatedAccumulator, AccumulatorFits
<1>14. CASE op \notin {18, 23, 24, 26, 31}
  <2>1. Fits(Columns(q, op, data))
    BY <1>7, <1>9, <1>14, ColumnsFit DEF j
  <2> QED
    BY <1>6, <1>14, <2>1
<1> QED
  BY <1>10, <1>11, <1>12, <1>13, <1>14

LEMMA Row_20Fits ==
    ASSUME NEW op \in Int, 32 <= op, op < 48, NEW q, Fetching(q, op), NEW data,
           Immediate(op, data)
    PROVE  Fits(Row_20(q, op, data))
<1> DEFINE i == y(op)
           j == z(op)
           n == length(op)
           c == standard_cycle_count(op)
           hl == value(q, "hl")
           row == Row_20(q, op, data)
<1>1. i \in 0..7 /\ j \in 0..7 /\ op = 8 * i + j
  BY DEF y, z
<1>2. Timed(q, n, 0, c) /\ Machine(q)
  BY DEF Fetching, Timed
<1>3. hl \in Word /\ "hl" \in Pair
  BY <1>2, ValueType DEF Pair
<1>4. /\ j = 2 => n = 1 /\ c = 8
      /\ j = 7 => n = 1 /\ c = 4
  BY LowerTables
<1>6. /\ op = 34 => row = load16(write_data(q, hl, q.a), "hl", increment16(hl))
      /\ op = 39 => row = Update(q, "a", decimal_adjust(q.f, q.a))
      /\ op = 42 => row = load16(load_from(q, "a", hl), "hl", increment16(hl))
      /\ op = 47 => row = Update(q, "a", complement(q.f, q.a))
      /\ op \notin {34, 39, 42, 47} => row = Columns(q, op, data)
  BY DEF Row_20
<1>7. op \notin {34, 39, 42, 47} => j \in {1, 3, 4, 5, 6} \/ (j = 0 /\ i > 3)
  BY <1>1
<1>8. /\ op \in {34, 42} => j = 2
      /\ op \in {39, 47} => j = 7
  BY <1>1
<1>9. op \in 0..63
  OBVIOUS
<1> HIDE DEF i, j, n, c, row, hl
<1> SUFFICES Fits(row)
  BY DEF row
<1>10. increment16(hl) \in Word
  BY <1>3, StepWord
<1>11. CASE op = 34
  <2>1. Timed(write_data(q, hl, q.a), 1, 1, 8)
    BY <1>2, <1>3, <1>4, <1>8, <1>11, StoreFits
  <2>2. Timed(row, 1, 1, 8)
    BY <1>3, <1>6, <1>10, <1>11, <2>1, TimedLoad16
  <2> QED
    BY <2>2 DEF Fits, Durations
<1>12. CASE op = 42
  <2>1. Timed(load_from(q, "a", hl), 2, 0, 8)
    BY <1>2, <1>3, <1>4, <1>8, <1>12, LoadFits
  <2>2. Timed(row, 2, 0, 8)
    BY <1>3, <1>6, <1>10, <1>12, <2>1, TimedLoad16
  <2> QED
    BY <2>2 DEF Fits, Durations
<1>13. CASE op \in {39, 47}
  <2>1. Timed(q, 1, 0, 4)
    BY <1>2, <1>4, <1>8, <1>13
  <2> QED
    BY <1>2, <1>6, <1>13, <2>1, RotatedAccumulator, AccumulatorFits
<1>14. CASE op \notin {34, 39, 42, 47}
  <2>1. Fits(Columns(q, op, data))
    BY <1>7, <1>9, <1>14, ColumnsFit DEF i, j
  <2> QED
    BY <1>6, <1>14, <2>1
<1> QED
  BY <1>11, <1>12, <1>13, <1>14

LEMMA Row_30Fits ==
    ASSUME NEW op \in Int, 48 <= op, op < 64, NEW q, Fetching(q, op), NEW data,
           Immediate(op, data)
    PROVE  Fits(Row_30(q, op, data))
<1> DEFINE i == y(op)
           j == z(op)
           n == length(op)
           c == standard_cycle_count(op)
           hl == value(q, "hl")
           kept == q.f \cap {"zero"}
           row == Row_30(q, op, data)
<1>1. i \in 0..7 /\ j \in 0..7 /\ op = 8 * i + j
  BY DEF y, z
<1>2. Timed(q, n, 0, c) /\ Machine(q)
  BY DEF Fetching, Timed
<1>3. hl \in Word /\ "hl" \in Pair
  BY <1>2, ValueType DEF Pair
<1>4. /\ j = 2 => n = 1 /\ c = 8
      /\ j = 7 => n = 1 /\ c = 4
  BY LowerTables
<1>5. kept \cup {"carry"} \in SUBSET Flag /\ kept \cup ({"carry"} \ q.f) \in SUBSET Flag
  BY DEF Flag
<1>6. /\ op = 50 => row = load16(write_data(q, hl, q.a), "hl", decrement16(hl))
      /\ op = 55 => row = [q EXCEPT !.f = kept \cup {"carry"}]
      /\ op = 58 => row = load16(load_from(q, "a", hl), "hl", decrement16(hl))
      /\ op = 63 => row = [q EXCEPT !.f = kept \cup ({"carry"} \ q.f)]
      /\ op \notin {50, 55, 58, 63} => row = Columns(q, op, data)
  BY DEF Row_30
<1>7. op \notin {50, 55, 58, 63} => j \in {1, 3, 4, 5, 6} \/ (j = 0 /\ i > 3)
  BY <1>1
<1>8. /\ op \in {50, 58} => j = 2
      /\ op \in {55, 63} => j = 7
  BY <1>1
<1>9. op \in 0..63
  OBVIOUS
<1> HIDE DEF i, j, n, c, row, hl, kept
<1> SUFFICES Fits(row)
  BY DEF row
<1>10. decrement16(hl) \in Word
  BY <1>3, StepWord
<1>11. CASE op = 50
  <2>1. Timed(write_data(q, hl, q.a), 1, 1, 8)
    BY <1>2, <1>3, <1>4, <1>8, <1>11, StoreFits
  <2>2. Timed(row, 1, 1, 8)
    BY <1>3, <1>6, <1>10, <1>11, <2>1, TimedLoad16
  <2> QED
    BY <2>2 DEF Fits, Durations
<1>12. CASE op = 58
  <2>1. Timed(load_from(q, "a", hl), 2, 0, 8)
    BY <1>2, <1>3, <1>4, <1>8, <1>12, LoadFits
  <2>2. Timed(row, 2, 0, 8)
    BY <1>3, <1>6, <1>10, <1>12, <2>1, TimedLoad16
  <2> QED
    BY <2>2 DEF Fits, Durations
<1>13. CASE op \in {55, 63}
  <2>1. Timed(q, 1, 0, 4)
    BY <1>2, <1>4, <1>8, <1>13
  <2>2. \E F \in SUBSET Flag : row = [q EXCEPT !.f = F]
    BY <1>5, <1>6, <1>13
  <2>3. Timed(row, 1, 0, 4)
    BY <2>1, <2>2, TimedFlags
  <2> QED
    BY <2>3 DEF Fits, Durations
<1>14. CASE op \notin {50, 55, 58, 63}
  <2>1. Fits(Columns(q, op, data))
    BY <1>7, <1>9, <1>14, ColumnsFit DEF i, j
  <2> QED
    BY <1>6, <1>14, <2>1
<1> QED
  BY <1>11, <1>12, <1>13, <1>14

LEMMA LoadFitsMiddle ==
    ASSUME NEW op \in Int, 64 <= op, op < 128, op # 118, NEW q, Fetching(q, op)
    PROVE  Fits(Load(q, op))
<1> DEFINE i == y(op)
           j == z(op)
           n == length(op)
           c == standard_cycle_count(op)
           to == reg_y(op)
           from == reg_z(op)
           v == Operand(q, from)
           s == Fetched(q, from)
<1>1. i \in 0..7 /\ j \in 0..7 /\ op = 64 + 8 * i + j /\ ~(i = 6 /\ j = 6)
  BY DEF y, z
<1>2. op \in Opcode /\ op \in 64..191
  BY DEF Opcode
<1>3. Timed(q, n, 0, c) /\ Machine(q)
  BY DEF Fetching, Timed
<1>4. n = 1 /\ c = IF j = 6 \/ i = 6 THEN 8 ELSE 4
  BY <1>2, MiddleTables
<1>5. /\ to \in Reg /\ (to = "(hl)" <=> i = 6)
      /\ from \in Reg /\ (from = "(hl)" <=> j = 6)
  BY <1>2, RegisterOperands
<1>6. v \in Byte
  BY <1>3, <1>5, OperandByte
<1> HIDE DEF i, j, n, c, to, from, v
<1>7. Timed(s, IF from = "(hl)" THEN 1 + 1 ELSE 1, 0, c)
  BY <1>3, <1>4, <1>5, TimedFetched
<1> HIDE DEF s
<1> SUFFICES Fits(load(s, to, v))
  BY DEF Load, s, to, from, v
<1>8. CASE j = 6
  <2>1. Timed(s, 2, 0, 8) /\ to # "(hl)"
    BY <1>1, <1>4, <1>5, <1>7, <1>8
  <2>2. Timed(load(s, to, v), 2, 0, 8)
    BY <1>5, <1>6, <2>1, TimedLoad
  <2> QED
    BY <2>2 DEF Fits, Durations
<1>9. CASE i = 6
  <2>1. Timed(s, 1, 0, 8) /\ to = "(hl)"
    BY <1>1, <1>4, <1>5, <1>7, <1>9
  <2>2. Timed(load(s, to, v), 1, 0 + 1, 8)
    BY <1>5, <1>6, <2>1, TimedLoad
  <2>3. Timed(load(s, to, v), 1, 1, 8)
    BY <2>2
  <2> QED
    BY <2>3 DEF Fits, Durations
<1>10. CASE i # 6 /\ j # 6
  <2>1. Timed(s, 1, 0, 4) /\ to # "(hl)"
    BY <1>1, <1>4, <1>5, <1>7, <1>10
  <2>2. Timed(load(s, to, v), 1, 0, 4)
    BY <1>5, <1>6, <2>1, TimedLoad
  <2> QED
    BY <2>2 DEF Fits, Durations
<1> QED
  BY <1>8, <1>9, <1>10

LEMMA SetsControl ==
    ASSUME NEW q, Timed(q, 1, 0, 4), NEW s \in Controls
    PROVE  Fits([q EXCEPT !.control = s])
<1> DEFINE t == [q EXCEPT !.control = s]
<1>1. Timed(t, 1, 0, 4)
  BY TimedControl
<1> HIDE DEF t
<1> SUFFICES Fits(t)
  BY DEF t
<1> QED
  BY <1>1 DEF Fits, Durations

LEMMA Row_70Fits ==
    ASSUME NEW op \in Int, 112 <= op, op < 128, NEW q, Fetching(q, op)
    PROVE  Fits(Row_70(q, op))
<1>1. CASE op = 118
  <2>1. op \in 64..191
    BY <1>1
  <2>2. length(op) = 1 /\ standard_cycle_count(op) = 4
    BY <1>1, <2>1, MiddleTables
  <2>3. Timed(q, 1, 0, 4) /\ "halt" \in Controls
    BY <2>2 DEF Fetching, Controls
  <2> QED
    BY <1>1, <2>3, SetsControl DEF Row_70
<1>2. CASE op # 118
  BY <1>2, LoadFitsMiddle DEF Row_70
<1> QED
  BY <1>1, <1>2

LEMMA Accumulated ==
    ASSUME NEW op, y(op) \in 0..7, NEW q, Machine(q), NEW v \in Byte
    PROVE  \E res \in AluResult : Accumulate(q, op, v) = Update(q, "a", res)
<1>1. q.f \in SUBSET Flag /\ q.a \in Byte
  BY DEF Machine, Half
<1>2. y(op) < 4 => Arithmetic(q, op, v) \in AluResult
  BY <1>1, Sums DEF Arithmetic
<1>3. ~(y(op) < 4) => Logic(q, op, v) \in AluResult
  BY <1>1, Sums, Logicals DEF Logic
<1> QED
  BY <1>2, <1>3 DEF Accumulate
LEMMA TimedAccumulate ==
    ASSUME NEW op, y(op) \in 0..7, NEW q, NEW n \in Nat, NEW c, Timed(q, n, 0, c),
           NEW v \in Byte
    PROVE  Timed(Accumulate(q, op, v), n, 0, c)
<1>1. Machine(q) /\ "a" \in Reg
  BY DEF Timed, Reg, Half
<1>2. PICK res \in AluResult : Accumulate(q, op, v) = Update(q, "a", res)
  BY <1>1, Accumulated
<1>3. Timed(Update(q, "a", res), n, 0, c)
  BY <1>1, TimedUpdate
<1> QED
  BY <1>2, <1>3

LEMMA AccumulateFits ==
    ASSUME NEW op \in Int, 128 <= op, op < 192, NEW q, Fetching(q, op)
    PROVE  Fits(Accumulate(Fetched(q, reg_z(op)), op, Operand(q, reg_z(op))))
<1> DEFINE i == y(op)
           j == z(op)
           n == length(op)
           c == standard_cycle_count(op)
           from == reg_z(op)
           v == Operand(q, from)
           s == Fetched(q, from)
           t == Accumulate(s, op, v)
<1>1. i \in 0..7 /\ j \in 0..7 /\ op = 128 + 8 * i + j
  BY DEF y, z
<1>2. op \in Opcode /\ op \in 64..191
  BY DEF Opcode
<1>3. Timed(q, n, 0, c) /\ Machine(q)
  BY DEF Fetching, Timed
<1>4. n = 1 /\ c = IF j = 6 THEN 8 ELSE 4
  BY <1>2, MiddleTables
<1>5. from \in Reg /\ (from = "(hl)" <=> j = 6)
  BY <1>2, RegisterOperands
<1>6. v \in Byte
  BY <1>3, <1>5, OperandByte
<1> HIDE DEF j, n, c, from, v
<1>7. Timed(s, IF from = "(hl)" THEN 1 + 1 ELSE 1, 0, c)
  BY <1>3, <1>4, <1>5, TimedFetched
<1> HIDE DEF s
<1> SUFFICES Fits(t)
  BY DEF t, s, from, v
<1>8. CASE j = 6
  <2>1. Timed(s, 2, 0, 8)
    BY <1>4, <1>5, <1>7, <1>8
  <2>2. Timed(t, 2, 0, 8)
    BY <1>1, <1>6, <2>1, TimedAccumulate DEF i
  <2> QED
    BY <2>2 DEF Fits, Durations
<1>9. CASE j # 6
  <2>1. Timed(s, 1, 0, 4)
    BY <1>4, <1>5, <1>7, <1>9
  <2>2. Timed(t, 1, 0, 4)
    BY <1>1, <1>6, <2>1, TimedAccumulate DEF i
  <2> QED
    BY <2>2 DEF Fits, Durations
<1> QED
  BY <1>8, <1>9

LEMMA ControlFits ==
    ASSUME NEW op \in Int, 192 <= op, op < 256, op \notin Undefined, op # 203,
           NEW q, Fetching(q, op), NEW data, Immediate(op, data),
           z(op) \in {0, 2, 4} => y(op) < 4,
           z(op) \in {3} => y(op) = 0,
           z(op) = 1 /\ y(op) % 2 = 1 => y(op) < 4
    PROVE  Fits(Control(q, op, data))
<1> DEFINE i == y(op)
           j == z(op)
           n == length(op)
           c == standard_cycle_count(op)
           rr == stack_y(op)
           row == Control(q, op, data)
<1>1. i \in 0..7 /\ j \in 0..7 /\ op = 192 + 8 * i + j /\ op \in 192..255
  BY DEF y, z
<1>2. Timed(q, n, 0, c) /\ Machine(q)
  BY DEF Fetching, Timed
<1>3. data \in Word /\ (n # 3 => data \in Byte) /\ op \in Opcode
  BY DEF Immediate, Opcode
<1>4. rr \in Pair \ {"sp"} /\ value(q, rr) \in Word
  BY <1>2, <1>3, PairOperands, ValueType DEF Pair
<1>5. /\ j = 0 => n = 1 /\ c = 20
      /\ j = 2 => n = 3 /\ c = 16
      /\ j = 4 => n = 3 /\ c = 24
      /\ j = 3 => n = 3 /\ c = 16
      /\ j = 1 /\ i % 2 = 0 => n = 1 /\ c = 12
      /\ j = 1 /\ i % 2 = 1 => n = 1 /\ c = 16
      /\ j = 5 /\ i % 2 = 0 => n = 1 /\ c = 16
      /\ j = 5 /\ i = 1 => n = 3 /\ c = 24
      /\ j = 6 => n = 2 /\ c = 8
      /\ j = 7 => n = 1 /\ c = 16
  BY <1>1, UpperTables
<1>6. /\ j = 0 => row = Branch(q, op, ret(q))
      /\ j = 2 => row = Branch(q, op, jump(q, data))
      /\ j = 4 => row = Branch(q, op, call(q, data))
      /\ j = 3 => row = jump(q, data)
      /\ j = 1 /\ i = 1 => row = ret(q)
      /\ j = 5 /\ i = 1 => row = call(q, data)
      /\ j = 1 /\ i = 3 => row = reti(q)
      /\ j = 1 /\ i % 2 = 0 => row = pop(q, rr)
      /\ j = 5 /\ i % 2 = 0 => row = push(q, value(q, rr))
      /\ j = 6 => row = Accumulate(q, op, data)
      /\ j = 7 => row = rst(q, 8 * i)
  <2>1. /\ op = \hC3 <=> (j = 3 /\ i = 0)
        /\ op = \hC9 <=> (j = 1 /\ i = 1)
        /\ op = \hCD <=> (j = 5 /\ i = 1)
        /\ op = \hD9 <=> (j = 1 /\ i = 3)
    BY <1>1
  <2>2. j = 3 => i = 0
    OBVIOUS
  <2> QED
    BY <1>1, <2>1, <2>2 DEF Control
<1>7. j = 5 => i = 1 \/ i % 2 = 0
  BY <1>1 DEF Undefined
<1>8. j = 1 => i \in {1, 3} \/ i % 2 = 0
  BY <1>1
<1>9. 8 * i \in Word
  BY <1>1, IsWord
<1> HIDE DEF i, j, n, c, rr, row
<1> SUFFICES Fits(row)
  BY DEF row
<1>10. CASE j \in {0, 2, 4}
  <2>1. CASE j = 0
    <3>1. Timed(ret(q), 1 + 2, 0, 20)
      BY <1>2, <1>5, <2>1, TimedReturn
    <3>2. Timed(ret(q), 3, 0, 20)
      BY <3>1
    <3>3. Fits(ret(q))
      BY <3>2 DEF Fits, Durations
    <3>4. length(op) \in {1, 2, 3} /\ 4 * length(op) <= get_false_branch_cycle_count(op)
      BY <1>5, <2>1 DEF n, j, get_false_branch_cycle_count
    <3> QED
      BY <1>3, <1>6, <2>1, <3>3, <3>4, Branching
  <2>2. CASE j = 2
    <3>2. Timed(jump(q, data), 3, 0, 16)
      BY <1>2, <1>3, <1>5, <2>2, TimedJump
    <3>3. Fits(jump(q, data))
      BY <3>2 DEF Fits, Durations
    <3>4. length(op) \in {1, 2, 3} /\ 4 * length(op) <= get_false_branch_cycle_count(op)
      BY <1>5, <2>2 DEF n, j, get_false_branch_cycle_count
    <3> QED
      BY <1>3, <1>6, <2>2, <3>3, <3>4, Branching
  <2>3. CASE j = 4
    <3>2. Timed(call(q, data), 3, 2, 24)
      BY <1>2, <1>3, <1>5, <2>3, TimedCall
    <3>3. Fits(call(q, data))
      BY <3>2 DEF Fits, Durations
    <3>4. length(op) \in {1, 2, 3} /\ 4 * length(op) <= get_false_branch_cycle_count(op)
      BY <1>5, <2>3 DEF n, j, get_false_branch_cycle_count
    <3> QED
      BY <1>3, <1>6, <2>3, <3>3, <3>4, Branching
  <2> QED
    BY <1>10, <2>1, <2>2, <2>3
<1>11. CASE j = 3
  <2>1. Timed(row, 3, 0, 16)
    BY <1>2, <1>3, <1>5, <1>6, <1>11, TimedJump
  <2> QED
    BY <2>1 DEF Fits, Durations
<1>12. CASE j = 1
  <2>1. CASE i \in {1, 3}
    <3>1. Timed(q, 1, 0, 16)
      BY <1>2, <1>5, <1>12, <2>1
    <3>2. Timed(row, 1 + 2, 0, 16)
      BY <1>6, <1>12, <2>1, <3>1, TimedReturn
    <3>3. Timed(row, 3, 0, 16)
      BY <3>2
    <3> QED
      BY <3>3 DEF Fits, Durations
  <2>2. CASE i % 2 = 0
    <3>1. Timed(q, 1, 0, 12)
      BY <1>2, <1>5, <1>12, <2>2
    <3>2. Timed(row, 1 + 2, 0, 12)
      BY <1>4, <1>6, <1>12, <2>2, <3>1, TimedPop, Zenon
    <3>3. Timed(row, 3, 0, 12)
      BY <3>2
    <3> QED
      BY <3>3 DEF Fits, Durations
  <2> QED
    BY <1>8, <1>12, <2>1, <2>2
<1>13. CASE j = 5
  <2>1. CASE i = 1
    <3>1. Timed(row, 3, 2, 24)
      BY <1>2, <1>3, <1>5, <1>6, <1>13, <2>1, TimedCall
    <3> QED
      BY <3>1 DEF Fits, Durations
  <2>2. CASE i % 2 = 0
    <3>1. Timed(row, 1, 2, 16)
      BY <1>2, <1>4, <1>5, <1>6, <1>13, <2>2, TimedPush
    <3> QED
      BY <3>1 DEF Fits, Durations
  <2> QED
    BY <1>7, <1>13, <2>1, <2>2
<1>14. CASE j = 6
  <2>1. Timed(q, 2, 0, 8) /\ data \in Byte
    BY <1>2, <1>3, <1>5, <1>14
  <2>2. Timed(row, 2, 0, 8)
    BY <1>1, <1>6, <1>14, <2>1, TimedAccumulate DEF i
  <2> QED
    BY <2>2 DEF Fits, Durations
<1>15. CASE j = 7
  <2>1. Timed(row, 1, 2, 16)
    BY <1>2, <1>5, <1>6, <1>9, <1>15, TimedCall
  <2> QED
    BY <2>1 DEF Fits, Durations
<1>16. j \in {0, 2, 4} \/ j = 3 \/ j = 1 \/ j = 5 \/ j = 6 \/ j = 7
  BY <1>1
<1> QED
  BY <1>10, <1>11, <1>12, <1>13, <1>14, <1>15, <1>16

LEMMA HighPage ==
    ASSUME NEW v \in Byte PROVE \hFF00 + v \in Word
  BY IsByte, IsWord
LEMMA SignedIsInt == ASSUME NEW v \in Byte PROVE signed(v) \in Int
  BY SignedRange

LEMMA HighTables ==
    /\ length(\hE0) = 2 /\ standard_cycle_count(\hE0) = 12
    /\ length(\hE2) = 1 /\ standard_cycle_count(\hE2) = 8
    /\ length(\hE8) = 2 /\ standard_cycle_count(\hE8) = 16
    /\ length(\hE9) = 1 /\ standard_cycle_count(\hE9) = 4
    /\ length(\hEA) = 3 /\ standard_cycle_count(\hEA) = 16
    /\ length(\hF0) = 2 /\ standard_cycle_count(\hF0) = 12
    /\ length(\hF2) = 1 /\ standard_cycle_count(\hF2) = 8
    /\ length(\hF3) = 1 /\ standard_cycle_count(\hF3) = 4
    /\ length(\hF8) = 2 /\ standard_cycle_count(\hF8) = 12
    /\ length(\hF9) = 1 /\ standard_cycle_count(\hF9) = 8
    /\ length(\hFA) = 3 /\ standard_cycle_count(\hFA) = 16
    /\ length(\hFB) = 1 /\ standard_cycle_count(\hFB) = 4
  BY DEF length, Length2, Length3, standard_cycle_count, UpperCycles, y, z

LEMMA Row_E0Fits ==
    ASSUME NEW op \in Int, 224 <= op, op < 240, op \notin Undefined, NEW q,
           Fetching(q, op), NEW data, Immediate(op, data)
    PROVE  Fits(Row_E0(q, op, data))
<1> DEFINE i == y(op)
           j == z(op)
           n == length(op)
           c == standard_cycle_count(op)
           row == Row_E0(q, op, data)
<1>1. i \in 0..7 /\ j \in 0..7 /\ op = 192 + 8 * i + j
  BY DEF y, z
<1>2. Timed(q, n, 0, c) /\ Machine(q) /\ q.a \in Byte /\ q.c \in Byte /\ q.sp \in Word
  BY Zenon DEF Fetching, Timed, Machine, Half
<1>3. data \in Word /\ (n # 3 => data \in Byte) /\ value(q, "hl") \in Word
  BY <1>2, ValueType DEF Immediate, Pair
<1>5. /\ op = 224 => n = 2 /\ c = 12
      /\ op = 226 => n = 1 /\ c = 8
      /\ op = 232 => n = 2 /\ c = 16
      /\ op = 233 => n = 1 /\ c = 4
      /\ op = 234 => n = 3 /\ c = 16
  BY HighTables
<1>6. /\ op = 224 => row = write_data(q, \hFF00 + data, q.a)
      /\ op = 226 => row = write_data(q, \hFF00 + q.c, q.a)
      /\ op = 232 => LET r == add_to_stack_pointer(q.sp, signed(data))
                     IN  row = [q EXCEPT !.sp = r.value, !.f = r.flags]
      /\ op = 233 => row = jump(q, value(q, "hl"))
      /\ op = 234 => row = write_data(q, data, q.a)
      /\ op \notin {224, 226, 232, 233, 234} => row = Control(q, op, data)
  BY DEF Row_E0
<1>7. op \notin {224, 226, 232, 233, 234} =>
        j \notin {0, 2, 3, 4} /\ ~(j = 1 /\ i % 2 = 1)
  BY <1>1 DEF Undefined
<1> HIDE DEF i, j, n, c, row
<1> SUFFICES Fits(row)
  BY DEF row
<1>10. CASE op = 224
  <2>1. Timed(q, 2, 0, 12) /\ data \in Byte
    BY <1>2, <1>3, <1>5, <1>10
  <2>2. \hFF00 + data \in Word
    BY <2>1, HighPage
  <2>3. Timed(write_data(q, \hFF00 + data, q.a), 2, 0 + 1, 12)
    BY <1>2, <2>1, <2>2, TimedWrite
  <2>4. Timed(row, 2, 1, 12)
    BY <1>6, <1>10, <2>3
  <2> QED
    BY <2>4 DEF Fits, Durations
<1>11. CASE op = 226
  <2>1. Timed(q, 1, 0, 8) /\ \hFF00 + q.c \in Word
    BY <1>2, <1>5, <1>11, HighPage
  <2>3. Timed(row, 1, 0 + 1, 8)
    BY <1>2, <1>6, <1>11, <2>1, TimedWrite
  <2>4. Timed(row, 1, 1, 8)
    BY <2>3
  <2> QED
    BY <2>4 DEF Fits, Durations
<1>12. CASE op = 232
  <2> DEFINE r == add_to_stack_pointer(q.sp, signed(data))
             s == [q EXCEPT !.sp = r.value]
  <2>1. Timed(q, 2, 0, 16) /\ data \in Byte
    BY <1>2, <1>3, <1>5, <1>12
  <2>2. r.value \in Word /\ r.flags \in SUBSET Flag
    BY <1>2, <2>1, SignedIsInt, StackSums
  <2>3. row = [s EXCEPT !.f = r.flags]
    BY <1>6, <1>12
  <2> HIDE DEF r
  <2>4. Timed(s, 2, 0, 16)
    BY <2>1, <2>2, TimedPointer
  <2> HIDE DEF s
  <2>5. Timed(row, 2, 0, 16)
    BY <2>2, <2>3, <2>4, TimedFlags
  <2> QED
    BY <2>5 DEF Fits, Durations
<1>13. CASE op = 233
  <2>1. Timed(row, 1, 0, 4)
    BY <1>2, <1>3, <1>5, <1>6, <1>13, TimedJump
  <2> QED
    BY <2>1 DEF Fits, Durations
<1>14. CASE op = 234
  <2>1. Timed(q, 3, 0, 16)
    BY <1>2, <1>5, <1>14
  <2>2. Timed(write_data(q, data, q.a), 3, 0 + 1, 16)
    BY <1>2, <1>3, <2>1, TimedWrite, Zenon
  <2>3. Timed(row, 3, 1, 16)
    BY <1>6, <1>14, <2>2
  <2> QED
    BY <2>3 DEF Fits, Durations
<1>15. CASE op \notin {224, 226, 232, 233, 234}
  <2>1. Fits(Control(q, op, data))
    BY <1>7, <1>15, ControlFits DEF i, j
  <2> QED
    BY <1>6, <1>15, <2>1
<1> QED
  BY <1>10, <1>11, <1>12, <1>13, <1>14, <1>15

LEMMA Row_F0Fits ==
    ASSUME NEW op \in Int, 240 <= op, op < 256, op \notin Undefined, NEW q,
           Fetching(q, op), NEW data, Immediate(op, data)
    PROVE  Fits(Row_F0(q, op, data))
<1> DEFINE i == y(op)
           j == z(op)
           n == length(op)
           c == standard_cycle_count(op)
           row == Row_F0(q, op, data)
<1>1. i \in 0..7 /\ j \in 0..7 /\ op = 192 + 8 * i + j
  BY DEF y, z
<1>2. Timed(q, n, 0, c) /\ Machine(q) /\ q.c \in Byte /\ q.sp \in Word
  BY Zenon DEF Fetching, Timed, Machine, Half
<1>3. data \in Word /\ (n # 3 => data \in Byte) /\ value(q, "hl") \in Word /\ "hl" \in Pair
  BY <1>2, ValueType DEF Immediate, Pair
<1>5. /\ op = 240 => n = 2 /\ c = 12
      /\ op = 242 => n = 1 /\ c = 8
      /\ op = 243 => n = 1 /\ c = 4
      /\ op = 248 => n = 2 /\ c = 12
      /\ op = 249 => n = 1 /\ c = 8
      /\ op = 250 => n = 3 /\ c = 16
      /\ op = 251 => n = 1 /\ c = 4
  BY HighTables
<1>6. /\ op = 240 => row = load_from(q, "a", \hFF00 + data)
      /\ op = 242 => row = load_from(q, "a", \hFF00 + q.c)
      /\ op = 243 => row = [q EXCEPT !.control = "di"]
      /\ op = 248 => row = load_hlsp(q, signed(data))
      /\ op = 249 => row = [q EXCEPT !.sp = value(q, "hl")]
      /\ op = 250 => row = load_from(q, "a", data)
      /\ op = 251 => row = [q EXCEPT !.control = "ei"]
      /\ op \notin {240, 242, 243, 248, 249, 250, 251} => row = Control(q, op, data)
  BY DEF Row_F0
<1>7. op \notin {240, 242, 243, 248, 249, 250, 251} =>
        j \notin {0, 2, 3, 4} /\ ~(j = 1 /\ i % 2 = 1)
  BY <1>1 DEF Undefined
<1> HIDE DEF i, j, n, c, row
<1> SUFFICES Fits(row)
  BY DEF row
<1>10. CASE op = 240
  <2>1. Timed(q, 2, 0, 12) /\ data \in Byte
    BY <1>2, <1>3, <1>5, <1>10
  <2>2. \hFF00 + data \in Word
    BY <2>1, HighPage
  <2>3. Timed(row, 2 + 1, 0, 12)
    BY <1>6, <1>10, <2>1, <2>2, TimedLoadFrom
  <2>4. Timed(row, 3, 0, 12)
    BY <2>3
  <2> QED
    BY <2>4 DEF Fits, Durations
<1>11. CASE op = 242
  <2>1. Timed(q, 1, 0, 8) /\ \hFF00 + q.c \in Word
    BY <1>2, <1>5, <1>11, HighPage
  <2>2. Timed(row, 2, 0, 8)
    BY <1>6, <1>11, <2>1, LoadFits
  <2> QED
    BY <2>2 DEF Fits, Durations
<1>12. CASE op \in {243, 251}
  <2>1. Timed(q, 1, 0, 4) /\ "di" \in Controls /\ "ei" \in Controls
    BY <1>2, <1>5, <1>12 DEF Controls
  <2> QED
    BY <1>6, <1>12, <2>1, SetsControl
<1>13. CASE op = 248
  <2> DEFINE r == add_to_stack_pointer(q.sp, signed(data))
             s == load16(q, "hl", r.value)
  <2>1. Timed(q, 2, 0, 12) /\ data \in Byte
    BY <1>2, <1>3, <1>5, <1>13
  <2>2. r.value \in Word /\ r.flags \in SUBSET Flag
    BY <1>2, <2>1, SignedIsInt, StackSums
  <2>3. row = [s EXCEPT !.f = r.flags]
    BY <1>6, <1>13 DEF load_hlsp
  <2> HIDE DEF r
  <2>4. Timed(s, 2, 0, 12)
    BY <1>3, <2>1, <2>2, TimedLoad16
  <2> HIDE DEF s
  <2>5. Timed(row, 2, 0, 12)
    BY <2>2, <2>3, <2>4, TimedFlags
  <2> QED
    BY <2>5 DEF Fits, Durations
<1>14. CASE op = 249
  <2>1. Timed(row, 1, 0, 8)
    BY <1>2, <1>3, <1>5, <1>6, <1>14, TimedPointer
  <2> QED
    BY <2>1 DEF Fits, Durations
<1>15. CASE op = 250
  <2>1. Timed(row, 3 + 1, 0, 16)
    BY <1>2, <1>3, <1>5, <1>6, <1>15, TimedLoadFrom
  <2>2. Timed(row, 4, 0, 16)
    BY <2>1
  <2> QED
    BY <2>2 DEF Fits, Durations
<1>16. CASE op \notin {240, 242, 243, 248, 249, 250, 251}
  <2>1. Fits(Control(q, op, data))
    BY <1>7, <1>16, ControlFits DEF i, j
  <2> QED
    BY <1>6, <1>16, <2>1
<1> QED
  BY <1>10, <1>11, <1>12, <1>13, <1>14, <1>15, <1>16

LEMMA StandardDurations ==
    ASSUME NEW op PROVE standard_cycle_count(op) \in Durations
<1>1. LowerCycles(op) \in Durations
  BY DEF LowerCycles, Durations
<1>2. MiddleCycles(op) \in Durations
  BY DEF MiddleCycles, Durations
<1>3. UpperCycles(op) \in Durations
  BY DEF UpperCycles, Durations
<1>4. standard_cycle_count(op) \in {LowerCycles(op), MiddleCycles(op), UpperCycles(op)}
  <2>1. CASE op < 64
    <3>1. ~(op \in 64..191)
      BY <2>1
    <3> QED
      BY <2>1, <3>1 DEF standard_cycle_count
  <2>2. CASE ~(op < 64) /\ op \in 64..191
    BY <2>2 DEF standard_cycle_count
  <2>3. CASE ~(op < 64) /\ op \notin 64..191
    BY <2>3 DEF standard_cycle_count
  <2> QED
    BY <2>1, <2>2, <2>3
<1> HIDE DEF Durations
<1> QED
  BY <1>1, <1>2, <1>3, <1>4
LEMMA Lengths == ASSUME NEW op PROVE length(op) \in {1, 2, 3}
  BY DEF length

\* What decode hands to the switch: the machine behind the bytes of the
\* instruction, with its duration, and the immediate operand.
Behind(op, f) ==
    CASE length(op) = 3 -> read_immediate(read_immediate(f))
      [] length(op) = 2 -> read_immediate(f)
      [] OTHER -> f
Executing(op, f) == [Behind(op, f) EXCEPT !.cycles = standard_cycle_count(op)]
ImmediateOf(op, f) ==
    CASE length(op) = 3 -> word(Peek(f, increment16(f.pc)), Peek(f, f.pc))
      [] length(op) = 2 -> Peek(f, f.pc)
      [] OTHER -> 0
SwitchOf(op, t, data) ==
    CASE op < 16 -> Row_00(t, op, data)
      [] op \in 16..31 -> Row_10(t, op, data)
      [] op \in 32..47 -> Row_20(t, op, data)
      [] op \in 48..63 -> Row_30(t, op, data)
      [] op \in 64..111 -> Load(t, op)
      [] op \in 112..127 -> Row_70(t, op)
      [] op \in 128..191 ->
           Accumulate(Fetched(t, reg_z(op)), op, Operand(t, reg_z(op)))
      [] op \in 192..223 -> Control(t, op, data)
      [] op \in 224..239 -> Row_E0(t, op, data)
      [] OTHER -> Row_F0(t, op, data)
LEMMA DecodeSwitch ==
    ASSUME NEW op, NEW f
    PROVE  decode(op, f) = SwitchOf(op, Executing(op, f), ImmediateOf(op, f))
  BY DEF decode, SwitchOf, Executing, ImmediateOf, Behind

\* A step of the program counter.
After(x, n) == (x + n) % 65536
LEMMA AfterAfter ==
    ASSUME NEW x \in Word, NEW i \in Nat, NEW k \in Nat
    PROVE  After(After(x, i), k) = After(x, i + k)
<1>1. x \in Int
  BY IsWord
<1> QED
  BY <1>1 DEF After
LEMMA AfterSum ==
    ASSUME NEW x \in Word, NEW i \in Nat, x + i < 65536 PROVE After(x, i) = x + i
<1>1. x \in Int /\ 0 <= x
  BY IsWord
<1> QED
  BY <1>1 DEF After
LEMMA NextWords ==
    ASSUME NEW x \in Word
    PROVE  /\ After(x, 0) = x /\ increment16(x) = After(x, 1)
           /\ increment16(increment16(x)) = After(x, 2)
<1>1. x \in Int /\ 0 <= x /\ x <= 65535
  BY IsWord
<1> QED
  BY <1>1 DEF After, increment16

LEMMA ImmediateRead ==
    ASSUME NEW op, NEW f, NEW c, Timed(f, 1, 0, c)
    PROVE  /\ Timed(Behind(op, f), length(op), 0, c)
           /\ Keeps(Behind(op, f), f, {"accesses", "pc"})
           /\ Behind(op, f).pc = After(f.pc, length(op) - 1)
<1> DEFINE s == read_immediate(f)
           t == read_immediate(s)
<1>1. Machine(f) /\ f.pc \in Word
  BY DEF Timed, Machine
<1>2. Timed(s, 1 + 1, 0, c)
  BY TimedImmediate
<1>3. Timed(s, 2, 0, c)
  BY <1>2
<1>4. Keeps(s, f, {"accesses", "pc"}) /\ s.pc = increment16(f.pc) /\ Machine(s)
  BY <1>1, ReadImmediate
<1>5. Timed(f, 1, 0, c) /\ Keeps(f, f, {"accesses", "pc"})
  BY DEF Keeps
<1> HIDE DEF s
<1>6. Timed(t, 2 + 1, 0, c)
  BY <1>3, TimedImmediate
<1>7. Timed(t, 3, 0, c)
  BY <1>6
<1>8. Keeps(t, s, {"accesses", "pc"}) /\ t.pc = increment16(s.pc)
  BY <1>4, ReadImmediate
<1> HIDE DEF t
<1>9. Keeps(t, f, {"accesses", "pc"})
  BY <1>4, <1>8 DEF Keeps
<1>10. /\ f.pc = After(f.pc, 0) /\ s.pc = After(f.pc, 1)
       /\ t.pc = After(f.pc, 2)
  <2>1. s.pc = After(f.pc, 1) /\ f.pc = After(f.pc, 0)
    BY <1>1, <1>4, NextWords
  <2>2. t.pc = After(f.pc, 2)
    BY <1>1, <1>4, <1>8, NextWords
  <2> QED
    BY <2>1, <2>2
<1>11. /\ length(op) = 3 => Behind(op, f) = t
       /\ length(op) = 2 => Behind(op, f) = s
       /\ length(op) = 1 => Behind(op, f) = f
  BY DEF Behind, s, t
<1> QED
  BY <1>3, <1>4, <1>5, <1>7, <1>9, <1>10, <1>11, Lengths

LEMMA ReadyToExecute ==
    ASSUME NEW op, NEW f, NEW c, Timed(f, 1, 0, c)
    PROVE  /\ Fetching(Executing(op, f), op)
           /\ Immediate(op, ImmediateOf(op, f))
           /\ Keeps(Executing(op, f), f, {"accesses", "pc", "cycles"})
           /\ Executing(op, f).pc = After(f.pc, length(op) - 1)
<1> DEFINE s == Behind(op, f)
           d == standard_cycle_count(op)
           t == [s EXCEPT !.cycles = d]
           n == length(op)
<1>1. /\ Timed(s, n, 0, c) /\ Keeps(s, f, {"accesses", "pc"})
      /\ s.pc = After(f.pc, n - 1)
  BY ImmediateRead
<1>2. d \in Nat
  BY StandardDurations DEF Durations
<1>3. Machine(s)
  BY <1>1 DEF Timed
<1> HIDE DEF s, d, n
<1>4. Machine(t) /\ Keeps(t, s, {"cycles"}) /\ t.cycles = d
  BY <1>2, <1>3, SetCycles
<1> HIDE DEF t
<1>5. t.accesses = s.accesses /\ t.pc = s.pc
  BY <1>4 DEF Keeps, Fields
<1>6. Timed(t, n, 0, d)
  BY <1>1, <1>4, <1>5 DEF Timed, Accessed
<1>7. Keeps(t, f, {"accesses", "pc", "cycles"})
  BY <1>1, <1>4 DEF Keeps
<1>8. Machine(f)
  BY DEF Timed
<1>9. /\ Peek(f, f.pc) \in Byte /\ Peek(f, increment16(f.pc)) \in Byte
      /\ 0 \in Byte
  BY <1>8, PeekByte, IsByte
<1>10. \A v \in Byte : v \in Word
  BY IsByte, IsWord
<1>11. Immediate(op, ImmediateOf(op, f))
  <2>1. CASE n = 3
    <3>1. ImmediateOf(op, f) = word(Peek(f, increment16(f.pc)), Peek(f, f.pc))
      BY <2>1 DEF ImmediateOf, n
    <3>2. ImmediateOf(op, f) \in Word
      BY <1>9, <3>1, WordOfBytes
    <3> QED
      BY <2>1, <3>2 DEF Immediate, n
  <2>2. CASE n # 3
    <3>1. ImmediateOf(op, f) \in Byte
      BY <1>9, <2>2 DEF ImmediateOf, n
    <3> QED
      BY <1>10, <3>1 DEF Immediate
  <2> QED
    BY <2>1, <2>2
<1> QED
  BY <1>1, <1>5, <1>6, <1>7, <1>11 DEF Fetching, Executing, s, d, t, n

LEMMA SwitchFits ==
    ASSUME NEW op \in Opcode, op \notin Undefined \cup {\hCB, \h10}, NEW t,
           Fetching(t, op), NEW data, Immediate(op, data)
    PROVE  Fits(SwitchOf(op, t, data))
<1>1. op \in Int /\ 0 <= op /\ op < 256
  BY DEF Opcode
<1>2. CASE op < 16
  BY <1>1, <1>2, Row_00Fits DEF SwitchOf
<1>3. CASE 16 <= op /\ op < 32
  <2>1. SwitchOf(op, t, data) = Row_10(t, op, data)
    BY <1>1, <1>3 DEF SwitchOf
  <2>2. 16 < op
    BY <1>1, <1>3
  <2> QED
    BY <1>1, <1>3, <2>1, <2>2, Row_10Fits
<1>4. CASE 32 <= op /\ op < 48
  <2>1. SwitchOf(op, t, data) = Row_20(t, op, data)
    BY <1>1, <1>4 DEF SwitchOf
  <2> QED
    BY <1>1, <1>4, <2>1, Row_20Fits
<1>5. CASE 48 <= op /\ op < 64
  <2>1. SwitchOf(op, t, data) = Row_30(t, op, data)
    BY <1>1, <1>5 DEF SwitchOf
  <2> QED
    BY <1>1, <1>5, <2>1, Row_30Fits
<1>6. CASE 64 <= op /\ op < 112
  <2>1. SwitchOf(op, t, data) = Load(t, op)
    BY <1>1, <1>6 DEF SwitchOf
  <2>2. op < 128 /\ op # 118
    BY <1>1, <1>6
  <2> QED
    BY <1>1, <1>6, <2>1, <2>2, LoadFitsMiddle
<1>7. CASE 112 <= op /\ op < 128
  <2>1. SwitchOf(op, t, data) = Row_70(t, op)
    BY <1>1, <1>7 DEF SwitchOf
  <2> QED
    BY <1>1, <1>7, <2>1, Row_70Fits
<1>8. CASE 128 <= op /\ op < 192
  <2>1. SwitchOf(op, t, data) =
            Accumulate(Fetched(t, reg_z(op)), op, Operand(t, reg_z(op)))
    BY <1>1, <1>8 DEF SwitchOf
  <2> QED
    BY <1>1, <1>8, <2>1, AccumulateFits
<1>9. CASE 192 <= op /\ op < 224
  <2>1. SwitchOf(op, t, data) = Control(t, op, data)
    BY <1>1, <1>9 DEF SwitchOf
  <2>2. y(op) < 4 /\ op < 256 /\ op # 203
    BY <1>1, <1>9 DEF y
  <2>3. z(op) = 3 => y(op) = 0
    BY <1>1, <1>9 DEF y, z, Undefined
  <2>4. op \notin Undefined
    OBVIOUS
  <2> QED
    BY <1>1, <1>9, <2>1, <2>2, <2>3, <2>4, ControlFits
<1>10. CASE 224 <= op /\ op < 240
  <2>1. SwitchOf(op, t, data) = Row_E0(t, op, data)
    BY <1>1, <1>10 DEF SwitchOf
  <2> QED
    BY <1>1, <1>10, <2>1, Row_E0Fits
<1>11. CASE 240 <= op
  <2>1. SwitchOf(op, t, data) = Row_F0(t, op, data)
    BY <1>1, <1>11 DEF SwitchOf
  <2> QED
    BY <1>1, <1>11, <2>1, Row_F0Fits
<1> QED
  BY <1>1, <1>2, <1>3, <1>4, <1>5, <1>6, <1>7, <1>8, <1>9, <1>10, <1>11

\* What tick fetches first: the machine behind the opcode.
One(q) == read_immediate([q EXCEPT !.accesses = <<>>, !.control = "none"])
LEMMA OpcodeFetched ==
    ASSUME NEW q, Machine(q)
    PROVE  /\ Timed(One(q), 1, 0, q.cycles)
           /\ Keeps(One(q), q, {"accesses", "pc", "control"})
           /\ One(q).pc = After(q.pc, 1)
           /\ One(q).control = "none"
           /\ \A x : Peek(One(q), x) = Peek(q, x)
<1> DEFINE s == [q EXCEPT !.accesses = <<>>, !.control = "none"]
           t == read_immediate(s)
<1>1. /\ Machine(s) /\ Keeps(s, q, {"accesses", "control"})
      /\ s.accesses = <<>> /\ s.control = "none" /\ s.cycles = q.cycles /\ s.pc = q.pc
  <2>1. "none" \in Controls
    BY DEF Controls
  <2>2. <<>> \in Seq(Access)
    OBVIOUS
  <2> QED
    BY <2>1, <2>2, Zenon DEF Machine, Keeps, Fields, Half
<1> HIDE DEF s
<1>2. Accessed(s, 0, 0)
  BY <1>1 DEF Accessed
<1>3. Timed(s, 0, 0, q.cycles)
  BY <1>1, <1>2 DEF Timed
<1>4. Timed(t, 0 + 1, 0, q.cycles)
  BY <1>3, TimedImmediate
<1>5. Timed(t, 1, 0, q.cycles)
  BY <1>4
<1>6. Keeps(t, s, {"accesses", "pc"}) /\ t.pc = increment16(s.pc)
  BY <1>1, ReadImmediate
<1> HIDE DEF t
<1>7. t.control = "none" /\ t.mem = s.mem /\ s.mem = q.mem
  BY <1>1, <1>6 DEF Keeps, Fields
<1>8. Keeps(t, q, {"accesses", "pc", "control"})
  BY <1>1, <1>6 DEF Keeps
<1>9. \A x : Peek(t, x) = Peek(q, x)
  BY <1>7 DEF Peek
<1>10. q.pc \in Word
  BY DEF Machine
<1>11. t.pc = After(q.pc, 1)
  BY <1>1, <1>6, <1>10, NextWords
<1> QED
  BY <1>5, <1>7, <1>8, <1>9, <1>11 DEF One, s, t

LEMMA TickOf ==
    ASSUME NEW q, Machine(q)
    PROVE  LET op == Peek(q, q.pc)
           IN  /\ op # \hCB =>
                    tick(q) = SwitchOf(op, Executing(op, One(q)), ImmediateOf(op, One(q)))
               /\ op = \hCB =>
                    tick(q) = decode_extended(Peek(q, After(q.pc, 1)), read_immediate(One(q)))
<1> DEFINE op == Peek(q, q.pc)
<1>1. One(q).pc = After(q.pc, 1) /\ \A x : Peek(One(q), x) = Peek(q, x)
  BY OpcodeFetched
<1>2. tick(q) = IF op = \hCB
                THEN decode_extended(Peek(One(q), One(q).pc), read_immediate(One(q)))
                ELSE decode(op, One(q))
  BY DEF tick, One
<1>3. Peek(One(q), One(q).pc) = Peek(q, After(q.pc, 1))
  BY <1>1
<1> QED
  BY <1>2, <1>3, DecodeSwitch

\* The machine that an instruction behind the prefix works on.
ExtendedOf(op, f) == [read_immediate(f) EXCEPT !.cycles = extended_cycle_count(op)]
LEMMA ReadyToExtend ==
    ASSUME NEW op, NEW f, NEW c, Timed(f, 1, 0, c)
    PROVE  /\ Timed(ExtendedOf(op, f), 2, 0, extended_cycle_count(op))
           /\ Keeps(ExtendedOf(op, f), f, {"accesses", "pc", "cycles"})
           /\ ExtendedOf(op, f).pc = After(f.pc, 1)
<1> DEFINE s == read_immediate(f)
           d == extended_cycle_count(op)
           t == [s EXCEPT !.cycles = d]
<1>1. d \in Nat
  BY DEF extended_cycle_count
<1>2. Machine(f) /\ f.pc \in Word
  BY DEF Timed, Machine
<1>3. Timed(s, 1 + 1, 0, c)
  BY TimedImmediate
<1>4. Timed(s, 2, 0, c)
  BY <1>3
<1>5. Keeps(s, f, {"accesses", "pc"}) /\ s.pc = After(f.pc, 1)
  BY <1>2, ReadImmediate, NextWords
<1>6. Machine(s)
  BY <1>4 DEF Timed
<1> HIDE DEF s, d
<1>7. Machine(t) /\ Keeps(t, s, {"cycles"}) /\ t.cycles = d
  BY <1>1, <1>6, SetCycles
<1> HIDE DEF t
<1>8. t.accesses = s.accesses /\ t.pc = s.pc
  BY <1>7 DEF Keeps, Fields
<1>9. Timed(t, 2, 0, d)
  BY <1>4, <1>7, <1>8 DEF Timed, Accessed
<1>10. Keeps(t, f, {"accesses", "pc", "cycles"})
  BY <1>5, <1>7 DEF Keeps
<1> QED
  BY <1>5, <1>8, <1>9, <1>10 DEF ExtendedOf, s, d, t

LEMMA RotatedOperand ==
    ASSUME NEW F \in SUBSET Flag, NEW v \in Byte, NEW op \in Opcode
    PROVE  /\ y(op) < 4 => Rotate(F, v, op) \in AluResult
           /\ y(op) > 3 => Shift(F, v, op) \in AluResult
<1>1. y(op) \in 0..7
  BY Fields8
<1> QED
  BY <1>1, Rotations DEF Rotate, Shift

LEMMA ExtendedCases ==
    ASSUME NEW op \in Int, 0 <= op, op < 256, NEW f
    PROVE  LET t == ExtendedOf(op, f)
               v == Operand(t, reg_z(op))
               d == decode_extended(op, read_immediate(f))
           IN  /\ op < 32 => d = Modify(t, reg_z(op), Rotate(t.f, v, op))
               /\ 32 <= op /\ op < 64 => d = Modify(t, reg_z(op), Shift(t.f, v, op))
               /\ 64 <= op /\ op < 128 => d = BIT(t, op, v)
               /\ 128 <= op /\ op < 192 => d = RES(t, op, v)
               /\ 192 <= op => d = SET(t, op, v)
<1> DEFINE t == ExtendedOf(op, f)
           v == Operand(t, reg_z(op))
<1>1. decode_extended(op, read_immediate(f)) =
        CASE op < 32 -> Modify(t, reg_z(op), Rotate(t.f, v, op))
          [] op \in 32..63 -> Modify(t, reg_z(op), Shift(t.f, v, op))
          [] op \in 64..127 -> BIT(t, op, v)
          [] op \in 128..191 -> RES(t, op, v)
          [] OTHER -> SET(t, op, v)
  BY DEF decode_extended, ExtendedOf
<1> HIDE DEF v
<1>2. op < 32 => decode_extended(op, read_immediate(f)) = Modify(t, reg_z(op), Rotate(t.f, v, op))
  BY <1>1
<1>3. 32 <= op /\ op < 64 =>
        decode_extended(op, read_immediate(f)) = Modify(t, reg_z(op), Shift(t.f, v, op))
  BY <1>1
<1>4. 64 <= op /\ op < 128 => decode_extended(op, read_immediate(f)) = BIT(t, op, v)
  BY <1>1
<1>5. 128 <= op /\ op < 192 => decode_extended(op, read_immediate(f)) = RES(t, op, v)
  BY <1>1
<1>6. 192 <= op => decode_extended(op, read_immediate(f)) = SET(t, op, v)
  BY <1>1
<1> QED
  BY <1>2, <1>3, <1>4, <1>5, <1>6 DEF v

LEMMA ExtendedTimes ==
    ASSUME NEW op \in Int, 0 <= op, op < 256, NEW f, NEW c, Timed(f, 1, 0, c)
    PROVE  LET d == decode_extended(op, read_immediate(f))
           IN  /\ z(op) # 6 => Timed(d, 2, 0, 8)
               /\ z(op) = 6 /\ ~(64 <= op /\ op < 128) => Timed(d, 3, 1, 16)
               /\ z(op) = 6 /\ 64 <= op /\ op < 128 => Timed(d, 3, 1, 12)
<1> DEFINE i == y(op)
           j == z(op)
           reg == reg_z(op)
           t == ExtendedOf(op, f)
           v == Operand(t, reg)
           d == decode_extended(op, read_immediate(f))
           k == extended_cycle_count(op)
<1>1. i \in 0..7 /\ j \in 0..7 /\ op \in Opcode
  BY Fields8 DEF Opcode
<1>2. Timed(t, 2, 0, k)
  BY ReadyToExtend
<1>3. k = IF j # 6 THEN 8 ELSE IF 64 <= op /\ op < 128 THEN 12 ELSE 16
  <2>1. op \in 64..127 <=> 64 <= op /\ op < 128
    OBVIOUS
  <2> QED
    BY <2>1 DEF extended_cycle_count
<1>4. reg \in Reg /\ (reg = "(hl)" <=> j = 6)
  BY <1>1, RegisterOperands
<1>5. Machine(t)
  BY <1>2 DEF Timed
<1>6. v \in Byte /\ t.f \in SUBSET Flag
  BY <1>4, <1>5, OperandByte, Zenon DEF Machine
<1>7. /\ op < 32 => d = Modify(t, reg, Rotate(t.f, v, op))
      /\ 32 <= op /\ op < 64 => d = Modify(t, reg, Shift(t.f, v, op))
      /\ 64 <= op /\ op < 128 => d = BIT(t, op, v)
      /\ 128 <= op /\ op < 192 => d = RES(t, op, v)
      /\ 192 <= op => d = SET(t, op, v)
  BY ExtendedCases
<1>8. /\ op < 32 => i < 4
      /\ 32 <= op /\ op < 64 => i > 3
  BY DEF y
<1>9. /\ op < 32 => Rotate(t.f, v, op) \in AluResult
      /\ 32 <= op /\ op < 64 => Shift(t.f, v, op) \in AluResult
  BY <1>1, <1>6, <1>8, RotatedOperand
<1>10. /\ reset(v, y(op)) \in Byte /\ set(v, y(op)) \in Byte
       /\ test(t.f, v, y(op)) \in SUBSET Flag
  BY <1>1, <1>6, SingleBits, TestedFlags
<1> DEFINE s == Fetched(t, reg)
<1>11. Timed(s, IF reg = "(hl)" THEN 2 + 1 ELSE 2, 0, k)
  BY <1>2, <1>4, TimedFetched
<1>12. /\ 64 <= op /\ op < 128 =>
            d = LET tested == [s EXCEPT !.f = test(@, v, y(op))]
                IN  IF j = 6 THEN load(tested, "(hl)", v) ELSE tested
       /\ 128 <= op /\ op < 192 => d = load(s, reg, reset(v, y(op)))
       /\ 192 <= op => d = load(s, reg, set(v, y(op)))
  BY <1>7 DEF BIT, RES, SET
<1>13. s.f = t.f
  <2>1. Keeps(s, t, {"accesses"})
    BY <1>4, <1>5, FetchedOperand
  <2> QED
    BY <2>1 DEF Keeps, Fields
<1> HIDE DEF i, j, reg, t, v, d, k, s
<1>14. CASE op < 64
  <2>1. PICK r \in AluResult : d = Modify(t, reg, r)
    BY <1>7, <1>9, <1>14
  <2>2. IF reg = "(hl)" THEN Timed(d, 2 + 1, 1, k) ELSE Timed(d, 2, 0, k)
    BY <1>2, <1>4, <2>1, TimedModify
  <2>3. IF j = 6 THEN Timed(d, 3, 1, 16) ELSE Timed(d, 2, 0, 8)
    BY <1>3, <1>4, <1>14, <2>2
  <2> QED
    BY <1>14, <2>3 DEF d, j
<1>15. CASE 64 <= op /\ op < 128
  <2> DEFINE F == test(t.f, v, y(op))
             u == [s EXCEPT !.f = F]
  <2>1. d = IF j = 6 THEN load(u, "(hl)", v) ELSE u
    BY <1>12, <1>13, <1>15
  <2> HIDE DEF F
  <2>2. F \in SUBSET Flag
    BY <1>10 DEF F
  <2>3. Timed(u, IF reg = "(hl)" THEN 2 + 1 ELSE 2, 0, k)
    BY <1>11, <2>2, TimedFlags
  <2> HIDE DEF u
  <2>4. CASE j = 6
    <3>1. Timed(u, 3, 0, 12) /\ "(hl)" \in Reg
      BY <1>3, <1>4, <1>15, <2>3, <2>4 DEF Reg
    <3>2. Timed(load(u, "(hl)", v), 3, 0 + 1, 12)
      BY <1>6, <3>1, TimedLoad
    <3>3. Timed(d, 3, 1, 12)
      BY <2>1, <2>4, <3>2
    <3> QED
      BY <1>15, <2>4, <3>3 DEF d, j
  <2>5. CASE j # 6
    <3>1. Timed(d, 2, 0, 8)
      BY <1>3, <1>4, <2>1, <2>3, <2>5
    <3> QED
      BY <2>5, <3>1 DEF d, j
  <2> QED
    BY <2>4, <2>5
<1>16. CASE 128 <= op
  <2>1. PICK x \in Byte : d = load(s, reg, x)
    BY <1>10, <1>12, <1>16
  <2>2. CASE j = 6
    <3>1. Timed(s, 3, 0, 16)
      BY <1>3, <1>4, <1>11, <1>16, <2>2
    <3>2. Timed(load(s, reg, x), 3, 0 + 1, 16)
      BY <1>4, <2>2, <3>1, TimedLoad
    <3>3. Timed(d, 3, 1, 16)
      BY <2>1, <3>2
    <3> QED
      BY <1>16, <2>2, <3>3 DEF d, j
  <2>3. CASE j # 6
    <3>1. Timed(s, 2, 0, 8)
      BY <1>3, <1>4, <1>11, <2>3
    <3>2. Timed(load(s, reg, x), 2, 0, 8)
      BY <1>4, <2>3, <3>1, TimedLoad
    <3> QED
      BY <2>1, <2>3, <3>2 DEF d, j
  <2> QED
    BY <2>2, <2>3
<1> QED
  BY <1>14, <1>15, <1>16

\* The two instructions whose duration is too short.
Stop(q) == Peek(q, q.pc) = \h10
TestsMemory(q) ==
    LET op == Peek(q, After(q.pc, 1))
    IN  Peek(q, q.pc) = \hCB /\ 64 <= op /\ op < 128 /\ z(op) = 6

\* From every machine and every memory, a defined instruction leaves a machine,
\* whose accesses are reads and then at most two writes, and reports the four cycles
\* of each of them, but for STOP and BIT b,(HL), which lack four cycles
\* (cpu.cpp:106-121, 230-2657, instruction_info.h:16-562).
THEOREM InstructionsFit ==
    ASSUME NEW q, Machine(q), Peek(q, q.pc) \notin Undefined
    PROVE  /\ ~Stop(q) /\ ~TestsMemory(q) => Fits(tick(q))
           /\ Stop(q) => Timed(tick(q), 2, 0, 4)
           /\ TestsMemory(q) => Timed(tick(q), 3, 1, 12)
<1> DEFINE op == Peek(q, q.pc)
           next == Peek(q, After(q.pc, 1))
           f == One(q)
           t == Executing(op, f)
           data == ImmediateOf(op, f)
<1>1. op \in Byte /\ next \in Byte
  BY PeekByte
<1>2. op \in Opcode /\ next \in Int /\ 0 <= next /\ next < 256
  BY <1>1, IsByte DEF Opcode
<1>3. Timed(f, 1, 0, q.cycles)
  BY OpcodeFetched
<1>4. /\ op # \hCB => tick(q) = SwitchOf(op, t, data)
      /\ op = \hCB => tick(q) = decode_extended(next, read_immediate(f))
  BY TickOf
<1>5. Fetching(t, op) /\ Immediate(op, data)
  BY <1>3, ReadyToExecute
<1>6. op \notin Undefined
  OBVIOUS
<1>7. /\ Stop(q) <=> op = \h10
      /\ TestsMemory(q) <=> op = \hCB /\ 64 <= next /\ next < 128 /\ z(next) = 6
  BY DEF Stop, TestsMemory
<1> HIDE DEF op, next, f, t, data
<1>8. CASE op \notin {\h10, \hCB}
  <2>1. Fits(SwitchOf(op, t, data))
    BY <1>2, <1>5, <1>6, <1>8, SwitchFits
  <2> QED
    BY <1>4, <1>7, <1>8, <2>1
<1>9. CASE op = \h10
  <2>1. SwitchOf(op, t, data) = Row_10(t, op, data)
    BY <1>9 DEF SwitchOf
  <2>2. tick(q) = [t EXCEPT !.control = "stop"]
    BY <1>4, <1>9, <2>1 DEF Row_10
  <2>3. Timed(t, 2, 0, 4) /\ "stop" \in Controls
    BY <1>5, <1>9, ControlTables DEF Fetching, Controls
  <2>4. Timed(tick(q), 2, 0, 4)
    BY <2>2, <2>3, TimedControl
  <2> QED
    BY <1>7, <1>9, <2>4
<1>10. CASE op = \hCB
  <2> DEFINE d == decode_extended(next, read_immediate(f))
  <2>1. /\ z(next) # 6 => Timed(d, 2, 0, 8)
        /\ z(next) = 6 /\ ~(64 <= next /\ next < 128) => Timed(d, 3, 1, 16)
        /\ z(next) = 6 /\ 64 <= next /\ next < 128 => Timed(d, 3, 1, 12)
    BY <1>2, <1>3, ExtendedTimes
  <2>2. tick(q) = d
    BY <1>4, <1>10
  <2> HIDE DEF d
  <2>3. CASE TestsMemory(q)
    BY <1>7, <1>10, <2>1, <2>2, <2>3
  <2>4. CASE ~TestsMemory(q)
    <3>1. Timed(d, 2, 0, 8) \/ Timed(d, 3, 1, 16)
      BY <1>7, <1>10, <2>1, <2>4
    <3>2. Fits(d)
      BY <3>1 DEF Fits, Durations
    <3> QED
      BY <1>7, <1>10, <2>2, <2>4, <3>2
  <2> QED
    BY <2>3, <2>4
<1> QED
  BY <1>8, <1>9, <1>10

LEMMA ColumnsSwitch ==
    ASSUME NEW op \in Int, 0 <= op, op < 64, z(op) \in {1, 3, 4, 5, 6}, NEW t, NEW data
    PROVE  SwitchOf(op, t, data) = Columns(t, op, data)
<1>1. op \notin {0, 2, 7, 8, 10, 15, 16, 18, 23, 24, 26, 31, 34, 39, 42, 47, 50, 55, 58, 63}
  BY DEF z
<1>2. CASE op < 16
  <2>1. SwitchOf(op, t, data) = Row_00(t, op, data)
    BY <1>2 DEF SwitchOf
  <2> QED
    BY <1>1, <2>1 DEF Row_00
<1>3. CASE 16 <= op /\ op < 32
  <2>1. SwitchOf(op, t, data) = Row_10(t, op, data)
    BY <1>3 DEF SwitchOf
  <2> QED
    BY <1>1, <2>1 DEF Row_10
<1>4. CASE 32 <= op /\ op < 48
  <2>1. SwitchOf(op, t, data) = Row_20(t, op, data)
    BY <1>4 DEF SwitchOf
  <2> QED
    BY <1>1, <2>1 DEF Row_20
<1>5. CASE 48 <= op
  <2>1. SwitchOf(op, t, data) = Row_30(t, op, data)
    BY <1>5 DEF SwitchOf
  <2> QED
    BY <1>1, <2>1 DEF Row_30
<1> QED
  BY <1>2, <1>3, <1>4, <1>5
LEMMA ControlSwitch ==
    ASSUME NEW op \in Int, 192 <= op, op < 256, NEW t, NEW data,
           op < 224 \/ z(op) \in {5, 6, 7} \/ (z(op) = 1 /\ y(op) % 2 = 0)
    PROVE  SwitchOf(op, t, data) = Control(t, op, data)
<1>1. CASE op < 224
  BY <1>1 DEF SwitchOf
<1>2. CASE 224 <= op
  <2>1. op \notin {224, 226, 232, 233, 234, 240, 242, 243, 248, 249, 250, 251}
    BY <1>2 DEF y, z
  <2>2. CASE op < 240
    <3>1. SwitchOf(op, t, data) = Row_E0(t, op, data)
      BY <1>2, <2>2 DEF SwitchOf
    <3> QED
      BY <2>1, <3>1 DEF Row_E0
  <2>3. CASE 240 <= op
    <3>1. SwitchOf(op, t, data) = Row_F0(t, op, data)
      BY <2>3 DEF SwitchOf
    <3> QED
      BY <2>1, <3>1 DEF Row_F0
  <2> QED
    BY <2>2, <2>3
<1> QED
  BY <1>1, <1>2

\* t is q behind the n bytes of an instruction that has not been executed yet.
Ticked == {"accesses", "pc", "control", "cycles"}

-----------------------------------------------------------------------------
(* STEPS: what an instruction leaves, by its opcode. *)

Moved(t, q, n) == Machine(t) /\ Keeps(t, q, Ticked) /\ t.pc = After(q.pc, n)

LEMMA Decoded ==
    ASSUME NEW q, Machine(q), NEW op, Peek(q, q.pc) = op, op # \hCB
    PROVE  \E t, data :
             /\ Moved(t, q, length(op))
             /\ tick(q) = SwitchOf(op, t, data)
             /\ length(op) = 2 => data = Peek(q, After(q.pc, 1))
             /\ length(op) = 3 => data = word(Peek(q, After(q.pc, 2)), Peek(q, After(q.pc, 1)))
<1> DEFINE f == One(q)
           t == Executing(op, f)
           data == ImmediateOf(op, f)
<1>1. tick(q) = SwitchOf(op, t, data)
  BY TickOf
<1>2. /\ Timed(f, 1, 0, q.cycles) /\ Keeps(f, q, {"accesses", "pc", "control"})
      /\ f.pc = After(q.pc, 1) /\ \A x : Peek(f, x) = Peek(q, x)
  BY OpcodeFetched
<1>3. /\ Fetching(t, op) /\ Keeps(t, f, {"accesses", "pc", "cycles"})
      /\ t.pc = After(f.pc, length(op) - 1)
  BY <1>2, ReadyToExecute
<1>4. q.pc \in Word /\ f.pc \in Word
  BY <1>2 DEF Timed, Machine
<1>5. increment16(f.pc) = After(q.pc, 2)
  <2>1. increment16(q.pc) = After(q.pc, 1) /\ increment16(increment16(q.pc)) = After(q.pc, 2)
    BY <1>4, NextWords
  <2> QED
    BY <1>2, <2>1
<1>6. /\ length(op) = 2 => data = Peek(q, After(q.pc, 1))
      /\ length(op) = 3 => data = word(Peek(q, After(q.pc, 2)), Peek(q, After(q.pc, 1)))
  BY <1>2, <1>5 DEF ImmediateOf
<1> HIDE DEF f, t, data
<1>7. Machine(t)
  BY <1>3 DEF Fetching, Timed
<1>8. Keeps(t, q, Ticked)
  BY <1>2, <1>3 DEF Keeps, Ticked
<1>9. t.pc = After(q.pc, length(op))
  <2>1. length(op) - 1 \in Nat /\ 1 + (length(op) - 1) = length(op)
    BY Lengths
  <2>2. After(After(q.pc, 1), length(op) - 1) = After(q.pc, 1 + (length(op) - 1))
    BY <1>4, <2>1, AfterAfter, Zenon
  <2> QED
    BY <1>2, <1>3, <2>1, <2>2
<1> QED
  BY <1>1, <1>6, <1>7, <1>8, <1>9 DEF Moved

LEMMA MovedKeeps ==
    ASSUME NEW q, NEW t, NEW n, Moved(t, q, n)
    PROVE  /\ \A r \in Pair \ {"pc"} : value(t, r) = value(q, r)
           /\ \A r \in Half : t[r] = q[r]
           /\ t.f = q.f /\ t.sp = q.sp
           /\ \A x : Peek(t, x) = Peek(q, x)
           /\ \A r \in Reg : Operand(t, r) = Operand(q, r)
<1>1. /\ t.a = q.a /\ t.b = q.b /\ t.c = q.c /\ t.d = q.d /\ t.e = q.e /\ t.h = q.h
      /\ t.l = q.l /\ t.f = q.f /\ t.sp = q.sp /\ t.mem = q.mem
  BY DEF Moved, Keeps, Fields, Ticked
<1>2. \A r \in Half : t[r] = q[r]
  BY <1>1 DEF Half
<1>3. \A x : Peek(t, x) = Peek(q, x)
  BY <1>1 DEF Peek
<1>4. \A r \in Pair \ {"pc"} : value(t, r) = value(q, r)
  <2> SUFFICES ASSUME NEW r \in Pair \ {"pc"} PROVE value(t, r) = value(q, r)
    OBVIOUS
  <2>1. r \in {"bc", "de", "hl", "af", "sp"}
    BY DEF Pair
  <2>2. \A p : /\ value(p, "bc") = word(p.b, p.c) /\ value(p, "de") = word(p.d, p.e)
               /\ value(p, "hl") = word(p.h, p.l)
               /\ value(p, "af") = word(p.a, FlagByte(p.f)) /\ value(p, "sp") = p.sp
    BY DEF value
  <2> QED
    BY <1>1, <2>1, <2>2
<1>5. \A r \in Reg : Operand(t, r) = Operand(q, r)
  <2> SUFFICES ASSUME NEW r \in Reg PROVE Operand(t, r) = Operand(q, r)
    OBVIOUS
  <2>1. value(t, "hl") = value(q, "hl")
    BY <1>4 DEF Pair
  <2>2. CASE r = "(hl)"
    BY <1>3, <2>1, <2>2 DEF Operand
  <2>3. CASE r # "(hl)"
    BY <1>2, <2>3 DEF Operand, Reg
  <2> QED
    BY <2>2, <2>3
<1> QED
  BY <1>1, <1>2, <1>3, <1>4, <1>5

\* The stack grows down: k bytes below address v.
Down(v, k) == (v - k) % 65536
LEMMA DownDown ==
    ASSUME NEW v \in Word, NEW i \in Nat, NEW k \in Nat
    PROVE  Down(Down(v, i), k) = Down(v, i + k)
<1>1. v \in Int
  BY IsWord
<1> QED
  BY <1>1 DEF Down
LEMMA BackUp ==
    ASSUME NEW v \in Word, NEW i \in Nat, NEW k \in Nat, k <= i
    PROVE  After(Down(v, i), k) = Down(v, i - k)
<1>1. v \in Int
  BY IsWord
<1> QED
  BY <1>1 DEF Down, After
LEMMA StackTop ==
    ASSUME NEW v \in Word
    PROVE  /\ Down(v, 0) = v /\ decrement16(v) = Down(v, 1)
           /\ decrement16(decrement16(v)) = Down(v, 2)
<1>1. v \in Int /\ 0 <= v /\ v <= 65535
  BY IsWord
<1> QED
  BY <1>1 DEF Down, decrement16

\* t is q with v pushed.
Pushed(t, q, v) ==
    /\ Machine(t)
    /\ Keeps(t, q, Ticked \cup {"mem", "sp"})
    /\ t.sp = Down(q.sp, 2)
    /\ Stored(t, q, {Down(q.sp, 1), Down(q.sp, 2)})
    /\ Peek(t, Down(q.sp, 1)) = v \div 256
    /\ Peek(t, Down(q.sp, 2)) = v % 256

LEMMA PushMoved ==
    ASSUME NEW q, Machine(q), NEW t, NEW n, Moved(t, q, n), NEW v \in Word
    PROVE  Pushed(push(t, v), q, v) /\ push(t, v).pc = t.pc
<1> DEFINE s == push(t, v)
<1>1. Machine(t) /\ Keeps(t, q, Ticked) /\ t.sp = q.sp /\ \A x : Peek(t, x) = Peek(q, x)
  BY MovedKeeps DEF Moved
<1>2. q.sp \in Word
  BY DEF Machine
<1>3. decrement16(t.sp) = Down(q.sp, 1) /\ decrement16(decrement16(t.sp)) = Down(q.sp, 2)
  BY <1>1, <1>2, StackTop
<1>4. /\ Machine(s) /\ Keeps(s, t, {"accesses", "mem", "sp"})
      /\ s.sp = Down(q.sp, 2) /\ Stored(s, t, {Down(q.sp, 1), Down(q.sp, 2)})
      /\ Peek(s, Down(q.sp, 1)) = v \div 256 /\ Peek(s, Down(q.sp, 2)) = v % 256
  <2> DEFINE top == decrement16(t.sp)
             below == decrement16(top)
  <2>1. Machine(s) /\ Keeps(s, t, {"accesses", "mem", "sp"})
    BY <1>1, PushWord, Zenon
  <2>2. s.sp = below
    BY <1>1, PushWord, Zenon
  <2>3. Stored(s, t, {top, below})
    BY <1>1, PushWord, Zenon
  <2>4. Peek(s, top) = v \div 256
    BY <1>1, PushWord, ZenonT(60)
  <2>5. Peek(s, below) = v % 256
    BY <1>1, PushWord, ZenonT(60)
  <2> HIDE DEF s
  <2> QED
    BY <1>3, <2>1, <2>2, <2>3, <2>4, <2>5, Zenon
<1> HIDE DEF s
<1>5. Keeps(s, q, Ticked \cup {"mem", "sp"}) /\ s.pc = t.pc
  BY <1>1, <1>4 DEF Keeps, Ticked, Fields
<1>6. t.mem = q.mem
  BY <1>1 DEF Keeps, Ticked, Fields
<1>7. Stored(s, q, {Down(q.sp, 1), Down(q.sp, 2)})
  BY <1>1, <1>4, <1>6 DEF Stored
<1> QED
  BY <1>4, <1>5, <1>7 DEF Pushed, s

LEMMA StackOperands ==
    ASSUME NEW r \in 0..3
    PROVE  /\ stack_y(\hC5 + 16 * r) = StackReg[r + 1]
           /\ stack_y(\hC1 + 16 * r) = StackReg[r + 1]
           /\ z(\hC5 + 16 * r) = 5 /\ y(\hC5 + 16 * r) = 2 * r
           /\ z(\hC1 + 16 * r) = 1 /\ y(\hC1 + 16 * r) = 2 * r
           /\ length(\hC5 + 16 * r) = 1 /\ length(\hC1 + 16 * r) = 1
           /\ StackReg[r + 1] \in {"bc", "de", "hl", "af"}
<1>1. /\ z(\hC5 + 16 * r) = 5 /\ y(\hC5 + 16 * r) = 2 * r
      /\ z(\hC1 + 16 * r) = 1 /\ y(\hC1 + 16 * r) = 2 * r
  BY DEF y, z
<1>2. (2 * r) \div 2 + 1 = r + 1
  OBVIOUS
<1>3. length(\hC5 + 16 * r) = 1 /\ length(\hC1 + 16 * r) = 1
  <2>1. \hC5 + 16 * r \in 192..255 /\ \hC1 + 16 * r \in 192..255
    OBVIOUS
  <2> QED
    BY <1>1, <2>1, UpperTables
<1>4. StackReg[r + 1] \in {"bc", "de", "hl", "af"}
  BY DEF StackReg
<1> QED
  BY <1>1, <1>2, <1>3, <1>4 DEF stack_y

LEMMA TickPush ==
    ASSUME NEW q, Machine(q), NEW r \in 0..3, Peek(q, q.pc) = \hC5 + 16 * r
    PROVE  /\ Pushed(tick(q), q, value(q, StackReg[r + 1]))
           /\ tick(q).pc = After(q.pc, 1)
<1> DEFINE op == \hC5 + 16 * r
           rr == StackReg[r + 1]
<1>1. PICK t, data : Moved(t, q, length(op)) /\ tick(q) = SwitchOf(op, t, data)
  BY Decoded
<1>2. z(op) = 5 /\ y(op) = 2 * r /\ stack_y(op) = rr /\ length(op) = 1 /\ rr \in Pair \ {"pc"}
  BY StackOperands DEF Pair
<1>3. SwitchOf(op, t, data) = Control(t, op, data)
  BY <1>2, ControlSwitch
<1>4. value(t, rr) = value(q, rr) /\ value(q, rr) \in Word
  BY <1>1, <1>2, MovedKeeps, ValueType
<1>5. Control(t, op, data) = push(t, value(t, rr))
  BY <1>2 DEF Control
<1>6. t.pc = After(q.pc, 1)
  BY <1>1, <1>2 DEF Moved
<1>7. Pushed(push(t, value(q, rr)), q, value(q, rr)) /\ push(t, value(q, rr)).pc = t.pc
  BY <1>1, <1>4, PushMoved
<1> QED
  BY <1>1, <1>3, <1>4, <1>5, <1>6, <1>7

LEMMA PopMoved ==
    ASSUME NEW q, Machine(q), NEW t, NEW n, Moved(t, q, n), NEW r \in Pair \ {"sp"}
    PROVE  /\ Machine(pop(t, r))
           /\ Keeps(pop(t, r), q, Ticked \cup {"sp"} \cup Halves(r))
           /\ pop(t, r).sp = After(q.sp, 2)
           /\ r # "af" => value(pop(t, r), r) = word(Peek(q, After(q.sp, 1)), Peek(q, q.sp))
           /\ r = "af" => /\ pop(t, r).a = Peek(q, After(q.sp, 1))
                          /\ pop(t, r).f = FlagsOf(Peek(q, q.sp))
           /\ r # "pc" => pop(t, r).pc = t.pc
<1> DEFINE s == pop(t, r)
<1>1. Machine(t) /\ Keeps(t, q, Ticked) /\ t.sp = q.sp /\ \A x : Peek(t, x) = Peek(q, x)
  BY MovedKeeps DEF Moved
<1>2. q.sp \in Word
  BY DEF Machine
<1>3. increment16(q.sp) = After(q.sp, 1) /\ increment16(increment16(q.sp)) = After(q.sp, 2)
  BY <1>2, NextWords
<1>4. /\ Machine(s) /\ Keeps(s, t, {"accesses", "sp"} \cup Halves(r))
      /\ s.sp = After(q.sp, 2)
      /\ r # "af" => value(s, r) = word(Peek(q, After(q.sp, 1)), Peek(q, q.sp))
      /\ r = "af" => s.a = Peek(q, After(q.sp, 1)) /\ s.f = FlagsOf(Peek(q, q.sp))
  BY <1>1, <1>3, PopWord
<1>5. r # "pc" => "pc" \notin Halves(r)
  BY DEF Pair, Halves
<1> HIDE DEF s
<1>6. Keeps(s, q, Ticked \cup {"sp"} \cup Halves(r))
  BY <1>1, <1>4 DEF Keeps, Ticked
<1>7. r # "pc" => s.pc = t.pc
  BY <1>4, <1>5 DEF Keeps, Fields
<1> QED
  BY <1>4, <1>6, <1>7 DEF s

LEMMA TickPop ==
    ASSUME NEW q, Machine(q), NEW r \in 0..3, Peek(q, q.pc) = \hC1 + 16 * r
    PROVE  LET rr == StackReg[r + 1]
           IN  /\ Machine(tick(q))
               /\ Keeps(tick(q), q, Ticked \cup {"sp"} \cup Halves(rr))
               /\ tick(q).pc = After(q.pc, 1) /\ tick(q).sp = After(q.sp, 2)
               /\ r < 3 => value(tick(q), rr) = word(Peek(q, After(q.sp, 1)), Peek(q, q.sp))
               /\ r = 3 => /\ tick(q).a = Peek(q, After(q.sp, 1))
                           /\ tick(q).f = FlagsOf(Peek(q, q.sp))
<1> DEFINE op == \hC1 + 16 * r
           rr == StackReg[r + 1]
<1>1. PICK t, data : Moved(t, q, length(op)) /\ tick(q) = SwitchOf(op, t, data)
  BY Decoded
<1>2. z(op) = 1 /\ y(op) = 2 * r /\ stack_y(op) = rr /\ length(op) = 1
  BY StackOperands
<1>3. SwitchOf(op, t, data) = Control(t, op, data)
  BY <1>2, ControlSwitch
<1>4. op # \hC9 /\ op # \hD9 /\ op # \hC3 /\ op # \hCD
  OBVIOUS
<1>5. Control(t, op, data) = pop(t, rr)
  BY <1>2, <1>4 DEF Control
<1>6. t.pc = After(q.pc, 1)
  BY <1>1, <1>2 DEF Moved
<1>7. rr \in Pair \ {"sp"} /\ rr # "pc" /\ (r = 3 <=> rr = "af")
  BY DEF StackReg, Pair
<1> HIDE DEF rr
<1> SUFFICES /\ Machine(tick(q))
             /\ Keeps(tick(q), q, Ticked \cup {"sp"} \cup Halves(rr))
             /\ tick(q).pc = After(q.pc, 1) /\ tick(q).sp = After(q.sp, 2)
             /\ r < 3 => value(tick(q), rr) = word(Peek(q, After(q.sp, 1)), Peek(q, q.sp))
             /\ r = 3 => /\ tick(q).a = Peek(q, After(q.sp, 1))
                         /\ tick(q).f = FlagsOf(Peek(q, q.sp))
  BY DEF rr
<1>8. tick(q) = pop(t, rr)
  BY <1>1, <1>3, <1>5
<1> HIDE DEF op
<1>9. /\ Machine(pop(t, rr))
      /\ Keeps(pop(t, rr), q, Ticked \cup {"sp"} \cup Halves(rr))
      /\ pop(t, rr).sp = After(q.sp, 2)
      /\ rr # "af" => value(pop(t, rr), rr) = word(Peek(q, After(q.sp, 1)), Peek(q, q.sp))
      /\ rr = "af" => /\ pop(t, rr).a = Peek(q, After(q.sp, 1))
                      /\ pop(t, rr).f = FlagsOf(Peek(q, q.sp))
      /\ rr # "pc" => pop(t, rr).pc = t.pc
  BY <1>1, <1>7, PopMoved
<1>10. r < 3 <=> r # 3
  OBVIOUS
<1> QED
  BY <1>6, <1>7, <1>8, <1>9, <1>10

LEMMA TickReturn ==
    ASSUME NEW q, Machine(q), Peek(q, q.pc) \in {\hC9, \hD9}
    PROVE  /\ Machine(tick(q))
           /\ Keeps(tick(q), q, Ticked \cup {"sp"})
           /\ tick(q).sp = After(q.sp, 2)
           /\ tick(q).pc = word(Peek(q, After(q.sp, 1)), Peek(q, q.sp))
<1> DEFINE op == Peek(q, q.pc)
<1>1. PICK t, data : Moved(t, q, length(op)) /\ tick(q) = SwitchOf(op, t, data)
  BY Decoded
<1>2. SwitchOf(op, t, data) = Control(t, op, data)
  BY ControlSwitch
<1>3. tick(q) = ret(t) \/ tick(q) = reti(t)
  <2>1. CASE op = \hC9
    <3>1. z(\hC9) = 1 /\ y(\hC9) = 1
      BY DEF y, z
    <3>2. Control(t, \hC9, data) = ret(t)
      BY <3>1 DEF Control
    <3> QED
      BY <1>1, <1>2, <2>1, <3>2
  <2>2. CASE op = \hD9
    <3>1. z(\hD9) = 1 /\ y(\hD9) = 3
      BY DEF y, z
    <3>2. Control(t, \hD9, data) = reti(t)
      BY <3>1 DEF Control
    <3> QED
      BY <1>1, <1>2, <2>2, <3>2
  <2> QED
    BY <2>1, <2>2
<1>4. "pc" \in Pair \ {"sp"} /\ Halves("pc") = {"pc"} /\ "pc" # "af" /\ "reti" \in Controls
  BY DEF Pair, Halves, Controls
<1> DEFINE s == pop(t, "pc")
<1>5. /\ Machine(s) /\ Keeps(s, q, Ticked \cup {"sp"} \cup {"pc"})
      /\ s.sp = After(q.sp, 2)
      /\ value(s, "pc") = word(Peek(q, After(q.sp, 1)), Peek(q, q.sp))
  BY <1>1, <1>4, PopMoved
<1>6. value(s, "pc") = s.pc
  BY DEF value
<1>7. ret(t) = s /\ reti(t) = [s EXCEPT !.control = "reti"]
  BY DEF ret, reti
<1> HIDE DEF s
<1>8. Keeps(s, q, Ticked \cup {"sp"})
  BY <1>5 DEF Keeps, Ticked
<1>9. CASE tick(q) = s
  BY <1>5, <1>6, <1>8, <1>9
<1>10. CASE tick(q) = [s EXCEPT !.control = "reti"]
  <2> DEFINE u == [s EXCEPT !.control = "reti"]
  <2>1. Machine(u) /\ Keeps(u, s, {"control"})
    BY <1>4, <1>5, SetControl
  <2> HIDE DEF u
  <2>2. u.sp = s.sp /\ u.pc = s.pc
    BY <2>1 DEF Keeps, Fields
  <2>3. Keeps(u, q, Ticked \cup {"sp"})
    BY <1>8, <2>1 DEF Keeps, Ticked
  <2>4. tick(q) = u
    BY <1>10 DEF u
  <2> QED
    BY <1>5, <1>6, <2>1, <2>2, <2>3, <2>4
<1> QED
  BY <1>3, <1>7, <1>9, <1>10

\* An instruction of n bytes that changes the fields S has taken q to t.
Changed(t, q, S, n) ==
    Machine(t) /\ Keeps(t, q, Ticked \cup S) /\ t.pc = After(q.pc, n)

LEMMA ChangeMoved ==
    ASSUME NEW q, NEW t, NEW n, Moved(t, q, n), NEW s, Machine(s), NEW S, Keeps(s, t, S),
           "pc" \notin S
    PROVE  Changed(s, q, S, n)
<1>1. s.pc = t.pc
  BY DEF Keeps, Fields
<1>2. Keeps(s, q, Ticked \cup S)
  BY DEF Moved, Keeps
<1> QED
  BY <1>1, <1>2 DEF Moved, Changed

\* LD r,r'.
LEMMA TickLoad ==
    ASSUME NEW q, Machine(q), NEW i \in 0..7, NEW j \in 0..7, i # 6, j # 6,
           Peek(q, q.pc) = 64 + 8 * i + j
    PROVE  /\ Changed(tick(q), q, {Reg8[i + 1]}, 1)
           /\ tick(q)[Reg8[i + 1]] = q[Reg8[j + 1]]
<1> DEFINE op == 64 + 8 * i + j
           to == Reg8[i + 1]
           from == Reg8[j + 1]
<1>1. PICK t, data : Moved(t, q, length(op)) /\ tick(q) = SwitchOf(op, t, data)
  <2>1. op # \hCB
    OBVIOUS
  <2> QED
    BY <2>1, Decoded
<1>2. op \in 64..191 /\ op < 128 /\ op # 118
  OBVIOUS
<1>3. length(op) = 1
  BY <1>2, MiddleTables
<1>4. reg_y(op) = to /\ reg_z(op) = from
  BY DEF reg_y, reg_z, y, z
<1>5. to \in Half /\ from \in Half /\ to # "(hl)" /\ from # "(hl)"
  BY DEF Reg8, Half
<1>6. SwitchOf(op, t, data) = Load(t, op)
  <2>1. CASE op < 112
    BY <1>2, <2>1 DEF SwitchOf
  <2>2. CASE ~(op < 112)
    <3>1. SwitchOf(op, t, data) = Row_70(t, op)
      BY <1>2, <2>2 DEF SwitchOf
    <3> QED
      BY <1>2, <3>1 DEF Row_70
  <2> QED
    BY <2>1, <2>2
<1> HIDE DEF op, to, from
<1>7. Load(t, op) = load(t, to, t[from])
  BY <1>4, <1>5 DEF Load, Fetched, Operand
<1>8. t[from] = q[from] /\ Machine(t) /\ t[from] \in Byte
  <2>1. Machine(t)
    BY <1>1 DEF Moved
  <2>2. t[from] = q[from]
    BY <1>1, <1>5, MovedKeeps
  <2>3. t[from] \in Byte
    BY <1>5, <2>1 DEF Machine
  <2> QED
    BY <2>1, <2>2, <2>3
<1> DEFINE s == load(t, to, t[from])
<1>9. Machine(s) /\ Keeps(s, t, {to}) /\ s[to] = t[from]
  <2>1. to \in Reg
    BY <1>5 DEF Reg
  <2>2. Machine(s)
    BY <1>8, <2>1, LoadByte, Zenon
  <2>3. Keeps(s, t, {to}) /\ s[to] = t[from]
    BY <1>5, <1>8, <2>1, LoadByte, Zenon
  <2> QED
    BY <2>2, <2>3
<1>10. "pc" \notin {to}
  BY <1>5 DEF Half
<1> HIDE DEF s
<1>11. Changed(s, q, {to}, 1)
  BY <1>1, <1>3, <1>9, <1>10, ChangeMoved
<1>12. tick(q) = s
  BY <1>1, <1>6, <1>7 DEF s
<1> QED
  BY <1>8, <1>9, <1>11, <1>12 DEF to, from, op

\* The accumulator and the flags receive the result of an operation.
Accumulator(s, q, r, n) ==
    Changed(s, q, {"a", "f"}, n) /\ s.a = r.value /\ s.f = r.flags
LEMMA UpdateMoved ==
    ASSUME NEW q, NEW t, NEW n, Moved(t, q, n), NEW res \in AluResult
    PROVE  Accumulator(Update(t, "a", res), q, res, n)
<1> DEFINE s == Update(t, "a", res)
<1>1. "a" \in Reg /\ "a" \in Half
  BY DEF Reg, Half
<1>2. Machine(t)
  BY DEF Moved
<1>3. Machine(s) /\ s.f = res.flags /\ Keeps(s, t, {"a", "f"}) /\ s.a = res.value
  BY <1>1, <1>2, UpdateResult, Zenon
<1> HIDE DEF s
<1>4. Changed(s, q, {"a", "f"}, n)
  BY <1>3, ChangeMoved
<1> QED
  BY <1>3, <1>4 DEF s, Accumulator

\* ADD, ADC, SUB, SBC A,r.
LEMMA TickArithmetic ==
    ASSUME NEW q, Machine(q), NEW i \in 0..3, NEW j \in 0..7, j # 6,
           Peek(q, q.pc) = 128 + 8 * i + j
    PROVE  Accumulator(tick(q), q, Arithmetic(q, 128 + 8 * i + j, q[Reg8[j + 1]]), 1)
<1> DEFINE op == 128 + 8 * i + j
           from == Reg8[j + 1]
<1>1. PICK t, data : Moved(t, q, length(op)) /\ tick(q) = SwitchOf(op, t, data)
  <2>1. op # \hCB
    OBVIOUS
  <2> QED
    BY <2>1, Decoded
<1>2. op \in 64..191 /\ 128 <= op
  OBVIOUS
<1>3. length(op) = 1
  BY <1>2, MiddleTables
<1>4. reg_z(op) = from /\ y(op) = i
  BY DEF reg_z, y, z
<1>5. from \in Half /\ from # "(hl)"
  BY DEF Reg8, Half
<1>6. SwitchOf(op, t, data) = Accumulate(Fetched(t, reg_z(op)), op, Operand(t, reg_z(op)))
  BY <1>2 DEF SwitchOf
<1> HIDE DEF op, from
<1>7. Accumulate(Fetched(t, reg_z(op)), op, Operand(t, reg_z(op))) = Accumulate(t, op, t[from])
  BY <1>4, <1>5 DEF Fetched, Operand
<1>8. /\ t[from] = q[from] /\ Machine(t) /\ q[from] \in Byte /\ t.f = q.f /\ t.a = q.a
      /\ q.f \in SUBSET Flag /\ q.a \in Byte
  <2>1. "a" \in Half
    BY DEF Half
  <2>2. Machine(t)
    BY <1>1 DEF Moved
  <2>3. t[from] = q[from] /\ t.a = q.a /\ t.f = q.f
    BY <1>1, <1>5, <2>1, MovedKeeps
  <2>4. q[from] \in Byte /\ q.f \in SUBSET Flag /\ q.a \in Byte
    BY <1>5, <2>1 DEF Machine
  <2> QED
    BY <2>2, <2>3, <2>4
<1> DEFINE r == Arithmetic(q, op, q[from])
<1>9. Accumulate(t, op, t[from]) = Update(t, "a", r)
  BY <1>4, <1>8 DEF Accumulate, Arithmetic
<1>10. r \in AluResult
  BY <1>4, <1>8, Sums DEF Arithmetic
<1> HIDE DEF r
<1>11. Accumulator(Update(t, "a", r), q, r, 1)
  BY <1>1, <1>3, <1>10, UpdateMoved
<1> QED
  BY <1>1, <1>6, <1>7, <1>9, <1>11 DEF r, op, from

\* The instructions of the handler between PUSH and POP.
LEMMA TickClobbers ==
    ASSUME NEW q, Machine(q), Peek(q, q.pc) \in {\hAF, \h37, \h6F}
    PROVE  Changed(tick(q), q, {"a", "f", "l"}, 1)
<1>1. CASE Peek(q, q.pc) = \hAF
  <2>1. PICK t, data : Moved(t, q, length(\hAF)) /\ tick(q) = SwitchOf(\hAF, t, data)
    BY <1>1, Decoded
  <2>2. length(\hAF) = 1
    BY MiddleTables
  <2>3. y(\hAF) = 5 /\ reg_z(\hAF) = "a"
    BY DEF y, z, reg_z, Reg8
  <2>4. tick(q) = Accumulate(t, \hAF, t.a)
    BY <2>1, <2>3 DEF SwitchOf, Fetched, Operand
  <2>5. Machine(t) /\ t.a \in Byte
    BY <2>1, Zenon DEF Moved, Machine, Half
  <2>6. PICK res \in AluResult : tick(q) = Update(t, "a", res)
    BY <2>3, <2>4, <2>5, Accumulated
  <2>7. Accumulator(tick(q), q, res, 1)
    BY <2>1, <2>2, <2>6, UpdateMoved
  <2> QED
    BY <2>7 DEF Accumulator, Changed, Keeps
<1>2. CASE Peek(q, q.pc) = \h37
  <2>1. PICK t, data : Moved(t, q, length(\h37)) /\ tick(q) = SwitchOf(\h37, t, data)
    BY <1>2, Decoded
  <2>2. length(\h37) = 1
    <3>1. z(\h37) = 7
      BY DEF z
    <3> QED
      BY <3>1, LowerTables
  <2> DEFINE F == (t.f \cap {"zero"}) \cup {"carry"}
  <2>3. tick(q) = [t EXCEPT !.f = F]
    BY <2>1 DEF SwitchOf, Row_30
  <2>4. Machine(t) /\ F \in SUBSET Flag
    BY <2>1, Zenon DEF Moved, Machine, Flag
  <2> DEFINE s == [t EXCEPT !.f = F]
  <2> HIDE DEF F
  <2>5. Machine(s) /\ Keeps(s, t, {"f"})
    BY <2>4, SetFlags
  <2> HIDE DEF s
  <2>6. Changed(s, q, {"f"}, 1)
    BY <2>1, <2>2, <2>5, ChangeMoved
  <2>7. Changed(s, q, {"a", "f", "l"}, 1)
    BY <2>6 DEF Changed, Keeps
  <2> QED
    BY <2>3, <2>7 DEF s
<1>3. CASE Peek(q, q.pc) = \h6F
  <2>1. 5 \in 0..7 /\ 7 \in 0..7 /\ \h6F = 64 + 8 * 5 + 7 /\ Reg8[5 + 1] = "l"
    BY DEF Reg8
  <2>2. Changed(tick(q), q, {"l"}, 1)
    BY <1>3, <2>1, TickLoad
  <2> QED
    BY <2>2 DEF Changed, Keeps
<1> QED
  BY <1>1, <1>2, <1>3

-----------------------------------------------------------------------------
(* THE HANDLER: it leaves the interrupted program what it found. *)

\* The six bytes below the stack pointer, which the handler overwrites.
Below(v) == {Down(v, 1), Down(v, 2), Down(v, 3), Down(v, 4), Down(v, 5), Down(v, 6)}
LEMMA DownDistinct ==
    ASSUME NEW v \in Word, NEW i \in 0..6, NEW k \in 0..6, i # k
    PROVE  Down(v, i) # Down(v, k)
<1>1. v \in Int /\ 0 <= v /\ v <= 65535
  BY IsWord
<1> QED
  BY <1>1 DEF Down

\* Address x of q holds v, and the handler would not overwrite it.
Has(q, x, v) == Peek(q, x) = v /\ x \notin Below(q.sp)

\* n is q but for what the handler has overwritten and what the last tick did.
Same(n, q) ==
    /\ Machine(n)
    /\ \A r \in Registers \cup {"pc"} : n[r] = q[r]
    /\ Stored(n, q, Below(q.sp))

LoadedHandler(q) ==
    /\ Has(q, 80, \hF5) /\ Has(q, 81, \hE5) /\ Has(q, 82, \hAF) /\ Has(q, 83, \h37)
    /\ Has(q, 84, \h6F) /\ Has(q, 85, \hE1) /\ Has(q, 86, \hF1) /\ Has(q, 87, \hD9)

\* n runs the handler that has interrupted q.
Kept(n, q, S) == \A r \in S : n[r] = q[r]
SavedPc(n, q) ==
    Peek(n, Down(q.sp, 1)) = q.pc \div 256 /\ Peek(n, Down(q.sp, 2)) = q.pc % 256
SavedAf(n, q) ==
    Peek(n, Down(q.sp, 3)) = q.a /\ Peek(n, Down(q.sp, 4)) = FlagByte(q.f)
SavedHl(n, q) == Peek(n, Down(q.sp, 5)) = q.h /\ Peek(n, Down(q.sp, 6)) = q.l
Interrupted(n, q) ==
    /\ Machine(n)
    /\ Kept(n, q, {"b", "c", "d", "e"})
    /\ Stored(n, q, Below(q.sp))
    /\ SavedPc(n, q)
    /\ \/ /\ n.pc \in {80, 87}
          /\ n.sp = Down(q.sp, 2)
          /\ Kept(n, q, {"a", "f", "h", "l"})
       \/ /\ n.pc \in {81, 86}
          /\ n.sp = Down(q.sp, 4)
          /\ SavedAf(n, q)
          /\ Kept(n, q, {"h", "l"})
       \/ /\ n.pc \in {82, 83, 84, 85}
          /\ n.sp = Down(q.sp, 6)
          /\ SavedAf(n, q)
          /\ SavedHl(n, q)

\* An interrupt dispatched between two instructions begins the handler, with the
\* address of the next instruction on the stack (cpu.cpp:191-196).
THEOREM HandlerStarts ==
    ASSUME NEW q, Machine(q)
    PROVE  Interrupted(dispatch(q, Vector), q) /\ dispatch(q, Vector).control = "dispatch"
<1> DEFINE s == [q EXCEPT !.accesses = <<>>]
           t == call(s, Vector)
           n == [t EXCEPT !.control = "dispatch"]
<1>1. Machine(s) /\ Keeps(s, q, {"accesses"})
  <2>1. <<>> \in Seq(Access)
    OBVIOUS
  <2> QED
    BY <2>1, Zenon DEF Machine, Keeps, Fields, Half
<1>2. Vector = 80 /\ Vector \in Word /\ "dispatch" \in Controls
  BY IsWord DEF Vector, Controls
<1>3. s.sp = q.sp /\ s.pc = q.pc /\ s.mem = q.mem /\ q.sp \in Word
  BY <1>1 DEF Keeps, Fields, Machine
<1>4. dispatch(q, Vector) = n
  BY DEF dispatch, rst, call
<1> HIDE DEF s
<1>5. Entered(t, s, Vector)
  BY <1>1, <1>2, Call
<1> HIDE DEF t
<1>10. decrement16(s.sp) = Down(q.sp, 1) /\ decrement16(decrement16(s.sp)) = Down(q.sp, 2)
  BY <1>3, StackTop
<1>6. /\ Machine(t) /\ Keeps(t, s, {"accesses", "mem", "sp", "pc"})
      /\ t.pc = Vector /\ t.sp = decrement16(decrement16(s.sp))
      /\ Stored(t, s, {decrement16(s.sp), decrement16(decrement16(s.sp))})
      /\ Peek(t, decrement16(s.sp)) = s.pc \div 256
      /\ Peek(t, decrement16(decrement16(s.sp))) = s.pc % 256
  BY <1>5 DEF Entered
<1>11. Machine(n) /\ Keeps(n, t, {"control"})
  BY <1>2, <1>6, SetControl
<1>20. n.control = "dispatch"
  BY <1>6 DEF Machine, Fields
<1> HIDE DEF n
<1>12. n.mem = t.mem /\ n.pc = 80 /\ n.sp = Down(q.sp, 2)
  BY <1>2, <1>6, <1>10, <1>11 DEF Keeps, Fields
<1>13. Kept(n, q, {"b", "c", "d", "e"}) /\ Kept(n, q, {"a", "f", "h", "l"})
  BY <1>1, <1>6, <1>11 DEF Kept, Keeps, Fields
<1>14. \A x : Peek(n, x) = Peek(t, x) /\ Peek(s, x) = Peek(q, x)
  BY <1>3, <1>12 DEF Peek
<1>15. SavedPc(n, q)
  BY <1>3, <1>6, <1>10, <1>14 DEF SavedPc
<1>16. Stored(n, q, Below(q.sp))
  <2>1. DOMAIN s.mem \subseteq DOMAIN t.mem
    BY <1>6 DEF Stored
  <2>2. DOMAIN q.mem \subseteq DOMAIN n.mem
    BY <1>3, <1>12, <2>1
  <2>3. \A x : x \notin Below(q.sp) => Peek(n, x) = Peek(q, x)
    BY <1>6, <1>10, <1>14 DEF Stored, Below
  <2> QED
    BY <2>2, <2>3 DEF Stored
<1>17. n.pc \in {80, 87}
  BY <1>12
<1>18. Interrupted(n, q)
  BY <1>11, <1>12, <1>13, <1>15, <1>16, <1>17 DEF Interrupted
<1> QED
  BY <1>4, <1>18, <1>20

\* What a push below k bytes of the interrupted stack keeps.
LEMMA HandlerPushes ==
    ASSUME NEW q, Machine(q), NEW n, Machine(n), Stored(n, q, Below(q.sp)), NEW k \in {2, 4},
           n.sp = Down(q.sp, k), SavedPc(n, q), NEW v, NEW t, Pushed(t, n, v)
    PROVE  /\ Stored(t, q, Below(q.sp)) /\ SavedPc(t, q) /\ t.sp = Down(q.sp, k + 2)
           /\ Peek(t, Down(q.sp, k + 1)) = v \div 256
           /\ Peek(t, Down(q.sp, k + 2)) = v % 256
           /\ k = 4 /\ SavedAf(n, q) => SavedAf(t, q)
<1>1. q.sp \in Word
  BY DEF Machine
<1>2. /\ Down(n.sp, 1) = Down(q.sp, k + 1) /\ Down(n.sp, 2) = Down(q.sp, k + 2)
  BY <1>1, DownDown
<1>3. /\ t.sp = Down(q.sp, k + 2)
      /\ Peek(t, Down(q.sp, k + 1)) = v \div 256
      /\ Peek(t, Down(q.sp, k + 2)) = v % 256
      /\ Stored(t, n, {Down(q.sp, k + 1), Down(q.sp, k + 2)})
  BY <1>2, Zenon DEF Pushed
<1>4. \A i \in 1..2 : Down(q.sp, i) \notin {Down(q.sp, k + 1), Down(q.sp, k + 2)}
  BY <1>1, DownDistinct
<1>5. k = 4 => \A i \in 3..4 : Down(q.sp, i) \notin {Down(q.sp, k + 1), Down(q.sp, k + 2)}
  BY <1>1, DownDistinct
<1>6. Down(q.sp, k + 1) \in Below(q.sp) /\ Down(q.sp, k + 2) \in Below(q.sp)
  BY DEF Below
<1>7. Stored(t, q, Below(q.sp))
  BY <1>3, <1>6 DEF Stored
<1>8. SavedPc(t, q)
  BY <1>3, <1>4 DEF Stored, SavedPc
<1>9. k = 4 /\ SavedAf(n, q) => SavedAf(t, q)
  BY <1>3, <1>5 DEF Stored, SavedAf
<1> QED
  BY <1>3, <1>7, <1>8, <1>9

\* What a push of the handler keeps of the registers.
LEMMA PushKeeps ==
    ASSUME NEW n, NEW v, NEW t, Pushed(t, n, v)
    PROVE  Kept(t, n, {"a", "f", "b", "c", "d", "e", "h", "l"})
  BY DEF Pushed, Kept, Keeps, Fields, Ticked
LEMMA HandlerMemory ==
    ASSUME NEW q, NEW n, NEW t, t.mem = n.mem
    PROVE  /\ Stored(n, q, Below(q.sp)) => Stored(t, q, Below(q.sp))
           /\ SavedPc(n, q) => SavedPc(t, q)
           /\ SavedAf(n, q) => SavedAf(t, q)
           /\ SavedHl(n, q) => SavedHl(t, q)
<1>1. \A x : Peek(t, x) = Peek(n, x)
  BY DEF Peek
<1> QED
  BY <1>1 DEF Stored, SavedPc, SavedAf, SavedHl

\* The opcode that the handler executes next.
LEMMA HandlerOpcode ==
    ASSUME NEW q, LoadedHandler(q), NEW n, Interrupted(n, q)
    PROVE  Peek(n, n.pc) =
             CASE n.pc = 80 -> \hF5 [] n.pc = 81 -> \hE5 [] n.pc = 82 -> \hAF
               [] n.pc = 83 -> \h37 [] n.pc = 84 -> \h6F [] n.pc = 85 -> \hE1
               [] n.pc = 86 -> \hF1 [] n.pc = 87 -> \hD9
<1>1. \A x : x \notin Below(q.sp) => Peek(n, x) = Peek(q, x)
  BY DEF Interrupted, Stored
<1>2. /\ Peek(n, 80) = \hF5 /\ Peek(n, 81) = \hE5 /\ Peek(n, 82) = \hAF
      /\ Peek(n, 83) = \h37 /\ Peek(n, 84) = \h6F /\ Peek(n, 85) = \hE1
      /\ Peek(n, 86) = \hF1 /\ Peek(n, 87) = \hD9
  BY <1>1 DEF LoadedHandler, Has
<1>3. n.pc \in {80, 81, 82, 83, 84, 85, 86, 87}
  BY DEF Interrupted
<1> QED
  BY <1>2, <1>3

\* The handler is transparent: every instruction of it goes on running it, and its
\* RETI, the last, leaves the interrupted machine as it was, but for the six bytes
\* below its stack pointer: PUSH AF, PUSH HL, XOR A, SCF, LD L,A, POP HL, POP AF
\* undo each other (cpu.cpp:2552-2617).
THEOREM HandlerSteps ==
    ASSUME NEW q, Machine(q), LoadedHandler(q), NEW n, Interrupted(n, q)
    PROVE  /\ n.pc # 87 => Interrupted(tick(n), q)
           /\ n.pc = 87 => Same(tick(n), q)
<1> DEFINE t == tick(n)
           op == Peek(n, n.pc)
<1>1. /\ Machine(n) /\ Kept(n, q, {"b", "c", "d", "e"})
      /\ Stored(n, q, Below(q.sp)) /\ SavedPc(n, q) /\ q.sp \in Word
  BY Zenon DEF Interrupted, Machine
<1>2. op = CASE n.pc = 80 -> \hF5 [] n.pc = 81 -> \hE5 [] n.pc = 82 -> \hAF
             [] n.pc = 83 -> \h37 [] n.pc = 84 -> \h6F [] n.pc = 85 -> \hE1
             [] n.pc = 86 -> \hF1 [] n.pc = 87 -> \hD9
  BY HandlerOpcode, Zenon
<1>3. n.pc \in Word /\ (n.pc \in {80, 81, 82, 83, 84, 85, 86} => After(n.pc, 1) = n.pc + 1)
  BY <1>1 DEF Machine, After
<1>4. StackReg[3 + 1] = "af" /\ StackReg[2 + 1] = "hl" /\ 3 \in 0..3 /\ 2 \in 0..3
  BY DEF StackReg
<1>5. CASE n.pc = 80
  <2>1. n.sp = Down(q.sp, 2) /\ Kept(n, q, {"a", "f", "h", "l"})
    BY <1>5 DEF Interrupted
  <2>2. op = \hC5 + 16 * 3
    BY <1>2, <1>5
  <2>3. Pushed(t, n, value(n, "af")) /\ t.pc = 81
    BY <1>1, <1>3, <1>4, <1>5, <2>2, TickPush
  <2> HIDE DEF t
  <2>4. Kept(t, n, {"a", "f", "b", "c", "d", "e", "h", "l"}) /\ Machine(t)
    BY <2>3, PushKeeps, Zenon DEF Pushed
  <2>5. /\ Stored(t, q, Below(q.sp)) /\ SavedPc(t, q) /\ t.sp = Down(q.sp, 2 + 2)
        /\ Peek(t, Down(q.sp, 2 + 1)) = value(n, "af") \div 256
        /\ Peek(t, Down(q.sp, 2 + 2)) = value(n, "af") % 256
    BY <1>1, <2>1, <2>3, HandlerPushes
  <2>6. value(n, "af") = word(q.a, FlagByte(q.f)) /\ q.a \in Byte /\ FlagByte(q.f) \in Byte
    <3>1. q.a \in Byte /\ q.f \in SUBSET Flag
      BY DEF Machine, Half
    <3>2. n.a = q.a /\ n.f = q.f
      BY <2>1 DEF Kept
    <3> QED
      BY <3>1, <3>2, Flagged DEF value
  <2>7. SavedAf(t, q)
    BY <2>5, <2>6, WordOfBytes DEF SavedAf
  <2>8. Kept(t, q, {"b", "c", "d", "e"}) /\ Kept(t, q, {"h", "l"})
    BY <1>1, <2>1, <2>4 DEF Kept
  <2>9. Interrupted(t, q)
    BY <2>3, <2>4, <2>5, <2>7, <2>8 DEF Interrupted
  <2> QED
    BY <1>5, <2>9 DEF t
<1>6. CASE n.pc = 81
  <2>1. n.sp = Down(q.sp, 4) /\ SavedAf(n, q) /\ Kept(n, q, {"h", "l"})
    BY <1>6 DEF Interrupted
  <2>2. op = \hC5 + 16 * 2
    BY <1>2, <1>6
  <2>3. Pushed(t, n, value(n, "hl")) /\ t.pc = 82
    BY <1>1, <1>3, <1>4, <1>6, <2>2, TickPush
  <2> HIDE DEF t
  <2>4. Kept(t, n, {"a", "f", "b", "c", "d", "e", "h", "l"}) /\ Machine(t)
    BY <2>3, PushKeeps, Zenon DEF Pushed
  <2>5. /\ Stored(t, q, Below(q.sp)) /\ SavedPc(t, q) /\ t.sp = Down(q.sp, 4 + 2)
        /\ Peek(t, Down(q.sp, 4 + 1)) = value(n, "hl") \div 256
        /\ Peek(t, Down(q.sp, 4 + 2)) = value(n, "hl") % 256
        /\ SavedAf(t, q)
    BY <1>1, <2>1, <2>3, HandlerPushes
  <2>6. value(n, "hl") = word(q.h, q.l) /\ q.h \in Byte /\ q.l \in Byte
    <3>1. q.h \in Byte /\ q.l \in Byte
      BY DEF Machine, Half
    <3>2. n.h = q.h /\ n.l = q.l
      BY <2>1 DEF Kept
    <3> QED
      BY <3>1, <3>2 DEF value
  <2>7. SavedHl(t, q)
    BY <2>5, <2>6, WordOfBytes DEF SavedHl
  <2>8. Kept(t, q, {"b", "c", "d", "e"})
    BY <1>1, <2>4 DEF Kept
  <2>9. Interrupted(t, q)
    BY <2>3, <2>4, <2>5, <2>7, <2>8 DEF Interrupted
  <2> QED
    BY <1>6, <2>9 DEF t
<1>7. CASE n.pc \in {82, 83, 84}
  <2>1. n.sp = Down(q.sp, 6) /\ SavedAf(n, q) /\ SavedHl(n, q)
    BY <1>7 DEF Interrupted
  <2>2. Changed(t, n, {"a", "f", "l"}, 1)
    BY <1>1, <1>2, <1>7, TickClobbers
  <2> HIDE DEF t
  <2>3. Machine(t) /\ t.pc \in {83, 84, 85}
    BY <1>3, <1>7, <2>2 DEF Changed
  <2>4. t.mem = n.mem /\ t.sp = n.sp /\ Kept(t, n, {"b", "c", "d", "e"})
    <3>1. Keeps(t, n, Ticked \cup {"a", "f", "l"})
      BY <2>2 DEF Changed
    <3>2. t.mem = n.mem
      BY <3>1 DEF Keeps, Fields, Ticked
    <3>3. \A r \in {"sp", "b", "c", "d", "e"} : t[r] = n[r]
      BY <3>1 DEF Keeps, Fields, Ticked
    <3> QED
      BY <3>2, <3>3 DEF Kept
  <2>5. Kept(t, q, {"b", "c", "d", "e"})
    BY <1>1, <2>4 DEF Kept
  <2>6. Stored(t, q, Below(q.sp)) /\ SavedPc(t, q) /\ SavedAf(t, q) /\ SavedHl(t, q)
    BY <1>1, <2>1, <2>4, HandlerMemory
  <2>7. Interrupted(t, q)
    BY <2>1, <2>3, <2>4, <2>5, <2>6 DEF Interrupted
  <2> QED
    BY <1>7, <2>7 DEF t
<1>8. CASE n.pc = 85
  <2>1. n.sp = Down(q.sp, 6) /\ SavedAf(n, q) /\ SavedHl(n, q)
    BY <1>8 DEF Interrupted
  <2>2. op = \hC1 + 16 * 2
    BY <1>2, <1>8
  <2>3. /\ Machine(t) /\ Keeps(t, n, Ticked \cup {"sp"} \cup {"h", "l"})
        /\ t.pc = 86 /\ t.sp = After(n.sp, 2)
        /\ value(t, "hl") = word(Peek(n, After(n.sp, 1)), Peek(n, n.sp))
    <3>1. Halves("hl") = {"h", "l"}
      BY DEF Halves
    <3> QED
      BY <1>1, <1>3, <1>4, <1>8, <2>2, <3>1, TickPop
  <2> HIDE DEF t
  <2>4. After(n.sp, 2) = Down(q.sp, 4) /\ After(n.sp, 1) = Down(q.sp, 5)
    BY <1>1, <2>1, BackUp
  <2>5. t.h = q.h /\ t.l = q.l
    <3>1. value(t, "hl") = word(t.h, t.l)
      BY DEF value
    <3>2. word(t.h, t.l) = word(q.h, q.l)
      BY <2>1, <2>3, <2>4, <3>1 DEF SavedHl
    <3>3. t.h \in Byte /\ t.l \in Byte /\ q.h \in Byte /\ q.l \in Byte
      BY <2>3 DEF Machine, Half
    <3> QED
      BY <3>2, <3>3, WordOfBytes
  <2>6. t.mem = n.mem /\ Kept(t, n, {"b", "c", "d", "e"})
    <3>1. Keeps(t, n, Ticked \cup {"sp", "h", "l"})
      BY <2>3 DEF Keeps
    <3>2. t.mem = n.mem
      BY <3>1 DEF Keeps, Fields, Ticked
    <3>3. \A r \in {"b", "c", "d", "e"} : t[r] = n[r]
      BY <3>1 DEF Keeps, Fields, Ticked
    <3> QED
      BY <3>2, <3>3 DEF Kept
  <2>7. Kept(t, q, {"b", "c", "d", "e"}) /\ Kept(t, q, {"h", "l"})
    BY <1>1, <2>5, <2>6 DEF Kept
  <2>8. Stored(t, q, Below(q.sp)) /\ SavedPc(t, q) /\ SavedAf(t, q)
    BY <1>1, <2>1, <2>6, HandlerMemory
  <2>9. Interrupted(t, q)
    BY <2>3, <2>4, <2>7, <2>8 DEF Interrupted
  <2> QED
    BY <1>8, <2>9 DEF t
<1>9. CASE n.pc = 86
  <2>1. n.sp = Down(q.sp, 4) /\ SavedAf(n, q) /\ Kept(n, q, {"h", "l"})
    BY <1>9 DEF Interrupted
  <2>2. op = \hC1 + 16 * 3
    BY <1>2, <1>9
  <2>3. /\ Machine(t) /\ Keeps(t, n, Ticked \cup {"sp"} \cup {"a", "f"})
        /\ t.pc = 87 /\ t.sp = After(n.sp, 2)
        /\ t.a = Peek(n, After(n.sp, 1)) /\ t.f = FlagsOf(Peek(n, n.sp))
    <3>1. Halves("af") = {"a", "f"}
      BY DEF Halves
    <3> QED
      BY <1>1, <1>3, <1>4, <1>9, <2>2, <3>1, TickPop
  <2> HIDE DEF t
  <2>4. After(n.sp, 2) = Down(q.sp, 2) /\ After(n.sp, 1) = Down(q.sp, 3)
    BY <1>1, <2>1, BackUp
  <2>5. t.a = q.a /\ t.f = q.f
    <3>1. q.f \in SUBSET Flag
      BY DEF Machine
    <3> QED
      BY <2>1, <2>3, <2>4, <3>1, Flagged DEF SavedAf
  <2>6. t.mem = n.mem /\ Kept(t, n, {"b", "c", "d", "e", "h", "l"})
    <3>1. Keeps(t, n, Ticked \cup {"sp", "a", "f"})
      BY <2>3 DEF Keeps
    <3>2. t.mem = n.mem
      BY <3>1 DEF Keeps, Fields, Ticked
    <3>3. \A r \in {"b", "c", "d", "e", "h", "l"} : t[r] = n[r]
      BY <3>1 DEF Keeps, Fields, Ticked
    <3> QED
      BY <3>2, <3>3 DEF Kept
  <2>7. Kept(t, q, {"b", "c", "d", "e"}) /\ Kept(t, q, {"a", "f", "h", "l"})
    BY <1>1, <2>1, <2>5, <2>6 DEF Kept
  <2>8. Stored(t, q, Below(q.sp)) /\ SavedPc(t, q)
    BY <1>1, <2>6, HandlerMemory
  <2>9. Interrupted(t, q)
    BY <2>3, <2>4, <2>7, <2>8 DEF Interrupted
  <2> QED
    BY <1>9, <2>9 DEF t
<1>10. CASE n.pc = 87
  <2>1. n.sp = Down(q.sp, 2) /\ Kept(n, q, {"a", "f", "h", "l"})
    BY <1>10 DEF Interrupted
  <2>2. op \in {\hC9, \hD9}
    BY <1>2, <1>10
  <2>3. /\ Machine(t) /\ Keeps(t, n, Ticked \cup {"sp"}) /\ t.sp = After(n.sp, 2)
        /\ t.pc = word(Peek(n, After(n.sp, 1)), Peek(n, n.sp))
    BY <1>1, <2>2, TickReturn
  <2> HIDE DEF t
  <2>4. After(n.sp, 2) = Down(q.sp, 0) /\ After(n.sp, 1) = Down(q.sp, 1)
    BY <1>1, <2>1, BackUp
  <2>5. t.sp = q.sp
    BY <1>1, <2>3, <2>4, StackTop
  <2>6. t.pc = q.pc
    <3>1. q.pc \in Word
      BY DEF Machine
    <3> QED
      BY <1>1, <2>1, <2>3, <2>4, <3>1, BytesOfWord DEF SavedPc
  <2>7. t.mem = n.mem /\ Kept(t, n, {"a", "f", "b", "c", "d", "e", "h", "l"})
    <3>2. t.mem = n.mem
      BY <2>3 DEF Keeps, Fields, Ticked
    <3>3. \A r \in {"a", "f", "b", "c", "d", "e", "h", "l"} : t[r] = n[r]
      BY <2>3 DEF Keeps, Fields, Ticked
    <3> QED
      BY <3>2, <3>3 DEF Kept
  <2>8. \A r \in Registers \cup {"pc"} : t[r] = q[r]
    BY <1>1, <2>1, <2>5, <2>6, <2>7 DEF Kept, Registers
  <2>9. Stored(t, q, Below(q.sp))
    BY <1>1, <2>7, HandlerMemory
  <2>10. Same(t, q)
    BY <2>3, <2>8, <2>9 DEF Same
  <2> QED
    BY <1>10, <2>10 DEF t
<1>11. n.pc \in {80, 81, 82, 83, 84, 85, 86, 87}
  BY DEF Interrupted
<1> QED
  BY <1>5, <1>6, <1>7, <1>8, <1>9, <1>10, <1>11

-----------------------------------------------------------------------------
(* MEMORY that holds a program and the handler. *)

\* The stack pointers that the programs use, and the addresses below which none of
\* them has anything it still needs.
SafeSp(v) ==
    v \in Int /\ (v \in {\hC100, \hC102} \/ (\hDE00 <= v /\ v < \hE000))
Guarded(x) ==
    x \in Int /\ (x < \hC0FA \/ (\hC102 <= x /\ x < \hDD00))
LEMMA GuardedFromStack ==
    ASSUME NEW v, SafeSp(v), NEW x, Guarded(x)
    PROVE  v \in Word /\ x \notin Below(v)
<1>1. v \in Int /\ 0 <= v /\ v <= 65535 /\ 6 <= v
  BY DEF SafeSp
<1>2. v \in Word
  BY <1>1, IsWord
<1>3. /\ Down(v, 1) = v - 1 /\ Down(v, 2) = v - 2 /\ Down(v, 3) = v - 3
      /\ Down(v, 4) = v - 4 /\ Down(v, 5) = v - 5 /\ Down(v, 6) = v - 6
  BY <1>1 DEF Down
<1>4. x \notin {v - 1, v - 2, v - 3, v - 4, v - 5, v - 6}
  BY <1>1 DEF SafeSp, Guarded
<1> QED
  BY <1>2, <1>3, <1>4 DEF Below

\* The cells of a piece of code of n bytes.
LEMMA CodeDomain ==
    ASSUME NEW origin \in Nat, NEW bytes, NEW n \in Nat, Len(bytes) = n
    PROVE  DOMAIN Code(origin, bytes) = origin..origin + n - 1
  BY DEF Code
LEMMA CodeCell ==
    ASSUME NEW origin \in Nat, NEW bytes, NEW n \in Nat, Len(bytes) = n,
           NEW i \in Nat, i < n
    PROVE  /\ origin + i \in DOMAIN Code(origin, bytes)
           /\ Code(origin, bytes)[origin + i] = bytes[i + 1]
<1>1. origin + i \in origin..origin + n - 1
  OBVIOUS
<1>2. (origin + i) - origin + 1 = i + 1
  OBVIOUS
<1> QED
  BY <1>1, <1>2, CodeDomain DEF Code

LEMMA OverDomain == ASSUME NEW f, NEW g PROVE DOMAIN Over(f, g) = DOMAIN f \cup DOMAIN g
  BY DEF Over
LEMMA OverFirst ==
    ASSUME NEW f, NEW g, NEW x \in DOMAIN f PROVE Over(f, g)[x] = f[x]
  BY DEF Over
LEMMA OverSecond ==
    ASSUME NEW f, NEW g, NEW x \in DOMAIN g, x \notin DOMAIN f PROVE Over(f, g)[x] = g[x]
  BY DEF Over
LEMMA OverFunction ==
    ASSUME NEW f, NEW g PROVE Over(f, g) = [x \in DOMAIN Over(f, g) |-> Over(f, g)[x]]
  BY DEF Over

HandlerBytes == <<\hF5, \hE5, \hAF, \h37, \h6F, \hE1, \hF1, \hD9>>
LEMMA HandlerCells ==
    /\ DOMAIN Handler = 80..87
    /\ Handler[80] = \hF5 /\ Handler[81] = \hE5 /\ Handler[82] = \hAF
    /\ Handler[83] = \h37 /\ Handler[84] = \h6F /\ Handler[85] = \hE1
    /\ Handler[86] = \hF1 /\ Handler[87] = \hD9
    /\ \A x \in 80..87 : Handler[x] \in Byte
<1> DEFINE h == HandlerBytes
<1>1. Handler = Code(80, h) /\ Len(h) = 8
  BY DEF Handler, Vector, HandlerBytes
<1>2. /\ h[1] = \hF5 /\ h[2] = \hE5 /\ h[3] = \hAF /\ h[4] = \h37 /\ h[5] = \h6F
      /\ h[6] = \hE1 /\ h[7] = \hF1 /\ h[8] = \hD9
  BY DEF HandlerBytes
<1> HIDE DEF h
<1>3. ASSUME NEW i \in Nat, i < 8
      PROVE  Handler[80 + i] = h[i + 1]
  <2>1. 80 \in Nat /\ 8 \in Nat
    OBVIOUS
  <2> QED
    BY <1>1, <1>3, <2>1, CodeCell, ZenonT(60)
<1>4. DOMAIN Handler = 80..87
  <2>1. 80..(80 + 8 - 1) = 80..87 /\ 80 \in Nat /\ 8 \in Nat
    OBVIOUS
  <2> QED
    BY <1>1, <2>1, CodeDomain, ZenonT(60)
<1>5. /\ Handler[80 + 0] = h[0 + 1] /\ Handler[80 + 1] = h[1 + 1]
      /\ Handler[80 + 2] = h[2 + 1] /\ Handler[80 + 3] = h[3 + 1]
      /\ Handler[80 + 4] = h[4 + 1] /\ Handler[80 + 5] = h[5 + 1]
      /\ Handler[80 + 6] = h[6 + 1] /\ Handler[80 + 7] = h[7 + 1]
  BY <1>3
<1>6. /\ Handler[80] = \hF5 /\ Handler[81] = \hE5 /\ Handler[82] = \hAF
      /\ Handler[83] = \h37 /\ Handler[84] = \h6F /\ Handler[85] = \hE1
      /\ Handler[86] = \hF1 /\ Handler[87] = \hD9
  BY <1>2, <1>5
<1>7. \A x \in 80..87 : Handler[x] \in Byte
  BY <1>6, IsByte
<1> QED
  BY <1>4, <1>6, <1>7

\* An instruction of n bytes has given operand r and the flags the result res.
Cell(q, r) == IF r = "(hl)" THEN {value(q, "hl")} ELSE {}

-----------------------------------------------------------------------------
(* OPERANDS: instructions that read and write one operand. *)

Place(r) == IF r = "(hl)" THEN "mem" ELSE r
Modified(t, q, r, res, n) ==
    /\ Changed(t, q, {"f", Place(r)}, n)
    /\ t.f = res.flags
    /\ Operand(t, r) = res.value
    /\ Stored(t, q, Cell(q, r))

LEMMA ModifyMoved ==
    ASSUME NEW q, NEW t, NEW n, Moved(t, q, n), NEW r \in Reg, NEW res \in AluResult
    PROVE  Modified(Modify(t, r, res), q, r, res, n)
<1> DEFINE s == Modify(t, r, res)
<1>1. Machine(t) /\ value(t, "hl") = value(q, "hl") /\ t.mem = q.mem
  <2>1. "hl" \in Pair \ {"pc"}
    BY DEF Pair
  <2> QED
    BY <2>1, MovedKeeps DEF Moved, Keeps, Fields, Ticked
<1>2. Machine(s)
  BY <1>1, ModifyResult, Zenon
<1>3. s.f = res.flags
  BY <1>1, ModifyResult, Zenon
<1>4. CASE r = "(hl)"
  <2>1. Keeps(s, t, {"accesses", "mem", "f"})
    BY <1>1, <1>4, ModifyResult, Zenon
  <2>2. Stored(s, t, {value(t, "hl")})
    BY <1>1, <1>4, ModifyResult, Zenon
  <2>3. Peek(s, value(t, "hl")) = res.value
    BY <1>1, <1>4, ModifyResult, Zenon
  <2> HIDE DEF s
  <2>4. Keeps(s, q, Ticked \cup {"f", "mem"}) /\ s.pc = t.pc
    BY <2>1 DEF Moved, Keeps, Ticked, Fields
  <2>5. value(s, "hl") = value(q, "hl")
    BY <2>4 DEF Keeps, Ticked, Fields, value
  <2>6. Stored(s, q, {value(q, "hl")})
    BY <1>1, <2>2, SameMemory DEF Stored, Peek
  <2>7. Changed(s, q, {"f", "mem"}, n)
    BY <1>2, <2>4 DEF Changed, Moved
  <2>8. Operand(s, r) = res.value
    BY <1>1, <1>4, <2>3, <2>5 DEF Operand
  <2>9. Modified(s, q, r, res, n)
    BY <1>3, <1>4, <2>6, <2>7, <2>8 DEF Modified, Cell, Place
  <2> QED
    BY <2>9 DEF s
<1>5. CASE r \in Half
  <2>1. r # "(hl)" /\ "pc" \notin {"f", r}
    BY <1>5 DEF Half
  <2>2. Keeps(s, t, {r, "f"}) /\ s[r] = res.value
    BY <1>1, <1>5, ModifyResult, Zenon
  <2> HIDE DEF s
  <2>3. Keeps(s, t, {"f", r})
    BY <2>2 DEF Keeps
  <2>4. Changed(s, q, {"f", r}, n)
    BY <1>2, <2>1, <2>3, ChangeMoved
  <2>5. s.mem = q.mem
    BY <1>1, <1>5, <2>3 DEF Keeps, Fields, Half
  <2>6. Stored(s, q, {})
    BY <2>5, SameMemory
  <2>7. Modified(s, q, r, res, n)
    BY <1>3, <2>1, <2>2, <2>4, <2>6 DEF Modified, Cell, Place, Operand
  <2> QED
    BY <2>7 DEF s
<1> QED
  BY <1>4, <1>5 DEF Reg

LEMMA AccumulatorModified ==
    ASSUME NEW q, NEW t, NEW res, NEW n, Accumulator(t, q, res, n)
    PROVE  Modified(t, q, "a", res, n)
<1>1. Changed(t, q, {"f", "a"}, n) /\ t.a = res.value /\ t.f = res.flags
  BY DEF Accumulator, Changed, Keeps
<1>2. t.mem = q.mem
  BY <1>1 DEF Changed, Keeps, Fields, Ticked
<1>3. Stored(t, q, {})
  BY <1>2, SameMemory
<1> QED
  BY <1>1, <1>3 DEF Modified, Cell, Place, Operand

\* INC r and DEC r.
LEMMA TickCount ==
    ASSUME NEW q, Machine(q), NEW i \in 0..7, NEW k \in 0..1, Peek(q, q.pc) = 8 * i + 4 + k
    PROVE  LET r == Reg8[i + 1]
           IN  Modified(tick(q), q, r,
                        IF k = 0 THEN increment(q.f, Operand(q, r))
                                 ELSE decrement(q.f, Operand(q, r)), 1)
<1> DEFINE op == 8 * i + 4 + k
           r == Reg8[i + 1]
           res == IF k = 0 THEN increment(q.f, Operand(q, r))
                           ELSE decrement(q.f, Operand(q, r))
<1>1. op \in Int /\ 0 <= op /\ op < 64 /\ op # \hCB
  OBVIOUS
<1>2. z(op) = 4 + k /\ y(op) = i
  BY DEF y, z
<1>3. length(op) = 1
  <2>1. op \in 0..63 /\ z(op) \in {4, 5}
    BY <1>1, <1>2
  <2> QED
    BY <2>1, LowerTables
<1>4. reg_y(op) = r
  BY <1>2 DEF reg_y
<1>5. r \in Reg
  BY Registers8
<1>6. PICK t, data : Moved(t, q, length(op)) /\ tick(q) = SwitchOf(op, t, data)
  BY <1>1, Decoded
<1>7. SwitchOf(op, t, data) = Columns(t, op, data)
  <2>1. z(op) \in {1, 3, 4, 5, 6}
    BY <1>2
  <2> HIDE DEF op
  <2> QED
    BY <1>1, <2>1, ColumnsSwitch
<1> HIDE DEF op, r
<1>8. t.f = q.f /\ Operand(t, r) = Operand(q, r)
  BY <1>5, <1>6, MovedKeeps
<1>9. Columns(t, op, data) = Modify(t, r, res)
  <2>1. CASE k = 0
    BY <1>2, <1>4, <1>8, <2>1 DEF Columns
  <2>2. CASE k = 1
    BY <1>2, <1>4, <1>8, <2>2 DEF Columns
  <2> QED
    BY <2>1, <2>2
<1>10. res \in AluResult
  <2>1. q.f \in SUBSET Flag /\ Operand(q, r) \in Byte
    BY <1>5, OperandByte, Zenon DEF Machine
  <2> QED
    BY <2>1, Counts
<1> HIDE DEF res
<1>11. Modified(Modify(t, r, res), q, r, res, 1)
  BY <1>3, <1>5, <1>6, <1>10, ModifyMoved
<1> QED
  BY <1>6, <1>7, <1>9, <1>11 DEF r, res, op

\* DAA and CPL.
LEMMA TickAdjust ==
    ASSUME NEW q, Machine(q), NEW op \in {\h27, \h2F}, Peek(q, q.pc) = op
    PROVE  Modified(tick(q), q, "a",
                    IF op = \h27 THEN decimal_adjust(q.f, q.a) ELSE complement(q.f, q.a), 1)
<1> DEFINE res == IF op = \h27 THEN decimal_adjust(q.f, q.a) ELSE complement(q.f, q.a)
<1>1. PICK t, data : Moved(t, q, length(op)) /\ tick(q) = SwitchOf(op, t, data)
  <2>1. op # \hCB
    OBVIOUS
  <2> QED
    BY <2>1, Decoded
<1>2. z(op) = 7 /\ op \in 0..63
  BY DEF z
<1>3. length(op) = 1
  BY <1>2, LowerTables
<1>4. t.f = q.f /\ t.a = q.a
  BY <1>1, MovedKeeps DEF Half
<1>5. SwitchOf(op, t, data) = Row_20(t, op, data)
  BY DEF SwitchOf
<1>6. Row_20(t, op, data) = Update(t, "a", res)
  BY <1>4 DEF Row_20
<1>7. res \in AluResult
  <2>1. q.f \in SUBSET Flag /\ q.a \in Byte
    BY DEF Machine, Half
  <2> QED
    BY <2>1, Counts, Logicals, ZenonT(60)
<1> HIDE DEF res
<1>8. Accumulator(Update(t, "a", res), q, res, 1)
  BY <1>1, <1>3, <1>7, UpdateMoved
<1>9. Accumulator(tick(q), q, res, 1)
  BY <1>1, <1>5, <1>6, <1>8
<1> QED
  BY <1>9, AccumulatorModified DEF res

\* Rotations and shifts behind the prefix.
LEMMA TickRotate ==
    ASSUME NEW q, Machine(q), NEW i \in 0..7, NEW j \in 0..7,
           Peek(q, q.pc) = \hCB, Peek(q, After(q.pc, 1)) = 8 * i + j
    PROVE  LET r  == Reg8[j + 1]
               op == 8 * i + j
           IN  Modified(tick(q), q, r,
                        IF i < 4 THEN Rotate(q.f, Operand(q, r), op)
                                 ELSE Shift(q.f, Operand(q, r), op), 2)
<1> DEFINE op == 8 * i + j
           r == Reg8[j + 1]
           t == ExtendedOf(op, One(q))
           res == IF i < 4 THEN Rotate(q.f, Operand(q, r), op)
                           ELSE Shift(q.f, Operand(q, r), op)
<1>1. op \in Int /\ 0 <= op /\ op < 64 /\ op \in Opcode
  BY DEF Opcode
<1>2. z(op) = j /\ y(op) = i /\ (op < 32 <=> i < 4)
  BY DEF y, z
<1>3. reg_z(op) = r
  BY <1>2 DEF reg_z
<1>4. r \in Reg
  BY Registers8
<1> HIDE DEF op, r
<1>5. /\ Timed(One(q), 1, 0, q.cycles)
      /\ Keeps(One(q), q, {"accesses", "pc", "control"})
      /\ One(q).pc = After(q.pc, 1)
  BY OpcodeFetched
<1>6. Machine(t) /\ Keeps(t, One(q), {"accesses", "pc", "cycles"})
      /\ t.pc = After(One(q).pc, 1)
  BY <1>5, ReadyToExtend DEF Timed
<1>7. tick(q) = decode_extended(op, read_immediate(One(q)))
  BY TickOf DEF op
<1>8. Moved(t, q, 2)
  <2>1. After(After(q.pc, 1), 1) = After(q.pc, 2)
    <3>1. 1 \in Nat /\ 1 + 1 = 2 /\ q.pc \in Word
      BY DEF Machine
    <3>2. After(After(q.pc, 1), 1) = After(q.pc, 1 + 1)
      BY <3>1, AfterAfter
    <3> QED
      BY <3>1, <3>2
  <2>2. Keeps(t, q, Ticked)
    BY <1>5, <1>6 DEF Keeps, Ticked
  <2> QED
    BY <1>5, <1>6, <2>1, <2>2 DEF Moved
<1>9. t.f = q.f /\ Operand(t, r) = Operand(q, r)
  BY <1>4, <1>8, MovedKeeps
<1>10. tick(q) = Modify(t, r, res)
  <2>1. CASE i < 4
    <3>1. decode_extended(op, read_immediate(One(q)))
            = Modify(t, reg_z(op), Rotate(t.f, Operand(t, reg_z(op)), op))
      BY <1>1, <1>2, <2>1, ExtendedCases
    <3> QED
      BY <1>3, <1>7, <1>9, <2>1, <3>1
  <2>2. CASE ~(i < 4)
    <3>1. decode_extended(op, read_immediate(One(q)))
            = Modify(t, reg_z(op), Shift(t.f, Operand(t, reg_z(op)), op))
      <4>1. 32 <= op /\ op < 64
        BY <1>1, <1>2, <2>2
      <4> QED
        BY <1>1, <4>1, ExtendedCases
    <3> QED
      BY <1>3, <1>7, <1>9, <2>2, <3>1
  <2> QED
    BY <2>1, <2>2
<1>11. res \in AluResult
  <2>1. q.f \in SUBSET Flag /\ Operand(q, r) \in Byte
    BY <1>4, OperandByte, Zenon DEF Machine
  <2>2. i < 4 => Rotate(q.f, Operand(q, r), op) \in AluResult
    BY <1>1, <1>2, <2>1, RotatedOperand
  <2>3. ~(i < 4) => Shift(q.f, Operand(q, r), op) \in AluResult
    <3>1. ~(i < 4) => y(op) > 3
      BY <1>2
    <3> QED
      BY <1>1, <2>1, <3>1, RotatedOperand
  <2> QED
    BY <2>2, <2>3
<1> HIDE DEF res, t
<1>12. Modified(Modify(t, r, res), q, r, res, 2)
  BY <1>4, <1>8, <1>11, ModifyMoved
<1> QED
  BY <1>10, <1>12 DEF r, res, op

-----------------------------------------------------------------------------
(* PROGRAMS: the code, the memory around it and the start. *)

\* Code that a program may have, with the handler behind the vector.
Loadable(c) ==
    /\ c = [x \in DOMAIN c |-> c[x]]
    /\ \A x \in DOMAIN c : x \in Int /\ x < \hC300 /\ Guarded(x) /\ c[x] \in Byte
HasHandler(c) == \A x \in 80..87 : x \in DOMAIN c /\ c[x] = Handler[x]

\* Machine s is about to run code c, in memory whose other cells are guarded too.
Ready(c, s) ==
    /\ Machine(s) /\ s.pc = Origin /\ s.sp = \hDF00
    /\ \A x \in DOMAIN c : x \in DOMAIN s.mem /\ s.mem[x] = c[x]
    /\ \A x \in DOMAIN s.mem : Guarded(x)

\* q has the memory of s, but for the cells D.
Holding(s, q, D) ==
    /\ Machine(q) /\ SafeSp(q.sp)
    /\ DOMAIN s.mem \subseteq DOMAIN q.mem
    /\ \A x \in DOMAIN s.mem \ D : Peek(q, x) = s.mem[x]

LEMMA HoldingStart ==
    ASSUME NEW c, NEW s, Ready(c, s), NEW D
    PROVE  Holding(s, s, D)
  BY DEF Ready, Holding, SafeSp, Peek

LEMMA HoldingSame ==
    ASSUME NEW c, NEW s, Ready(c, s), NEW D, NEW q, Holding(s, q, D), NEW n, Same(n, q)
    PROVE  /\ Holding(s, n, D)
           /\ \A x : Guarded(x) => Peek(n, x) = Peek(q, x)
<1>1. n.sp = q.sp
  BY DEF Same, Registers
<1>2. ASSUME NEW x, Guarded(x)
      PROVE  Peek(n, x) = Peek(q, x)
  <2>1. x \notin Below(q.sp)
    BY <1>2, GuardedFromStack DEF Holding
  <2> QED
    BY <2>1 DEF Same, Stored
<1>3. DOMAIN s.mem \subseteq DOMAIN n.mem
  BY DEF Holding, Same, Stored
<1>4. \A x \in DOMAIN s.mem \ D : Peek(n, x) = s.mem[x]
  BY <1>2 DEF Holding, Ready
<1>5. Machine(n) /\ SafeSp(n.sp)
  BY <1>1 DEF Same, Holding
<1> QED
  BY <1>2, <1>3, <1>4, <1>5 DEF Holding

LEMMA HoldingCell ==
    ASSUME NEW c, NEW s, Ready(c, s), NEW D, NEW q, Holding(s, q, D),
           NEW x \in DOMAIN c, x \notin D
    PROVE  Peek(q, x) = c[x]
  BY DEF Ready, Holding

LEMMA HoldingHandler ==
    ASSUME NEW c, NEW s, Ready(c, s), HasHandler(c), NEW D, NEW q, Holding(s, q, D),
           \A x \in D : x \notin 80..87
    PROVE  LoadedHandler(q)
<1>1. ASSUME NEW x \in Int, 80 <= x, x <= 87
      PROVE  Has(q, x, Handler[x])
  <2>1. x \in 80..87 /\ x \notin D
    BY <1>1
  <2>2. x \in DOMAIN c /\ c[x] = Handler[x]
    BY <2>1 DEF HasHandler
  <2>3. Peek(q, x) = Handler[x]
    BY <2>1, <2>2, HoldingCell
  <2>4. Guarded(x)
    BY <1>1 DEF Guarded
  <2>5. x \notin Below(q.sp)
    BY <2>4, GuardedFromStack DEF Holding
  <2> QED
    BY <2>3, <2>5 DEF Has
<1>2. /\ Has(q, 80, Handler[80]) /\ Has(q, 81, Handler[81]) /\ Has(q, 82, Handler[82])
      /\ Has(q, 83, Handler[83]) /\ Has(q, 84, Handler[84]) /\ Has(q, 85, Handler[85])
      /\ Has(q, 86, Handler[86]) /\ Has(q, 87, Handler[87])
  BY <1>1
<1> QED
  BY <1>2, HandlerCells DEF LoadedHandler

LEMMA HoldingStep ==
    ASSUME NEW s, NEW D, NEW q, Holding(s, q, D), NEW t, Machine(t), SafeSp(t.sp),
           NEW S, Stored(t, q, S), \A x \in S : x \in DOMAIN s.mem => x \in D
    PROVE  Holding(s, t, D)
<1>1. DOMAIN s.mem \subseteq DOMAIN t.mem
  BY DEF Holding, Stored
<1>2. \A x \in DOMAIN s.mem \ D : Peek(t, x) = s.mem[x]
  BY DEF Holding, Stored
<1> QED
  BY <1>1, <1>2 DEF Holding

\* An instruction that leaves memory alone.
LEMMA ChangedHolding ==
    ASSUME NEW s, NEW D, NEW q, Holding(s, q, D), NEW t, NEW S, NEW n,
           Changed(t, q, S, n), "mem" \notin S, SafeSp(t.sp)
    PROVE  Holding(s, t, D) /\ \A x : Peek(t, x) = Peek(q, x)
<1>1. t.mem = q.mem
  BY DEF Changed, Keeps, Fields, Ticked
<1>2. Stored(t, q, {}) /\ \A x : Peek(t, x) = Peek(q, x)
  BY <1>1, SameMemory
<1>3. Machine(t)
  BY DEF Changed
<1> QED
  BY <1>2, <1>3, HoldingStep

\* Programs that are one piece of code of n bytes.
LEMMA StraightProgram ==
    ASSUME NEW kind, NEW bytes, NEW keeps, NEW n \in 1..8, Len(bytes) = n,
           \A i \in 1..n : bytes[i] \in Byte
    PROVE  LET p == Straight(kind, bytes, keeps)
           IN  /\ p.kind = kind /\ p.keeps = keeps /\ p.end = Origin + n
               /\ Loadable(p.code) /\ HasHandler(p.code)
               /\ \A x \in DOMAIN p.code : 80 <= x
               /\ \A i \in 0..7 : i < n => /\ Origin + i \in DOMAIN p.code
                                           /\ p.code[Origin + i] = bytes[i + 1]
<1> DEFINE p == Straight(kind, bytes, keeps)
           c == Code(Origin, bytes)
<1>1. p.kind = kind /\ p.keeps = keeps /\ p.end = Origin + n /\ p.code = Over(c, Handler)
  BY DEF Straight, Program
<1>2. Origin = 49152 /\ Origin \in Nat /\ n \in Nat
  BY DEF Origin
<1>3. DOMAIN c = 49152..49152 + n - 1
  BY <1>2, CodeDomain
<1>4. ASSUME NEW i \in Nat, i < n
      PROVE  Origin + i \in DOMAIN c /\ c[Origin + i] = bytes[i + 1]
  BY <1>2, <1>4, CodeCell
<1>5. ASSUME NEW x \in DOMAIN c
      PROVE  c[x] \in Byte
  <2>1. x - 49152 \in Nat /\ x - 49152 < n /\ (x - 49152) + 1 \in 1..n
        /\ x = 49152 + (x - 49152)
    BY <1>3
  <2>2. c[Origin + (x - 49152)] = bytes[(x - 49152) + 1]
    BY <1>4, <2>1
  <2> QED
    BY <1>2, <2>1, <2>2
<1> HIDE DEF c
<1> DEFINE o == Over(c, Handler)
<1>6. DOMAIN o = DOMAIN c \cup 80..87
  BY OverDomain, HandlerCells, ZenonT(60)
<1>7. \A x \in DOMAIN c : o[x] = c[x]
  BY OverFirst
<1>8. \A x \in 80..87 : x \notin DOMAIN c
  BY <1>3
<1>9. \A x \in 80..87 : x \in DOMAIN o /\ o[x] = Handler[x]
  BY <1>6, <1>8, HandlerCells, OverSecond
<1>10. o = [x \in DOMAIN o |-> o[x]]
  BY OverFunction
<1> HIDE DEF o
<1>11. HasHandler(o)
  BY <1>9 DEF HasHandler
<1>12. Loadable(o)
  <2>1. ASSUME NEW x \in DOMAIN o
        PROVE  x \in Int /\ x < \hC300 /\ Guarded(x) /\ o[x] \in Byte
    <3>1. CASE x \in DOMAIN c
      <4>1. x \in Int /\ 49152 <= x /\ x < 49160
        BY <1>3, <3>1
      <4>2. o[x] \in Byte
        BY <1>5, <1>7, <3>1
      <4> QED
        BY <4>1, <4>2 DEF Guarded
    <3>2. CASE x \in 80..87
      <4>1. o[x] \in Byte
        BY <1>9, <3>2, HandlerCells
      <4> QED
        BY <3>2, <4>1 DEF Guarded
    <3> QED
      BY <1>6, <3>1, <3>2
  <2> QED
    BY <1>10, <2>1 DEF Loadable
<1>13. ASSUME NEW i \in 0..7, i < n
       PROVE  Origin + i \in DOMAIN o /\ o[Origin + i] = bytes[i + 1]
  <2>1. Origin + i \in DOMAIN c /\ c[Origin + i] = bytes[i + 1]
    BY <1>4, <1>13
  <2> QED
    BY <1>6, <1>7, <2>1
<1>14. \A x \in DOMAIN o : 80 <= x
  BY <1>3, <1>6
<1> QED
  BY <1>1, <1>11, <1>12, <1>13, <1>14 DEF o

LEMMA BaseFields ==
    /\ Base = [x \in Fields |-> Base[x]]
    /\ Base.a = 17 /\ Base.b = 0 /\ Base.c = 0 /\ Base.d = 255 /\ Base.e = 86
    /\ Base.h = 0 /\ Base.l = 13 /\ Base.f \in SUBSET Flag
    /\ Base.sp = \hDF00 /\ Base.pc = Origin /\ Base.accesses = <<>> /\ Base.cycles = 0
    /\ Base.control = "none"
<1>1. Base.f \in SUBSET Flag
  <2>1. Base.f = FlagsOf(128)
    BY DEF Base, Reset
  <2> QED
    BY <2>1, FlagsType
<1>2. Base = [x \in Fields |-> Base[x]]
  <2> DEFINE r == Reset(TRUE)
  <2>1. DOMAIN r = Fields
    BY DEF Reset, Fields
  <2>2. r = [x \in DOMAIN r |-> r[x]]
    BY DEF Reset
  <2>3. Base = [r EXCEPT !.pc = Origin, !.sp = \hDF00]
    BY DEF Base
  <2> HIDE DEF r
  <2>4. r = [x \in Fields |-> r[x]]
    BY <2>1, <2>2
  <2>5. PICK v : v = \hDF00
    OBVIOUS
  <2> DEFINE t == [r EXCEPT !.pc = Origin, !.sp = v]
  <2>6. t = [x \in Fields |-> t[x]]
    BY <2>4, Zenon
  <2> QED
    BY <2>3, <2>5, <2>6
<1>3. /\ Base.a = 17 /\ Base.b = 0 /\ Base.c = 0 /\ Base.d = 255 /\ Base.e = 86
      /\ Base.h = 0 /\ Base.l = 13
  BY DEF Base, Reset
<1>4. Base.sp = \hDF00 /\ Base.pc = Origin /\ Base.accesses = <<>> /\ Base.cycles = 0
      /\ Base.control = "none"
  BY DEF Base, Reset
<1> QED
  BY <1>1, <1>2, <1>3, <1>4

\* What Base is but for registers, flags and memory.
Launched(s) ==
    /\ Machine(s) /\ s.sp = \hDF00 /\ s.pc = Origin /\ s.cycles = 0

LEMMA LaunchDecimal ==
    ASSUME NEW p \in Byte, NEW r \in Byte, NEW F \in SUBSET Flag, NEW c, Loadable(c)
    PROVE  LET s == DecimalStart(c, p, r, F)
           IN  Launched(s) /\ s.a = p /\ s.b = r /\ s.f = F /\ s.mem = c
<1> DEFINE s == DecimalStart(c, p, r, F)
<1>1. s.a = p /\ s.b = r /\ s.f = F /\ s.mem = c
  BY BaseFields DEF Fields, DecimalStart
<1>2. s = [x \in Fields |-> s[x]]
  <2>1. Base = [x \in Fields |-> Base[x]]
    BY BaseFields
  <2> QED
    BY <2>1, Zenon DEF DecimalStart
<1>3. /\ s.c = 0 /\ s.d = 255 /\ s.e = 86 /\ s.h = 0 /\ s.l = 13
      /\ s.sp = \hDF00 /\ s.pc = Origin /\ s.accesses = <<>> /\ s.cycles = 0
      /\ s.control = "none"
  BY BaseFields DEF Fields, DecimalStart
<1> HIDE DEF s
<1>4. \A x \in Half : s[x] \in Byte
  BY <1>1, <1>3, IsByte DEF Half
<1>5. s.sp \in Word /\ s.pc \in Word
  BY <1>3, IsWord DEF Origin
<1>6. /\ s.mem = [x \in DOMAIN s.mem |-> s.mem[x]]
      /\ \A x \in DOMAIN s.mem : s.mem[x] \in Byte
  BY <1>1 DEF Loadable
<1>7. s.accesses \in Seq(Access) /\ s.control \in Controls /\ s.cycles \in Nat
  BY <1>3 DEF Controls
<1>8. Machine(s)
  BY <1>1, <1>2, <1>4, <1>5, <1>6, <1>7 DEF Machine
<1> QED
  BY <1>1, <1>3, <1>8 DEF Launched, s

LEMMA LaunchWide ==
    ASSUME NEW p \in Word, NEW r \in Word, NEW c, Loadable(c)
    PROVE  LET s == WideStart(c, p, r)
           IN  /\ Launched(s) /\ s.mem = c
               /\ s.h = p \div 256 /\ s.l = p % 256 /\ s.b = r \div 256 /\ s.c = r % 256
               /\ value(s, "hl") = p /\ value(s, "bc") = r
<1> DEFINE s == WideStart(c, p, r)
<1>1. s = [[[Base EXCEPT !.h = p \div 256, !.l = p % 256]
               EXCEPT !.b = r \div 256, !.c = r % 256] EXCEPT !.mem = c]
  BY DEF load16, WideStart
<1> HIDE DEF s
<1>2. s.h = p \div 256 /\ s.l = p % 256 /\ s.b = r \div 256 /\ s.c = r % 256 /\ s.mem = c
  BY <1>1, BaseFields DEF Fields
<1>3. s = [x \in Fields |-> s[x]]
  <2>1. Base = [x \in Fields |-> Base[x]]
    BY BaseFields
  <2> DEFINE p1 == p \div 256
             p2 == p % 256
             r1 == r \div 256
             r2 == r % 256
  <2>2. s = [[[Base EXCEPT !.h = p1, !.l = p2] EXCEPT !.b = r1, !.c = r2] EXCEPT !.mem = c]
    BY <1>1
  <2> HIDE DEF p1, p2, r1, r2
  <2> QED
    BY ONLY <2>1, <2>2
<1>4. /\ s.a = 17 /\ s.d = 255 /\ s.e = 86 /\ s.f = Base.f
      /\ s.sp = \hDF00 /\ s.pc = Origin /\ s.accesses = <<>> /\ s.cycles = 0
      /\ s.control = "none"
  BY <1>1, BaseFields DEF Fields
<1>5. /\ p \div 256 \in Byte /\ p % 256 \in Byte /\ r \div 256 \in Byte /\ r % 256 \in Byte
      /\ word(p \div 256, p % 256) = p /\ word(r \div 256, r % 256) = r
  BY BytesOfWord
<1>6. \A x \in Half : s[x] \in Byte
  BY <1>2, <1>4, <1>5, IsByte DEF Half
<1>7. s.sp \in Word /\ s.pc \in Word
  BY <1>4, IsWord DEF Origin
<1>8. /\ s.mem = [x \in DOMAIN s.mem |-> s.mem[x]]
      /\ \A x \in DOMAIN s.mem : s.mem[x] \in Byte
  BY <1>2 DEF Loadable
<1>9. s.accesses \in Seq(Access) /\ s.control \in Controls /\ s.cycles \in Nat
      /\ s.f \in SUBSET Flag
  BY <1>4, BaseFields DEF Controls
<1>10. Machine(s)
  BY <1>3, <1>6, <1>7, <1>8, <1>9, Zenon DEF Machine
<1>11. value(s, "hl") = p /\ value(s, "bc") = r
  BY <1>2, <1>5 DEF value
<1> QED
  BY <1>2, <1>4, <1>10, <1>11 DEF Launched, s

LEMMA LaunchOther ==
    ASSUME NEW v \in Byte, NEW F \in SUBSET Flag, NEW c, \A x \in DOMAIN c : c[x] \in Byte
    PROVE  LET s == StartWith(c, v, F)
           IN  /\ Launched(s) /\ s.f = F /\ value(s, "hl") = Data + v
               /\ s.mem = Over(c, Code(Data + v, <<v>>))
               /\ DOMAIN s.mem = DOMAIN c \cup {Data + v}
<1> DEFINE s == StartWith(c, v, F)
           M == Over(c, Code(Data + v, <<v>>))
<1>1. Data \div 256 = 208 /\ Data = 53248 /\ v \in Int /\ 0 <= v /\ v <= 255
  BY IsByte DEF Data
<1>2. /\ s.a = v /\ s.b = v /\ s.c = v /\ s.d = 255 - v /\ s.e = v /\ s.h = 208 /\ s.l = v
      /\ s.f = F /\ s.mem = M
  BY <1>1, BaseFields DEF Fields, StartWith
<1>3. s = [x \in Fields |-> s[x]]
  <2>1. Base = [x \in Fields |-> Base[x]]
    BY BaseFields
  <2> DEFINE w == 255 - v
             u == Data \div 256
  <2>2. s = [Base EXCEPT !.a = v, !.b = v, !.c = v, !.d = w, !.e = v, !.h = u, !.l = v,
                         !.f = F, !.mem = M]
    BY DEF StartWith
  <2> HIDE DEF s, w, u, M
  <2> QED
    BY ONLY <2>1, <2>2
<1>4. /\ s.sp = \hDF00 /\ s.pc = Origin /\ s.accesses = <<>> /\ s.cycles = 0
      /\ s.control = "none"
  BY BaseFields DEF Fields, StartWith
<1>5. /\ DOMAIN M = DOMAIN c \cup {Data + v}
      /\ \A x \in DOMAIN M : M[x] \in Byte
      /\ M = [x \in DOMAIN M |-> M[x]]
  <2> DEFINE o == Data + v
             d == Code(o, <<v>>)
  <2>1. o \in Nat /\ 1 \in Nat /\ Len(<<v>>) = 1 /\ <<v>>[1] = v /\ o..o + 1 - 1 = {o}
    BY <1>1
  <2> HIDE DEF o
  <2>2. DOMAIN d = {o}
    BY <2>1, CodeDomain, Zenon
  <2>3. d[o] = v
    <3>1. o \in o..o + Len(<<v>>) - 1 /\ o - o + 1 = 1
      BY <2>1
    <3>2. d[o] = <<v>>[o - o + 1]
      BY <3>1 DEF Code
    <3> QED
      BY <2>1, <3>1, <3>2
  <2> HIDE DEF d
  <2>4. DOMAIN Over(c, d) = DOMAIN c \cup {o}
    BY <2>2, OverDomain, Zenon
  <2>5. \A x \in DOMAIN c : Over(c, d)[x] \in Byte
    BY OverFirst
  <2>6. o \notin DOMAIN c => Over(c, d)[o] \in Byte
    BY <2>2, <2>3, OverSecond
  <2>7. Over(c, d) = [x \in DOMAIN Over(c, d) |-> Over(c, d)[x]]
    BY OverFunction
  <2>8. M = Over(c, d)
    BY DEF d, o
  <2> HIDE DEF M
  <2> QED
    BY <2>4, <2>5, <2>6, <2>7, <2>8 DEF o
<1> HIDE DEF s, M
<1>6. \A x \in Half : s[x] \in Byte
  <2>1. 255 - v \in Byte /\ 208 \in Byte
    BY <1>1, IsByte
  <2> QED
    BY <1>2, <2>1 DEF Half
<1>7. s.sp \in Word /\ s.pc \in Word
  BY <1>4, IsWord DEF Origin
<1>8. s.accesses \in Seq(Access) /\ s.control \in Controls /\ s.cycles \in Nat
  BY <1>4 DEF Controls
<1>9. Machine(s)
  BY <1>2, <1>3, <1>5, <1>6, <1>7, <1>8 DEF Machine
<1>10. value(s, "hl") = Data + v
  BY <1>1, <1>2 DEF value, word
<1> QED
  BY <1>2, <1>4, <1>5, <1>9, <1>10 DEF Launched, s, M

LEMMA OtherReady ==
    ASSUME NEW v \in Byte, NEW F \in SUBSET Flag, NEW c, Loadable(c)
    PROVE  LET s == StartWith(c, v, F)
           IN  /\ Ready(c, s) /\ s.f = F /\ s.cycles = 0
               /\ value(s, "hl") \in DOMAIN s.mem /\ value(s, "hl") \notin DOMAIN c
               /\ Guarded(value(s, "hl")) /\ \hD000 <= value(s, "hl")
<1> DEFINE s == StartWith(c, v, F)
<1>1. Data = 53248 /\ v \in Int /\ 0 <= v /\ v <= 255
  BY IsByte DEF Data
<1>2. /\ Launched(s) /\ s.f = F /\ value(s, "hl") = Data + v
      /\ s.mem = Over(c, Code(Data + v, <<v>>)) /\ DOMAIN s.mem = DOMAIN c \cup {Data + v}
  <2>1. \A x \in DOMAIN c : c[x] \in Byte
    BY DEF Loadable
  <2> QED
    BY <2>1, LaunchOther
<1> HIDE DEF s
<1>3. Data + v \notin DOMAIN c /\ Guarded(Data + v) /\ \hD000 <= Data + v
  BY <1>1 DEF Loadable, Guarded
<1>4. \A x \in DOMAIN c : x \in DOMAIN s.mem /\ s.mem[x] = c[x]
  BY <1>2, OverFirst
<1>5. \A x \in DOMAIN s.mem : Guarded(x)
  BY <1>2, <1>3 DEF Loadable
<1>6. Ready(c, s)
  BY <1>2, <1>4, <1>5 DEF Ready, Launched
<1> QED
  BY <1>2, <1>3, <1>6 DEF Launched, s

\* An instruction that the switch has, whose duration fits its accesses.
Regular(q) == Peek(q, q.pc) \notin Undefined /\ ~Stop(q) /\ ~TestsMemory(q)
LEMMA RegularOpcode ==
    ASSUME NEW q, NEW op, Peek(q, q.pc) = op, op \notin Undefined \cup {\h10, \hCB}
    PROVE  Regular(q)
  BY DEF Regular, Stop, TestsMemory
LEMMA RegularExtended ==
    ASSUME NEW q, Peek(q, q.pc) = \hCB, NEW op \in Int, op < 64, Peek(q, After(q.pc, 1)) = op
    PROVE  Regular(q)
  BY DEF Regular, Stop, TestsMemory, Undefined

\* The next byte of the code that q holds.
LEMMA NextByte ==
    ASSUME NEW c, NEW s, Ready(c, s), NEW D, NEW q, Holding(s, q, D),
           \A x \in D : x \notin DOMAIN c, NEW k \in 0..7, Origin + k \in DOMAIN c,
           q.pc = Origin + k
    PROVE  Peek(q, q.pc) = c[Origin + k]
  BY HoldingCell
LEMMA SecondByte ==
    ASSUME NEW c, NEW s, Ready(c, s), NEW D, NEW q, Holding(s, q, D),
           \A x \in D : x \notin DOMAIN c, NEW k \in 0..6, NEW i \in 1..7, k + i < 8,
           Origin + (k + i) \in DOMAIN c, q.pc = Origin + k
    PROVE  Peek(q, After(q.pc, i)) = c[Origin + (k + i)]
<1>1. Origin = 49152 /\ Origin + k \in Word
  BY IsWord DEF Origin
<1>2. After(q.pc, i) = Origin + (k + i)
  <2>1. q.pc + i < 65536 /\ i \in Nat
    BY <1>1
  <2> QED
    BY <1>1, <2>1, AfterSum
<1> QED
  BY <1>2, HoldingCell

-----------------------------------------------------------------------------
(* Programs that change one operand: ROTATIONS, INC and DEC, CPL. *)

\* A program that changes operand r and the flags only: off bytes behind its start
\* they are v and F.
Halfway(s, q, r, off, v, F) ==
    /\ Holding(s, q, Cell(s, r))
    /\ \A x \in Registers \ {"f", r} : q[x] = s[x]
    /\ q.pc = Origin + off
    /\ Operand(q, r) = v /\ q.f = F

LEMMA HalfwayAddress ==
    ASSUME NEW s, NEW q, NEW r, NEW off, NEW v, NEW F, Halfway(s, q, r, off, v, F)
    PROVE  r = "(hl)" => value(q, "hl") = value(s, "hl")
  BY DEF Halfway, Registers, value
LEMMA HalfwaySame ==
    ASSUME NEW c, NEW s, Ready(c, s), NEW r \in Reg, Guarded(value(s, "hl")),
           NEW q, NEW off, NEW v, NEW F, Halfway(s, q, r, off, v, F), NEW n, Same(n, q)
    PROVE  Halfway(s, n, r, off, v, F)
<1>1. Holding(s, n, Cell(s, r)) /\ \A x : Guarded(x) => Peek(n, x) = Peek(q, x)
  BY HoldingSame DEF Halfway
<1>2. \A x \in Registers \cup {"pc"} : n[x] = q[x]
  BY DEF Same
<1>3. n.pc = Origin + off /\ n.f = F
  BY <1>2 DEF Halfway, Registers
<1>4. \A x \in Registers \ {"f", r} : n[x] = s[x]
  BY <1>2 DEF Halfway
<1>5. Operand(n, r) = v
  <2>1. CASE r = "(hl)"
    <3>1. value(n, "hl") = value(q, "hl") /\ value(q, "hl") = value(s, "hl")
      BY <1>2, <2>1, HalfwayAddress DEF value, Registers
    <3> QED
      BY <1>1, <2>1, <3>1 DEF Operand, Halfway
  <2>2. CASE r \in Half
    BY <1>2, <2>2 DEF Operand, Halfway, Half, Registers
  <2> QED
    BY <2>1, <2>2 DEF Reg
<1> QED
  BY <1>1, <1>3, <1>4, <1>5 DEF Halfway

LEMMA HalfwayStep ==
    ASSUME NEW c, NEW s, Ready(c, s), NEW r \in Reg, NEW q, NEW off \in 0..4, NEW v, NEW F,
           Halfway(s, q, r, off, v, F), NEW t, NEW res, NEW k \in 1..2,
           Modified(t, q, r, res, k)
    PROVE  Halfway(s, t, r, off + k, res.value, res.flags)
<1>1. Machine(t) /\ Keeps(t, q, Ticked \cup {"f", Place(r)}) /\ t.pc = After(q.pc, k)
  BY DEF Modified, Changed
<1>2. t.pc = Origin + (off + k)
  <2>1. q.pc = Origin + off /\ Origin = 49152
    BY DEF Halfway, Origin
  <2>2. q.pc \in Word /\ k \in Nat /\ q.pc + k < 65536
    BY <2>1, IsWord
  <2>3. After(q.pc, k) = q.pc + k
    BY <2>2, AfterSum
  <2> QED
    BY <1>1, <2>1, <2>3
<1>3. t.sp = q.sp
  BY <1>1 DEF Keeps, Fields, Ticked, Place, Reg, Half
<1>4. \A x \in Registers \ {"f", r} : t[x] = s[x]
  <2>1. \A x \in Registers \ {"f", r} : t[x] = q[x]
    BY <1>1 DEF Keeps, Fields, Ticked, Place, Registers
  <2> QED
    BY <2>1 DEF Halfway
<1>5. Cell(q, r) = Cell(s, r)
  BY HalfwayAddress DEF Cell
<1>6. Holding(s, t, Cell(s, r))
  <2>1. Stored(t, q, Cell(s, r)) /\ SafeSp(t.sp)
    BY <1>3, <1>5 DEF Modified, Halfway, Holding
  <2> QED
    BY <1>1, <2>1, HoldingStep DEF Halfway
<1> QED
  BY <1>2, <1>4, <1>6 DEF Halfway, Modified

\* The program has ended with registers and memory as they were.
Restored(p, s, q) ==
    /\ \A r \in p.keeps \cap Registers : q[r] = s[r]
    /\ "carry" \in p.keeps => Carry(q.f) = Carry(s.f)
    /\ \A x \in DOMAIN s.mem : q.mem[x] = s.mem[x]
LEMMA HoldingMemory ==
    ASSUME NEW s, NEW D, NEW q, Holding(s, q, D),
           \A x \in D : x \in DOMAIN s.mem => Peek(q, x) = s.mem[x]
    PROVE  \A x \in DOMAIN s.mem : q.mem[x] = s.mem[x]
<1> SUFFICES ASSUME NEW x \in DOMAIN s.mem PROVE q.mem[x] = s.mem[x]
  OBVIOUS
<1>1. x \in DOMAIN q.mem
  BY DEF Holding
<1>2. Peek(q, x) = s.mem[x]
  BY DEF Holding
<1> QED
  BY <1>1, <1>2 DEF Peek

LEMMA HalfwayRestored ==
    ASSUME NEW p, NEW s, NEW r \in Reg, NEW q, NEW off, NEW F,
           value(s, "hl") \in DOMAIN s.mem,
           Halfway(s, q, r, off, Operand(s, r), F),
           p.keeps \cap Registers \subseteq Registers \ {"f"},
           "carry" \in p.keeps => Carry(F) = Carry(s.f)
    PROVE  Restored(p, s, q)
<1>1. Holding(s, q, Cell(s, r)) /\ Operand(q, r) = Operand(s, r) /\ q.f = F
      /\ \A x \in Registers \ {"f", r} : q[x] = s[x]
  BY DEF Halfway
<1>2. \A x \in Cell(s, r) : x \in DOMAIN s.mem => Peek(q, x) = s.mem[x]
  <2>1. ASSUME r = "(hl)"
        PROVE  Peek(q, value(s, "hl")) = s.mem[value(s, "hl")]
    BY <1>1, <2>1, HalfwayAddress DEF Operand, Peek
  <2> QED
    BY <2>1 DEF Cell
<1>3. \A x \in DOMAIN s.mem : q.mem[x] = s.mem[x]
  BY <1>1, <1>2, HoldingMemory
<1>4. \A x \in p.keeps \cap Registers : q[x] = s[x]
  <2>1. r \in Half => q[r] = s[r]
    BY <1>1 DEF Operand, Half
  <2> QED
    BY <1>1, <2>1 DEF Reg, Registers, Half
<1> QED
  BY <1>1, <1>3, <1>4 DEF Restored

LEMMA EdgeBits ==
    ASSUME NEW v \in Byte
    PROVE  Bit(v, 7) = v \div 128 /\ Bit(v, 0) = v % 2
<1>1. 2^7 = 128 /\ 2^0 = 1
  OBVIOUS
<1>2. v \in Int /\ 0 <= v /\ v <= 255
  BY IsByte
<1>3. (v \div 128) % 2 = v \div 128 /\ (v \div 1) % 2 = v % 2
  BY <1>2
<1> QED
  BY <1>1, <1>3 DEF Bit

LEMMA CarryOut ==
    ASSUME NEW v, NEW out \in {0, 1}
    PROVE  Carry(Shifted(v, out).flags) = out /\ Shifted(v, out).value = v
<1>1. Shifted(v, out).value = v /\ Shifted(v, out).flags = Zero(v) \cup When("carry", out = 1)
  BY DEF Shifted, Result
<1>2. "carry" \in Zero(v) \cup When("carry", out = 1) <=> out = 1
  BY DEF Zero, When
<1> QED
  BY <1>1, <1>2 DEF Carry

\* Two results that cancel out.
LEMMA CircularPair ==
    ASSUME NEW v \in Byte, NEW F, NEW G
    PROVE  rotate_right_c(G, rotate_left_c(F, v).value).value = v
<1> DEFINE w == rotate_left_c(F, v).value
<1>1. v \in Int /\ 0 <= v /\ v <= 255
  BY IsByte
<1>2. w = ((2 * v) % 256) + v \div 128
  BY EdgeBits DEF rotate_left_c, Shifted, Result
<1>3. w \in Byte
  BY <1>1, <1>2, IsByte
<1> HIDE DEF w
<1>4. rotate_right_c(G, w).value = w \div 2 + 128 * (w % 2)
  BY <1>3, EdgeBits DEF rotate_right_c, Shifted, Result
<1>5. w \div 2 + 128 * (w % 2) = v
  BY <1>1, <1>2
<1> QED
  BY <1>4, <1>5 DEF w
LEMMA CarryPair ==
    ASSUME NEW v \in Byte, NEW F \in SUBSET Flag
    PROVE  LET r == rotate_left(F, v)
               b == rotate_right(r.flags, r.value)
           IN  b.value = v /\ Carry(b.flags) = Carry(F)
<1> DEFINE r == rotate_left(F, v)
           w == r.value
           b == rotate_right(r.flags, w)
<1>1. v \in Int /\ 0 <= v /\ v <= 255 /\ Carry(F) \in {0, 1}
  BY IsByte DEF Carry
<1>2. w = ((2 * v) % 256) + Carry(F) /\ Carry(r.flags) = v \div 128
  <2>1. v \div 128 \in {0, 1}
    BY <1>1
  <2> QED
    BY <2>1, EdgeBits, CarryOut DEF rotate_left
<1>3. w \in Byte
  BY <1>1, <1>2, IsByte
<1> HIDE DEF w, r
<1>4. b.value = w \div 2 + 128 * Carry(r.flags) /\ Carry(b.flags) = w % 2
  <2>1. w % 2 \in {0, 1}
    BY <1>1, <1>2
  <2> QED
    BY <1>3, <2>1, EdgeBits, CarryOut DEF rotate_right
<1>5. w \div 2 + 128 * Carry(r.flags) = v /\ w % 2 = Carry(F)
  <2>1. PICK c \in Int : c = Carry(F) /\ 0 <= c /\ c <= 1
    BY <1>1
  <2>2. w = ((2 * v) % 256) + c /\ Carry(r.flags) = v \div 128
    BY <1>2, <2>1
  <2>3. w \div 2 + 128 * (v \div 128) = v /\ w % 2 = c
    BY <1>1, <2>1, <2>2
  <2> QED
    BY <2>1, <2>2, <2>3
<1> QED
  BY <1>4, <1>5 DEF w, r
LEMMA SwapPair ==
    ASSUME NEW v \in Byte, NEW F, NEW G
    PROVE  swap(G, swap(F, v).value).value = v
<1>1. v \in Int /\ 0 <= v /\ v <= 255
  BY IsByte
<1> QED
  BY <1>1 DEF swap, Result
LEMMA CountPair ==
    ASSUME NEW v \in Byte, NEW F \in SUBSET Flag
    PROVE  LET r == increment(F, v)
               b == decrement(r.flags, r.value)
           IN  b.value = v /\ Carry(b.flags) = Carry(F)
<1> DEFINE r == increment(F, v)
           b == decrement(r.flags, r.value)
<1>1. v \in Int /\ 0 <= v /\ v <= 255
  BY IsByte
<1>2. r.value = (v + 1) % 256 /\ ("carry" \in r.flags <=> "carry" \in F)
  BY DEF increment, Result, Zero, When
<1> HIDE DEF r
<1>3. b.value = (r.value - 1) % 256 /\ ("carry" \in b.flags <=> "carry" \in r.flags)
  BY DEF decrement, Result, Zero, When
<1> HIDE DEF b
<1>4. b.value = v
  BY <1>1, <1>2, <1>3
<1>5. Carry(b.flags) = Carry(F)
  BY <1>2, <1>3 DEF Carry
<1> QED
  BY <1>4, <1>5 DEF b, r
LEMMA ComplementPair ==
    ASSUME NEW v \in Byte, NEW F \in SUBSET Flag
    PROVE  LET r == complement(F, v)
               b == complement(r.flags, r.value)
           IN  b.value = v /\ Carry(b.flags) = Carry(F)
<1> DEFINE r == complement(F, v)
           b == complement(r.flags, r.value)
<1>1. v \in Int
  BY IsByte
<1>2. r.value = 255 - v /\ ("carry" \in r.flags <=> "carry" \in F)
  BY DEF complement, Result
<1> HIDE DEF r
<1>3. b.value = 255 - r.value /\ ("carry" \in b.flags <=> "carry" \in r.flags)
  BY DEF complement, Result
<1> HIDE DEF b
<1>4. b.value = v
  BY <1>1, <1>2, <1>3
<1>5. Carry(b.flags) = Carry(F)
  BY <1>2, <1>3 DEF Carry
<1> QED
  BY <1>4, <1>5 DEF b, r

\* A rotation or a shift by its number, and the bytes of the programs of Bitwise.
Turned(F, v, i, j) == IF i < 4 THEN Rotate(F, v, 8 * i + j) ELSE Shift(F, v, 8 * i + j)
TurnPair == {<<0, 1, {}>>, <<2, 3, {"carry"}>>, <<6, 6, {}>>}
Turning(j, pair) == <<\hCB, 8 * pair[1] + j, \hCB, 8 * pair[2] + j>>
Counting(j) == <<8 * j + 4, 8 * j + 5>>

LEMMA TickTurn ==
    ASSUME NEW q, Machine(q), NEW i \in 0..7, NEW j \in 0..7,
           Peek(q, q.pc) = \hCB, Peek(q, After(q.pc, 1)) = 8 * i + j,
           NEW r, r = Reg8[j + 1]
    PROVE  Modified(tick(q), q, r, Turned(q.f, Operand(q, r), i, j), 2)
  BY TickRotate DEF Turned

\* Program p of Bitwise changes operand r, by instructions of k bytes, first to A and
\* then to B.
Rotates(p, s, r, k, A, B) ==
    \E j \in 0..7, pair \in TurnPair :
        /\ p = Inverse2(Turning(j, pair), (Registers \ {"f"}) \cup pair[3])
        /\ r = Reg8[j + 1] /\ k = 2
        /\ A = Turned(s.f, Operand(s, r), pair[1], j)
        /\ B = Turned(A.flags, A.value, pair[2], j)
Counts2(p, s, r, k, A, B) ==
    \E j \in 0..7 :
        /\ p = Inverse2(Counting(j), (Registers \ {"f"}) \cup {"carry"})
        /\ r = Reg8[j + 1] /\ k = 1
        /\ A = increment(s.f, Operand(s, r)) /\ B = decrement(A.flags, A.value)
Complements(p, s, r, k, A, B) ==
    /\ p = Inverse2(<<\h2F, \h2F>>, (Registers \ {"f"}) \cup {"carry"})
    /\ r = "a" /\ k = 1
    /\ A = complement(s.f, s.a) /\ B = complement(A.flags, A.value)

\* What p does from s, at the two places where it executes an instruction.
Works(p, s, r, k, A, B) ==
    /\ r \in Reg /\ k \in 1..2
    /\ p.end = Origin + 2 * k /\ HasHandler(p.code) /\ Loadable(p.code)
    /\ \A q : Halfway(s, q, r, 0, Operand(s, r), s.f) =>
                 Modified(tick(q), q, r, A, k) /\ Regular(q)
    /\ \A q : Halfway(s, q, r, k, A.value, A.flags) =>
                 Modified(tick(q), q, r, B, k) /\ Regular(q)

\* Memory around the program.
Around(c, s) ==
    /\ Ready(c, s) /\ value(s, "hl") \notin DOMAIN c /\ Guarded(value(s, "hl"))

LEMMA NoCell ==
    ASSUME NEW c, NEW s, Around(c, s), NEW r
    PROVE  \A x \in Cell(s, r) : x \notin DOMAIN c
  BY DEF Around, Cell

LEMMA AtByte ==
    ASSUME NEW c, NEW s, Around(c, s), NEW r, NEW q, NEW k \in 0..7, NEW v, NEW F,
           Halfway(s, q, r, k, v, F), Origin + k \in DOMAIN c
    PROVE  Machine(q) /\ Peek(q, q.pc) = c[Origin + k]
<1>1. Holding(s, q, Cell(s, r)) /\ q.pc = Origin + k
  BY DEF Halfway
<1>2. \A x \in Cell(s, r) : x \notin DOMAIN c
  BY NoCell
<1>3. Ready(c, s)
  BY DEF Around
<1>4. Peek(q, q.pc) = c[Origin + k]
  BY <1>1, <1>2, <1>3, NextByte
<1> QED
  BY <1>1, <1>4 DEF Holding
LEMMA AtNextByte ==
    ASSUME NEW c, NEW s, Around(c, s), NEW r, NEW q, NEW k \in 0..6, NEW v, NEW F,
           Halfway(s, q, r, k, v, F), Origin + (k + 1) \in DOMAIN c
    PROVE  Peek(q, After(q.pc, 1)) = c[Origin + (k + 1)]
<1>1. Holding(s, q, Cell(s, r)) /\ q.pc = Origin + k
  BY DEF Halfway
<1>2. \A x \in Cell(s, r) : x \notin DOMAIN c
  BY NoCell
<1>3. Ready(c, s) /\ 1 \in 1..7 /\ k + 1 < 8
  BY DEF Around
<1> QED
  BY <1>1, <1>2, <1>3, SecondByte

LEMMA RotatesWorks ==
    ASSUME NEW p, NEW s, NEW r, NEW k, NEW A, NEW B, Rotates(p, s, r, k, A, B),
           Around(p.code, s)
    PROVE  Works(p, s, r, k, A, B)
<1>1. PICK j \in 0..7, pair \in TurnPair :
        /\ p = Inverse2(Turning(j, pair), (Registers \ {"f"}) \cup pair[3])
        /\ r = Reg8[j + 1] /\ k = 2
        /\ A = Turned(s.f, Operand(s, r), pair[1], j)
        /\ B = Turned(A.flags, A.value, pair[2], j)
  BY Zenon DEF Rotates
<1> DEFINE b == Turning(j, pair)
           i1 == pair[1]
           i2 == pair[2]
<1>2. i1 \in 0..7 /\ i2 \in 0..7
  BY DEF TurnPair
<1>3. b[1] = \hCB /\ b[2] = 8 * i1 + j /\ b[3] = \hCB /\ b[4] = 8 * i2 + j /\ Len(b) = 4
  BY DEF Turning
<1>4. p = Straight("inverse", b, (Registers \ {"f"}) \cup pair[3])
  BY <1>1 DEF Inverse2
<1> HIDE DEF b, i1, i2
<1>5. \A x \in 1..4 : b[x] \in Byte
  <2>1. \hCB \in Byte /\ 8 * i1 + j \in Byte /\ 8 * i2 + j \in Byte
    BY <1>2, IsByte
  <2> QED
    BY <1>3, <2>1
<1>6. 4 \in 1..8
  OBVIOUS
<1>7. p.end = Origin + 4 /\ HasHandler(p.code) /\ Loadable(p.code)
  BY <1>3, <1>4, <1>5, <1>6, StraightProgram
<1>8. \A i \in 0..7 : i < 4 => Origin + i \in DOMAIN p.code /\ p.code[Origin + i] = b[i + 1]
  BY <1>3, <1>4, <1>5, <1>6, StraightProgram
<1>9. /\ Origin + 0 \in DOMAIN p.code /\ p.code[Origin + 0] = \hCB
      /\ Origin + (0 + 1) \in DOMAIN p.code /\ p.code[Origin + (0 + 1)] = 8 * i1 + j
      /\ Origin + 2 \in DOMAIN p.code /\ p.code[Origin + 2] = \hCB
      /\ Origin + (2 + 1) \in DOMAIN p.code /\ p.code[Origin + (2 + 1)] = 8 * i2 + j
  BY <1>3, <1>8
<1>10. r \in Reg
  BY <1>1, Registers8
<1>a. j \in 0..7 /\ r = Reg8[j + 1]
  BY <1>1
<1>11. ASSUME NEW q, Halfway(s, q, r, 0, Operand(s, r), s.f)
       PROVE  Modified(tick(q), q, r, A, k) /\ Regular(q)
  <2>1. Machine(q) /\ Peek(q, q.pc) = \hCB
    BY <1>9, <1>11, AtByte
  <2>2. Peek(q, After(q.pc, 1)) = 8 * i1 + j
    <3>1. 0 \in 0..6
      OBVIOUS
    <3> QED
      BY <1>9, <1>11, <3>1, AtNextByte
  <2>3. Modified(tick(q), q, r, Turned(q.f, Operand(q, r), i1, j), 2)
    BY ONLY <1>a, <1>2, <2>1, <2>2, TickTurn
  <2>4. q.f = s.f /\ Operand(q, r) = Operand(s, r)
    BY <1>11 DEF Halfway
  <2>5. Regular(q)
    <3>1. 8 * i1 + j \in Int /\ 8 * i1 + j < 64
      BY <1>2
    <3> QED
      BY <2>1, <2>2, <3>1, RegularExtended
  <2> QED
    BY <1>1, <2>3, <2>4, <2>5 DEF i1
<1>12. ASSUME NEW q, Halfway(s, q, r, k, A.value, A.flags)
       PROVE  Modified(tick(q), q, r, B, k) /\ Regular(q)
  <2>1. Machine(q) /\ Peek(q, q.pc) = \hCB
    BY <1>1, <1>9, <1>12, AtByte
  <2>2. Peek(q, After(q.pc, 1)) = 8 * i2 + j
    <3>1. 2 \in 0..6 /\ Halfway(s, q, r, 2, A.value, A.flags)
      BY <1>1, <1>12
    <3> QED
      BY <1>9, <3>1, AtNextByte
  <2>3. Modified(tick(q), q, r, Turned(q.f, Operand(q, r), i2, j), 2)
    BY ONLY <1>a, <1>2, <2>1, <2>2, TickTurn
  <2>4. q.f = A.flags /\ Operand(q, r) = A.value
    BY <1>12 DEF Halfway
  <2>5. Regular(q)
    <3>1. 8 * i2 + j \in Int /\ 8 * i2 + j < 64
      BY <1>2
    <3> QED
      BY <2>1, <2>2, <3>1, RegularExtended
  <2> QED
    BY <1>1, <2>3, <2>4, <2>5 DEF i2
<1>13. k \in 1..2 /\ p.end = Origin + 2 * k
  BY <1>1, <1>7
<1> QED
  BY <1>7, <1>10, <1>11, <1>12, <1>13 DEF Works

\* Programs of two instructions of one byte.
LEMMA TwoBytes ==
    ASSUME NEW p, NEW kind, NEW x1 \in Byte, NEW x2 \in Byte, NEW keeps,
           p = Straight(kind, <<x1, x2>>, keeps), NEW s, Around(p.code, s), NEW r
    PROVE  /\ p.kind = kind /\ p.keeps = keeps
           /\ p.end = Origin + 2 * 1 /\ HasHandler(p.code) /\ Loadable(p.code)
           /\ \A q, v, F : Halfway(s, q, r, 0, v, F) => Machine(q) /\ Peek(q, q.pc) = x1
           /\ \A q, v, F : Halfway(s, q, r, 1, v, F) => Machine(q) /\ Peek(q, q.pc) = x2
<1> DEFINE b == <<x1, x2>>
<1>1. b[1] = x1 /\ b[2] = x2 /\ Len(b) = 2 /\ p = Straight(kind, b, keeps)
  OBVIOUS
<1> HIDE DEF b
<1>2. \A i \in 1..2 : b[i] \in Byte
  BY <1>1
<1>3. 2 \in 1..8
  OBVIOUS
<1>4. /\ p.kind = kind /\ p.keeps = keeps
      /\ p.end = Origin + 2 /\ HasHandler(p.code) /\ Loadable(p.code)
  BY <1>1, <1>2, <1>3, StraightProgram
<1>5. \A i \in 0..7 : i < 2 => Origin + i \in DOMAIN p.code /\ p.code[Origin + i] = b[i + 1]
  BY <1>1, <1>2, <1>3, StraightProgram
<1>6. /\ Origin + 0 \in DOMAIN p.code /\ p.code[Origin + 0] = b[0 + 1]
      /\ Origin + 1 \in DOMAIN p.code /\ p.code[Origin + 1] = b[1 + 1]
  BY <1>5
<1>7. \A q, v, F : Halfway(s, q, r, 0, v, F) => Machine(q) /\ Peek(q, q.pc) = x1
  BY <1>1, <1>6, AtByte
<1>8. \A q, v, F : Halfway(s, q, r, 1, v, F) => Machine(q) /\ Peek(q, q.pc) = x2
  BY <1>1, <1>6, AtByte
<1> QED
  BY <1>4, <1>7, <1>8

LEMMA CountsWorks ==
    ASSUME NEW p, NEW s, NEW r, NEW k, NEW A, NEW B, Counts2(p, s, r, k, A, B),
           Around(p.code, s)
    PROVE  Works(p, s, r, k, A, B)
<1>1. PICK j \in 0..7 :
        /\ p = Inverse2(Counting(j), (Registers \ {"f"}) \cup {"carry"})
        /\ r = Reg8[j + 1] /\ k = 1
        /\ A = increment(s.f, Operand(s, r)) /\ B = decrement(A.flags, A.value)
  BY DEF Counts2
<1> DEFINE x1 == 8 * j + 4
           x2 == 8 * j + 5
<1>2. /\ x1 \in Byte /\ x1 \notin Undefined \cup {\h10, \hCB} /\ x1 = 8 * j + 4 + 0
      /\ x2 \in Byte /\ x2 \notin Undefined \cup {\h10, \hCB} /\ x2 = 8 * j + 4 + 1
  BY IsByte DEF Undefined
<1>3. p = Straight("inverse", <<x1, x2>>, (Registers \ {"f"}) \cup {"carry"})
  BY <1>1 DEF Inverse2, Counting
<1> HIDE DEF x1, x2
<1>4. p.end = Origin + 2 * 1 /\ HasHandler(p.code) /\ Loadable(p.code)
  BY <1>2, <1>3, TwoBytes
<1>5. ASSUME NEW q, Halfway(s, q, r, 0, Operand(s, r), s.f)
      PROVE  Modified(tick(q), q, r, A, k) /\ Regular(q)
  <2>1. Machine(q) /\ Peek(q, q.pc) = x1
    BY <1>2, <1>3, <1>5, TwoBytes
  <2>2. q.f = s.f /\ Operand(q, r) = Operand(s, r)
    BY <1>5 DEF Halfway
  <2>3. Modified(tick(q), q, r, increment(q.f, Operand(q, r)), 1)
    <3>1. 0 \in 0..1 /\ Peek(q, q.pc) = 8 * j + 4 + 0
      BY <1>2, <2>1
    <3> QED
      BY <1>1, <2>1, <3>1, TickCount
  <2> QED
    BY <1>1, <1>2, <2>1, <2>2, <2>3, RegularOpcode
<1>6. ASSUME NEW q, Halfway(s, q, r, k, A.value, A.flags)
      PROVE  Modified(tick(q), q, r, B, k) /\ Regular(q)
  <2>1. Machine(q) /\ Peek(q, q.pc) = x2
    BY <1>1, <1>2, <1>3, <1>6, TwoBytes
  <2>2. q.f = A.flags /\ Operand(q, r) = A.value
    BY <1>6 DEF Halfway
  <2>3. Modified(tick(q), q, r, decrement(q.f, Operand(q, r)), 1)
    <3>1. 1 \in 0..1 /\ Peek(q, q.pc) = 8 * j + 4 + 1
      BY <1>2, <2>1
    <3> QED
      BY <1>1, <2>1, <3>1, TickCount
  <2> QED
    BY <1>1, <1>2, <2>1, <2>2, <2>3, RegularOpcode
<1>7. r \in Reg /\ k \in 1..2 /\ p.end = Origin + 2 * k
  BY <1>1, <1>4, Registers8
<1> QED
  BY <1>4, <1>5, <1>6, <1>7 DEF Works

LEMMA ComplementsWorks ==
    ASSUME NEW p, NEW s, NEW r, NEW k, NEW A, NEW B, Complements(p, s, r, k, A, B),
           Around(p.code, s)
    PROVE  Works(p, s, r, k, A, B)
<1>1. /\ p = Straight("inverse", <<\h2F, \h2F>>, (Registers \ {"f"}) \cup {"carry"})
      /\ r = "a" /\ k = 1
      /\ A = complement(s.f, s.a) /\ B = complement(A.flags, A.value)
  BY DEF Complements, Inverse2
<1>2. \h2F \in Byte /\ \h2F \notin Undefined \cup {\h10, \hCB} /\ \h2F \in {\h27, \h2F}
  BY IsByte DEF Undefined
<1>3. p.end = Origin + 2 * 1 /\ HasHandler(p.code) /\ Loadable(p.code)
  BY <1>1, <1>2, TwoBytes
<1>4. \A q, v, F : Operand(q, "a") = q.a
  BY DEF Operand
<1>5. ASSUME NEW q, NEW v, NEW F,
             Halfway(s, q, r, 0, v, F) \/ Halfway(s, q, r, 1, v, F)
      PROVE  Modified(tick(q), q, r, complement(F, v), k) /\ Regular(q)
  <2>1. Machine(q) /\ Peek(q, q.pc) = \h2F
    BY <1>1, <1>2, <1>5, TwoBytes
  <2>2. q.f = F /\ q.a = v
    BY <1>1, <1>4, <1>5 DEF Halfway
  <2>3. Modified(tick(q), q, "a", complement(q.f, q.a), 1)
    BY <1>2, <2>1, TickAdjust
  <2> QED
    BY <1>1, <1>2, <2>1, <2>2, <2>3, RegularOpcode
<1>6. \A q : Halfway(s, q, r, 0, Operand(s, r), s.f) =>
                Modified(tick(q), q, r, A, k) /\ Regular(q)
  BY <1>1, <1>4, <1>5
<1>7. \A q : Halfway(s, q, r, k, A.value, A.flags) =>
                Modified(tick(q), q, r, B, k) /\ Regular(q)
  BY <1>1, <1>5
<1>8. r \in Reg /\ k \in 1..2 /\ p.end = Origin + 2 * k
  BY <1>1, <1>3 DEF Reg, Half
<1> QED
  BY <1>3, <1>6, <1>7, <1>8 DEF Works

\* What a program of Bitwise does cancels out.
LEMMA BitwiseCancels ==
    ASSUME NEW p, NEW s, Machine(s), NEW r, NEW k, NEW A, NEW B,
           Rotates(p, s, r, k, A, B) \/ Counts2(p, s, r, k, A, B)
              \/ Complements(p, s, r, k, A, B)
    PROVE  /\ B.value = Operand(s, r)
           /\ p.keeps \cap Registers \subseteq Registers \ {"f"}
           /\ "carry" \in p.keeps => Carry(B.flags) = Carry(s.f)
           /\ p.kind = "inverse"
<1> DEFINE v == Operand(s, r)
<1>1. "carry" \notin Registers
  BY DEF Registers
<1>2. \A b, ks : /\ Inverse2(b, ks).keeps = ks
                 /\ Inverse2(b, ks).kind = "inverse"
  BY DEF Inverse2, Straight, Program
<1>3. CASE Rotates(p, s, r, k, A, B)
  <2>1. PICK j \in 0..7, pair \in TurnPair :
          /\ p = Inverse2(Turning(j, pair), (Registers \ {"f"}) \cup pair[3])
          /\ r = Reg8[j + 1] /\ k = 2
          /\ A = Turned(s.f, Operand(s, r), pair[1], j)
          /\ B = Turned(A.flags, A.value, pair[2], j)
    BY <1>3, Zenon DEF Rotates
  <2>2. v \in Byte /\ s.f \in SUBSET Flag
    BY <2>1, Registers8, OperandByte, Zenon DEF Machine
  <2>3. p.keeps = (Registers \ {"f"}) \cup pair[3] /\ p.kind = "inverse"
    BY <1>2, <2>1
  <2>4. p.keeps \cap Registers \subseteq Registers \ {"f"}
    BY <1>1, <2>3 DEF TurnPair, Registers
  <2>5. \A i \in 0..7 : y(8 * i + j) = i
    BY DEF y
  <2> HIDE DEF v
  <2>6. CASE pair = <<0, 1, {}>>
    <3>1. A = rotate_left_c(s.f, v) /\ B = rotate_right_c(A.flags, A.value)
      BY <2>1, <2>5, <2>6 DEF Turned, Rotate, v
    <3>2. B.value = v
      BY <2>2, <3>1, CircularPair
    <3> QED
      BY <1>1, <2>3, <2>4, <2>6, <3>2 DEF v
  <2>7. CASE pair = <<2, 3, {"carry"}>>
    <3>1. A = rotate_left(s.f, v) /\ B = rotate_right(A.flags, A.value)
      BY <2>1, <2>5, <2>7 DEF Turned, Rotate, v
    <3>2. B.value = v /\ Carry(B.flags) = Carry(s.f)
      BY <2>2, <3>1, CarryPair
    <3> QED
      BY <2>3, <2>4, <3>2 DEF v
  <2>8. CASE pair = <<6, 6, {}>>
    <3>1. A = swap(s.f, v) /\ B = swap(A.flags, A.value)
      BY <2>1, <2>5, <2>8 DEF Turned, Shift, v
    <3>2. B.value = v
      BY <2>2, <3>1, SwapPair
    <3> QED
      BY <1>1, <2>3, <2>4, <2>8, <3>2 DEF v
  <2> QED
    BY <2>6, <2>7, <2>8 DEF TurnPair
<1>4. CASE Counts2(p, s, r, k, A, B)
  <2>1. PICK j \in 0..7 :
          /\ p = Inverse2(Counting(j), (Registers \ {"f"}) \cup {"carry"})
          /\ r = Reg8[j + 1] /\ k = 1
          /\ A = increment(s.f, Operand(s, r)) /\ B = decrement(A.flags, A.value)
    BY <1>4 DEF Counts2
  <2>2. v \in Byte /\ s.f \in SUBSET Flag
    BY <2>1, Registers8, OperandByte, Zenon DEF Machine
  <2>3. B.value = v /\ Carry(B.flags) = Carry(s.f)
    BY <2>1, <2>2, CountPair
  <2>4. p.keeps = (Registers \ {"f"}) \cup {"carry"} /\ p.kind = "inverse"
    BY <1>2, <2>1
  <2> QED
    BY <1>1, <2>3, <2>4 DEF Registers
<1>5. CASE Complements(p, s, r, k, A, B)
  <2>1. /\ p = Inverse2(<<\h2F, \h2F>>, (Registers \ {"f"}) \cup {"carry"})
        /\ r = "a" /\ A = complement(s.f, s.a) /\ B = complement(A.flags, A.value)
    BY <1>5 DEF Complements
  <2>2. s.a \in Byte /\ s.f \in SUBSET Flag /\ v = s.a
    BY <2>1 DEF Machine, Half, Operand
  <2>3. B.value = v /\ Carry(B.flags) = Carry(s.f)
    BY <2>1, <2>2, ComplementPair
  <2>4. p.keeps = (Registers \ {"f"}) \cup {"carry"} /\ p.kind = "inverse"
    BY <1>2, <2>1
  <2> QED
    BY <1>1, <2>3, <2>4 DEF Registers
<1> QED
  BY <1>3, <1>4, <1>5

-----------------------------------------------------------------------------
(* Programs of DECIMAL arithmetic. *)

\* The correction of a sum and of a difference of packed decimal numbers: low is the
\* sum of the low digits and T that of the high ones, L and K what they are in decimal.
LEMMA CorrectedSum ==
    ASSUME NEW T \in Int, 0 <= T, T <= 18, NEW low \in Int, 0 <= low, low <= 19,
           NEW v \in Int, v = (16 * T + low) % 256,
           NEW n \in Int, n = IF low > 15 \/ v % 16 > 9 THEN v + 6 ELSE v,
           NEW sum \in Int, sum = n + IF 16 * T + low > 255 \/ n > 159 THEN 96 ELSE 0,
           NEW K \in Int, K = IF low > 9 THEN T + 1 ELSE T,
           NEW L \in Int, L = IF low > 9 THEN low - 10 ELSE low
    PROVE  /\ sum % 256 = 16 * (K % 10) + L
           /\ 16 * T + low > 255 \/ (sum \div 256) % 2 = 1 <=> K > 9
<1>1. 0 <= L /\ L <= 9 /\ 0 <= K /\ K <= 19
  OBVIOUS
<1>2. CASE low <= 9
  <2>1. 16 * T + low > 255 <=> T > 15
    BY <1>2
  <2>2. v = IF T > 15 THEN 16 * (T - 16) + low ELSE 16 * T + low
    BY <1>2
  <2>3. v % 16 = low /\ n = v
    BY <1>2, <2>2
  <2>4. CASE T > 15
    BY <1>2, <2>1, <2>2, <2>3, <2>4
  <2>5. CASE T <= 15 /\ T > 9
    BY <1>2, <2>1, <2>2, <2>3, <2>5
  <2>6. CASE T <= 9
    BY <1>2, <2>1, <2>2, <2>3, <2>6
  <2> QED
    BY <2>4, <2>5, <2>6
<1>3. CASE 9 < low /\ low <= 15
  <2>1. 16 * T + low > 255 <=> T > 15
    BY <1>3
  <2>2. v = IF T > 15 THEN 16 * (T - 16) + low ELSE 16 * T + low
    BY <1>3
  <2>3. v % 16 = low /\ n = v + 6 /\ K = T + 1 /\ L = low - 10
    BY <1>3, <2>2
  <2>4. CASE T > 15
    BY <1>3, <2>1, <2>2, <2>3, <2>4
  <2>5. CASE T <= 15 /\ T > 8
    BY <1>3, <2>1, <2>2, <2>3, <2>5
  <2>6. CASE T <= 8
    BY <1>3, <2>1, <2>2, <2>3, <2>6
  <2> QED
    BY <2>4, <2>5, <2>6
<1>4. CASE 15 < low
  <2>1. 16 * T + low > 255 <=> T > 14
    BY <1>4
  <2>2. v = IF T > 14 THEN 16 * (T - 15) + (low - 16) ELSE 16 * (T + 1) + (low - 16)
    BY <1>4
  <2>3. n = v + 6 /\ K = T + 1 /\ L = low - 10
    BY <1>4
  <2>4. CASE T > 14
    BY <1>4, <2>1, <2>2, <2>3, <2>4
  <2>5. CASE T <= 14 /\ T > 8
    BY <1>4, <2>1, <2>2, <2>3, <2>5
  <2>6. CASE T <= 8
    BY <1>4, <2>1, <2>2, <2>3, <2>6
  <2> QED
    BY <2>4, <2>5, <2>6
<1> QED
  BY <1>2, <1>3, <1>4
LEMMA CorrectedDifference ==
    ASSUME NEW T \in Int, -9 <= T, T <= 9, NEW low \in Int, -10 <= low, low <= 9,
           NEW v \in Int, v = (16 * T + low) % 256,
           NEW n \in Int, n = IF low < 0 THEN (v - 6) % 256 ELSE v,
           NEW sum \in Int, sum = n - IF 16 * T + low < 0 THEN 96 ELSE 0,
           NEW K \in Int, K = IF low < 0 THEN T - 1 ELSE T,
           NEW L \in Int, L = IF low < 0 THEN low + 10 ELSE low
    PROVE  /\ sum % 256 = 16 * (K % 10) + L
           /\ 16 * T + low < 0 \/ (sum \div 256) % 2 = 1 <=> K < 0
<1>1. 16 * T + low < 0 <=> K < 0
  OBVIOUS
<1>2. v = IF K < 0 THEN 16 * T + low + 256 ELSE 16 * T + low
  BY <1>1
<1>3. CASE low < 0
  <2>1. K = T - 1 /\ L = low + 10 /\ 0 <= L /\ L <= 9
    BY <1>3
  <2>2. 16 * T + low - 6 = 16 * K + L
    BY <2>1
  <2>3. CASE K < 0
    <3>1. n = 16 * K + L + 256 /\ sum = 16 * (K + 10) + L /\ K % 10 = K + 10
      BY <1>1, <1>2, <1>3, <2>1, <2>2, <2>3
    <3> QED
      BY <1>1, <2>1, <2>3, <3>1
  <2>4. CASE K >= 0
    <3>1. n = 16 * K + L /\ sum = n /\ K % 10 = K
      BY <1>1, <1>2, <1>3, <2>1, <2>2, <2>4
    <3> QED
      BY <1>1, <2>1, <2>4, <3>1
  <2> QED
    BY <2>3, <2>4
<1>4. CASE low >= 0
  <2>1. K = T /\ L = low
    BY <1>4
  <2>2. CASE K < 0
    <3>1. n = 16 * K + L + 256 /\ sum = 16 * (K + 10) + L /\ K % 10 = K + 10
      BY <1>1, <1>2, <1>4, <2>1, <2>2
    <3> QED
      BY <1>1, <1>4, <2>1, <2>2, <3>1
  <2>3. CASE K >= 0
    <3>1. n = 16 * K + L /\ sum = n /\ K % 10 = K
      BY <1>1, <1>2, <1>4, <2>1, <2>3
    <3> QED
      BY <1>1, <1>4, <2>1, <2>3, <3>1
  <2> QED
    BY <2>2, <2>3
<1> QED
  BY <1>3, <1>4

\* The decimal number that a byte packs.
Unpacked(v) == 10 * (v \div 16) + (v % 16)
LEMMA Unpacking ==
    ASSUME NEW K \in Int, NEW L \in Int, 0 <= L, L <= 9, NEW v \in Int,
           v = 16 * (K % 10) + L
    PROVE  Unpacked(v) = (10 * K + L) % 100
<1>1. PICK i \in Int : i = K % 10 /\ 0 <= i /\ i <= 9
  <2>1. K % 10 \in Int /\ 0 <= K % 10 /\ K % 10 <= 9
    OBVIOUS
  <2> QED
    BY <2>1
<1>2. v \div 16 = i /\ v % 16 = L
  BY <1>1
<1>3. (10 * K + L) % 100 = 10 * i + L
  BY <1>1
<1> QED
  BY <1>2, <1>3 DEF Unpacked

Digit(t) == t \in Int /\ 0 <= t /\ t <= 9
Packed(v) == \E t, u : Digit(t) /\ Digit(u) /\ v = 16 * t + u
LEMMA BitEight == ASSUME NEW v \in Int PROVE Bit(v, 8) = (v \div 256) % 2
<1>1. 2^8 = 256
  OBVIOUS
<1> QED
  BY <1>1 DEF Bit

LEMMA DecimalSum ==
    ASSUME NEW acc, Packed(acc), NEW v, Packed(v), NEW c \in Int, c = 0 \/ c = 1
    PROVE  LET r == Sum(acc, v, c)
               d == decimal_adjust(r.flags, r.value)
               exact == Unpacked(acc) + Unpacked(v) + c
           IN  /\ Unpacked(d.value) = exact % 100
               /\ "carry" \in d.flags <=> exact \notin 0..99
               /\ "zero" \in d.flags <=> d.value = 0
<1>1. PICK t, u : Digit(t) /\ Digit(u) /\ acc = 16 * t + u
  BY DEF Packed
<1>2. PICK i, k : Digit(i) /\ Digit(k) /\ v = 16 * i + k
  BY DEF Packed
<1> DEFINE T == t + i
           low == u + k + c
           r == Sum(acc, v, c)
           d == decimal_adjust(r.flags, r.value)
           exact == Unpacked(acc) + Unpacked(v) + c
           K == IF low > 9 THEN T + 1 ELSE T
           L == IF low > 9 THEN low - 10 ELSE low
           n == IF low > 15 \/ r.value % 16 > 9 THEN r.value + 6 ELSE r.value
           sum == n + IF 16 * T + low > 255 \/ n > 159 THEN 96 ELSE 0
<1>3. /\ t \in Int /\ 0 <= t /\ t <= 9 /\ u \in Int /\ 0 <= u /\ u <= 9
      /\ i \in Int /\ 0 <= i /\ i <= 9 /\ k \in Int /\ 0 <= k /\ k <= 9
  BY <1>1, <1>2 DEF Digit
<1>4. /\ T \in Int /\ 0 <= T /\ T <= 18 /\ low \in Int /\ 0 <= low /\ low <= 19
      /\ K \in Int /\ L \in Int /\ 0 <= L /\ L <= 9 /\ 10 * K + L = 10 * T + low
      /\ 0 <= K
  BY <1>3
<1>5. acc + v + c = 16 * T + low /\ acc % 16 = u /\ v % 16 = k
  BY <1>1, <1>2, <1>3
<1>6. exact = 10 * K + L
  <2>1. Unpacked(acc) = 10 * t + u
    BY <1>1, <1>2, <1>3 DEF Unpacked
  <2>2. Unpacked(v) = 10 * i + k
    BY <1>1, <1>2, <1>3 DEF Unpacked
  <2> QED
    BY <1>3, <1>4, <2>1, <2>2
<1>7. /\ r.value = (16 * T + low) % 256
      /\ "half_carry" \in r.flags <=> low > 15
      /\ "carry" \in r.flags <=> 16 * T + low > 255
      /\ "negative" \notin r.flags
  <2>1. r.value = (acc + v + c) % 256
    BY DEF Sum, Result
  <2>2. r.flags = Zero((acc + v + c) % 256)
                  \cup When("half_carry", (acc % 16) + (v % 16) + c > 15)
                  \cup When("carry", acc + v + c > 255)
    BY DEF Sum, Result
  <2> QED
    BY <1>5, <2>1, <2>2 DEF Zero, When
<1> HIDE DEF r, T, low, K, L, exact
<1>8. r.value \in Int /\ n \in Int /\ sum \in Int
  <2>1. r.value \in Int
    BY <1>4, <1>7
  <2> QED
    BY <1>4, <2>1
<1>9. sum = AdjustSum(r.flags, r.value)
  BY <1>7 DEF AdjustSum
<1> HIDE DEF n
<1>10. /\ sum % 256 = 16 * (K % 10) + L
       /\ 16 * T + low > 255 \/ (sum \div 256) % 2 = 1 <=> K > 9
  <2>1. n = IF low > 15 \/ r.value % 16 > 9 THEN r.value + 6 ELSE r.value
    BY DEF n
  <2>2. K = IF low > 9 THEN T + 1 ELSE T
    BY DEF K
  <2>3. L = IF low > 9 THEN low - 10 ELSE low
    BY DEF L
  <2> QED
    BY <1>4, <1>7, <1>8, <2>1, <2>2, <2>3, CorrectedSum
<1> HIDE DEF sum
<1>11. /\ d.value = sum % 256
       /\ "carry" \in d.flags <=> "carry" \in r.flags \/ Bit(sum, 8) = 1
       /\ "zero" \in d.flags <=> sum % 256 = 0
  BY <1>7, <1>9 DEF decimal_adjust, Result, Zero, When
<1> HIDE DEF d
<1>12. "carry" \in d.flags <=> exact \notin 0..99
  <2>1. "carry" \in d.flags <=> K > 9
    BY <1>7, <1>8, <1>10, <1>11, BitEight
  <2>2. exact \in Int /\ 0 <= exact /\ (exact > 99 <=> K > 9)
    BY <1>4, <1>6
  <2> QED
    BY <2>1, <2>2
<1>13. Unpacked(d.value) = exact % 100
  <2>1. d.value \in Int
    BY <1>8, <1>11
  <2>2. K \in Int /\ L \in Int /\ 0 <= L /\ L <= 9
    BY <1>4
  <2>3. d.value = 16 * (K % 10) + L
    BY <1>10, <1>11
  <2>4. Unpacked(d.value) = (10 * K + L) % 100
    BY ONLY <2>1, <2>2, <2>3, Unpacking
  <2> QED
    BY <1>6, <2>4
<1> QED
  BY <1>11, <1>12, <1>13 DEF d, r, exact

LEMMA DecimalDifference ==
    ASSUME NEW acc, Packed(acc), NEW v, Packed(v), NEW c \in Int, c = 0 \/ c = 1
    PROVE  LET r == Difference(acc, v, c)
               d == decimal_adjust(r.flags, r.value)
               exact == Unpacked(acc) - Unpacked(v) - c
           IN  /\ Unpacked(d.value) = exact % 100
               /\ "carry" \in d.flags <=> exact \notin 0..99
               /\ "zero" \in d.flags <=> d.value = 0
<1>1. PICK t, u : Digit(t) /\ Digit(u) /\ acc = 16 * t + u
  BY DEF Packed
<1>2. PICK i, k : Digit(i) /\ Digit(k) /\ v = 16 * i + k
  BY DEF Packed
<1> DEFINE T == t - i
           low == u - k - c
           r == Difference(acc, v, c)
           d == decimal_adjust(r.flags, r.value)
           exact == Unpacked(acc) - Unpacked(v) - c
           K == IF low < 0 THEN T - 1 ELSE T
           L == IF low < 0 THEN low + 10 ELSE low
           n == IF low < 0 THEN (r.value - 6) % 256 ELSE r.value
           sum == n - IF 16 * T + low < 0 THEN 96 ELSE 0
<1>3. /\ t \in Int /\ 0 <= t /\ t <= 9 /\ u \in Int /\ 0 <= u /\ u <= 9
      /\ i \in Int /\ 0 <= i /\ i <= 9 /\ k \in Int /\ 0 <= k /\ k <= 9
  BY <1>1, <1>2 DEF Digit
<1>4. /\ T \in Int /\ -9 <= T /\ T <= 9 /\ low \in Int /\ -10 <= low /\ low <= 9
      /\ K \in Int /\ L \in Int /\ 0 <= L /\ L <= 9 /\ 10 * K + L = 10 * T + low
      /\ K <= 9
  BY <1>3
<1>5. acc - v - c = 16 * T + low /\ acc % 16 = u /\ v % 16 = k
  BY <1>1, <1>2, <1>3
<1>6. exact = 10 * K + L
  <2>1. Unpacked(acc) = 10 * t + u
    BY <1>1, <1>2, <1>3 DEF Unpacked
  <2>2. Unpacked(v) = 10 * i + k
    BY <1>1, <1>2, <1>3 DEF Unpacked
  <2> QED
    BY <1>3, <1>4, <2>1, <2>2
<1>7. /\ r.value = (16 * T + low) % 256
      /\ "half_carry" \in r.flags <=> low < 0
      /\ "carry" \in r.flags <=> 16 * T + low < 0
      /\ "negative" \in r.flags
  <2>1. r.value = (acc - v - c) % 256
    BY DEF Difference, Result
  <2>2. r.flags = {"negative"} \cup Zero((acc - v - c) % 256)
                  \cup When("half_carry", (acc % 16) - (v % 16) - c < 0)
                  \cup When("carry", acc - v - c < 0)
    BY DEF Difference, Result
  <2> QED
    BY <1>5, <2>1, <2>2 DEF Zero, When
<1> HIDE DEF r, T, low, K, L, exact
<1>8. r.value \in Int /\ n \in Int /\ sum \in Int
  <2>1. r.value \in Int
    BY <1>4, <1>7
  <2> QED
    BY <1>4, <2>1
<1>9. sum = AdjustDifference(r.flags, r.value)
  BY <1>7 DEF AdjustDifference
<1> HIDE DEF n
<1>10. /\ sum % 256 = 16 * (K % 10) + L
       /\ 16 * T + low < 0 \/ (sum \div 256) % 2 = 1 <=> K < 0
  <2>1. n = IF low < 0 THEN (r.value - 6) % 256 ELSE r.value
    BY DEF n
  <2>2. K = IF low < 0 THEN T - 1 ELSE T
    BY DEF K
  <2>3. L = IF low < 0 THEN low + 10 ELSE low
    BY DEF L
  <2> QED
    BY <1>4, <1>7, <1>8, <2>1, <2>2, <2>3, CorrectedDifference
<1> HIDE DEF sum
<1>11. /\ d.value = sum % 256
       /\ "carry" \in d.flags <=> "carry" \in r.flags \/ Bit(sum, 8) = 1
       /\ "zero" \in d.flags <=> sum % 256 = 0
  BY <1>7, <1>9 DEF decimal_adjust, Result, Zero, When
<1> HIDE DEF d
<1>12. "carry" \in d.flags <=> exact \notin 0..99
  <2>1. "carry" \in d.flags <=> K < 0
    BY <1>7, <1>8, <1>10, <1>11, BitEight
  <2>2. exact \in Int /\ exact <= 99 /\ (exact < 0 <=> K < 0)
    BY <1>4, <1>6
  <2> QED
    BY <2>1, <2>2
<1>13. Unpacked(d.value) = exact % 100
  <2>1. d.value \in Int
    BY <1>8, <1>11
  <2> QED
    BY <1>4, <1>6, <1>10, <1>11, <2>1, Unpacking
<1> QED
  BY <1>11, <1>12, <1>13 DEF d, r, exact

\* A program of Decimal changes the accumulator first to A and then to B.
Adjusts(p, s, r, k, A, B) ==
    \E i \in 0..3 :
        /\ p = Straight("decimal", <<128 + 8 * i, \h27>>, {"b"})
        /\ r = "a" /\ k = 1
        /\ A = Arithmetic(s, 128 + 8 * i, s.b) /\ B = decimal_adjust(A.flags, A.value)

LEMMA AdjustsWorks ==
    ASSUME NEW p, NEW s, NEW r, NEW k, NEW A, NEW B, Adjusts(p, s, r, k, A, B),
           Around(p.code, s)
    PROVE  Works(p, s, r, k, A, B)
<1>1. PICK i \in 0..3 :
        /\ p = Straight("decimal", <<128 + 8 * i, \h27>>, {"b"})
        /\ r = "a" /\ k = 1
        /\ A = Arithmetic(s, 128 + 8 * i, s.b) /\ B = decimal_adjust(A.flags, A.value)
  BY DEF Adjusts
<1> DEFINE x1 == 128 + 8 * i
<1>2. /\ x1 \in Byte /\ x1 \notin Undefined \cup {\h10, \hCB} /\ x1 = 128 + 8 * i + 0
      /\ \h27 \in Byte /\ \h27 \notin Undefined \cup {\h10, \hCB}
  BY IsByte DEF Undefined
<1>3. p = Straight("decimal", <<x1, \h27>>, {"b"}) /\ A = Arithmetic(s, x1, s.b)
  BY <1>1
<1>4. y(x1) = i
  BY DEF y
<1> HIDE DEF x1
<1>5. p.end = Origin + 2 * 1 /\ HasHandler(p.code) /\ Loadable(p.code)
  BY <1>2, <1>3, TwoBytes
<1>6. \A q : Operand(q, "a") = q.a
  BY DEF Operand
<1>7. ASSUME NEW q, Halfway(s, q, r, 0, Operand(s, r), s.f)
      PROVE  Modified(tick(q), q, r, A, k) /\ Regular(q)
  <2>1. Machine(q) /\ Peek(q, q.pc) = x1
    BY <1>2, <1>3, <1>7, TwoBytes
  <2>2. q.f = s.f /\ q.a = s.a /\ q.b = s.b
    BY <1>1, <1>6, <1>7 DEF Halfway, Registers
  <2>3. Accumulator(tick(q), q, Arithmetic(q, x1, q.b), 1)
    <3>1. 0 \in 0..7 /\ 0 # 6 /\ Reg8[0 + 1] = "b" /\ Peek(q, q.pc) = 128 + 8 * i + 0
      BY <1>2, <2>1 DEF Reg8
    <3>2. Accumulator(tick(q), q, Arithmetic(q, 128 + 8 * i + 0, q[Reg8[0 + 1]]), 1)
      BY <2>1, <3>1, TickArithmetic
    <3> QED
      BY <1>2, <3>1, <3>2
  <2>4. Arithmetic(q, x1, q.b) = A
    BY <1>3, <1>4, <2>2 DEF Arithmetic
  <2>5. Modified(tick(q), q, "a", A, 1)
    BY <2>3, <2>4, AccumulatorModified
  <2> QED
    BY <1>1, <1>2, <2>1, <2>5, RegularOpcode
<1>8. ASSUME NEW q, Halfway(s, q, r, k, A.value, A.flags)
      PROVE  Modified(tick(q), q, r, B, k) /\ Regular(q)
  <2>1. Machine(q) /\ Peek(q, q.pc) = \h27
    BY <1>1, <1>2, <1>3, <1>8, TwoBytes
  <2>2. q.f = A.flags /\ q.a = A.value
    BY <1>1, <1>6, <1>8 DEF Halfway
  <2>3. Modified(tick(q), q, "a", decimal_adjust(q.f, q.a), 1)
    <3>1. \h27 \in {\h27, \h2F}
      OBVIOUS
    <3> QED
      BY <2>1, <3>1, TickAdjust
  <2> QED
    BY <1>1, <1>2, <2>1, <2>2, <2>3, RegularOpcode
<1>9. r \in Reg /\ k \in 1..2 /\ p.end = Origin + 2 * k
  BY <1>1, <1>5 DEF Reg, Half
<1> QED
  BY <1>5, <1>7, <1>8, <1>9 DEF Works

\* What the program leaves is the decimal result.
Adjusted(p, s, q) ==
    LET op    == p.code[Origin]
        carry == IF y(op) % 2 = 1 THEN Carry(s.f) ELSE 0
        exact == IF y(op) < 2 THEN Unpacked(s.a) + Unpacked(s.b) + carry
                              ELSE Unpacked(s.a) - Unpacked(s.b) - carry
    IN  /\ Unpacked(q.a) = exact % 100
        /\ "carry" \in q.f <=> exact \notin 0..99
        /\ "zero" \in q.f <=> q.a = 0
LEMMA AdjustsEnds ==
    ASSUME NEW p, NEW s, NEW r, NEW k, NEW A, NEW B, Adjusts(p, s, r, k, A, B),
           Packed(s.a), Packed(s.b), NEW q, NEW off, Halfway(s, q, r, off, B.value, B.flags)
    PROVE  Adjusted(p, s, q) /\ p.kind = "decimal"
<1>1. PICK i \in 0..3 :
        /\ p = Straight("decimal", <<128 + 8 * i, \h27>>, {"b"})
        /\ r = "a" /\ k = 1
        /\ A = Arithmetic(s, 128 + 8 * i, s.b) /\ B = decimal_adjust(A.flags, A.value)
  BY DEF Adjusts
<1> DEFINE op == 128 + 8 * i
           b == <<op, \h27>>
<1>2. y(op) = i /\ op \in Byte /\ \h27 \in Byte /\ b[1] = op /\ b[2] = \h27 /\ Len(b) = 2
  BY IsByte DEF y
<1>3. p = Straight("decimal", b, {"b"})
  BY <1>1
<1>4. A = Arithmetic(s, op, s.b)
  BY <1>1
<1> HIDE DEF b, op
<1>5. p.code[Origin] = op /\ p.kind = "decimal"
  <2>1. (\A x \in 1..2 : b[x] \in Byte) /\ 2 \in 1..8
    BY <1>2
  <2>2. p.kind = "decimal"
    BY <1>2, <1>3, <2>1, StraightProgram
  <2>3. \A x \in 0..7 : x < 2 => p.code[Origin + x] = b[x + 1]
    BY <1>2, <1>3, <2>1, StraightProgram
  <2>4. Origin + 0 = Origin /\ b[0 + 1] = op
    BY <1>2 DEF Origin
  <2>5. p.code[Origin + 0] = b[0 + 1]
    BY <2>3
  <2> QED
    BY <2>2, <2>4, <2>5
<1>6. q.a = B.value /\ q.f = B.flags
  BY <1>1 DEF Halfway, Operand
<1>7. PICK c \in Int : (c = 0 \/ c = 1) /\ c = IF i % 2 = 1 THEN Carry(s.f) ELSE 0
  BY DEF Carry
<1>8. CASE i < 2
  <2>1. A = Sum(s.a, s.b, c)
    <3>1. CASE i = 0
      <4>1. A = add(s.f, s.a, s.b)
        BY <1>4, <1>2, <3>1 DEF Arithmetic
      <4>2. c = 0
        BY <1>7, <3>1
      <4> QED
        BY <4>1, <4>2 DEF add
    <3>2. CASE i = 1
      <4>1. A = add_c(s.f, s.a, s.b)
        BY <1>4, <1>2, <3>2 DEF Arithmetic
      <4>2. c = Carry(s.f)
        BY <1>7, <3>2
      <4> QED
        BY <4>1, <4>2 DEF add_c
    <3> QED
      BY <1>8, <3>1, <3>2
  <2> DEFINE exact == Unpacked(s.a) + Unpacked(s.b) + c
  <2>2. /\ Unpacked(B.value) = exact % 100
        /\ "carry" \in B.flags <=> exact \notin 0..99
        /\ "zero" \in B.flags <=> B.value = 0
    BY <1>1, <1>7, <2>1, DecimalSum
  <2> HIDE DEF exact
  <2>3. exact = Unpacked(s.a) + Unpacked(s.b) + IF y(op) % 2 = 1 THEN Carry(s.f) ELSE 0
    BY <1>2, <1>7 DEF exact
  <2> QED
    BY <1>2, <1>5, <1>6, <1>8, <2>2, <2>3 DEF Adjusted
<1>9. CASE ~(i < 2)
  <2>1. A = Difference(s.a, s.b, c)
    <3>1. CASE i = 2
      <4>1. A = subtract(s.f, s.a, s.b)
        BY <1>4, <1>2, <3>1 DEF Arithmetic
      <4>2. c = 0
        BY <1>7, <3>1
      <4> QED
        BY <4>1, <4>2 DEF subtract
    <3>2. CASE i = 3
      <4>1. A = subtract_c(s.f, s.a, s.b)
        BY <1>4, <1>2, <3>2 DEF Arithmetic
      <4>2. c = Carry(s.f)
        BY <1>7, <3>2
      <4> QED
        BY <4>1, <4>2 DEF subtract_c
    <3> QED
      BY <1>9, <3>1, <3>2
  <2> DEFINE exact == Unpacked(s.a) - Unpacked(s.b) - c
  <2>2. /\ Unpacked(B.value) = exact % 100
        /\ "carry" \in B.flags <=> exact \notin 0..99
        /\ "zero" \in B.flags <=> B.value = 0
    BY <1>1, <1>7, <2>1, DecimalDifference
  <2> HIDE DEF exact
  <2>3. exact = Unpacked(s.a) - Unpacked(s.b) - IF y(op) % 2 = 1 THEN Carry(s.f) ELSE 0
    BY <1>2, <1>7 DEF exact
  <2> QED
    BY <1>2, <1>5, <1>6, <1>9, <2>2, <2>3 DEF Adjusted
<1> QED
  BY <1>8, <1>9

-----------------------------------------------------------------------------
(* Programs of WIDE arithmetic. *)

\* q is off bytes behind the start of the program, with the registers of s but for S and
\* the memory of s but for D.
At(s, q, D, off, S) ==
    /\ Holding(s, q, D)
    /\ q.pc = Origin + off
    /\ \A x \in Registers \ S : q[x] = s[x]

LEMMA AtSame ==
    ASSUME NEW c, NEW s, Ready(c, s), NEW D, NEW q, NEW off, NEW S, At(s, q, D, off, S),
           NEW n, Same(n, q)
    PROVE  /\ At(s, n, D, off, S)
           /\ \A x \in Registers : n[x] = q[x]
           /\ \A x : Guarded(x) => Peek(n, x) = Peek(q, x)
<1>1. Holding(s, n, D) /\ \A x : Guarded(x) => Peek(n, x) = Peek(q, x)
  BY HoldingSame DEF At
<1>2. \A x \in Registers \cup {"pc"} : n[x] = q[x]
  BY DEF Same
<1> QED
  BY <1>1, <1>2 DEF At
LEMMA OffsetStep ==
    ASSUME NEW q, NEW off \in 0..16, q.pc = Origin + off, NEW k \in 0..8
    PROVE  After(q.pc, k) = Origin + (off + k) /\ q.pc \in Word
<1>1. Origin = 49152
  BY DEF Origin
<1>2. q.pc \in Word /\ q.pc + k < 65536 /\ k \in Nat
  BY <1>1, IsWord
<1> QED
  BY <1>1, <1>2, AfterSum
LEMMA AtStep ==
    ASSUME NEW s, NEW D, NEW q, NEW off \in 0..16, NEW S, At(s, q, D, off, S),
           NEW t, NEW C, NEW k \in 0..8, Changed(t, q, C, k), "mem" \notin C, SafeSp(t.sp),
           \A x \in C : x \in Registers => x \in S
    PROVE  At(s, t, D, off + k, S) /\ \A x : Peek(t, x) = Peek(q, x)
<1>1. Holding(s, t, D) /\ \A x : Peek(t, x) = Peek(q, x)
  BY ChangedHolding DEF At
<1>2. t.pc = Origin + (off + k)
  BY OffsetStep DEF At, Changed
<1>3. \A x \in Registers \ S : t[x] = s[x]
  <2>1. \A x \in Registers \ C : t[x] = q[x]
    BY DEF Changed, Keeps, Fields, Ticked, Registers
  <2> QED
    BY <2>1 DEF At
<1> QED
  BY <1>1, <1>2, <1>3 DEF At
LEMMA AtCode ==
    ASSUME NEW c, NEW s, Ready(c, s), NEW D, \A x \in D : x \notin DOMAIN c, NEW q,
           NEW off \in 0..7, NEW S, At(s, q, D, off, S), Origin + off \in DOMAIN c
    PROVE  Machine(q) /\ Peek(q, q.pc) = c[Origin + off]
<1>1. Holding(s, q, D) /\ q.pc = Origin + off
  BY DEF At
<1>2. Peek(q, q.pc) = c[Origin + off]
  BY <1>1, NextByte
<1> QED
  BY <1>1, <1>2 DEF Holding
LEMMA AtOperand ==
    ASSUME NEW c, NEW s, Ready(c, s), NEW D, \A x \in D : x \notin DOMAIN c, NEW q,
           NEW off \in 0..6, NEW S, At(s, q, D, off, S), NEW i \in 1..7, off + i < 8,
           Origin + (off + i) \in DOMAIN c
    PROVE  Peek(q, After(q.pc, i)) = c[Origin + (off + i)]
<1>1. Holding(s, q, D) /\ q.pc = Origin + off
  BY DEF At
<1> QED
  BY <1>1, SecondByte
LEMMA AtSafe ==
    ASSUME NEW c, NEW s, Ready(c, s), NEW D, NEW q, NEW off, NEW S, At(s, q, D, off, S),
           "sp" \notin S
    PROVE  q.sp = \hDF00 /\ SafeSp(q.sp)
  BY DEF At, Registers, SafeSp, Ready
LEMMA AtChange ==
    ASSUME NEW c, NEW s, Ready(c, s), NEW D, NEW q, NEW off \in 0..16, NEW S,
           At(s, q, D, off, S), "sp" \notin S, NEW t, NEW C, NEW k \in 0..8,
           Changed(t, q, C, k), "mem" \notin C,
           \A x \in C : x \in Registers => x \in S
    PROVE  At(s, t, D, off + k, S)
<1>1. t.sp = q.sp
  BY DEF Changed, Keeps, Fields, Ticked, Registers
<1>2. SafeSp(t.sp)
  BY <1>1, AtSafe
<1> QED
  BY <1>2, AtStep, Zenon
LEMMA AtRestored ==
    ASSUME NEW p, NEW s, NEW q, NEW off, NEW S, At(s, q, {}, off, S),
           p.keeps \cap S = {}, "carry" \notin p.keeps
    PROVE  Restored(p, s, q)
<1>1. \A x \in DOMAIN s.mem : q.mem[x] = s.mem[x]
  BY HoldingMemory DEF At
<1> QED
  BY <1>1 DEF At, Restored

\* A word by its bytes.
LEMMA SplitWord ==
    ASSUME NEW h \in Byte, NEW l \in Byte
    PROVE  /\ word(h, l) = 256 * h + l /\ word(h, l) \in Word
           /\ word(h, l) % 4096 = 256 * (h % 16) + l /\ word(h, l) % 65536 = word(h, l)
<1>1. h \in Int /\ 0 <= h /\ h <= 255 /\ l \in Int /\ 0 <= l /\ l <= 255
  BY IsByte
<1>2. PICK n \in Int, i \in Int : h = 16 * n + i /\ 0 <= i /\ i <= 15
  <2>1. h = 16 * (h \div 16) + (h % 16) /\ 0 <= h % 16 /\ h % 16 <= 15
        /\ h \div 16 \in Int /\ h % 16 \in Int
    BY <1>1
  <2> QED
    BY <2>1
<1>3. h % 16 = i /\ (256 * h + l) % 4096 = 256 * i + l
  <2>1. h % 16 = i
    BY <1>1, <1>2
  <2>2. 256 * h + l = 4096 * n + (256 * i + l) /\ 0 <= 256 * i + l /\ 256 * i + l < 4096
    BY <1>1, <1>2
  <2>3. (256 * h + l) % 4096 = 256 * i + l
    BY <1>1, <1>2, <2>2
  <2> QED
    BY <2>1, <2>3
<1>4. 256 * h + l \in Int /\ 0 <= 256 * h + l /\ 256 * h + l <= 65535
  BY <1>1
<1>5. (256 * h + l) % 65536 = 256 * h + l
  BY <1>4
<1> QED
  BY <1>3, <1>4, <1>5, IsWord DEF word

LEMMA WideSum ==
    ASSUME NEW h \in Byte, NEW l \in Byte, NEW b \in Byte, NEW c \in Byte, NEW F
    PROVE  LET low  == Sum(l, c, 0)
               high == Sum(h, b, Carry(low.flags))
               sum  == add16(F, word(h, l), word(b, c))
           IN  /\ word(high.value, low.value) = sum.value
               /\ {"carry", "half_carry"} \cap high.flags = sum.flags \ {"zero"}
<1> DEFINE low == Sum(l, c, 0)
           n == Carry(low.flags)
           high == Sum(h, b, n)
           sum == add16(F, word(h, l), word(b, c))
<1>1. /\ h \in Int /\ 0 <= h /\ h <= 255 /\ l \in Int /\ 0 <= l /\ l <= 255
      /\ b \in Int /\ 0 <= b /\ b <= 255 /\ c \in Int /\ 0 <= c /\ c <= 255
  BY IsByte
<1>2. low.value = (l + c) % 256 /\ n = IF l + c > 255 THEN 1 ELSE 0
  <2>1. low.value = (l + c + 0) % 256
    BY DEF Sum, Result
  <2>2. "carry" \in low.flags <=> l + c + 0 > 255
    BY DEF Sum, Result, Zero, When
  <2> QED
    BY <1>1, <2>1, <2>2 DEF Carry
<1>3. n \in Int /\ (n = 0 \/ n = 1)
  BY <1>2
<1> HIDE DEF low, n
<1>4. /\ high.value = (h + b + n) % 256
      /\ high.flags = Zero(high.value) \cup When("half_carry", (h % 16) + (b % 16) + n > 15)
                      \cup When("carry", h + b + n > 255)
  BY DEF Sum, Result
<1>5. /\ sum.value = (word(h, l) + word(b, c)) % 65536
      /\ sum.flags = (F \cap {"zero"})
                     \cup When("half_carry", (word(h, l) % 4096) + (word(b, c) % 4096) >= 4096)
                     \cup When("carry", (word(h, l) % 65536) + (word(b, c) % 65536) >= 65536)
  BY DEF add16, Result, CarryAt
<1>6. /\ word(h, l) = 256 * h + l /\ word(h, l) % 4096 = 256 * (h % 16) + l
      /\ word(h, l) % 65536 = 256 * h + l
  BY SplitWord
<1>7. /\ word(b, c) = 256 * b + c /\ word(b, c) % 4096 = 256 * (b % 16) + c
      /\ word(b, c) % 65536 = 256 * b + c
  BY SplitWord
<1> HIDE DEF high, sum
<1>8. h + b + n > 255 <=> (256 * h + l) + (256 * b + c) >= 65536
  BY <1>1, <1>2, <1>3
<1>9. (h % 16) + (b % 16) + n > 15 <=> (256 * (h % 16) + l) + (256 * (b % 16) + c) >= 4096
  <2>1. PICK i \in Int, j \in Int : i = h % 16 /\ j = b % 16
    BY <1>1
  <2>2. i + j + n > 15 <=> (256 * i + l) + (256 * j + c) >= 4096
    BY <1>1, <1>2, <1>3, <2>1
  <2> QED
    BY <2>1, <2>2
<1>10. 256 * ((h + b + n) % 256) + ((l + c) % 256) = ((256 * h + l) + (256 * b + c)) % 65536
  <2>1. (l + c) % 256 = l + c - 256 * n
    BY <1>1, <1>2, <1>3
  <2>2. CASE h + b + n > 255
    <3>1. (h + b + n) % 256 = h + b + n - 256
      BY <1>1, <1>3, <2>2
    <3>2. ((256 * h + l) + (256 * b + c)) % 65536 = (256 * h + l) + (256 * b + c) - 65536
      BY <1>1, <1>3, <1>8, <2>2
    <3> QED
      BY <1>1, <1>3, <2>1, <3>1, <3>2
  <2>3. CASE ~(h + b + n > 255)
    <3>1. (h + b + n) % 256 = h + b + n
      BY <1>1, <1>3, <2>3
    <3>2. ((256 * h + l) + (256 * b + c)) % 65536 = (256 * h + l) + (256 * b + c)
      BY <1>1, <1>3, <1>8, <2>3
    <3> QED
      BY <1>1, <1>3, <2>1, <3>1, <3>2
  <2> QED
    BY <2>2, <2>3
<1>11. word(high.value, low.value) = sum.value
  BY <1>2, <1>4, <1>5, <1>6, <1>7, <1>10 DEF word
<1>12. {"carry", "half_carry"} \cap high.flags = sum.flags \ {"zero"}
  BY <1>4, <1>5, <1>6, <1>7, <1>8, <1>9 DEF Zero, When
<1> QED
  BY <1>11, <1>12 DEF high, sum, n, low

LEMMA WideDifference ==
    ASSUME NEW h \in Byte, NEW l \in Byte, NEW b \in Byte, NEW c \in Byte
    PROVE  LET low  == Difference(l, c, 0)
               high == Difference(h, b, Carry(low.flags))
           IN  /\ word(high.value, low.value) = (word(h, l) - word(b, c)) % 65536
               /\ "carry" \in high.flags <=> word(h, l) < word(b, c)
<1> DEFINE low == Difference(l, c, 0)
           n == Carry(low.flags)
           high == Difference(h, b, n)
<1>1. /\ h \in Int /\ 0 <= h /\ h <= 255 /\ l \in Int /\ 0 <= l /\ l <= 255
      /\ b \in Int /\ 0 <= b /\ b <= 255 /\ c \in Int /\ 0 <= c /\ c <= 255
  BY IsByte
<1>2. low.value = (l - c) % 256 /\ n = IF l - c < 0 THEN 1 ELSE 0
  <2>1. low.value = (l - c - 0) % 256
    BY DEF Difference, Result
  <2>2. "carry" \in low.flags <=> l - c - 0 < 0
    BY DEF Difference, Result, Zero, When
  <2> QED
    BY <1>1, <2>1, <2>2 DEF Carry
<1>3. n \in Int /\ (n = 0 \/ n = 1)
  BY <1>2
<1> HIDE DEF low, n
<1>4. high.value = (h - b - n) % 256 /\ ("carry" \in high.flags <=> h - b - n < 0)
  BY DEF Difference, Result, Zero, When
<1>5. word(h, l) = 256 * h + l /\ word(b, c) = 256 * b + c
  BY DEF word
<1> HIDE DEF high
<1>6. h - b - n < 0 <=> 256 * h + l < 256 * b + c
  BY <1>1, <1>2, <1>3
<1>7. 256 * ((h - b - n) % 256) + ((l - c) % 256) = ((256 * h + l) - (256 * b + c)) % 65536
  <2>1. (l - c) % 256 = l - c + 256 * n
    BY <1>1, <1>2, <1>3
  <2>2. CASE h - b - n < 0
    <3>1. (h - b - n) % 256 = h - b - n + 256
      BY <1>1, <1>3, <2>2
    <3>2. ((256 * h + l) - (256 * b + c)) % 65536 = (256 * h + l) - (256 * b + c) + 65536
      BY <1>1, <1>3, <1>6, <2>2
    <3> QED
      BY <1>1, <1>3, <2>1, <3>1, <3>2
  <2>3. CASE ~(h - b - n < 0)
    <3>1. (h - b - n) % 256 = h - b - n
      BY <1>1, <1>3, <2>3
    <3>2. ((256 * h + l) - (256 * b + c)) % 65536 = (256 * h + l) - (256 * b + c)
      BY <1>1, <1>3, <1>6, <2>3
    <3> QED
      BY <1>1, <1>3, <2>1, <3>1, <3>2
  <2> QED
    BY <2>2, <2>3
<1>8. word(high.value, low.value) = (word(h, l) - word(b, c)) % 65536
  BY <1>2, <1>4, <1>5, <1>7 DEF word
<1> QED
  BY <1>4, <1>5, <1>6, <1>8 DEF high, n, low

\* The two programs of Wide, on the results of their two bytes.
WideBytes(k) == <<\h7D, \h81 + 16 * k, \h6F, \h7C, \h88 + 16 * k, \h67>>
LowResult(s, k) == IF k = 0 THEN Sum(s.l, s.c, 0) ELSE Difference(s.l, s.c, 0)
HighResult(s, k) ==
    IF k = 0 THEN Sum(s.h, s.b, Carry(LowResult(s, k).flags))
             ELSE Difference(s.h, s.b, Carry(LowResult(s, k).flags))
Changes == {"a", "f", "h", "l"}
WideAt(s, q, off, k) ==
    /\ At(s, q, {}, off, Changes)
    /\ off < 6 => q.h = s.h
    /\ q.l = IF off < 3 THEN s.l ELSE LowResult(s, k).value
    /\ off = 1 => q.a = s.l
    /\ off = 2 => q.a = LowResult(s, k).value
    /\ off \in {2, 3, 4} => q.f = LowResult(s, k).flags
    /\ off = 4 => q.a = s.h
    /\ off = 5 => q.a = HighResult(s, k).value
    /\ off \in {5, 6} => q.f = HighResult(s, k).flags
    /\ off = 6 => q.h = HighResult(s, k).value
WideProgram(p, k) == p = Straight("wide", WideBytes(k), {"b", "c"})

LEMMA WideCode ==
    ASSUME NEW p, NEW k \in 0..1, WideProgram(p, k)
    PROVE  /\ p.kind = "wide" /\ p.keeps = {"b", "c"} /\ p.end = Origin + 6
           /\ HasHandler(p.code) /\ Loadable(p.code)
           /\ \A i \in 0..5 : Origin + i \in DOMAIN p.code
           /\ p.code[Origin + 0] = \h7D /\ p.code[Origin + 1] = \h81 + 16 * k
           /\ p.code[Origin + 2] = \h6F /\ p.code[Origin + 3] = \h7C
           /\ p.code[Origin + 4] = \h88 + 16 * k /\ p.code[Origin + 5] = \h67
<1> DEFINE b == WideBytes(k)
<1>1. /\ b[1] = \h7D /\ b[2] = \h81 + 16 * k /\ b[3] = \h6F /\ b[4] = \h7C
      /\ b[5] = \h88 + 16 * k /\ b[6] = \h67 /\ Len(b) = 6
  BY DEF WideBytes
<1>2. p = Straight("wide", b, {"b", "c"})
  BY DEF WideProgram
<1> HIDE DEF b
<1>3. \A i \in 1..6 : b[i] \in Byte
  <2>1. /\ \h7D \in Byte /\ \h81 + 16 * k \in Byte /\ \h6F \in Byte /\ \h7C \in Byte
        /\ \h88 + 16 * k \in Byte /\ \h67 \in Byte
    BY IsByte
  <2> QED
    BY <1>1, <2>1
<1>4. 6 \in 1..8
  OBVIOUS
<1>5. /\ p.kind = "wide" /\ p.keeps = {"b", "c"} /\ p.end = Origin + 6
      /\ HasHandler(p.code) /\ Loadable(p.code)
  BY <1>1, <1>2, <1>3, <1>4, StraightProgram
<1>6. \A i \in 0..7 : i < 6 => Origin + i \in DOMAIN p.code /\ p.code[Origin + i] = b[i + 1]
  BY <1>1, <1>2, <1>3, <1>4, StraightProgram
<1>7. \A i \in 0..5 : Origin + i \in DOMAIN p.code
  BY <1>6
<1>8. /\ p.code[Origin + 0] = b[0 + 1] /\ p.code[Origin + 1] = b[1 + 1]
      /\ p.code[Origin + 2] = b[2 + 1] /\ p.code[Origin + 3] = b[3 + 1]
      /\ p.code[Origin + 4] = b[4 + 1] /\ p.code[Origin + 5] = b[5 + 1]
  BY <1>6
<1> QED
  BY <1>1, <1>5, <1>7, <1>8

LEMMA WideSame ==
    ASSUME NEW c, NEW s, Ready(c, s), NEW k, NEW off, NEW q, WideAt(s, q, off, k),
           NEW n, Same(n, q)
    PROVE  WideAt(s, n, off, k)
<1>1. At(s, n, {}, off, Changes)
  BY AtSame DEF WideAt
<1>2. n.h = q.h /\ n.l = q.l /\ n.a = q.a /\ n.f = q.f
  BY DEF Same, Registers
<1> QED
  BY <1>1, <1>2 DEF WideAt

LEMMA WideSteps ==
    ASSUME NEW p, NEW k \in 0..1, WideProgram(p, k), NEW s, Ready(p.code, s),
           NEW off \in 0..5, NEW q, WideAt(s, q, off, k)
    PROVE  WideAt(s, tick(q), off + 1, k) /\ Regular(q)
<1> DEFINE t == tick(q)
<1>1. Machine(q) /\ Peek(q, q.pc) = p.code[Origin + off]
  <2>1. off \in 0..7 /\ Origin + off \in DOMAIN p.code /\ At(s, q, {}, off, Changes)
    BY WideCode DEF WideAt
  <2> QED
    BY <2>1, AtCode, Zenon
<1>2. ASSUME NEW C, Changed(t, q, C, 1), C \subseteq Changes
      PROVE  At(s, t, {}, off + 1, Changes)
  <2>1. off \in 0..16 /\ 1 \in 0..8
    OBVIOUS
  <2>2. "sp" \notin Changes /\ "mem" \notin C /\ \A x \in C : x \in Registers => x \in Changes
    BY <1>2 DEF Changes
  <2>3. At(s, q, {}, off, Changes)
    BY DEF WideAt
  <2> QED
    BY <1>2, <2>1, <2>2, <2>3, AtChange, Zenon
<1>3. ASSUME NEW C, Changed(t, q, C, 1)
      PROVE  \A x \in Registers \ C : t[x] = q[x]
  BY <1>3 DEF Changed, Keeps, Fields, Ticked, Registers
<1>4. q.b = s.b /\ q.c = s.c
  BY DEF WideAt, At, Registers, Changes
<1>5. \A i \in 0..7, j \in 0..7 :
        i # 6 /\ j # 6 /\ Peek(q, q.pc) = 64 + 8 * i + j =>
          Changed(t, q, {Reg8[i + 1]}, 1) /\ t[Reg8[i + 1]] = q[Reg8[j + 1]]
  BY <1>1, TickLoad, Zenon
<1>6. \A i \in 0..3, j \in 0..7 :
        j # 6 /\ Peek(q, q.pc) = 128 + 8 * i + j =>
          Accumulator(t, q, Arithmetic(q, 128 + 8 * i + j, q[Reg8[j + 1]]), 1)
  BY <1>1, TickArithmetic
<1>7. Regular(q)
  <2>1. p.code[Origin + off] \notin Undefined \cup {\h10, \hCB}
    BY WideCode DEF Undefined
  <2> QED
    BY <1>1, <2>1, RegularOpcode
<1> HIDE DEF t
<1>8. CASE off \in {0, 3}
  <2> DEFINE j == IF off = 0 THEN 5 ELSE 4
  <2>1. Peek(q, q.pc) = 64 + 8 * 7 + j /\ 7 \in 0..7 /\ j \in 0..7 /\ j # 6
    BY <1>1, <1>8, WideCode
  <2>2. Reg8[7 + 1] = "a" /\ Reg8[j + 1] = IF off = 0 THEN "l" ELSE "h"
    BY DEF Reg8
  <2> HIDE DEF j
  <2>3. Changed(t, q, {Reg8[7 + 1]}, 1) /\ t[Reg8[7 + 1]] = q[Reg8[j + 1]]
    BY <1>5, <2>1
  <2>4. Changed(t, q, {"a"}, 1) /\ t.a = IF off = 0 THEN q.l ELSE q.h
    BY <2>2, <2>3
  <2>5. At(s, t, {}, off + 1, Changes)
    BY <1>2, <2>4 DEF Changes
  <2>6. t.h = q.h /\ t.l = q.l /\ t.f = q.f
    BY <1>3, <2>4 DEF Registers
  <2>7. WideAt(s, t, off + 1, k)
    BY <1>8, <2>4, <2>5, <2>6 DEF WideAt
  <2> QED
    BY <1>7, <2>7 DEF t
<1>9. CASE off = 2
  <2>1. Peek(q, q.pc) = 64 + 8 * 5 + 7 /\ 5 \in 0..7 /\ 7 \in 0..7 /\ 7 # 6 /\ 5 # 6
    BY <1>1, <1>9, WideCode
  <2>2. Reg8[5 + 1] = "l" /\ Reg8[7 + 1] = "a"
    BY DEF Reg8
  <2>3. Changed(t, q, {Reg8[5 + 1]}, 1) /\ t[Reg8[5 + 1]] = q[Reg8[7 + 1]]
    BY <1>5, <2>1
  <2>4. Changed(t, q, {"l"}, 1) /\ t.l = q.a
    BY <2>2, <2>3
  <2>5. At(s, t, {}, off + 1, Changes)
    BY <1>2, <2>4 DEF Changes
  <2>6. t.h = q.h /\ t.f = q.f
    BY <1>3, <2>4 DEF Registers
  <2>7. WideAt(s, t, off + 1, k)
    BY <1>9, <2>4, <2>5, <2>6 DEF WideAt
  <2> QED
    BY <1>7, <2>7 DEF t
<1>10. CASE off = 5
  <2>1. Peek(q, q.pc) = 64 + 8 * 4 + 7 /\ 4 \in 0..7 /\ 7 \in 0..7 /\ 7 # 6 /\ 4 # 6
    BY <1>1, <1>10, WideCode
  <2>2. Reg8[4 + 1] = "h" /\ Reg8[7 + 1] = "a"
    BY DEF Reg8
  <2>3. Changed(t, q, {Reg8[4 + 1]}, 1) /\ t[Reg8[4 + 1]] = q[Reg8[7 + 1]]
    BY <1>5, <2>1
  <2>4. Changed(t, q, {"h"}, 1) /\ t.h = q.a
    BY <2>2, <2>3
  <2>5. At(s, t, {}, off + 1, Changes)
    BY <1>2, <2>4 DEF Changes
  <2>6. t.l = q.l /\ t.f = q.f
    BY <1>3, <2>4 DEF Registers
  <2>7. WideAt(s, t, off + 1, k)
    BY <1>10, <2>4, <2>5, <2>6 DEF WideAt
  <2> QED
    BY <1>7, <2>7 DEF t
<1>11. CASE off = 1
  <2> DEFINE op == 128 + 8 * (2 * k) + 1
  <2>1. Peek(q, q.pc) = op /\ 2 * k \in 0..3 /\ 1 \in 0..7 /\ 1 # 6
    BY <1>1, <1>11, WideCode
  <2>2. Reg8[1 + 1] = "c" /\ y(op) = 2 * k
    BY DEF Reg8, y
  <2>3. Accumulator(t, q, Arithmetic(q, op, q[Reg8[1 + 1]]), 1)
    BY <1>6, <2>1
  <2> HIDE DEF op
  <2>4. Arithmetic(q, op, q.c) = LowResult(s, k)
    <3>1. q.a = s.l
      BY <1>11 DEF WideAt
    <3>2. CASE k = 0
      <4>1. Arithmetic(q, op, q.c) = add(q.f, q.a, q.c)
        BY <2>2, <3>2 DEF Arithmetic
      <4> QED
        BY <1>4, <3>1, <3>2, <4>1 DEF add, LowResult
    <3>3. CASE k = 1
      <4>1. Arithmetic(q, op, q.c) = subtract(q.f, q.a, q.c)
        BY <2>2, <3>3 DEF Arithmetic
      <4> QED
        BY <1>4, <3>1, <3>3, <4>1 DEF subtract, LowResult
    <3> QED
      BY <3>2, <3>3
  <2>5. /\ Changed(t, q, {"a", "f"}, 1)
        /\ t.a = LowResult(s, k).value /\ t.f = LowResult(s, k).flags
    BY <2>2, <2>3, <2>4 DEF Accumulator
  <2>6. At(s, t, {}, off + 1, Changes)
    BY <1>2, <2>5 DEF Changes
  <2>7. t.h = q.h /\ t.l = q.l
    BY <1>3, <2>5 DEF Registers
  <2>8. WideAt(s, t, off + 1, k)
    BY <1>11, <2>5, <2>6, <2>7 DEF WideAt
  <2> QED
    BY <1>7, <2>8 DEF t
<1>12. CASE off = 4
  <2> DEFINE op == 128 + 8 * (2 * k + 1) + 0
  <2>1. Peek(q, q.pc) = op /\ 2 * k + 1 \in 0..3 /\ 0 \in 0..7 /\ 0 # 6
    BY <1>1, <1>12, WideCode
  <2>2. Reg8[0 + 1] = "b" /\ y(op) = 2 * k + 1
    BY DEF Reg8, y
  <2>3. Accumulator(t, q, Arithmetic(q, op, q[Reg8[0 + 1]]), 1)
    BY <1>6, <2>1
  <2> HIDE DEF op
  <2>4. Arithmetic(q, op, q.b) = HighResult(s, k)
    <3>1. q.a = s.h /\ q.f = LowResult(s, k).flags
      BY <1>12 DEF WideAt
    <3>2. CASE k = 0
      <4>1. Arithmetic(q, op, q.b) = add_c(q.f, q.a, q.b)
        BY <2>2, <3>2 DEF Arithmetic
      <4> QED
        BY <1>4, <3>1, <3>2, <4>1 DEF add_c, HighResult
    <3>3. CASE k = 1
      <4>1. Arithmetic(q, op, q.b) = subtract_c(q.f, q.a, q.b)
        BY <2>2, <3>3 DEF Arithmetic
      <4> QED
        BY <1>4, <3>1, <3>3, <4>1 DEF subtract_c, HighResult
    <3> QED
      BY <3>2, <3>3
  <2>5. /\ Changed(t, q, {"a", "f"}, 1)
        /\ t.a = HighResult(s, k).value /\ t.f = HighResult(s, k).flags
    BY <2>2, <2>3, <2>4 DEF Accumulator
  <2>6. At(s, t, {}, off + 1, Changes)
    BY <1>2, <2>5 DEF Changes
  <2>7. t.h = q.h /\ t.l = q.l
    BY <1>3, <2>5 DEF Registers
  <2>8. WideAt(s, t, off + 1, k)
    BY <1>12, <2>5, <2>6, <2>7 DEF WideAt
  <2> QED
    BY <1>7, <2>8 DEF t
<1> QED
  BY <1>8, <1>9, <1>10, <1>11, <1>12

\* What the program leaves is the 16-bit result.
Widened(p, s, q) ==
    LET hl == value(s, "hl")
        bc == value(s, "bc")
        sum == add16(s.f, hl, bc)
    IN  IF p.code[Origin + 1] = \h81
        THEN /\ value(q, "hl") = sum.value
             /\ {"carry", "half_carry"} \cap q.f = sum.flags \ {"zero"}
        ELSE /\ value(q, "hl") = (hl - bc) % 65536
             /\ "carry" \in q.f <=> hl < bc
LEMMA WideEnds ==
    ASSUME NEW p, NEW k \in 0..1, WideProgram(p, k), NEW s, Machine(s), NEW q, WideAt(s, q, 6, k)
    PROVE  Widened(p, s, q)
<1>1. s.h \in Byte /\ s.l \in Byte /\ s.b \in Byte /\ s.c \in Byte
  BY DEF Machine, Half
<1>2. value(s, "hl") = word(s.h, s.l) /\ value(s, "bc") = word(s.b, s.c)
      /\ value(q, "hl") = word(q.h, q.l)
  BY DEF value
<1>3. /\ q.h = HighResult(s, k).value /\ q.l = LowResult(s, k).value
      /\ q.f = HighResult(s, k).flags
  BY DEF WideAt
<1>4. p.code[Origin + 1] = \h81 + 16 * k
  BY WideCode
<1>5. CASE k = 0
  <2>1. LowResult(s, k) = Sum(s.l, s.c, 0)
    BY <1>5 DEF LowResult
  <2>2. HighResult(s, k) = Sum(s.h, s.b, Carry(Sum(s.l, s.c, 0).flags))
    BY <1>5, <2>1 DEF HighResult
  <2>3. /\ word(q.h, q.l) = add16(s.f, word(s.h, s.l), word(s.b, s.c)).value
        /\ {"carry", "half_carry"} \cap q.f
             = add16(s.f, word(s.h, s.l), word(s.b, s.c)).flags \ {"zero"}
    BY <1>1, <1>3, <2>1, <2>2, WideSum
  <2> QED
    BY <1>2, <1>4, <1>5, <2>3 DEF Widened
<1>6. CASE k = 1
  <2>1. LowResult(s, k) = Difference(s.l, s.c, 0)
    BY <1>6 DEF LowResult
  <2>2. HighResult(s, k) = Difference(s.h, s.b, Carry(Difference(s.l, s.c, 0).flags))
    BY <1>6, <2>1 DEF HighResult
  <2>3. /\ word(q.h, q.l) = (word(s.h, s.l) - word(s.b, s.c)) % 65536
        /\ "carry" \in q.f <=> word(s.h, s.l) < word(s.b, s.c)
    <3> DEFINE low  == Difference(s.l, s.c, 0)
               high == Difference(s.h, s.b, Carry(low.flags))
    <3>1. word(high.value, low.value) = (word(s.h, s.l) - word(s.b, s.c)) % 65536
      BY ONLY <1>1, WideDifference, SMTT(30)
    <3>2. "carry" \in high.flags <=> word(s.h, s.l) < word(s.b, s.c)
      BY ONLY <1>1, WideDifference, SMTT(30)
    <3>3. q.h = high.value /\ q.l = low.value /\ q.f = high.flags
      BY <1>3, <2>1, <2>2
    <3> HIDE DEF low, high
    <3> QED
      BY <3>1, <3>2, <3>3
  <2> QED
    BY <1>2, <1>4, <1>6, <2>3 DEF Widened
<1> QED
  BY <1>5, <1>6

-----------------------------------------------------------------------------
(* Programs on the STACK and the pairs of registers. *)

\* The word v is on top of the stack that begins at 0xDF00.
OnStack(q, v) ==
    /\ q.sp = \hDEFE
    /\ Peek(q, \hDEFF) = v \div 256 /\ Peek(q, \hDEFE) = v % 256
LEMMA OnStackSame ==
    ASSUME NEW q, NEW v, OnStack(q, v), NEW n, Same(n, q)
    PROVE  OnStack(n, v)
<1>1. n.sp = q.sp
  BY DEF Same, Registers
<1>2. q.sp = 57086
  BY DEF OnStack
<1>3. /\ Down(57086, 1) = 57085 /\ Down(57086, 2) = 57084 /\ Down(57086, 3) = 57083
      /\ Down(57086, 4) = 57082 /\ Down(57086, 5) = 57081 /\ Down(57086, 6) = 57080
  BY DEF Down
<1>4. \hDEFF \notin Below(q.sp) /\ \hDEFE \notin Below(q.sp)
  BY <1>2, <1>3 DEF Below
<1> QED
  BY <1>1, <1>4 DEF OnStack, Same, Stored

LEMMA PushedOnStack ==
    ASSUME NEW c, NEW s, Ready(c, s), NEW D, NEW q, Holding(s, q, D), q.sp = s.sp,
           NEW v, NEW t, Pushed(t, q, v)
    PROVE  Holding(s, t, D) /\ OnStack(t, v)
<1>1. q.sp = 57088
  BY DEF Ready
<1>2. Down(57088, 1) = 57087 /\ Down(57088, 2) = 57086
  BY DEF Down
<1>3. /\ t.sp = 57086 /\ Stored(t, q, {57087, 57086})
      /\ Peek(t, 57087) = v \div 256 /\ Peek(t, 57086) = v % 256
  <2>1. Down(q.sp, 1) = 57087 /\ Down(q.sp, 2) = 57086
    BY <1>1, <1>2
  <2>2. /\ t.sp = Down(q.sp, 2) /\ Stored(t, q, {Down(q.sp, 1), Down(q.sp, 2)})
        /\ Peek(t, Down(q.sp, 1)) = v \div 256 /\ Peek(t, Down(q.sp, 2)) = v % 256
    BY DEF Pushed
  <2>3. t.sp = 57086 /\ Stored(t, q, {57087, 57086})
    BY ONLY <2>1, <2>2, SMTT(60)
  <2>4. Peek(t, 57087) = v \div 256 /\ Peek(t, 57086) = v % 256
    BY ONLY <2>1, <2>2, SMTT(60)
  <2> QED
    BY <2>3, <2>4
<1>4. \A x \in {57087, 57086} : x \notin DOMAIN s.mem
  <2>1. ~Guarded(57087) /\ ~Guarded(57086)
    BY DEF Guarded
  <2> QED
    BY <2>1 DEF Ready
<1>5. Machine(t) /\ SafeSp(t.sp)
  BY <1>3 DEF Pushed, SafeSp
<1>6. Holding(s, t, D)
  BY <1>3, <1>4, <1>5, HoldingStep
<1> QED
  BY <1>3, <1>6 DEF OnStack

\* What a pop finds.
LEMMA FoundOnStack ==
    ASSUME NEW q, NEW v, OnStack(q, v)
    PROVE  /\ After(q.sp, 2) = \hDF00 /\ Peek(q, After(q.sp, 1)) = v \div 256
           /\ Peek(q, q.sp) = v % 256
<1>1. After(57086, 2) = 57088 /\ After(57086, 1) = 57087
  BY DEF After
<1> QED
  BY <1>1 DEF OnStack

\* Two machines that agree on the value of a pair agree on its halves.
LEMMA SamePair ==
    ASSUME NEW q, Machine(q), NEW t, Machine(t), NEW r \in {"bc", "de", "hl"},
           value(t, r) = value(q, r)
    PROVE  \A x \in Halves(r) : t[x] = q[x]
<1>1. \A i, j, k, n \in Byte : word(i, j) = word(k, n) => i = k /\ j = n
  <2> SUFFICES ASSUME NEW i \in Byte, NEW j \in Byte, NEW k \in Byte, NEW n \in Byte,
                      word(i, j) = word(k, n)
               PROVE  i = k /\ j = n
    OBVIOUS
  <2>1. word(i, j) \div 256 = i /\ word(i, j) % 256 = j
    BY WordOfBytes
  <2>2. word(k, n) \div 256 = k /\ word(k, n) % 256 = n
    BY WordOfBytes
  <2> QED
    BY <2>1, <2>2
<1>2. \A x \in Half : t[x] \in Byte /\ q[x] \in Byte
  BY Zenon DEF Machine
<1>3. /\ q.b \in Byte /\ q.c \in Byte /\ q.d \in Byte /\ q.e \in Byte
      /\ q.h \in Byte /\ q.l \in Byte
      /\ t.b \in Byte /\ t.c \in Byte /\ t.d \in Byte /\ t.e \in Byte
      /\ t.h \in Byte /\ t.l \in Byte
  BY <1>2 DEF Half
<1>4. CASE r = "bc"
  <2>1. word(t.b, t.c) = word(q.b, q.c) /\ Halves(r) = {"b", "c"}
    BY <1>4 DEF value, Halves
  <2> QED
    BY <1>1, <1>3, <2>1
<1>5. CASE r = "de"
  <2>1. word(t.d, t.e) = word(q.d, q.e) /\ Halves(r) = {"d", "e"}
    BY <1>5 DEF value, Halves
  <2> QED
    BY <1>1, <1>3, <2>1
<1>6. CASE r = "hl"
  <2>1. word(t.h, t.l) = word(q.h, q.l) /\ Halves(r) = {"h", "l"}
    BY <1>6 DEF value, Halves
  <2> QED
    BY <1>1, <1>3, <2>1
<1> QED
  BY <1>4, <1>5, <1>6

\* PUSH and POP of one pair.
StackProgram(p, r) ==
    p = Straight("inverse", <<\hC5 + 16 * r, \hC1 + 16 * r>>, Registers)
StackAt(s, q, off, r) ==
    /\ At(s, q, {}, off, IF off = 1 THEN {"sp"} ELSE {})
    /\ off = 1 => OnStack(q, value(s, StackReg[r + 1]))

\* Programs of two bytes as At sees them.
LEMMA TwoByteCode ==
    ASSUME NEW p, NEW kind, NEW x1 \in Byte, NEW x2 \in Byte, NEW keeps,
           p = Straight(kind, <<x1, x2>>, keeps)
    PROVE  /\ p.kind = kind /\ p.keeps = keeps /\ p.end = Origin + 2
           /\ HasHandler(p.code) /\ Loadable(p.code)
           /\ Origin + 0 \in DOMAIN p.code /\ p.code[Origin + 0] = x1
           /\ Origin + 1 \in DOMAIN p.code /\ p.code[Origin + 1] = x2
<1> DEFINE b == <<x1, x2>>
<1>1. b[1] = x1 /\ b[2] = x2 /\ Len(b) = 2 /\ p = Straight(kind, b, keeps)
  OBVIOUS
<1> HIDE DEF b
<1>2. \A i \in 1..2 : b[i] \in Byte
  BY <1>1
<1>3. 2 \in 1..8
  OBVIOUS
<1>4. /\ p.kind = kind /\ p.keeps = keeps
      /\ p.end = Origin + 2 /\ HasHandler(p.code) /\ Loadable(p.code)
  BY <1>1, <1>2, <1>3, StraightProgram
<1>5. \A i \in 0..7 : i < 2 => Origin + i \in DOMAIN p.code /\ p.code[Origin + i] = b[i + 1]
  BY <1>1, <1>2, <1>3, StraightProgram
<1>6. /\ Origin + 0 \in DOMAIN p.code /\ p.code[Origin + 0] = b[0 + 1]
      /\ Origin + 1 \in DOMAIN p.code /\ p.code[Origin + 1] = b[1 + 1]
  BY <1>5
<1> QED
  BY <1>1, <1>4, <1>6

LEMMA StackCode ==
    ASSUME NEW p, NEW r \in 0..3, StackProgram(p, r)
    PROVE  /\ p.kind = "inverse" /\ p.keeps = Registers /\ p.end = Origin + 2
           /\ HasHandler(p.code) /\ Loadable(p.code)
           /\ Origin + 0 \in DOMAIN p.code /\ p.code[Origin + 0] = \hC5 + 16 * r
           /\ Origin + 1 \in DOMAIN p.code /\ p.code[Origin + 1] = \hC1 + 16 * r
<1> DEFINE x1 == \hC5 + 16 * r
           x2 == \hC1 + 16 * r
<1>1. x1 \in Byte /\ x2 \in Byte
  BY IsByte
<1>2. p = Straight("inverse", <<x1, x2>>, Registers)
  BY DEF StackProgram
<1> HIDE DEF x1, x2
<1>3. /\ p.kind = "inverse" /\ p.keeps = Registers /\ p.end = Origin + 2
      /\ HasHandler(p.code) /\ Loadable(p.code)
      /\ Origin + 0 \in DOMAIN p.code /\ p.code[Origin + 0] = x1
      /\ Origin + 1 \in DOMAIN p.code /\ p.code[Origin + 1] = x2
  BY <1>1, <1>2, TwoByteCode
<1> QED
  BY <1>3 DEF x1, x2

LEMMA StackSame ==
    ASSUME NEW c, NEW s, Ready(c, s), NEW off, NEW r, NEW q, StackAt(s, q, off, r),
           NEW n, Same(n, q)
    PROVE  StackAt(s, n, off, r)
  BY AtSame, OnStackSame DEF StackAt

LEMMA StackSteps ==
    ASSUME NEW p, NEW r \in 0..3, StackProgram(p, r), NEW s, Ready(p.code, s),
           NEW off \in 0..1, NEW q, StackAt(s, q, off, r)
    PROVE  StackAt(s, tick(q), off + 1, r) /\ Regular(q)
<1> DEFINE t == tick(q)
           rr == StackReg[r + 1]
           S == IF off = 1 THEN {"sp"} ELSE {}
<1>1. At(s, q, {}, off, S)
  BY DEF StackAt
<1>2. Machine(q) /\ Peek(q, q.pc) = p.code[Origin + off]
  <2>1. off \in 0..7 /\ Origin + off \in DOMAIN p.code
    BY StackCode
  <2> HIDE DEF S
  <2> QED
    BY <1>1, <2>1, AtCode, Zenon
<1>3. Regular(q)
  <2>1. p.code[Origin + off] \notin Undefined \cup {\h10, \hCB}
    BY StackCode DEF Undefined
  <2> QED
    BY <1>2, <2>1, RegularOpcode
<1>4. Holding(s, q, {}) /\ q.pc = Origin + off /\ \A x \in Registers \ S : q[x] = s[x]
  BY <1>1 DEF At
<1>5. After(q.pc, 1) = Origin + (off + 1)
  <2>1. off \in 0..16 /\ 1 \in 0..8
    OBVIOUS
  <2> QED
    BY <1>4, <2>1, OffsetStep
<1>6. rr \in {"bc", "de", "hl", "af"}
  BY StackOperands
<1> HIDE DEF t, rr
<1>7. CASE off = 0
  <2>1. Pushed(t, q, value(q, rr)) /\ t.pc = After(q.pc, 1)
    BY <1>2, <1>7, StackCode, TickPush DEF t, rr
  <2>2. \A x \in Registers : q[x] = s[x]
    BY <1>4, <1>7
  <2>3. value(q, rr) = value(s, rr)
    BY <1>6, <2>2 DEF value, Registers
  <2>4. Holding(s, t, {}) /\ OnStack(t, value(s, rr))
    <3>1. q.sp = s.sp
      BY <2>2 DEF Registers
    <3> QED
      BY <1>4, <2>1, <2>3, <3>1, PushedOnStack
  <2>5. \A x \in Registers \ {"sp"} : t[x] = s[x]
    BY <2>1, <2>2 DEF Pushed, Keeps, Fields, Ticked, Registers
  <2>6. At(s, t, {}, 0 + 1, {"sp"})
    BY <1>5, <1>7, <2>1, <2>4, <2>5 DEF At
  <2>7. StackAt(s, t, off + 1, r)
    BY <1>7, <2>4, <2>6 DEF StackAt, rr
  <2> QED
    BY <1>3, <2>7 DEF t
<1>8. CASE off = 1
  <2>1. /\ Machine(t)
        /\ Keeps(t, q, Ticked \cup {"sp"} \cup Halves(rr))
        /\ t.pc = After(q.pc, 1) /\ t.sp = After(q.sp, 2)
        /\ r < 3 => value(t, rr) = word(Peek(q, After(q.sp, 1)), Peek(q, q.sp))
        /\ r = 3 => /\ t.a = Peek(q, After(q.sp, 1)) /\ t.f = FlagsOf(Peek(q, q.sp))
    <3>1. Peek(q, q.pc) = \hC1 + 16 * r
      BY <1>2, <1>8, StackCode
    <3>2. /\ Machine(tick(q))
          /\ Keeps(tick(q), q, Ticked \cup {"sp"} \cup Halves(StackReg[r + 1]))
          /\ tick(q).pc = After(q.pc, 1) /\ tick(q).sp = After(q.sp, 2)
          /\ r < 3 => value(tick(q), StackReg[r + 1])
                         = word(Peek(q, After(q.sp, 1)), Peek(q, q.sp))
          /\ r = 3 => /\ tick(q).a = Peek(q, After(q.sp, 1))
                       /\ tick(q).f = FlagsOf(Peek(q, q.sp))
      BY <1>2, <3>1, TickPop, Zenon
    <3> QED
      BY <3>2 DEF t, rr
  <2> DEFINE v == value(s, rr)
  <2>2. OnStack(q, v)
    BY <1>8 DEF StackAt, rr
  <2>3. /\ t.sp = \hDF00
        /\ r < 3 => value(t, rr) = word(v \div 256, v % 256)
        /\ r = 3 => t.a = v \div 256 /\ t.f = FlagsOf(v % 256)
    BY <2>1, <2>2, FoundOnStack
  <2>4. Machine(s) /\ s.sp = \hDF00
    BY DEF Ready
  <2>5. \A x \in Halves(rr) : t[x] = s[x]
    <3>1. CASE rr = "af"
      <4>1. r = 3
        BY <3>1 DEF rr, StackReg
      <4>2. v = word(s.a, FlagByte(s.f)) /\ s.a \in Byte /\ s.f \in SUBSET Flag
        BY <2>4, <3>1 DEF value, Machine, Half
      <4>3. v \div 256 = s.a /\ v % 256 = FlagByte(s.f)
        BY <4>2, Flagged, WordOfBytes
      <4>4. t.a = s.a /\ t.f = s.f
        BY <2>3, <4>1, <4>2, <4>3, Flagged
      <4> QED
        BY <3>1, <4>4 DEF Halves
    <3>2. CASE rr # "af"
      <4>1. r < 3
        BY <3>2 DEF rr, StackReg
      <4>2. v \in Word
        BY <1>6, <2>4, ValueType DEF Pair
      <4>3. value(t, rr) = v
        BY <2>3, <4>1, <4>2, BytesOfWord
      <4> QED
        BY <1>6, <2>1, <2>4, <3>2, <4>3, SamePair
    <3> QED
      BY <3>1, <3>2
  <2>6. \A x \in Registers : t[x] = s[x]
    <3>1. \A x \in Registers \ ({"sp"} \cup Halves(rr)) : t[x] = q[x]
      BY <2>1 DEF Keeps, Fields, Ticked, Registers
    <3> QED
      BY <1>4, <1>8, <2>3, <2>4, <2>5, <3>1
  <2>7. Holding(s, t, {})
    <3>1. t.mem = q.mem
      BY <1>6, <2>1 DEF Keeps, Fields, Ticked, Halves
    <3>2. Stored(t, q, {}) /\ SafeSp(t.sp)
      BY <2>3, <3>1, SameMemory DEF SafeSp
    <3> QED
      BY <1>4, <2>1, <3>2, HoldingStep
  <2>8. At(s, t, {}, 1 + 1, {})
    BY <1>5, <1>8, <2>1, <2>6, <2>7 DEF At
  <2>9. StackAt(s, t, off + 1, r)
    BY <1>8, <2>8 DEF StackAt
  <2> QED
    BY <1>3, <2>9 DEF t
<1> QED
  BY <1>7, <1>8

LEMMA PairTables ==
    ASSUME NEW r \in 0..3, NEW k \in 0..1
    PROVE  LET op == 16 * r + 8 * k + 3
           IN  /\ op \in Int /\ 0 <= op /\ op < 64 /\ op # \hCB
               /\ z(op) = 3 /\ y(op) % 2 = k /\ length(op) = 1
               /\ pair_y(op) = Reg16[r + 1] /\ Reg16[r + 1] \in {"bc", "de", "hl", "sp"}
<1> DEFINE op == 16 * r + 8 * k + 3
<1>1. op \in Int /\ 0 <= op /\ op < 64 /\ op # \hCB
  OBVIOUS
<1>2. z(op) = 3 /\ y(op) = 2 * r + k
  BY DEF y, z
<1>3. (2 * r + k) % 2 = k /\ (2 * r + k) \div 2 = r
  OBVIOUS
<1>4. length(op) = 1
  <2>1. op \in 0..63
    BY <1>1
  <2> QED
    BY <1>2, <2>1, LowerTables
<1>5. pair_y(op) = Reg16[r + 1] /\ Reg16[r + 1] \in {"bc", "de", "hl", "sp"}
  BY <1>2, <1>3 DEF pair_y, Reg16
<1> QED
  BY <1>1, <1>2, <1>3, <1>4, <1>5

\* INC rr and DEC rr.
LEMMA TickCountPair ==
    ASSUME NEW q, Machine(q), NEW r \in 0..3, NEW k \in 0..1,
           Peek(q, q.pc) = 16 * r + 8 * k + 3
    PROVE  LET rr == Reg16[r + 1]
           IN  /\ Changed(tick(q), q, Halves(rr), 1)
               /\ value(tick(q), rr) = IF k = 0 THEN increment16(value(q, rr))
                                                ELSE decrement16(value(q, rr))
<1> DEFINE op == 16 * r + 8 * k + 3
           rr == Reg16[r + 1]
           v == IF k = 0 THEN increment16(value(q, rr)) ELSE decrement16(value(q, rr))
<1>1. /\ op \in Int /\ 0 <= op /\ op < 64 /\ op # \hCB
      /\ z(op) = 3 /\ y(op) % 2 = k /\ length(op) = 1
      /\ pair_y(op) = rr /\ rr \in {"bc", "de", "hl", "sp"}
  BY PairTables
<1>2. PICK t, data : Moved(t, q, length(op)) /\ tick(q) = SwitchOf(op, t, data)
  BY <1>1, Decoded
<1> HIDE DEF op, rr
<1>3. SwitchOf(op, t, data) = Columns(t, op, data)
  BY <1>1, ColumnsSwitch
<1>4. rr \in Pair \ {"pc"} /\ "pc" \notin Halves(rr)
  BY <1>1 DEF Pair, Halves
<1>5. value(t, rr) = value(q, rr)
  BY <1>2, <1>4, MovedKeeps
<1>6. Columns(t, op, data) = load16(t, rr, v)
  <2>1. CASE k = 0
    BY <1>1, <1>5, <2>1 DEF Columns
  <2>2. CASE k = 1
    BY <1>1, <1>5, <2>2 DEF Columns
  <2> QED
    BY <2>1, <2>2
<1>7. v \in Word
  BY <1>4, ValueType, StepWord
<1> HIDE DEF v
<1>8. Machine(t)
  BY <1>2 DEF Moved
<1>9. /\ Machine(load16(t, rr, v)) /\ Keeps(load16(t, rr, v), t, Halves(rr))
      /\ value(load16(t, rr, v), rr) = v
  BY <1>1, <1>4, <1>7, <1>8, Load16
<1>10. Changed(load16(t, rr, v), q, Halves(rr), 1)
  BY <1>1, <1>2, <1>4, <1>9, ChangeMoved
<1> QED
  BY <1>2, <1>3, <1>6, <1>9, <1>10 DEF rr, v

LEMMA BackAndForth ==
    ASSUME NEW v \in Word PROVE decrement16(increment16(v)) = v
<1>1. v \in Int /\ 0 <= v /\ v <= 65535
  BY IsWord
<1> QED
  BY <1>1 DEF increment16, decrement16

\* Registers that have their values back no longer differ.
LEMMA AtShrink ==
    ASSUME NEW s, NEW q, NEW D, NEW off, NEW S, At(s, q, D, off, S), NEW T,
           \A x \in S : x \notin T => q[x] = s[x]
    PROVE  At(s, q, D, off, T)
  BY DEF At

\* INC and DEC of one pair.
PairProgram(p, r) ==
    p = Straight("inverse", <<3 + 16 * r, 11 + 16 * r>>, Registers)
PairAt(s, q, off, r) ==
    LET rr == Reg16[r + 1]
    IN  /\ At(s, q, {}, off, IF off = 1 THEN Halves(rr) ELSE {})
        /\ off = 1 => value(q, rr) = increment16(value(s, rr))

LEMMA PairCode ==
    ASSUME NEW p, NEW r \in 0..3, PairProgram(p, r)
    PROVE  /\ p.kind = "inverse" /\ p.keeps = Registers /\ p.end = Origin + 2
           /\ HasHandler(p.code) /\ Loadable(p.code)
           /\ Origin + 0 \in DOMAIN p.code /\ p.code[Origin + 0] = 16 * r + 8 * 0 + 3
           /\ Origin + 1 \in DOMAIN p.code /\ p.code[Origin + 1] = 16 * r + 8 * 1 + 3
<1> DEFINE x1 == 3 + 16 * r
           x2 == 11 + 16 * r
<1>1. x1 \in Byte /\ x2 \in Byte
  BY IsByte
<1>2. p = Straight("inverse", <<x1, x2>>, Registers)
  BY DEF PairProgram
<1> HIDE DEF x1, x2
<1>3. /\ p.kind = "inverse" /\ p.keeps = Registers /\ p.end = Origin + 2
      /\ HasHandler(p.code) /\ Loadable(p.code)
      /\ Origin + 0 \in DOMAIN p.code /\ p.code[Origin + 0] = x1
      /\ Origin + 1 \in DOMAIN p.code /\ p.code[Origin + 1] = x2
  BY <1>1, <1>2, TwoByteCode
<1> QED
  BY <1>3 DEF x1, x2

LEMMA PairSame ==
    ASSUME NEW c, NEW s, Ready(c, s), NEW off, NEW r \in 0..3, NEW q, PairAt(s, q, off, r),
           NEW n, Same(n, q)
    PROVE  PairAt(s, n, off, r)
<1> DEFINE rr == Reg16[r + 1]
<1>1. rr \in {"bc", "de", "hl", "sp"}
  BY DEF Reg16
<1>2. \A x \in Registers : n[x] = q[x]
  BY DEF Same
<1> HIDE DEF rr
<1>3. value(n, rr) = value(q, rr)
  BY <1>1, <1>2 DEF value, Registers
<1> QED
  BY <1>3, AtSame DEF PairAt, rr

LEMMA PairSteps ==
    ASSUME NEW p, NEW r \in 0..3, PairProgram(p, r), NEW s, Ready(p.code, s),
           NEW off \in 0..1, NEW q, PairAt(s, q, off, r)
    PROVE  PairAt(s, tick(q), off + 1, r) /\ Regular(q)
<1> DEFINE t == tick(q)
           rr == Reg16[r + 1]
           S == IF off = 1 THEN Halves(rr) ELSE {}
<1>1. At(s, q, {}, off, S)
  BY DEF PairAt
<1>2. Machine(q) /\ Peek(q, q.pc) = p.code[Origin + off]
  <2>1. off \in 0..7 /\ Origin + off \in DOMAIN p.code
    BY PairCode
  <2> HIDE DEF S
  <2> QED
    BY <1>1, <2>1, AtCode, Zenon
<1>3. Peek(q, q.pc) = 16 * r + 8 * off + 3
  <2>1. CASE off = 0
    BY <1>2, <2>1, PairCode
  <2>2. CASE off = 1
    BY <1>2, <2>2, PairCode
  <2> QED
    BY <2>1, <2>2
<1>4. Regular(q)
  <2>1. 16 * r + 8 * off + 3 \notin Undefined \cup {\h10, \hCB}
    BY DEF Undefined
  <2> QED
    BY <1>3, <2>1, RegularOpcode
<1>5. rr \in {"bc", "de", "hl", "sp"}
  BY DEF Reg16
<1>6. /\ Changed(t, q, Halves(rr), 1)
      /\ value(t, rr) = IF off = 0 THEN increment16(value(q, rr))
                                   ELSE decrement16(value(q, rr))
  BY <1>2, <1>3, TickCountPair
<1>7. "mem" \notin Halves(rr) /\ Halves(rr) \subseteq Registers
  BY <1>5 DEF Halves, Registers
<1>8. off \in 0..16 /\ 1 \in 0..8
  OBVIOUS
<1>9. Machine(s) /\ Machine(t) /\ s.sp = \hDF00 /\ value(s, rr) \in Word
  <2>1. Machine(s) /\ s.sp = \hDF00
    BY DEF Ready
  <2> QED
    BY <1>5, <1>6, <2>1, ValueType DEF Changed, Pair
<1> HIDE DEF t, rr
<1>10. rr # "sp" => SafeSp(t.sp)
  <2> SUFFICES ASSUME rr # "sp" PROVE SafeSp(t.sp)
    OBVIOUS
  <2>1. "sp" \notin Halves(rr)
    BY <1>5 DEF Halves
  <2>2. t.sp = q.sp /\ q.sp = s.sp
    BY <1>1, <1>6, <2>1 DEF At, Changed, Keeps, Fields, Ticked, Registers
  <2> QED
    BY <1>9, <2>2 DEF SafeSp
<1>11. rr = "sp" => value(t, rr) = t.sp /\ value(q, rr) = q.sp /\ value(s, rr) = s.sp
  BY DEF value
<1>12. CASE off = 0
  <2>1. value(q, rr) = value(s, rr)
    <3>1. \A x \in Registers : q[x] = s[x]
      BY <1>1, <1>12 DEF At
    <3> QED
      BY <1>5, <3>1 DEF value, Registers
  <2>2. value(t, rr) = increment16(value(s, rr))
    BY <1>6, <1>12, <2>1
  <2>3. SafeSp(t.sp)
    <3>1. rr = "sp" => t.sp = 57089
      BY <1>9, <1>11, <2>2 DEF increment16
    <3> QED
      BY <1>10, <3>1 DEF SafeSp
  <2>4. At(s, q, {}, off, Halves(rr))
    BY <1>1, <1>12 DEF At
  <2>5. At(s, t, {}, off + 1, Halves(rr))
    BY <1>6, <1>7, <1>8, <2>3, <2>4, AtStep, Zenon
  <2>6. PairAt(s, t, off + 1, r)
    BY <1>12, <2>2, <2>5 DEF PairAt, rr
  <2> QED
    BY <1>4, <2>6 DEF t
<1>13. CASE off = 1
  <2>1. value(t, rr) = value(s, rr)
    <3>1. value(q, rr) = increment16(value(s, rr))
      BY <1>13 DEF PairAt, rr
    <3> QED
      BY <1>6, <1>9, <1>13, <3>1, BackAndForth
  <2>2. SafeSp(t.sp)
    <3>1. rr = "sp" => t.sp = \hDF00
      BY <1>9, <1>11, <2>1
    <3> QED
      BY <1>10, <3>1 DEF SafeSp
  <2>3. At(s, q, {}, off, Halves(rr))
    BY <1>1, <1>13
  <2>4. At(s, t, {}, off + 1, Halves(rr))
    BY <1>6, <1>7, <1>8, <2>2, <2>3, AtStep, Zenon
  <2>5. \A x \in Halves(rr) : t[x] = s[x]
    <3>1. CASE rr = "sp"
      BY <1>11, <2>1, <3>1 DEF Halves
    <3>2. CASE rr # "sp"
      BY <1>5, <1>9, <2>1, <3>2, SamePair
    <3> QED
      BY <3>1, <3>2
  <2>6. At(s, t, {}, off + 1, {})
    BY <2>4, <2>5, AtShrink
  <2>7. PairAt(s, t, off + 1, r)
    BY <1>13, <2>6 DEF PairAt, rr
  <2> QED
    BY <1>4, <2>7 DEF t
<1> QED
  BY <1>12, <1>13

\* ADD SP,e.
LEMMA TickMoveStack ==
    ASSUME NEW q, Machine(q), Peek(q, q.pc) = \hE8, NEW e \in Byte,
           Peek(q, After(q.pc, 1)) = e
    PROVE  /\ Changed(tick(q), q, {"sp", "f"}, 2)
           /\ tick(q).sp = (q.sp + signed(e)) % 65536
<1>1. length(\hE8) = 2
  BY HighTables
<1>2. PICK t, data : Moved(t, q, 2) /\ tick(q) = SwitchOf(\hE8, t, data) /\ data = e
  <2>1. \hE8 # \hCB
    OBVIOUS
  <2> QED
    BY <1>1, <2>1, Decoded
<1> DEFINE r == add_to_stack_pointer(q.sp, signed(e))
<1>3. t.sp = q.sp
  BY <1>2, MovedKeeps
<1>4. SwitchOf(\hE8, t, data) = Row_E0(t, \hE8, data)
  BY DEF SwitchOf
<1>5. Row_E0(t, \hE8, data) = [[t EXCEPT !.sp = r.value] EXCEPT !.f = r.flags]
  <2>1. [t EXCEPT !.sp = r.value, !.f = r.flags] = [[t EXCEPT !.sp = r.value] EXCEPT !.f = r.flags]
    OBVIOUS
  <2> QED
    BY <1>2, <1>3, <2>1 DEF Row_E0
<1>6. q.sp \in Word /\ Machine(t)
  BY <1>2, Zenon DEF Machine, Moved
<1>7. r.value \in Word /\ r.flags \in SUBSET Flag
  BY <1>6, StackSums, SignedIsInt
<1>8. r.value = (q.sp + signed(e)) % 65536
  BY DEF add_to_stack_pointer, Result
<1> HIDE DEF r
<1> DEFINE v == [t EXCEPT !.sp = r.value]
           w == [v EXCEPT !.f = r.flags]
<1>9. Machine(v) /\ Keeps(v, t, {"sp"}) /\ v.sp = r.value
  BY <1>6, <1>7, SetWord
<1> HIDE DEF v
<1>10. Machine(w) /\ Keeps(w, v, {"f"})
  BY <1>7, <1>9, SetFlags
<1> HIDE DEF w
<1>11. Keeps(w, t, {"sp", "f"}) /\ w.sp = r.value
  BY <1>9, <1>10 DEF Keeps, Fields
<1>12. Changed(w, q, {"sp", "f"}, 2)
  <2>1. "pc" \notin {"sp", "f"}
    OBVIOUS
  <2> QED
    BY <1>2, <1>10, <1>11, <2>1, ChangeMoved
<1>13. tick(q) = w
  BY <1>2, <1>4, <1>5 DEF v, w
<1> QED
  BY <1>8, <1>11, <1>12, <1>13

\* ADD SP,e and ADD SP,-e.
Steps == {1, \h10, \h7F, \hFF}
MoveBytes(e) == <<\hE8, e, \hE8, 256 - e>>
MoveProgram(p, e) == p = Straight("inverse", MoveBytes(e), Registers \ {"f"})
MoveAt(s, q, off, e) ==
    /\ At(s, q, {}, off, {"sp", "f"})
    /\ q.sp = IF off = 2 THEN \hDF00 + signed(e) ELSE \hDF00

LEMMA MoveCode ==
    ASSUME NEW p, NEW e \in Steps, MoveProgram(p, e)
    PROVE  /\ p.kind = "inverse" /\ p.keeps = Registers \ {"f"} /\ p.end = Origin + 4
           /\ HasHandler(p.code) /\ Loadable(p.code)
           /\ \A i \in 0..3 : Origin + i \in DOMAIN p.code
           /\ p.code[Origin + 0] = \hE8 /\ p.code[Origin + 1] = e
           /\ p.code[Origin + 2] = \hE8 /\ p.code[Origin + 3] = 256 - e
<1> DEFINE b == MoveBytes(e)
<1>1. b[1] = \hE8 /\ b[2] = e /\ b[3] = \hE8 /\ b[4] = 256 - e /\ Len(b) = 4
  BY DEF MoveBytes
<1>2. p = Straight("inverse", b, Registers \ {"f"})
  BY DEF MoveProgram
<1> HIDE DEF b
<1>3. \A i \in 1..4 : b[i] \in Byte
  <2>1. b[1] \in Byte /\ b[2] \in Byte /\ b[3] \in Byte /\ b[4] \in Byte
    BY <1>1, IsByte DEF Steps
  <2> QED
    BY <2>1
<1>4. 4 \in 1..8
  OBVIOUS
<1>5. /\ p.kind = "inverse" /\ p.keeps = Registers \ {"f"}
      /\ p.end = Origin + 4 /\ HasHandler(p.code) /\ Loadable(p.code)
  BY <1>1, <1>2, <1>3, <1>4, StraightProgram
<1>6. \A i \in 0..7 : i < 4 => Origin + i \in DOMAIN p.code /\ p.code[Origin + i] = b[i + 1]
  BY <1>1, <1>2, <1>3, <1>4, StraightProgram
<1>7. /\ p.code[Origin + 0] = b[0 + 1] /\ p.code[Origin + 1] = b[1 + 1]
      /\ p.code[Origin + 2] = b[2 + 1] /\ p.code[Origin + 3] = b[3 + 1]
  BY <1>6
<1> QED
  BY <1>1, <1>5, <1>6, <1>7

LEMMA MoveSame ==
    ASSUME NEW c, NEW s, Ready(c, s), NEW off, NEW e, NEW q, MoveAt(s, q, off, e),
           NEW n, Same(n, q)
    PROVE  MoveAt(s, n, off, e)
  BY AtSame DEF MoveAt, Registers

LEMMA MoveSteps ==
    ASSUME NEW p, NEW e \in Steps, MoveProgram(p, e), NEW s, Ready(p.code, s),
           NEW off \in {0, 2}, NEW q, MoveAt(s, q, off, e)
    PROVE  MoveAt(s, tick(q), off + 2, e) /\ Regular(q)
<1> DEFINE t == tick(q)
           S == {"sp", "f"}
           d == IF off = 0 THEN e ELSE 256 - e
<1>1. At(s, q, {}, off, S)
  BY DEF MoveAt
<1>2. off \in 0..7 /\ off \in 0..6 /\ off \in 0..16 /\ 1 \in 1..7 /\ off + 1 < 8 /\ 2 \in 0..8
  OBVIOUS
<1>3. Origin + off \in DOMAIN p.code /\ Origin + (off + 1) \in DOMAIN p.code
  <2>1. off \in 0..3 /\ off + 1 \in 0..3
    OBVIOUS
  <2> QED
    BY <2>1, MoveCode
<1>4. Machine(q) /\ Peek(q, q.pc) = p.code[Origin + off]
  BY <1>1, <1>2, <1>3, AtCode
<1>5. Peek(q, After(q.pc, 1)) = p.code[Origin + (off + 1)]
  BY <1>1, <1>2, <1>3, AtOperand
<1>6. Peek(q, q.pc) = \hE8 /\ Peek(q, After(q.pc, 1)) = d
  <2>1. CASE off = 0
    BY <1>4, <1>5, <2>1, MoveCode
  <2>2. CASE off = 2
    BY <1>4, <1>5, <2>2, MoveCode
  <2> QED
    BY <2>1, <2>2
<1>7. d \in Byte
  BY IsByte DEF Steps
<1>8. signed(d) = IF off = 0 THEN signed(e) ELSE 0 - signed(e)
  <2>1. e \in {1, 16, 127, 255}
    BY DEF Steps
  <2> QED
    BY <2>1 DEF signed
<1>9. Regular(q)
  <2>1. \hE8 \notin Undefined \cup {\h10, \hCB}
    BY DEF Undefined
  <2> QED
    BY <1>6, <2>1, RegularOpcode
<1>10. Changed(t, q, S, 2) /\ t.sp = (q.sp + signed(d)) % 65536
  BY <1>4, <1>6, <1>7, TickMoveStack
<1>11. signed(e) \in {1, 16, 127, -1}
  BY DEF signed, Steps
<1>12. t.sp = IF off = 0 THEN \hDF00 + signed(e) ELSE \hDF00
  <2>1. CASE off = 0
    <3>1. q.sp = 57088
      BY <2>1 DEF MoveAt
    <3>2. signed(d) = signed(e)
      BY <1>8, <2>1
    <3>3. (57088 + signed(e)) % 65536 = 57088 + signed(e)
      BY <1>11
    <3> QED
      BY <1>10, <2>1, <3>1, <3>2, <3>3
  <2>2. CASE off = 2
    <3>1. q.sp = 57088 + signed(e)
      BY <2>2 DEF MoveAt
    <3>2. signed(d) = 0 - signed(e)
      BY <1>8, <2>2
    <3>3. q.sp + signed(d) = 57088
      BY <1>11, <3>1, <3>2
    <3> QED
      BY <1>10, <2>2, <3>3
  <2> QED
    BY <2>1, <2>2
<1>13. SafeSp(t.sp)
  BY <1>11, <1>12 DEF SafeSp
<1> DEFINE C == {"sp", "f"}
<1>14. "mem" \notin C /\ \A x \in C : x \in Registers => x \in S
  OBVIOUS
<1>17. Changed(t, q, C, 2)
  BY <1>10
<1> HIDE DEF t, S, C
<1>15. At(s, t, {}, off + 2, S)
  BY <1>1, <1>2, <1>17, <1>13, <1>14, AtStep, Zenon
<1>16. MoveAt(s, t, off + 2, e)
  <2>1. CASE off = 0
    BY <1>12, <1>15, <2>1 DEF MoveAt, S
  <2>2. CASE off = 2
    BY <1>12, <1>15, <2>2 DEF MoveAt, S
  <2> QED
    BY <2>1, <2>2
<1> QED
  BY <1>9, <1>16 DEF t

\* LD (a16),SP.
LEMMA TickStoreStack ==
    ASSUME NEW q, Machine(q), Peek(q, q.pc) = \h08, NEW x \in Word,
           word(Peek(q, After(q.pc, 2)), Peek(q, After(q.pc, 1))) = x
    PROVE  /\ Machine(tick(q)) /\ Keeps(tick(q), q, Ticked \cup {"mem"})
           /\ tick(q).pc = After(q.pc, 3)
           /\ Stored(tick(q), q, {x, increment16(x)})
           /\ word(Peek(tick(q), increment16(x)), Peek(tick(q), x)) = q.sp
<1>1. length(\h08) = 3
  BY ControlTables
<1>2. PICK t, data : Moved(t, q, 3) /\ tick(q) = SwitchOf(\h08, t, data) /\ data = x
  <2>1. \h08 # \hCB
    OBVIOUS
  <2> QED
    BY <1>1, <2>1, Decoded
<1>3. t.sp = q.sp /\ \A a : Peek(t, a) = Peek(q, a)
  BY <1>2, MovedKeeps
<1>4. tick(q) = store16(t, x, q.sp)
  <2>1. SwitchOf(\h08, t, data) = Row_00(t, \h08, data)
    BY DEF SwitchOf
  <2> QED
    BY <1>2, <1>3, <2>1 DEF Row_00
<1>5. q.sp \in Word /\ Machine(t)
  BY <1>2, Zenon DEF Machine, Moved
<1>9. PICK v \in Word : v = q.sp
  BY <1>5
<1> DEFINE u == store16(t, x, v)
<1>6. /\ Machine(u) /\ Keeps(u, t, {"accesses", "mem"})
      /\ Stored(u, t, {x, increment16(x)})
      /\ Peek(u, x) = v % 256 /\ Peek(u, increment16(x)) = v \div 256
  <2>1. WordStored(u, t, x, v)
    BY <1>5, StoreWord, ZenonT(60)
  <2> HIDE DEF u
  <2> QED
    BY ONLY <2>1 DEF WordStored
<1> HIDE DEF u
<1>7. Keeps(u, q, Ticked \cup {"mem"}) /\ u.pc = After(q.pc, 3)
  BY <1>2, <1>6 DEF Moved, Keeps, Fields, Ticked
<1>8. Stored(u, q, {x, increment16(x)})
  <2>1. t.mem = q.mem
    BY <1>2 DEF Moved, Keeps, Fields, Ticked
  <2> QED
    BY <1>3, <1>6, <2>1 DEF Stored
<1>10. word(Peek(u, increment16(x)), Peek(u, x)) = v
  BY <1>6, BytesOfWord
<1> QED
  BY <1>4, <1>6, <1>7, <1>8, <1>9, <1>10 DEF u

\* A stack pointer given by an instruction of n bytes that does nothing else.
LEMMA StackMoved ==
    ASSUME NEW q, NEW t, NEW n, Moved(t, q, n), NEW v \in Word
    PROVE  Changed(load16(t, "sp", v), q, {"sp"}, n) /\ load16(t, "sp", v).sp = v
<1>1. Machine(t) /\ "sp" \in Pair /\ Halves("sp") = {"sp"} /\ "sp" # "af"
  BY DEF Moved, Pair, Halves
<1> DEFINE u == load16(t, "sp", v)
<1>2. Machine(u) /\ Keeps(u, t, Halves("sp")) /\ value(u, "sp") = v
  BY <1>1, Load16
<1> HIDE DEF u
<1>3. Keeps(u, t, {"sp"}) /\ u.sp = v /\ "pc" \notin {"sp"}
  BY <1>1, <1>2 DEF value
<1>4. Changed(u, q, {"sp"}, n)
  BY <1>2, <1>3, ChangeMoved
<1> QED
  BY <1>3, <1>4 DEF u

\* LD SP,d16.
LEMMA TickLoadStack ==
    ASSUME NEW q, Machine(q), Peek(q, q.pc) = \h31, NEW x \in Word,
           word(Peek(q, After(q.pc, 2)), Peek(q, After(q.pc, 1))) = x
    PROVE  Changed(tick(q), q, {"sp"}, 3) /\ tick(q).sp = x
<1>1. z(\h31) = 1 /\ y(\h31) = 6
  BY DEF y, z
<1>2. length(\h31) = 3
  <2>1. \h31 \in 0..63 /\ z(\h31) = 1 /\ y(\h31) % 2 = 0
    BY <1>1
  <2> QED
    BY <2>1, LowerTables
<1>3. PICK t, data : Moved(t, q, 3) /\ tick(q) = SwitchOf(\h31, t, data) /\ data = x
  <2>1. \h31 # \hCB
    OBVIOUS
  <2> QED
    BY <1>2, <2>1, Decoded
<1>4. SwitchOf(\h31, t, data) = Columns(t, \h31, data)
  <2>1. z(\h31) \in {1, 3, 4, 5, 6} /\ \h31 \in Int /\ 0 <= \h31 /\ \h31 < 64
    BY <1>1
  <2> QED
    BY <2>1, ColumnsSwitch
<1>5. Columns(t, \h31, data) = load16(t, "sp", x)
  <2>1. pair_y(\h31) = "sp"
    BY <1>1 DEF pair_y, Reg16
  <2> QED
    BY <1>1, <1>3, <2>1 DEF Columns
<1> QED
  BY <1>3, <1>4, <1>5, StackMoved

\* LD SP,HL.
LEMMA TickStackFromPair ==
    ASSUME NEW q, Machine(q), Peek(q, q.pc) = \hF9
    PROVE  Changed(tick(q), q, {"sp"}, 1) /\ tick(q).sp = value(q, "hl")
<1>1. length(\hF9) = 1
  BY HighTables
<1>2. PICK t, data : Moved(t, q, 1) /\ tick(q) = SwitchOf(\hF9, t, data)
  <2>1. \hF9 # \hCB
    OBVIOUS
  <2> QED
    BY <1>1, <2>1, Decoded
<1> DEFINE v == value(q, "hl")
<1>3. "hl" \in Pair \ {"pc"} /\ "hl" \in Pair
  BY DEF Pair
<1>4. v \in Word /\ value(t, "hl") = v
  BY <1>2, <1>3, ValueType, MovedKeeps
<1>5. tick(q) = [t EXCEPT !.sp = v]
  <2>1. SwitchOf(\hF9, t, data) = Row_F0(t, \hF9, data)
    BY DEF SwitchOf
  <2> QED
    BY <1>2, <1>4, <2>1 DEF Row_F0
<1> HIDE DEF v
<1>6. load16(t, "sp", v) = [t EXCEPT !.sp = v]
  BY DEF load16
<1>7. Changed(load16(t, "sp", v), q, {"sp"}, 1) /\ load16(t, "sp", v).sp = v
  BY <1>2, <1>4, StackMoved
<1> QED
  BY <1>5, <1>6, <1>7 DEF v

\* LD (0xC100),SP; LD SP,0xC100; POP HL; LD SP,HL.
SaveBytes == <<\h08, 0, \hC1, \h31, 0, \hC1, \hE1, \hF9>>
SaveProgram(p) == p = Straight("inverse", SaveBytes, Registers \ {"h", "l"})
Stack == [i \in {0, 3, 6, 7, 8} |->
            IF i = 6 THEN \hC100 ELSE IF i = 7 THEN \hC102 ELSE \hDF00]
SaveAt(s, q, off) ==
    /\ At(s, q, {}, off, {"h", "l", "sp"})
    /\ q.sp = Stack[off]
    /\ off \in {3, 6} => word(Peek(q, \hC101), Peek(q, \hC100)) = \hDF00
    /\ off = 7 => value(q, "hl") = \hDF00

LEMMA SaveCode ==
    ASSUME NEW p, SaveProgram(p)
    PROVE  /\ p.kind = "inverse" /\ p.keeps = Registers \ {"h", "l"} /\ p.end = Origin + 8
           /\ HasHandler(p.code) /\ Loadable(p.code)
           /\ \A i \in 0..7 : Origin + i \in DOMAIN p.code
           /\ p.code[Origin + 0] = \h08 /\ p.code[Origin + 1] = 0
           /\ p.code[Origin + 2] = \hC1 /\ p.code[Origin + 3] = \h31
           /\ p.code[Origin + 4] = 0 /\ p.code[Origin + 5] = \hC1
           /\ p.code[Origin + 6] = \hE1 /\ p.code[Origin + 7] = \hF9
<1> DEFINE b == SaveBytes
<1>1. /\ b[1] = \h08 /\ b[2] = 0 /\ b[3] = \hC1 /\ b[4] = \h31
      /\ b[5] = 0 /\ b[6] = \hC1 /\ b[7] = \hE1 /\ b[8] = \hF9 /\ Len(b) = 8
  BY DEF SaveBytes
<1>2. p = Straight("inverse", b, Registers \ {"h", "l"})
  BY DEF SaveProgram
<1> HIDE DEF b
<1>3. \A i \in 1..8 : b[i] \in Byte
  <2>1. /\ b[1] \in Byte /\ b[2] \in Byte /\ b[3] \in Byte /\ b[4] \in Byte
        /\ b[5] \in Byte /\ b[6] \in Byte /\ b[7] \in Byte /\ b[8] \in Byte
    BY <1>1, IsByte
  <2> QED
    BY <2>1
<1>4. 8 \in 1..8
  OBVIOUS
<1>5. /\ p.kind = "inverse" /\ p.keeps = Registers \ {"h", "l"}
      /\ p.end = Origin + 8 /\ HasHandler(p.code) /\ Loadable(p.code)
  BY <1>1, <1>2, <1>3, <1>4, StraightProgram
<1>6. \A i \in 0..7 : i < 8 => Origin + i \in DOMAIN p.code /\ p.code[Origin + i] = b[i + 1]
  BY <1>1, <1>2, <1>3, <1>4, StraightProgram
<1>7. /\ p.code[Origin + 0] = b[0 + 1] /\ p.code[Origin + 1] = b[1 + 1]
      /\ p.code[Origin + 2] = b[2 + 1] /\ p.code[Origin + 3] = b[3 + 1]
      /\ p.code[Origin + 4] = b[4 + 1] /\ p.code[Origin + 5] = b[5 + 1]
      /\ p.code[Origin + 6] = b[6 + 1] /\ p.code[Origin + 7] = b[7 + 1]
  BY <1>6
<1> QED
  BY <1>1, <1>5, <1>6, <1>7

LEMMA SaveSame ==
    ASSUME NEW c, NEW s, Ready(c, s), NEW off \in {0, 3, 6, 7, 8}, NEW q, SaveAt(s, q, off),
           NEW n, Same(n, q)
    PROVE  SaveAt(s, n, off)
<1>1. At(s, n, {}, off, {"h", "l", "sp"})
  BY AtSame DEF SaveAt
<1>2. n.sp = q.sp /\ n.h = q.h /\ n.l = q.l
  BY DEF Same, Registers
<1>3. value(n, "hl") = value(q, "hl")
  BY <1>2 DEF value
<1>4. ASSUME off \in {3, 6} PROVE word(Peek(n, \hC101), Peek(n, \hC100)) = \hDF00
  <2>1. q.sp = 57088 \/ q.sp = 49408
    BY <1>4 DEF SaveAt, Stack
  <2>2. /\ Down(57088, 1) = 57087 /\ Down(57088, 2) = 57086 /\ Down(57088, 3) = 57085
        /\ Down(57088, 4) = 57084 /\ Down(57088, 5) = 57083 /\ Down(57088, 6) = 57082
        /\ Down(49408, 1) = 49407 /\ Down(49408, 2) = 49406 /\ Down(49408, 3) = 49405
        /\ Down(49408, 4) = 49404 /\ Down(49408, 5) = 49403 /\ Down(49408, 6) = 49402
    BY DEF Down
  <2>3. \hC100 \notin Below(q.sp) /\ \hC101 \notin Below(q.sp)
    BY <2>1, <2>2 DEF Below
  <2> QED
    BY <1>4, <2>3 DEF SaveAt, Same, Stored
<1> QED
  BY <1>1, <1>2, <1>3, <1>4 DEF SaveAt

\* The opcode, and the operand that is the same for both that have one.
LEMMA SaveNext ==
    ASSUME NEW p, SaveProgram(p), NEW s, Ready(p.code, s), NEW off \in {0, 3, 6, 7},
           NEW q, SaveAt(s, q, off)
    PROVE  /\ Machine(q) /\ Regular(q)
           /\ Peek(q, q.pc) = p.code[Origin + off]
           /\ off < 6 => word(Peek(q, After(q.pc, 2)), Peek(q, After(q.pc, 1))) = \hC100
<1> DEFINE S == {"h", "l", "sp"}
<1>1. At(s, q, {}, off, S)
  BY DEF SaveAt
<1>2. off \in 0..7 /\ 1 \in 1..7 /\ 2 \in 1..7
  OBVIOUS
<1> HIDE DEF S
<1>3. \A i \in 0..7 : Origin + i \in DOMAIN p.code
  BY SaveCode
<1>4. Machine(q) /\ Peek(q, q.pc) = p.code[Origin + off]
  BY <1>1, <1>2, <1>3, AtCode
<1>5. Regular(q)
  <2>1. p.code[Origin + off] \in {\h08, \h31, \hE1, \hF9}
    BY SaveCode
  <2>2. p.code[Origin + off] \notin Undefined \cup {\h10, \hCB}
    BY <2>1 DEF Undefined
  <2> QED
    BY <1>4, <2>2, RegularOpcode
<1>6. ASSUME off < 6
      PROVE  word(Peek(q, After(q.pc, 2)), Peek(q, After(q.pc, 1))) = \hC100
  <2>1. off \in 0..6 /\ off + 1 < 8 /\ off + 2 < 8 /\ off + 1 \in 0..7 /\ off + 2 \in 0..7
    BY <1>6
  <2>2. Peek(q, After(q.pc, 1)) = p.code[Origin + (off + 1)]
    BY <1>1, <1>2, <1>3, <2>1, AtOperand
  <2>3. Peek(q, After(q.pc, 2)) = p.code[Origin + (off + 2)]
    BY <1>1, <1>2, <1>3, <2>1, AtOperand
  <2>4. Peek(q, After(q.pc, 1)) = 0 /\ Peek(q, After(q.pc, 2)) = \hC1
    <3>1. CASE off = 0
      <4>1. off + 1 = 1 /\ off + 2 = 2
        BY <3>1
      <4> QED
        BY <2>2, <2>3, <4>1, SaveCode
    <3>2. CASE off = 3
      <4>1. off + 1 = 4 /\ off + 2 = 5
        BY <3>2
      <4> QED
        BY <2>2, <2>3, <4>1, SaveCode
    <3> QED
      BY <1>6, <3>1, <3>2
  <2> QED
    BY <2>4 DEF word
<1> QED
  BY <1>4, <1>5, <1>6

LEMMA SaveStore ==
    ASSUME NEW p, SaveProgram(p), NEW s, Ready(p.code, s), NEW q, SaveAt(s, q, 0)
    PROVE  SaveAt(s, tick(q), 3)
<1> DEFINE t == tick(q)
           S == {"h", "l", "sp"}
<1>1. At(s, q, {}, 0, S) /\ q.sp = \hDF00
  BY DEF SaveAt, Stack
<1>2. Machine(q) /\ Peek(q, q.pc) = \h08
  <2>1. 0 \in {0, 3, 6, 7}
    OBVIOUS
  <2> QED
    BY <2>1, SaveNext, SaveCode
<1>3. word(Peek(q, After(q.pc, 2)), Peek(q, After(q.pc, 1))) = \hC100
  <2>1. 0 \in {0, 3, 6, 7} /\ 0 < 6
    OBVIOUS
  <2> QED
    BY <2>1, SaveNext
<1>4. PICK x \in Word : x = \hC100
  BY IsWord
<1>5. /\ Machine(t) /\ Keeps(t, q, Ticked \cup {"mem"}) /\ t.pc = After(q.pc, 3)
      /\ Stored(t, q, {x, increment16(x)})
  BY <1>2, <1>3, <1>4, TickStoreStack
<1>6. word(Peek(t, increment16(x)), Peek(t, x)) = q.sp
  <2>1. word(Peek(q, After(q.pc, 2)), Peek(q, After(q.pc, 1))) = x
    BY <1>3, <1>4
  <2> HIDE DEF t
  <2>2. word(Peek(tick(q), increment16(x)), Peek(tick(q), x)) = q.sp
    BY <1>2, <2>1, TickStoreStack, Zenon
  <2> QED
    BY <2>2 DEF t
<1>7. increment16(x) = \hC101
  BY <1>4 DEF increment16
<1> HIDE DEF t, S
<1>8. \A r \in Registers : t[r] = q[r]
  BY <1>5 DEF Keeps, Fields, Ticked, Registers
<1>9. Holding(s, t, {})
  <2>1. ~Guarded(\hC100) /\ ~Guarded(\hC101)
    BY DEF Guarded
  <2>2. \A a \in {x, increment16(x)} : a \notin DOMAIN s.mem
    BY <1>4, <1>7, <2>1 DEF Ready
  <2>3. SafeSp(t.sp)
    BY <1>1, <1>8 DEF SafeSp, Registers
  <2>4. Holding(s, q, {})
    BY <1>1 DEF At
  <2> QED
    BY <1>5, <2>2, <2>3, <2>4, HoldingStep
<1>10. t.pc = Origin + (0 + 3)
  <2>1. 0 \in 0..16 /\ 3 \in 0..8 /\ q.pc = Origin + 0
    BY <1>1 DEF At
  <2> QED
    BY <1>5, <2>1, OffsetStep
<1>11. At(s, t, {}, 3, S)
  BY <1>1, <1>8, <1>9, <1>10 DEF At
<1>12. t.sp = 57088
  BY <1>1, <1>8 DEF Registers
<1>13. word(Peek(t, \hC101), Peek(t, \hC100)) = \hDF00
  BY <1>1, <1>4, <1>6, <1>7
<1> QED
  BY <1>11, <1>12, <1>13 DEF SaveAt, Stack, S, t

LEMMA SaveLoad ==
    ASSUME NEW p, SaveProgram(p), NEW s, Ready(p.code, s), NEW q, SaveAt(s, q, 3)
    PROVE  SaveAt(s, tick(q), 6)
<1> DEFINE t == tick(q)
           S == {"h", "l", "sp"}
           C == {"sp"}
<1>1. At(s, q, {}, 3, S)
  BY DEF SaveAt
<1>2. 3 \in {0, 3, 6, 7} /\ 3 < 6
  OBVIOUS
<1>3. Machine(q) /\ Peek(q, q.pc) = \h31
  BY <1>2, SaveNext, SaveCode
<1>4. word(Peek(q, After(q.pc, 2)), Peek(q, After(q.pc, 1))) = \hC100
  BY <1>2, SaveNext
<1>5. PICK x \in Word : x = \hC100
  BY IsWord
<1>6. Changed(t, q, C, 3) /\ t.sp = x
  BY <1>3, <1>4, <1>5, TickLoadStack
<1>7. SafeSp(t.sp)
  BY <1>5, <1>6 DEF SafeSp
<1>8. "mem" \notin C /\ \A r \in C : r \in Registers => r \in S
  OBVIOUS
<1>9. PICK off \in 0..16 : off = 3
  OBVIOUS
<1> HIDE DEF t, S, C
<1>10. At(s, t, {}, off + 3, S) /\ \A a : Peek(t, a) = Peek(q, a)
  <2>1. At(s, q, {}, off, S) /\ 3 \in 0..8
    BY <1>1, <1>9
  <2>2. At(s, t, {}, off + 3, S)
    BY <2>1, <1>6, <1>7, <1>8, AtStep, Zenon
  <2>3. \A a : Peek(t, a) = Peek(q, a)
    BY <1>1, <1>6, <1>7, <1>8, ChangedHolding DEF At
  <2> QED
    BY <2>2, <2>3
<1>11. At(s, t, {}, 6, S)
  BY <1>9, <1>10
<1>12. word(Peek(t, \hC101), Peek(t, \hC100)) = \hDF00
  BY <1>10 DEF SaveAt
<1> QED
  BY <1>5, <1>6, <1>11, <1>12 DEF SaveAt, Stack, S, t

LEMMA SavePop ==
    ASSUME NEW p, SaveProgram(p), NEW s, Ready(p.code, s), NEW q, SaveAt(s, q, 6)
    PROVE  SaveAt(s, tick(q), 7)
<1> DEFINE t == tick(q)
           S == {"h", "l", "sp"}
<1>1. At(s, q, {}, 6, S) /\ q.sp = \hC100
  BY DEF SaveAt, Stack
<1>2. Machine(q) /\ Peek(q, q.pc) = \hC1 + 16 * 2
  <2>1. 6 \in {0, 3, 6, 7}
    OBVIOUS
  <2> QED
    BY <2>1, SaveNext, SaveCode
<1>3. 2 \in 0..3 /\ 2 < 3 /\ StackReg[2 + 1] = "hl" /\ Halves("hl") = {"h", "l"}
  BY DEF StackReg, Halves
<1>4. /\ Machine(t) /\ Keeps(t, q, Ticked \cup {"sp"} \cup Halves(StackReg[2 + 1]))
      /\ t.pc = After(q.pc, 1) /\ t.sp = After(q.sp, 2)
      /\ 2 < 3 => value(t, StackReg[2 + 1]) = word(Peek(q, After(q.sp, 1)), Peek(q, q.sp))
  BY <1>2, <1>3, TickPop
<1> HIDE DEF t, S
<1>5. Keeps(t, q, Ticked \cup {"sp"} \cup {"h", "l"})
  BY <1>3, <1>4
<1>6. After(49408, 1) = 49409 /\ After(49408, 2) = 49410
  BY DEF After
<1>7. t.sp = \hC102 /\ value(t, "hl") = \hDF00
  <2>1. word(Peek(q, \hC101), Peek(q, \hC100)) = \hDF00
    BY DEF SaveAt
  <2>2. value(t, "hl") = word(Peek(q, After(q.sp, 1)), Peek(q, q.sp))
    BY <1>3, <1>4
  <2>3. value(t, "hl") = \hDF00
    BY <1>1, <1>6, <2>1, <2>2
  <2> QED
    BY <1>1, <1>4, <1>6, <2>3
<1>8. \A r \in Registers \ S : t[r] = q[r]
  BY <1>5 DEF Keeps, Fields, Ticked, Registers, S
<1>9. Holding(s, t, {})
  <2>1. t.mem = q.mem
    BY <1>5 DEF Keeps, Fields, Ticked
  <2>2. Stored(t, q, {}) /\ SafeSp(t.sp)
    BY <1>7, <2>1, SameMemory DEF SafeSp
  <2>3. Holding(s, q, {})
    BY <1>1 DEF At
  <2> QED
    BY <1>4, <2>2, <2>3, HoldingStep
<1>10. t.pc = Origin + (6 + 1)
  <2>1. 6 \in 0..16 /\ 1 \in 0..8 /\ q.pc = Origin + 6
    BY <1>1 DEF At
  <2> QED
    BY <1>4, <2>1, OffsetStep
<1>11. At(s, t, {}, 7, S)
  BY <1>1, <1>8, <1>9, <1>10 DEF At
<1> QED
  BY <1>7, <1>11 DEF SaveAt, Stack, S, t

LEMMA SaveRestore ==
    ASSUME NEW p, SaveProgram(p), NEW s, Ready(p.code, s), NEW q, SaveAt(s, q, 7)
    PROVE  SaveAt(s, tick(q), 8)
<1> DEFINE t == tick(q)
           S == {"h", "l", "sp"}
           C == {"sp"}
<1>1. At(s, q, {}, 7, S) /\ value(q, "hl") = \hDF00
  BY DEF SaveAt
<1>2. Machine(q) /\ Peek(q, q.pc) = \hF9
  <2>1. 7 \in {0, 3, 6, 7}
    OBVIOUS
  <2> QED
    BY <2>1, SaveNext, SaveCode
<1>3. Changed(t, q, C, 1) /\ t.sp = value(q, "hl")
  BY <1>2, TickStackFromPair
<1>4. SafeSp(t.sp)
  BY <1>1, <1>3 DEF SafeSp
<1>5. "mem" \notin C /\ \A r \in C : r \in Registers => r \in S
  OBVIOUS
<1>6. PICK off \in 0..16 : off = 7
  OBVIOUS
<1> HIDE DEF t, S, C
<1>7. At(s, t, {}, off + 1, S)
  <2>1. At(s, q, {}, off, S) /\ 1 \in 0..8
    BY <1>1, <1>6
  <2> QED
    BY <2>1, <1>3, <1>4, <1>5, AtStep, Zenon
<1>8. At(s, t, {}, 8, S)
  BY <1>6, <1>7
<1> QED
  BY <1>1, <1>3, <1>8 DEF SaveAt, Stack, S, t

\* LD A,(HL+).
LEMMA TickLoadUp ==
    ASSUME NEW q, Machine(q), Peek(q, q.pc) = \h2A
    PROVE  /\ Changed(tick(q), q, {"a", "h", "l"}, 1)
           /\ tick(q).a = Peek(q, value(q, "hl"))
           /\ value(tick(q), "hl") = increment16(value(q, "hl"))
<1>1. length(\h2A) = 1
  <2>1. \h2A \in 0..63 /\ z(\h2A) = 2
    BY DEF z
  <2> QED
    BY <2>1, LowerTables
<1>2. PICK t, data : Moved(t, q, 1) /\ tick(q) = SwitchOf(\h2A, t, data)
  <2>1. \h2A # \hCB
    OBVIOUS
  <2> QED
    BY <1>1, <2>1, Decoded
<1> DEFINE x == value(q, "hl")
           u == load_from(t, "a", x)
           w == load16(u, "hl", increment16(x))
<1>3. "hl" \in Pair \ {"pc"} /\ "hl" \in Pair /\ "hl" # "af" /\ Halves("hl") = {"h", "l"}
  BY DEF Pair, Halves
<1>4. x \in Word /\ value(t, "hl") = x /\ Machine(t) /\ \A a : Peek(t, a) = Peek(q, a)
  <2>1. x \in Word
    BY <1>3, ValueType
  <2>2. value(t, "hl") = x
    BY <1>2, <1>3, MovedKeeps
  <2>3. \A a : Peek(t, a) = Peek(q, a)
    BY <1>2, MovedKeeps
  <2> QED
    BY <1>2, <2>1, <2>2, <2>3 DEF Moved
<1>5. increment16(x) \in Word
  BY <1>4, StepWord
<1>6. tick(q) = w
  <2>1. SwitchOf(\h2A, t, data) = Row_20(t, \h2A, data)
    BY DEF SwitchOf
  <2> QED
    BY <1>2, <1>4, <2>1 DEF Row_20
<1> HIDE DEF x
<1>7. Machine(u) /\ Keeps(u, t, {"accesses", "a"}) /\ u.a = Peek(q, x)
  BY <1>4, LoadFrom
<1> HIDE DEF u
<1>8. Machine(w) /\ Keeps(w, u, {"h", "l"}) /\ value(w, "hl") = increment16(x)
  <2> DEFINE v == increment16(x)
  <2> HIDE DEF v
  <2>1. v \in Word
    BY <1>5 DEF v
  <2>2. Machine(load16(u, "hl", v)) /\ Keeps(load16(u, "hl", v), u, Halves("hl"))
    BY <1>3, <1>7, <2>1, Load16
  <2>3. value(load16(u, "hl", v), "hl") = v
    BY <1>3, <1>7, <2>1, Load16
  <2> QED
    BY <1>3, <2>2, <2>3 DEF v
<1> HIDE DEF w
<1>9. Keeps(w, t, {"accesses", "a", "h", "l"}) /\ w.a = Peek(q, x) /\ w.pc = t.pc
  BY <1>7, <1>8 DEF Keeps, Fields
<1>10. Changed(w, q, {"a", "h", "l"}, 1)
  BY <1>2, <1>8, <1>9 DEF Changed, Moved, Keeps, Fields, Ticked
<1> QED
  BY <1>6, <1>8, <1>9, <1>10 DEF x

\* LD (HL),A.
LEMMA TickStoreAccumulator ==
    ASSUME NEW q, Machine(q), Peek(q, q.pc) = \h77
    PROVE  /\ Machine(tick(q)) /\ Keeps(tick(q), q, Ticked \cup {"mem"})
           /\ tick(q).pc = After(q.pc, 1)
           /\ Stored(tick(q), q, {value(q, "hl")})
           /\ Peek(tick(q), value(q, "hl")) = q.a
<1>1. z(\h77) = 7 /\ y(\h77) = 6 /\ reg_z(\h77) = "a" /\ reg_y(\h77) = "(hl)"
  BY DEF z, y, reg_z, reg_y, Reg8
<1>2. length(\h77) = 1
  <2>1. \h77 \in 64..191
    OBVIOUS
  <2> QED
    BY <2>1, MiddleTables
<1>3. PICK t, data : Moved(t, q, 1) /\ tick(q) = SwitchOf(\h77, t, data)
  <2>1. \h77 # \hCB
    OBVIOUS
  <2> QED
    BY <1>2, <2>1, Decoded
<1> DEFINE x == value(q, "hl")
           u == write_data(t, x, q.a)
<1>4. "hl" \in Pair \ {"pc"} /\ "hl" \in Pair
  BY DEF Pair
<1>5. /\ x \in Word /\ value(t, "hl") = x /\ Machine(t) /\ t.a = q.a /\ q.a \in Byte
      /\ t.mem = q.mem
  <2>1. t.a = q.a /\ q.a \in Byte
    BY <1>3, MovedKeeps DEF Half, Machine
  <2>2. t.mem = q.mem
    BY <1>3 DEF Moved, Keeps, Fields, Ticked
  <2> QED
    BY <1>3, <1>4, <2>1, <2>2, ValueType, MovedKeeps, Zenon DEF Moved
<1>6. tick(q) = u
  <2>1. SwitchOf(\h77, t, data) = Row_70(t, \h77)
    BY DEF SwitchOf
  <2>2. Row_70(t, \h77) = load(Fetched(t, "a"), "(hl)", Operand(t, "a"))
    BY <1>1 DEF Row_70, Load
  <2>3. Fetched(t, "a") = t /\ Operand(t, "a") = q.a
    BY <1>5 DEF Fetched, Operand
  <2> QED
    BY <1>3, <1>5, <2>1, <2>2, <2>3 DEF load
<1> HIDE DEF x
<1>7. /\ Machine(u) /\ Keeps(u, t, {"accesses", "mem"}) /\ Stored(u, t, {x})
      /\ Peek(u, x) = q.a
  <2>1. PICK v \in Byte : v = q.a
    BY <1>5
  <2> HIDE DEF u
  <2>2. /\ Machine(write_data(t, x, v)) /\ Keeps(write_data(t, x, v), t, {"accesses", "mem"})
        /\ Stored(write_data(t, x, v), t, {x})
    BY <1>5, WriteByte, ZenonT(60)
  <2>4. Machine(t) /\ x \in Word
    BY <1>5
  <2>3. Peek(write_data(t, x, v), x) = v
    BY ONLY <2>4, v \in Byte, WriteByte, Zenon
  <2> QED
    BY <2>1, <2>2, <2>3 DEF u
<1> HIDE DEF u
<1>8. Keeps(u, q, Ticked \cup {"mem"}) /\ u.pc = After(q.pc, 1)
  BY <1>3, <1>7 DEF Moved, Keeps, Fields, Ticked
<1>9. Stored(u, q, {x})
  BY <1>5, <1>7 DEF Stored, Peek
<1> QED
  BY <1>6, <1>7, <1>8, <1>9 DEF x

\* LD A,(HL+); DEC HL; LD (HL),A.
EchoBytes == <<\h2A, \h2B, \h77>>
EchoProgram(p) == p = Straight("inverse", EchoBytes, Registers \ {"a"})
EchoAt(s, q, off) ==
    LET x == value(s, "hl")
    IN  /\ At(s, q, {x}, off, {"a", "h", "l"})
        /\ Peek(q, x) = Peek(s, x)
        /\ value(q, "hl") = IF off = 1 THEN increment16(x) ELSE x
        /\ off > 0 => q.a = Peek(s, x)

LEMMA EchoCode ==
    ASSUME NEW p, EchoProgram(p)
    PROVE  /\ p.kind = "inverse" /\ p.keeps = Registers \ {"a"} /\ p.end = Origin + 3
           /\ HasHandler(p.code) /\ Loadable(p.code)
           /\ \A i \in 0..2 : Origin + i \in DOMAIN p.code
           /\ p.code[Origin + 0] = \h2A /\ p.code[Origin + 1] = \h2B
           /\ p.code[Origin + 2] = \h77
<1> DEFINE b == EchoBytes
<1>1. b[1] = \h2A /\ b[2] = \h2B /\ b[3] = \h77 /\ Len(b) = 3
  BY DEF EchoBytes
<1>2. p = Straight("inverse", b, Registers \ {"a"})
  BY DEF EchoProgram
<1> HIDE DEF b
<1>3. \A i \in 1..3 : b[i] \in Byte
  <2>1. b[1] \in Byte /\ b[2] \in Byte /\ b[3] \in Byte
    BY <1>1, IsByte
  <2> QED
    BY <2>1
<1>4. 3 \in 1..8
  OBVIOUS
<1>5. /\ p.kind = "inverse" /\ p.keeps = Registers \ {"a"}
      /\ p.end = Origin + 3 /\ HasHandler(p.code) /\ Loadable(p.code)
  BY <1>1, <1>2, <1>3, <1>4, StraightProgram
<1>6. \A i \in 0..7 : i < 3 => Origin + i \in DOMAIN p.code /\ p.code[Origin + i] = b[i + 1]
  BY <1>1, <1>2, <1>3, <1>4, StraightProgram
<1>7. /\ p.code[Origin + 0] = b[0 + 1] /\ p.code[Origin + 1] = b[1 + 1]
      /\ p.code[Origin + 2] = b[2 + 1]
  BY <1>6
<1> QED
  BY <1>1, <1>5, <1>6, <1>7

LEMMA EchoSame ==
    ASSUME NEW c, NEW s, Around(c, s), NEW off, NEW q, EchoAt(s, q, off),
           NEW n, Same(n, q)
    PROVE  EchoAt(s, n, off)
<1>1. Ready(c, s) /\ Guarded(value(s, "hl"))
  BY DEF Around
<1>2. /\ At(s, n, {value(s, "hl")}, off, {"a", "h", "l"})
      /\ \A x \in Registers : n[x] = q[x]
      /\ \A x : Guarded(x) => Peek(n, x) = Peek(q, x)
  BY <1>1, AtSame DEF EchoAt
<1>3. n.a = q.a /\ value(n, "hl") = value(q, "hl")
  BY <1>2 DEF value, Registers
<1> QED
  BY <1>1, <1>2, <1>3 DEF EchoAt

LEMMA EchoNext ==
    ASSUME NEW p, EchoProgram(p), NEW s, Around(p.code, s), NEW off \in 0..2,
           NEW q, EchoAt(s, q, off)
    PROVE  Machine(q) /\ Regular(q) /\ Peek(q, q.pc) = p.code[Origin + off]
<1> DEFINE S == {"a", "h", "l"}
           D == {value(s, "hl")}
<1>1. At(s, q, D, off, S)
  BY DEF EchoAt
<1>2. off \in 0..7 /\ Ready(p.code, s) /\ \A x \in D : x \notin DOMAIN p.code
  BY DEF Around
<1> HIDE DEF S, D
<1>3. Machine(q) /\ Peek(q, q.pc) = p.code[Origin + off]
  BY <1>1, <1>2, EchoCode, AtCode
<1>4. Regular(q)
  <2>1. p.code[Origin + off] \in {\h2A, \h2B, \h77}
    BY EchoCode
  <2>2. p.code[Origin + off] \notin Undefined \cup {\h10, \hCB}
    BY <2>1 DEF Undefined
  <2> QED
    BY <1>3, <2>2, RegularOpcode
<1> QED
  BY <1>3, <1>4

LEMMA EchoLoads ==
    ASSUME NEW p, EchoProgram(p), NEW s, Around(p.code, s), NEW k \in 0..1,
           NEW q, EchoAt(s, q, k)
    PROVE  EchoAt(s, tick(q), k + 1)
<1> DEFINE t == tick(q)
           S == {"a", "h", "l"}
           C == IF k = 0 THEN {"a", "h", "l"} ELSE {"h", "l"}
           D == {value(s, "hl")}
           x == value(s, "hl")
<1>1. At(s, q, D, k, S) /\ Ready(p.code, s) /\ k \in 0..2
  BY DEF EchoAt, Around
<1>2. Machine(q) /\ Peek(q, q.pc) = IF k = 0 THEN \h2A ELSE 16 * 2 + 8 * 1 + 3
  <2>1. Machine(q) /\ Peek(q, q.pc) = p.code[Origin + k]
    BY <1>1, EchoNext
  <2>2. CASE k = 0
    BY <2>1, <2>2, EchoCode
  <2>3. CASE k = 1
    BY <2>1, <2>3, EchoCode
  <2> QED
    BY <2>2, <2>3
<1>3. x \in Word
  BY <1>1, ValueType DEF Ready, Pair
<1>4. /\ Changed(t, q, C, 1) /\ t.a = Peek(s, x)
      /\ value(t, "hl") = IF k = 0 THEN increment16(x) ELSE x
  <2>1. CASE k = 0
    <3>1. Changed(t, q, {"a", "h", "l"}, 1)
      BY <1>2, <2>1, TickLoadUp
    <3>2. t.a = Peek(q, value(q, "hl")) /\ value(t, "hl") = increment16(value(q, "hl"))
      BY <1>2, <2>1, TickLoadUp
    <3>3. value(q, "hl") = x /\ Peek(q, x) = Peek(s, x)
      BY <2>1 DEF EchoAt
    <3> QED
      BY <2>1, <3>1, <3>2, <3>3
  <2>2. CASE k = 1
    <3>1. Reg16[2 + 1] = "hl" /\ Halves("hl") = {"h", "l"} /\ 2 \in 0..3 /\ 1 \in 0..1
      BY DEF Reg16, Halves
    <3>2. /\ Changed(t, q, Halves(Reg16[2 + 1]), 1)
          /\ value(t, Reg16[2 + 1]) = IF 1 = 0 THEN increment16(value(q, Reg16[2 + 1]))
                                               ELSE decrement16(value(q, Reg16[2 + 1]))
      BY <1>2, <2>2, <3>1, TickCountPair
    <3>3. Changed(t, q, {"h", "l"}, 1) /\ value(t, "hl") = decrement16(value(q, "hl"))
      BY <3>1, <3>2
    <3>4. value(q, "hl") = increment16(x) /\ q.a = Peek(s, x)
      BY <2>2 DEF EchoAt
    <3>5. t.a = q.a
      BY <3>3 DEF Changed, Keeps, Fields, Ticked
    <3> QED
      BY <1>3, <2>2, <3>3, <3>4, <3>5, BackAndForth
  <2> QED
    BY <2>1, <2>2
<1>5. "mem" \notin C /\ \A r \in C : r \in Registers => r \in S
  OBVIOUS
<1>6. SafeSp(t.sp)
  <2>1. "sp" \notin S /\ "sp" \notin C
    OBVIOUS
  <2>2. SafeSp(q.sp)
    BY <1>1, <2>1, AtSafe
  <2>3. t.sp = q.sp
    BY <1>4, <2>1 DEF Changed, Keeps, Fields, Ticked
  <2> QED
    BY <2>2, <2>3
<1> HIDE DEF t, S, C, D, x
<1>7. k \in 0..16 /\ 1 \in 0..8
  OBVIOUS
<1>8. At(s, t, D, k + 1, S)
  BY <1>1, <1>4, <1>5, <1>6, <1>7, AtStep, Zenon
<1>9. Peek(t, x) = Peek(q, x)
  BY <1>1, <1>4, <1>5, <1>6, ChangedHolding DEF At
<1>10. Peek(q, x) = Peek(s, x)
  BY DEF EchoAt, x
<1>11. EchoAt(s, t, k + 1)
  <2>1. CASE k = 0
    BY <1>4, <1>8, <1>9, <1>10, <2>1 DEF EchoAt, x, D, S
  <2>2. CASE k = 1
    BY <1>4, <1>8, <1>9, <1>10, <2>2 DEF EchoAt, x, D, S
  <2> QED
    BY <2>1, <2>2
<1> QED
  BY <1>11 DEF t

LEMMA EchoStores ==
    ASSUME NEW p, EchoProgram(p), NEW s, Around(p.code, s), NEW q, EchoAt(s, q, 2)
    PROVE  EchoAt(s, tick(q), 3)
<1> DEFINE t == tick(q)
           S == {"a", "h", "l"}
           D == {value(s, "hl")}
           x == value(s, "hl")
<1>1. /\ At(s, q, D, 2, S) /\ Ready(p.code, s)
      /\ value(q, "hl") = x /\ q.a = Peek(s, x)
  BY DEF EchoAt, Around
<1>2. Machine(q) /\ Peek(q, q.pc) = \h77
  <2>1. 2 \in 0..2
    OBVIOUS
  <2> QED
    BY <2>1, EchoNext, EchoCode
<1>3. /\ Machine(t) /\ Keeps(t, q, Ticked \cup {"mem"}) /\ t.pc = After(q.pc, 1)
      /\ Stored(t, q, {value(q, "hl")})
  BY <1>2, TickStoreAccumulator
<1>4. Peek(t, value(q, "hl")) = q.a
  BY <1>2, TickStoreAccumulator, Zenon
<1>5. \A r \in Registers : t[r] = q[r]
  BY <1>3 DEF Keeps, Fields, Ticked, Registers
<1> HIDE DEF t, x
<1>6. Holding(s, t, D)
  <2>1. "sp" \notin S
    OBVIOUS
  <2> HIDE DEF S
  <2>2. SafeSp(q.sp)
    BY <1>1, <2>1, AtSafe
  <2>3. SafeSp(t.sp)
    BY <1>5, <2>2 DEF Registers
  <2>4. Stored(t, q, D) /\ \A a \in D : a \in DOMAIN s.mem => a \in D
    BY <1>1, <1>3 DEF x
  <2>5. Holding(s, q, D)
    BY <1>1 DEF At
  <2> HIDE DEF D
  <2> QED
    BY <1>3, <2>3, <2>4, <2>5, HoldingStep
<1>7. t.pc = Origin + (2 + 1)
  <2>1. 2 \in 0..16 /\ 1 \in 0..8 /\ q.pc = Origin + 2
    BY <1>1 DEF At
  <2> QED
    BY <1>3, <2>1, OffsetStep
<1>8. At(s, t, D, 3, S)
  BY <1>1, <1>5, <1>6, <1>7 DEF At
<1>9. value(t, "hl") = x /\ t.a = q.a
  BY <1>1, <1>5 DEF value, Registers
<1>10. Peek(t, x) = Peek(s, x)
  BY <1>1, <1>4
<1> QED
  BY <1>1, <1>8, <1>9, <1>10 DEF EchoAt, x, t

LEMMA EchoEnds ==
    ASSUME NEW p, EchoProgram(p), NEW s, Around(p.code, s), NEW q, EchoAt(s, q, 3)
    PROVE  Restored(p, s, q)
<1> DEFINE S == {"a", "h", "l"}
           x == value(s, "hl")
<1>1. At(s, q, {x}, 3, S) /\ value(q, "hl") = x /\ Peek(q, x) = Peek(s, x)
  BY DEF EchoAt
<1>2. Machine(s) /\ Machine(q)
  BY <1>1 DEF Around, Ready, At, Holding
<1>3. \A r \in Halves("hl") : q[r] = s[r]
  BY <1>1, <1>2, SamePair
<1>4. q.h = s.h /\ q.l = s.l
  BY <1>3 DEF Halves
<1>5. \A r \in Registers \ {"a"} : q[r] = s[r]
  BY <1>1, <1>4 DEF At, Registers
<1> HIDE DEF x
<1>6. \A a \in DOMAIN s.mem : q.mem[a] = s.mem[a]
  <2>1. \A a \in {x} : a \in DOMAIN s.mem => Peek(q, a) = s.mem[a]
    BY <1>1 DEF Peek
  <2> QED
    BY <1>1, <2>1, HoldingMemory DEF At
<1>7. p.keeps = Registers \ {"a"}
  BY EchoCode
<1> QED
  BY <1>5, <1>6, <1>7 DEF Restored, Registers

-----------------------------------------------------------------------------
(* Programs of CALLS, restarts and jumps. *)

\* n bytes from x on are apart from k bytes of code at Origin, from the handler and
\* from the stacks.
Apart(x, n, k) ==
    /\ x \in Nat /\ x + n <= \hC300
    /\ x + n <= 80 \/ 88 <= x
    /\ x + n <= \hC0FA \/ \hC102 <= x
    /\ x + n <= Origin \/ Origin + k <= x

\* Programs of two pieces of code.
LEMMA TwoPieces ==
    ASSUME NEW kind, NEW keeps, NEW end, NEW k \in 1..3, NEW n \in 1..2, NEW x, Apart(x, n, k),
           NEW f, Len(f) = k, \A i \in 1..k : f[i] \in Byte,
           NEW g, Len(g) = n, \A i \in 1..n : g[i] \in Byte
    PROVE  LET p == Program(kind, Over(Code(Origin, f), Code(x, g)), end, keeps)
           IN  /\ p.kind = kind /\ p.keeps = keeps /\ p.end = end
               /\ Loadable(p.code) /\ HasHandler(p.code)
               /\ \A i \in 0..2 : i < k => /\ Origin + i \in DOMAIN p.code
                                           /\ p.code[Origin + i] = f[i + 1]
               /\ \A i \in 0..1 : i < n => x + i \in DOMAIN p.code /\ p.code[x + i] = g[i + 1]
<1> DEFINE p == Program(kind, Over(Code(Origin, f), Code(x, g)), end, keeps)
           c == Code(Origin, f)
           d == Code(x, g)
           e == Over(c, d)
           o == Over(e, Handler)
<1>1. p.kind = kind /\ p.keeps = keeps /\ p.end = end /\ p.code = o
  BY DEF Program
<1>2. /\ Origin = 49152 /\ Origin \in Nat /\ k \in Nat /\ n \in Nat
      /\ x \in Nat /\ x + n <= 49920 /\ (x + n <= 80 \/ 88 <= x)
      /\ (x + n <= 49402 \/ 49410 <= x) /\ (x + n <= 49152 \/ 49152 + k <= x)
  BY DEF Origin, Apart
<1>18. Origin \in Nat /\ k \in Nat /\ n \in Nat /\ x \in Nat
  BY <1>2
<1>3. DOMAIN c = 49152..49152 + k - 1 /\ DOMAIN d = x..x + n - 1
  BY <1>2, CodeDomain
<1>4. ASSUME NEW i \in Nat, i < k
      PROVE  Origin + i \in DOMAIN c /\ c[Origin + i] = f[i + 1]
  BY <1>18, <1>4, CodeCell
<1>5. ASSUME NEW i \in Nat, i < n
      PROVE  x + i \in DOMAIN d /\ d[x + i] = g[i + 1]
  BY <1>18, <1>5, CodeCell
<1>6. ASSUME NEW a \in DOMAIN c
      PROVE  c[a] \in Byte
  <2>1. a - 49152 \in Nat /\ a - 49152 < k /\ (a - 49152) + 1 \in 1..k
        /\ a = 49152 + (a - 49152)
    BY <1>3
  <2>2. c[Origin + (a - 49152)] = f[(a - 49152) + 1]
    BY <1>4, <2>1
  <2> QED
    BY <1>2, <2>1, <2>2
<1>7. ASSUME NEW a \in DOMAIN d
      PROVE  d[a] \in Byte
  <2>1. a - x \in Nat /\ a - x < n /\ (a - x) + 1 \in 1..n /\ a = x + (a - x)
    BY <1>2, <1>3
  <2>2. d[x + (a - x)] = g[(a - x) + 1]
    BY <1>5, <2>1
  <2> QED
    BY <2>1, <2>2
<1> HIDE DEF c, d
<1>8. \A a \in DOMAIN d : a \notin DOMAIN c
  BY <1>2, <1>3
<1>9. /\ DOMAIN e = DOMAIN c \cup DOMAIN d
      /\ \A a \in DOMAIN c : e[a] = c[a]
      /\ \A a \in DOMAIN d : e[a] = d[a]
  <2>1. DOMAIN e = DOMAIN c \cup DOMAIN d
    BY OverDomain, Zenon
  <2>2. \A a \in DOMAIN c : e[a] = c[a]
    BY OverFirst
  <2>3. \A a \in DOMAIN d : e[a] = d[a]
    BY <1>8, OverSecond
  <2> QED
    BY <2>1, <2>2, <2>3
<1> HIDE DEF e
<1>10. /\ DOMAIN o = DOMAIN e \cup 80..87
       /\ \A a \in DOMAIN e : o[a] = e[a]
  <2>1. DOMAIN o = DOMAIN e \cup DOMAIN Handler
    BY OverDomain, Zenon
  <2>2. \A a \in DOMAIN e : o[a] = e[a]
    BY OverFirst
  <2> QED
    BY <2>1, <2>2, HandlerCells
<1>11. \A a \in 80..87 : a \notin DOMAIN e
  BY <1>2, <1>3, <1>9
<1>12. \A a \in 80..87 : a \in DOMAIN o /\ o[a] = Handler[a]
  <2> SUFFICES ASSUME NEW a \in 80..87 PROVE a \in DOMAIN o /\ o[a] = Handler[a]
    OBVIOUS
  <2>1. a \in DOMAIN Handler /\ a \notin DOMAIN e
    BY <1>11, HandlerCells
  <2>2. o[a] = Handler[a]
    BY ONLY <2>1, OverSecond
  <2> QED
    BY <1>10, <2>2
<1>13. o = [a \in DOMAIN o |-> o[a]]
  BY OverFunction
<1> HIDE DEF o
<1>14. HasHandler(o)
  BY <1>12 DEF HasHandler
<1>15. Loadable(o)
  <2>1. ASSUME NEW a \in DOMAIN o
        PROVE  a \in Int /\ a < \hC300 /\ Guarded(a) /\ o[a] \in Byte
    <3>1. CASE a \in DOMAIN c
      <4>1. a \in Int /\ 49152 <= a /\ a < 49160
        BY <1>3, <3>1
      <4>2. o[a] \in Byte
        BY <1>6, <1>9, <1>10, <3>1
      <4> QED
        BY <4>1, <4>2 DEF Guarded
    <3>2. CASE a \in DOMAIN d
      <4>1. a \in Int /\ a < 49920 /\ (a < 49402 \/ 49410 <= a)
        BY <1>2, <1>3, <3>2
      <4>2. o[a] \in Byte
        BY <1>7, <1>9, <1>10, <3>2
      <4> QED
        BY <4>1, <4>2 DEF Guarded
    <3>3. CASE a \in 80..87
      <4>1. o[a] \in Byte
        BY <1>12, <3>3, HandlerCells
      <4> QED
        BY <3>3, <4>1 DEF Guarded
    <3> QED
      BY <1>9, <1>10, <3>1, <3>2, <3>3
  <2> QED
    BY <1>13, <2>1 DEF Loadable
<1>16. ASSUME NEW i \in 0..2, i < k
       PROVE  Origin + i \in DOMAIN o /\ o[Origin + i] = f[i + 1]
  <2>1. Origin + i \in DOMAIN c /\ c[Origin + i] = f[i + 1]
    BY <1>4, <1>16
  <2> QED
    BY <1>9, <1>10, <2>1
<1>17. ASSUME NEW i \in 0..1, i < n
       PROVE  x + i \in DOMAIN o /\ o[x + i] = g[i + 1]
  <2>1. x + i \in DOMAIN d /\ d[x + i] = g[i + 1]
    BY <1>5, <1>17
  <2> QED
    BY <1>9, <1>10, <2>1
<1> QED
  BY <1>1, <1>14, <1>15, <1>16, <1>17

\* Calls push the address behind them.
LEMMA JumpPushed ==
    ASSUME NEW u, NEW q, NEW v, Pushed(u, q, v), NEW x \in Word
    PROVE  Pushed(jump(u, x), q, v) /\ jump(u, x).pc = x
<1> DEFINE t == jump(u, x)
<1>1. Machine(u)
  BY DEF Pushed
<1>2. Machine(t) /\ Keeps(t, u, {"pc"}) /\ t.pc = x
  BY <1>1, Jump
<1> HIDE DEF t
<1>3. t.mem = u.mem /\ t.sp = u.sp
  BY <1>2 DEF Keeps, Fields
<1>4. Keeps(t, q, Ticked \cup {"mem", "sp"})
  BY <1>2 DEF Pushed, Keeps, Fields, Ticked
<1> QED
  BY <1>2, <1>3, <1>4 DEF Pushed, Stored, Peek, t
LEMMA CallMoved ==
    ASSUME NEW q, Machine(q), NEW t, NEW n, Moved(t, q, n), NEW x \in Word
    PROVE  /\ Pushed(call(t, x), q, After(q.pc, n)) /\ call(t, x).pc = x
           /\ Pushed(rst(t, x), q, After(q.pc, n)) /\ rst(t, x).pc = x
<1> DEFINE u == push(t, t.pc)
<1>1. t.pc \in Word /\ t.pc = After(q.pc, n)
  BY DEF Moved, Machine
<1>2. Pushed(u, q, t.pc)
  BY <1>1, PushMoved
<1> HIDE DEF u
<1>3. Pushed(jump(u, x), q, t.pc) /\ jump(u, x).pc = x
  BY <1>2, JumpPushed
<1>4. call(t, x) = jump(u, x) /\ rst(t, x) = jump(u, x)
  BY DEF call, rst, u
<1> QED
  BY <1>1, <1>3, <1>4

\* t is q behind a return.
Returned(t, q) ==
    /\ Machine(t) /\ Keeps(t, q, Ticked \cup {"sp"})
    /\ t.sp = After(q.sp, 2)
    /\ t.pc = word(Peek(q, After(q.sp, 1)), Peek(q, q.sp))
LEMMA ReturnMoved ==
    ASSUME NEW q, Machine(q), NEW t, NEW n, Moved(t, q, n)
    PROVE  Returned(ret(t), q)
<1> DEFINE s == pop(t, "pc")
<1>1. "pc" \in Pair \ {"sp"} /\ Halves("pc") = {"pc"} /\ "pc" # "af"
  BY DEF Pair, Halves
<1>2. /\ Machine(s) /\ Keeps(s, q, Ticked \cup {"sp"} \cup {"pc"})
      /\ s.sp = After(q.sp, 2)
      /\ value(s, "pc") = word(Peek(q, After(q.sp, 1)), Peek(q, q.sp))
  BY <1>1, PopMoved
<1>3. value(s, "pc") = s.pc /\ ret(t) = s
  BY DEF value, ret
<1> HIDE DEF s
<1>4. Keeps(s, q, Ticked \cup {"sp"})
  BY <1>2 DEF Keeps, Fields, Ticked
<1> QED
  BY <1>2, <1>3, <1>4 DEF Returned

\* A condition that does not hold costs time only.
LEMMA NotTaken ==
    ASSUME NEW q, NEW t, NEW n, Moved(t, q, n), NEW op, NEW taken
    PROVE  Branch(t, op, taken) = taken \/ Changed(Branch(t, op, taken), q, {}, n)
<1> DEFINE d == get_false_branch_cycle_count(op)
           u == [t EXCEPT !.cycles = d]
<1>1. d \in Nat /\ Machine(t)
  BY DEF get_false_branch_cycle_count, Moved
<1> HIDE DEF d
<1>2. Machine(u) /\ Keeps(u, t, {"cycles"})
  BY <1>1, SetCycles
<1>3. Branch(t, op, taken) = taken \/ Branch(t, op, taken) = u
  BY DEF Branch, d
<1> HIDE DEF u
<1>4. Changed(u, q, {}, n)
  BY <1>2 DEF Changed, Moved, Keeps, Fields, Ticked
<1> QED
  BY <1>3, <1>4

Calls == {\hCD, \hC4, \hCC, \hD4, \hDC}
Returns == {\hC9, \hC0, \hC8, \hD0, \hD8}
LEMMA CallTables ==
    ASSUME NEW op \in Calls
    PROVE  /\ length(op) = 3 /\ op # \hCB /\ op \in Int /\ 192 <= op /\ op < 224
           /\ op # \hCD => z(op) = 4
           /\ op = \hCD => z(op) = 5 /\ y(op) = 1
<1>1. op \in {205, 196, 204, 212, 220}
  BY DEF Calls
<1>2. length(op) = 3
  BY <1>1 DEF length, Length3
<1> QED
  BY <1>1, <1>2 DEF z, y
LEMMA ReturnTables ==
    ASSUME NEW op \in Returns
    PROVE  /\ length(op) = 1 /\ op # \hCB /\ op \in Int /\ 192 <= op /\ op < 224
           /\ op # \hC9 => z(op) = 0
           /\ op = \hC9 => z(op) = 1 /\ y(op) = 1
<1>1. op \in {201, 192, 200, 208, 216}
  BY DEF Returns
<1>2. length(op) = 1
  <2>1. z(op) \in {0, 1}
    BY <1>1 DEF z
  <2> QED
    BY <1>1, <2>1 DEF length, Length3, Length2
<1> QED
  BY <1>1, <1>2 DEF z, y

\* CALL, with a condition or not.
LEMMA TickCall ==
    ASSUME NEW q, Machine(q), NEW op \in Calls, Peek(q, q.pc) = op, NEW x \in Word,
           word(Peek(q, After(q.pc, 2)), Peek(q, After(q.pc, 1))) = x
    PROVE  \/ Pushed(tick(q), q, After(q.pc, 3)) /\ tick(q).pc = x
           \/ Changed(tick(q), q, {}, 3)
<1>1. length(op) = 3 /\ op # \hCB /\ op \in Int /\ 192 <= op /\ op < 224
  BY CallTables
<1>2. PICK t, data : Moved(t, q, 3) /\ tick(q) = SwitchOf(op, t, data) /\ data = x
  BY <1>1, Decoded
<1>3. tick(q) = Control(t, op, x)
  BY <1>1, <1>2, ControlSwitch
<1>4. Control(t, op, x) \in {call(t, x), Branch(t, op, call(t, x))}
  <2>1. CASE op = \hCD
    <3>1. Control(t, \hCD, x) = call(t, x)
      <4>1. z(\hCD) = 5 /\ y(\hCD) = 1
        BY DEF z, y
      <4> QED
        BY <4>1 DEF Control
    <3> QED
      BY <2>1, <3>1
  <2>2. CASE op # \hCD
    <3>1. z(op) = 4
      BY <2>2, CallTables
    <3>2. op \notin {\hC3, \hC9, \hCD, \hD9}
      BY <3>1 DEF z
    <3> QED
      BY <3>1, <3>2 DEF Control
  <2> QED
    BY <2>1, <2>2
<1>5. Pushed(call(t, x), q, After(q.pc, 3)) /\ call(t, x).pc = x
  BY <1>2, CallMoved
<1> QED
  BY <1>2, <1>3, <1>4, <1>5, NotTaken

\* RET, with a condition or not.
LEMMA TickReturns ==
    ASSUME NEW q, Machine(q), NEW op \in Returns, Peek(q, q.pc) = op
    PROVE  /\ Returned(tick(q), q) \/ Changed(tick(q), q, {}, 1)
           /\ op = \hC9 => Returned(tick(q), q)
<1>1. length(op) = 1 /\ op # \hCB /\ op \in Int /\ 192 <= op /\ op < 224
  BY ReturnTables
<1>2. PICK t, data : Moved(t, q, 1) /\ tick(q) = SwitchOf(op, t, data)
  BY <1>1, Decoded
<1>3. tick(q) = Control(t, op, data)
  BY <1>1, <1>2, ControlSwitch
<1>4. Returned(ret(t), q)
  BY <1>2, ReturnMoved
<1>5. CASE op = \hC9
  <2>1. Control(t, \hC9, data) = ret(t)
    <3>1. z(\hC9) = 1 /\ y(\hC9) = 1
      BY DEF z, y
    <3> QED
      BY <3>1 DEF Control
  <2> QED
    BY <1>3, <1>4, <1>5, <2>1
<1>6. CASE op # \hC9
  <2>1. z(op) = 0
    BY <1>6, ReturnTables
  <2>2. Control(t, op, data) = Branch(t, op, ret(t))
    <3>1. op \notin {\hC3, \hC9, \hCD, \hD9}
      BY <2>1 DEF z
    <3> QED
      BY <2>1, <3>1 DEF Control
  <2> QED
    BY <1>2, <1>3, <1>4, <1>6, <2>2, NotTaken
<1> QED
  BY <1>5, <1>6

\* q runs what the instruction of back bytes at Origin has called.
Within(s, q, off, back) ==
    At(s, q, {}, off, {"sp"}) /\ OnStack(q, Origin + back)

LEMMA CalledFrom ==
    ASSUME NEW c, NEW s, Ready(c, s), NEW q, At(s, q, {}, 0, {}), NEW back \in 1..3,
           NEW t, Pushed(t, q, After(q.pc, back)), NEW off, t.pc = Origin + off
    PROVE  Within(s, t, off, back)
<1> DEFINE v == After(q.pc, back)
<1>1. Holding(s, q, {}) /\ q.pc = Origin + 0 /\ \A x \in Registers : q[x] = s[x]
  BY DEF At
<1>2. v = Origin + back
  <2>1. back \in 0..8 /\ 0 \in 0..16 /\ 0 + back = back
    OBVIOUS
  <2>2. v = Origin + (0 + back)
    BY <1>1, <2>1, OffsetStep
  <2> QED
    BY <2>1, <2>2
<1> HIDE DEF v
<1>3. q.sp = s.sp /\ Pushed(t, q, v)
  BY <1>1 DEF Registers, v
<1>4. Holding(s, t, {})
  BY <1>1, <1>3, PushedOnStack
<1>5. OnStack(t, v)
  BY <1>1, <1>3, PushedOnStack
<1>6. \A x \in Registers \ {"sp"} : t[x] = s[x]
  BY <1>1, <1>3 DEF Pushed, Keeps, Fields, Ticked, Registers
<1> QED
  BY <1>2, <1>4, <1>5, <1>6 DEF Within, At

LEMMA WithinSame ==
    ASSUME NEW c, NEW s, Ready(c, s), NEW off, NEW back, NEW q, Within(s, q, off, back),
           NEW n, Same(n, q)
    PROVE  Within(s, n, off, back)
  BY AtSame, OnStackSame DEF Within

LEMMA WithinReturns ==
    ASSUME NEW c, NEW s, Ready(c, s), NEW off, NEW back \in 1..3, NEW q,
           Within(s, q, off, back), NEW t, Returned(t, q)
    PROVE  At(s, t, {}, back, {})
<1> DEFINE v == Origin + back
<1>1. At(s, q, {}, off, {"sp"}) /\ OnStack(q, v)
  BY DEF Within
<1>2. v \in Word
  BY IsWord DEF Origin
<1> HIDE DEF v
<1>3. word(v \div 256, v % 256) = v
  BY <1>2, BytesOfWord
<1>4. After(q.sp, 2) = \hDF00
  BY <1>1, FoundOnStack
<1>5. Peek(q, After(q.sp, 1)) = v \div 256 /\ Peek(q, q.sp) = v % 256
  BY <1>1, FoundOnStack
<1>6. t.sp = \hDF00 /\ t.pc = v
  BY <1>3, <1>4, <1>5 DEF Returned
<1>7. s.sp = \hDF00
  BY DEF Ready
<1>8. \A x \in Registers \ {"sp"} : t[x] = q[x]
  BY DEF Returned, Keeps, Fields, Ticked, Registers
<1>9. \A x \in Registers : t[x] = s[x]
  BY <1>1, <1>6, <1>7, <1>8 DEF At
<1>10. Holding(s, t, {})
  <2>1. t.mem = q.mem
    BY DEF Returned, Keeps, Fields, Ticked
  <2>2. Stored(t, q, {}) /\ SafeSp(t.sp)
    BY <1>6, <2>1, SameMemory DEF SafeSp
  <2>3. Holding(s, q, {}) /\ Machine(t)
    BY <1>1 DEF At, Returned
  <2> QED
    BY <2>2, <2>3, HoldingStep
<1> QED
  BY <1>6, <1>9, <1>10 DEF At, v

\* An instruction without effect.
LEMMA AtNothing ==
    ASSUME NEW c, NEW s, Ready(c, s), NEW D, NEW q, NEW off, NEW S, At(s, q, D, off, S),
           SafeSp(q.sp), NEW t, NEW k, Changed(t, q, {}, k), NEW next,
           After(q.pc, k) = Origin + next
    PROVE  At(s, t, D, next, S) /\ \A x : Peek(t, x) = Peek(q, x)
<1>1. \A x \in Registers : t[x] = q[x]
  BY DEF Changed, Keeps, Fields, Ticked, Registers
<1>2. SafeSp(t.sp) /\ "mem" \notin {}
  BY <1>1 DEF Registers
<1>3. Holding(s, q, D)
  BY DEF At
<1>4. Holding(s, t, D) /\ \A x : Peek(t, x) = Peek(q, x)
  BY <1>2, <1>3, ChangedHolding
<1> QED
  BY <1>1, <1>4 DEF At, Changed

\* CALL and RET, with conditions or not.
CallBytes(a) == <<a, Sub % 256, Sub \div 256>>
RetBytes(b) == <<b, \hC9>>
CallProgram(p, a, b) ==
    p = Program("inverse", Over(Code(Origin, CallBytes(a)), Code(Sub, RetBytes(b))),
                Origin + 3, Registers)
CallAt(s, q, off) ==
    IF off \in {0, 3} THEN At(s, q, {}, off, {}) ELSE Within(s, q, off, 3)

\* The bytes of the call, and of the return behind it.
CallCells(c, a, b) ==
    /\ Origin + 0 \in DOMAIN c /\ c[Origin + 0] = a
    /\ Origin + 1 \in DOMAIN c /\ c[Origin + 1] = 0
    /\ Origin + 2 \in DOMAIN c /\ c[Origin + 2] = \hC2
    /\ Origin + 512 \in DOMAIN c /\ c[Origin + 512] = b
    /\ Origin + 513 \in DOMAIN c /\ c[Origin + 513] = \hC9

LEMMA CallCode ==
    ASSUME NEW p, NEW a \in Calls, NEW b \in Returns, CallProgram(p, a, b)
    PROVE  /\ p.kind = "inverse" /\ p.keeps = Registers /\ p.end = Origin + 3
           /\ HasHandler(p.code) /\ Loadable(p.code) /\ CallCells(p.code, a, b)
<1> DEFINE f == CallBytes(a)
           g == RetBytes(b)
<1>1. f[1] = a /\ f[2] = 0 /\ f[3] = \hC2 /\ Len(f) = 3
  BY DEF CallBytes, Sub
<1>2. g[1] = b /\ g[2] = \hC9 /\ Len(g) = 2
  BY DEF RetBytes
<1>3. p = Program("inverse", Over(Code(Origin, f), Code(Sub, g)), Origin + 3, Registers)
  BY DEF CallProgram
<1> HIDE DEF f, g
<1>4. \A i \in 1..3 : f[i] \in Byte
  <2>1. f[1] \in Byte /\ f[2] \in Byte /\ f[3] \in Byte
    BY <1>1, IsByte DEF Calls
  <2> QED
    BY <2>1
<1>5. \A i \in 1..2 : g[i] \in Byte
  <2>1. g[1] \in Byte /\ g[2] \in Byte
    BY <1>2, IsByte DEF Returns
  <2> QED
    BY <2>1
<1>6. Apart(Sub, 2, 3) /\ Sub = Origin + 512
  BY DEF Apart, Sub, Origin
<1>7. 3 \in 1..3 /\ 2 \in 1..2
  OBVIOUS
<1>8. /\ p.kind = "inverse" /\ p.keeps = Registers /\ p.end = Origin + 3
      /\ HasHandler(p.code) /\ Loadable(p.code)
  BY <1>1, <1>2, <1>3, <1>4, <1>5, <1>6, <1>7, TwoPieces
<1>9. \A i \in 0..2 : i < 3 => Origin + i \in DOMAIN p.code /\ p.code[Origin + i] = f[i + 1]
  BY <1>1, <1>2, <1>3, <1>4, <1>5, <1>6, <1>7, TwoPieces
<1>10. \A i \in 0..1 : i < 2 => Sub + i \in DOMAIN p.code /\ p.code[Sub + i] = g[i + 1]
  BY <1>1, <1>2, <1>3, <1>4, <1>5, <1>6, <1>7, TwoPieces
<1>11. /\ Origin + 0 \in DOMAIN p.code /\ p.code[Origin + 0] = f[0 + 1]
       /\ Origin + 1 \in DOMAIN p.code /\ p.code[Origin + 1] = f[1 + 1]
       /\ Origin + 2 \in DOMAIN p.code /\ p.code[Origin + 2] = f[2 + 1]
  BY <1>9
<1>12. /\ Sub + 0 \in DOMAIN p.code /\ p.code[Sub + 0] = g[0 + 1]
       /\ Sub + 1 \in DOMAIN p.code /\ p.code[Sub + 1] = g[1 + 1]
  BY <1>10
<1>13. Sub + 0 = Origin + 512 /\ Sub + 1 = Origin + 513
  BY DEF Sub, Origin
<1>14. CallCells(p.code, a, b)
  BY <1>1, <1>2, <1>11, <1>12, <1>13 DEF CallCells
<1> QED
  BY <1>8, <1>14

LEMMA CallSame ==
    ASSUME NEW c, NEW s, Ready(c, s), NEW off, NEW q, CallAt(s, q, off), NEW n, Same(n, q)
    PROVE  CallAt(s, n, off)
  BY AtSame, WithinSame DEF CallAt

LEMMA CallFirst ==
    ASSUME NEW p, NEW a \in Calls, NEW b \in Returns, CallProgram(p, a, b), NEW s,
           Ready(p.code, s), NEW q, CallAt(s, q, 0)
    PROVE  (CallAt(s, tick(q), 512) \/ CallAt(s, tick(q), 3)) /\ Regular(q)
<1> DEFINE t == tick(q)
<1>1. At(s, q, {}, 0, {})
  BY DEF CallAt
<1>2. 0 \in 0..7 /\ 0 \in 0..6 /\ 1 \in 1..7 /\ 2 \in 1..7 /\ 0 + 1 < 8 /\ 0 + 2 < 8
  OBVIOUS
<1>15. /\ Origin + 0 \in DOMAIN p.code /\ p.code[Origin + 0] = a
       /\ Origin + 1 \in DOMAIN p.code /\ p.code[Origin + 1] = 0
       /\ Origin + 2 \in DOMAIN p.code /\ p.code[Origin + 2] = \hC2
  <2>1. CallCells(p.code, a, b)
    BY CallCode, Zenon
  <2> QED
    BY ONLY <2>1 DEF CallCells
<1>3. /\ Origin + 0 \in DOMAIN p.code /\ Origin + (0 + 1) \in DOMAIN p.code
      /\ Origin + (0 + 2) \in DOMAIN p.code
  BY <1>15
<1>4. PICK off : off = 0
  OBVIOUS
<1>5. Machine(q) /\ Peek(q, q.pc) = p.code[Origin + off]
  BY <1>1, <1>2, <1>3, <1>4, AtCode
<1>6. Peek(q, After(q.pc, 1)) = p.code[Origin + (off + 1)]
  BY <1>1, <1>2, <1>3, <1>4, AtOperand
<1>7. Peek(q, After(q.pc, 2)) = p.code[Origin + (off + 2)]
  BY <1>1, <1>2, <1>3, <1>4, AtOperand
<1>8. Machine(q) /\ Peek(q, q.pc) = a
  BY <1>4, <1>5, <1>15
<1>9. word(Peek(q, After(q.pc, 2)), Peek(q, After(q.pc, 1))) = Sub
  <2>1. off + 1 = 1 /\ off + 2 = 2
    BY <1>4
  <2>2. Peek(q, After(q.pc, 1)) = 0 /\ Peek(q, After(q.pc, 2)) = \hC2
    BY <1>6, <1>7, <2>1, <1>15
  <2> QED
    BY <2>2 DEF word, Sub
<1>10. Regular(q)
  <2>1. a \notin Undefined \cup {\h10, \hCB}
    BY DEF Undefined, Calls
  <2> QED
    BY <1>8, <2>1, RegularOpcode
<1>11. Sub \in Word /\ Sub = Origin + 512
  BY IsWord DEF Sub, Origin
<1>12. (Pushed(t, q, After(q.pc, 3)) /\ t.pc = Sub) \/ Changed(t, q, {}, 3)
  BY <1>8, <1>9, <1>11, TickCall
<1> HIDE DEF t
<1>13. CASE Pushed(t, q, After(q.pc, 3)) /\ t.pc = Sub
  <2>1. Within(s, t, 512, 3)
    <3>1. 3 \in 1..3
      OBVIOUS
    <3> QED
      BY <1>1, <1>11, <1>13, <3>1, CalledFrom
  <2>2. CallAt(s, t, 512)
    BY <2>1 DEF CallAt
  <2> QED
    BY <1>10, <2>2 DEF t
<1>14. CASE Changed(t, q, {}, 3)
  <2>1. SafeSp(q.sp)
    BY <1>1, AtSafe
  <2>2. After(q.pc, 3) = Origin + 3
    <3>1. off \in 0..16 /\ 3 \in 0..8 /\ q.pc = Origin + off /\ off + 3 = 3
      BY <1>1, <1>4 DEF At
    <3>2. After(q.pc, 3) = Origin + (off + 3)
      BY <3>1, OffsetStep
    <3> QED
      BY <3>1, <3>2
  <2>3. At(s, t, {}, 3, {})
    BY <1>1, <1>14, <2>1, <2>2, AtNothing
  <2>4. CallAt(s, t, 3)
    BY <2>3 DEF CallAt
  <2> QED
    BY <1>10, <2>4 DEF t
<1> QED
  BY <1>12, <1>13, <1>14

LEMMA CallThen ==
    ASSUME NEW p, NEW a \in Calls, NEW b \in Returns, CallProgram(p, a, b), NEW s,
           Ready(p.code, s), NEW off \in {512, 513}, NEW q, CallAt(s, q, off)
    PROVE  /\ CallAt(s, tick(q), 3) \/ (off = 512 /\ CallAt(s, tick(q), 513))
           /\ Regular(q)
<1> DEFINE t == tick(q)
           op == IF off = 512 THEN b ELSE \hC9
<1>1. Within(s, q, off, 3)
  BY DEF CallAt
<1>2. At(s, q, {}, off, {"sp"}) /\ OnStack(q, Origin + 3)
  BY <1>1 DEF Within
<1>3. Holding(s, q, {}) /\ q.pc = Origin + off /\ Machine(q)
  BY <1>2 DEF At, Holding
<1>4. Peek(q, q.pc) = op
  <2>1. Origin + off \in DOMAIN p.code /\ p.code[Origin + off] = op
    <3>3. /\ Origin + 512 \in DOMAIN p.code /\ p.code[Origin + 512] = b
          /\ Origin + 513 \in DOMAIN p.code /\ p.code[Origin + 513] = \hC9
      <4>1. CallCells(p.code, a, b)
        BY ONLY CallProgram(p, a, b), a \in Calls, b \in Returns, CallCode
      <4> QED
        BY ONLY <4>1 DEF CallCells
    <3>1. CASE off = 512
      BY <3>1, <3>3
    <3>2. CASE off = 513
      BY <3>2, <3>3
    <3> QED
      BY <3>1, <3>2
  <2>2. Peek(q, Origin + off) = p.code[Origin + off]
    BY <1>3, <2>1, HoldingCell
  <2> QED
    BY <1>3, <2>1, <2>2
<1>5. op \in Returns
  BY DEF Returns
<1>6. Regular(q)
  <2>1. op \notin Undefined \cup {\h10, \hCB}
    BY <1>5 DEF Undefined, Returns
  <2> HIDE DEF op
  <2> QED
    BY <1>4, <2>1, RegularOpcode
<1>7. /\ Returned(t, q) \/ Changed(t, q, {}, 1)
      /\ op = \hC9 => Returned(t, q)
  <2> HIDE DEF op
  <2> QED
    BY <1>3, <1>4, <1>5, TickReturns
<1> HIDE DEF t
<1>8. CASE Returned(t, q)
  <2>1. At(s, t, {}, 3, {})
    <3>1. 3 \in 1..3
      OBVIOUS
    <3> QED
      BY <1>1, <1>8, <3>1, WithinReturns
  <2>2. CallAt(s, t, 3)
    BY <2>1 DEF CallAt
  <2> QED
    BY <1>6, <2>2 DEF t
<1>9. CASE ~Returned(t, q)
  <2>1. off = 512 /\ Changed(t, q, {}, 1)
    BY <1>7, <1>9
  <2>2. SafeSp(q.sp)
    BY <1>2 DEF OnStack, SafeSp
  <2>3. After(q.pc, 1) = Origin + 513
    <3>1. q.pc = 49664 /\ Origin = 49152
      BY <1>3, <2>1 DEF Origin
    <3> QED
      BY <3>1 DEF After
  <2>4. At(s, t, {}, 513, {"sp"})
    BY <1>2, <2>1, <2>2, <2>3, AtNothing
  <2>5. \A x : Peek(t, x) = Peek(q, x)
    BY <1>2, <2>1, <2>2, <2>3, AtNothing
  <2>6. t.sp = q.sp
    BY <2>1 DEF Changed, Keeps, Fields, Ticked
  <2>7. OnStack(t, Origin + 3)
    BY <1>2, <2>5, <2>6 DEF OnStack
  <2>8. CallAt(s, t, 513)
    BY <2>4, <2>7 DEF CallAt, Within
  <2> QED
    BY <1>6, <2>1, <2>8 DEF t
<1> QED
  BY <1>8, <1>9

\* RST.
LEMMA TickRestart ==
    ASSUME NEW q, Machine(q), NEW n \in 0..7, Peek(q, q.pc) = \hC7 + 8 * n
    PROVE  Pushed(tick(q), q, After(q.pc, 1)) /\ tick(q).pc = 8 * n
<1> DEFINE op == \hC7 + 8 * n
<1>1. op \in Int /\ 192 <= op /\ op < 256 /\ op # \hCB /\ op \in 192..255
  OBVIOUS
<1>2. z(op) = 7 /\ y(op) = n
  BY DEF z, y
<1>3. length(op) = 1
  BY <1>1, <1>2, UpperTables
<1> HIDE DEF op
<1>4. Peek(q, q.pc) = op
  BY DEF op
<1>5. PICK t, data : Moved(t, q, 1) /\ tick(q) = SwitchOf(op, t, data)
  BY <1>1, <1>3, <1>4, Decoded
<1>6. tick(q) = Control(t, op, data)
  <2>1. z(op) \in {5, 6, 7}
    BY <1>2
  <2> QED
    BY <1>1, <1>5, <2>1, ControlSwitch
<1>7. Control(t, op, data) = rst(t, 8 * n)
  <2>1. op \notin {\hC3, \hC9, \hCD, \hD9}
    BY <1>2 DEF z
  <2> QED
    BY <1>2, <2>1 DEF Control
<1>8. 8 * n \in Word
  BY IsWord
<1> DEFINE x == 8 * n
<1> HIDE DEF x
<1>9. Pushed(rst(t, x), q, After(q.pc, 1)) /\ rst(t, x).pc = x
  BY <1>5, <1>8, CallMoved DEF x
<1> QED
  BY <1>6, <1>7, <1>9 DEF x

\* JR.
LEMMA TickJump ==
    ASSUME NEW q, Machine(q), Peek(q, q.pc) = \h18, NEW e \in Byte,
           Peek(q, After(q.pc, 1)) = e
    PROVE  Changed(tick(q), q, {}, 2 + signed(e))
<1>1. length(\h18) = 2
  BY ControlTables
<1>2. PICK t, data : Moved(t, q, 2) /\ tick(q) = SwitchOf(\h18, t, data) /\ data = e
  <2>1. \h18 # \hCB
    OBVIOUS
  <2> QED
    BY <1>1, <2>1, Decoded
<1> DEFINE u == jump_relative(t, e)
<1>3. tick(q) = u
  <2>1. SwitchOf(\h18, t, data) = Row_10(t, \h18, data)
    BY DEF SwitchOf
  <2> QED
    BY <1>2, <2>1 DEF Row_10
<1>4. Machine(t)
  BY <1>2 DEF Moved
<1>5. Machine(u) /\ Keeps(u, t, {"pc"}) /\ u.pc = (t.pc + signed(e)) % 65536
  BY <1>4, JumpRelative
<1> HIDE DEF u
<1>6. signed(e) \in Int /\ -128 <= signed(e) /\ signed(e) <= 127
  BY SignedRange
<1>7. u.pc = After(q.pc, 2 + signed(e))
  <2>1. q.pc \in Int /\ 0 <= q.pc /\ q.pc <= 65535
    BY IsWord DEF Machine
  <2>2. \A x, d \in Int : (((x + 2) % 65536) + d) % 65536 = (x + (2 + d)) % 65536
    OBVIOUS
  <2>3. t.pc = (q.pc + 2) % 65536
    BY <1>2 DEF Moved, After
  <2> QED
    BY <1>5, <1>6, <2>1, <2>2, <2>3 DEF After
<1>8. Keeps(u, q, Ticked \cup {})
  BY <1>2, <1>5 DEF Moved, Keeps, Fields, Ticked
<1> QED
  BY <1>3, <1>5, <1>7, <1>8 DEF Changed

\* RST and RET.
RstBytes(n) == <<\hC7 + 8 * n>>
RstProgram(p, n) ==
    p = Program("inverse", Over(Code(Origin, RstBytes(n)), Code(8 * n, <<\hC9>>)),
                Origin + 1, Registers)
RstAt(s, q, stage, n) ==
    IF stage = 1 THEN Within(s, q, 8 * n - Origin, 1)
                 ELSE At(s, q, {}, IF stage = 0 THEN 0 ELSE 1, {})

LEMMA RstCode ==
    ASSUME NEW p, NEW n \in 0..7, RstProgram(p, n)
    PROVE  /\ p.kind = "inverse" /\ p.keeps = Registers /\ p.end = Origin + 1
           /\ HasHandler(p.code) /\ Loadable(p.code)
           /\ Origin + 0 \in DOMAIN p.code /\ p.code[Origin + 0] = \hC7 + 8 * n
           /\ 8 * n + 0 \in DOMAIN p.code /\ p.code[8 * n + 0] = \hC9
<1> DEFINE f == RstBytes(n)
           g == <<\hC9>>
           x == 8 * n
           op == \hC7 + 8 * n
<1>1. f[1] = op /\ Len(f) = 1 /\ g[1] = \hC9 /\ Len(g) = 1
  BY DEF RstBytes
<1>2. p = Program("inverse", Over(Code(Origin, f), Code(x, g)), Origin + 1, Registers)
  BY DEF RstProgram
<1>3. op \in Byte /\ \hC9 \in Byte
  BY IsByte
<1>4. Apart(x, 1, 1)
  BY DEF Apart, Origin
<1> HIDE DEF f, g, x, op
<1>5. (\A i \in 1..1 : f[i] \in Byte) /\ (\A i \in 1..1 : g[i] \in Byte)
  BY <1>1, <1>3
<1>6. 1 \in 1..3 /\ 1 \in 1..2
  OBVIOUS
<1>7. /\ p.kind = "inverse" /\ p.keeps = Registers /\ p.end = Origin + 1
      /\ HasHandler(p.code) /\ Loadable(p.code)
  BY <1>1, <1>2, <1>4, <1>5, <1>6, TwoPieces
<1>8. \A i \in 0..2 : i < 1 => Origin + i \in DOMAIN p.code /\ p.code[Origin + i] = f[i + 1]
  BY <1>1, <1>2, <1>4, <1>5, <1>6, TwoPieces
<1>9. \A i \in 0..1 : i < 1 => x + i \in DOMAIN p.code /\ p.code[x + i] = g[i + 1]
  BY <1>1, <1>2, <1>4, <1>5, <1>6, TwoPieces
<1>10. Origin + 0 \in DOMAIN p.code /\ p.code[Origin + 0] = f[0 + 1]
  BY <1>8
<1>11. x + 0 \in DOMAIN p.code /\ p.code[x + 0] = g[0 + 1]
  BY <1>9
<1>12. p.code[Origin + 0] = op /\ p.code[x + 0] = \hC9
  BY <1>1, <1>10, <1>11
<1> QED
  BY <1>7, <1>10, <1>11, <1>12 DEF x, op

LEMMA RstSame ==
    ASSUME NEW c, NEW s, Ready(c, s), NEW stage, NEW k, NEW q, RstAt(s, q, stage, k),
           NEW n, Same(n, q)
    PROVE  RstAt(s, n, stage, k)
  BY AtSame, WithinSame DEF RstAt

LEMMA RstSteps ==
    ASSUME NEW p, NEW n \in 0..7, RstProgram(p, n), NEW s, Ready(p.code, s),
           NEW stage \in 0..1, NEW q, RstAt(s, q, stage, n)
    PROVE  RstAt(s, tick(q), stage + 1, n) /\ Regular(q)
<1> DEFINE t == tick(q)
<1>1. /\ Origin + 0 \in DOMAIN p.code /\ p.code[Origin + 0] = \hC7 + 8 * n
      /\ 8 * n + 0 \in DOMAIN p.code /\ p.code[8 * n + 0] = \hC9
  BY ONLY n \in 0..7, RstProgram(p, n), RstCode
<1>2. CASE stage = 0
  <2>1. At(s, q, {}, 0, {})
    BY <1>2 DEF RstAt
  <2>2. Machine(q) /\ q.pc = Origin + 0 /\ Holding(s, q, {})
    BY <2>1 DEF At, Holding
  <2>3. Peek(q, q.pc) = \hC7 + 8 * n
    BY <1>1, <2>2, HoldingCell
  <2>4. Pushed(t, q, After(q.pc, 1)) /\ t.pc = 8 * n
    BY <2>2, <2>3, TickRestart
  <2>5. Regular(q)
    <3>1. \hC7 + 8 * n \notin Undefined \cup {\h10, \hCB}
      BY DEF Undefined
    <3> QED
      BY <2>3, <3>1, RegularOpcode
  <2> HIDE DEF t
  <2>6. Within(s, t, 8 * n - Origin, 1)
    <3>1. 8 * n = Origin + (8 * n - Origin) /\ 1 \in 1..3
      BY DEF Origin
    <3> DEFINE off == 8 * n - Origin
    <3>2. t.pc = Origin + off
      BY <2>4, <3>1
    <3> HIDE DEF off
    <3>3. Within(s, t, off, 1)
      BY <2>1, <2>4, <3>1, <3>2, CalledFrom
    <3> QED
      BY <3>3 DEF off
  <2>7. RstAt(s, t, stage + 1, n)
    BY <1>2, <2>6 DEF RstAt
  <2> QED
    BY <2>5, <2>7 DEF t
<1>3. CASE stage = 1
  <2> DEFINE off == 8 * n - Origin
  <2>1. Within(s, q, off, 1)
    BY <1>3 DEF RstAt
  <2>2. Machine(q) /\ q.pc = Origin + off /\ Holding(s, q, {})
    BY <2>1 DEF Within, At, Holding
  <2>3. Origin + off = 8 * n + 0
    BY DEF Origin
  <2>4. Peek(q, q.pc) = \hC9
    BY <1>1, <2>2, <2>3, HoldingCell
  <2>5. Returned(t, q)
    <3>1. \hC9 \in Returns
      BY DEF Returns
    <3> QED
      BY <2>2, <2>4, <3>1, TickReturns
  <2>6. Regular(q)
    <3>1. \hC9 \notin Undefined \cup {\h10, \hCB}
      BY DEF Undefined
    <3> QED
      BY <2>4, <3>1, RegularOpcode
  <2> HIDE DEF t, off
  <2>7. At(s, t, {}, 1, {})
    <3>1. 1 \in 1..3
      OBVIOUS
    <3> QED
      BY <2>1, <2>5, <3>1, WithinReturns
  <2>8. RstAt(s, t, stage + 1, n)
    BY <1>3, <2>7 DEF RstAt
  <2> QED
    BY <2>6, <2>8 DEF t
<1> QED
  BY <1>2, <1>3

\* JR and JR back.
Leaps == {4, \h7F, \hF0, \h81}
LeapBytes(e) == <<\h18, e>>
LeapProgram(p, e) ==
    p = Program("inverse", Over(Code(Origin, LeapBytes(e)),
                                Code(Origin + 2 + signed(e), LeapBytes(256 - e))),
                Origin + 4, Registers)
Landing(stage, e) == IF stage = 0 THEN 0 ELSE IF stage = 1 THEN 2 + signed(e) ELSE 4
LeapAt(s, q, stage, e) == At(s, q, {}, Landing(stage, e), {})

LEMMA LeapCode ==
    ASSUME NEW p, NEW e \in Leaps, LeapProgram(p, e)
    PROVE  /\ p.kind = "inverse" /\ p.keeps = Registers /\ p.end = Origin + 4
           /\ HasHandler(p.code) /\ Loadable(p.code)
           /\ \A stage \in 0..1 :
                LET x == Origin + Landing(stage, e)
                IN  /\ x + 0 \in DOMAIN p.code /\ p.code[x + 0] = \h18
                    /\ x + 1 \in DOMAIN p.code
                    /\ p.code[x + 1] = IF stage = 0 THEN e ELSE 256 - e
<1> DEFINE f == LeapBytes(e)
           g == LeapBytes(256 - e)
           x == Origin + 2 + signed(e)
<1>1. f[1] = \h18 /\ f[2] = e /\ Len(f) = 2 /\ g[1] = \h18 /\ g[2] = 256 - e /\ Len(g) = 2
  BY DEF LeapBytes
<1>2. p = Program("inverse", Over(Code(Origin, f), Code(x, g)), Origin + 4, Registers)
  BY DEF LeapProgram
<1>3. e \in Byte /\ 256 - e \in Byte /\ \h18 \in Byte
  BY IsByte DEF Leaps
<1>4. Apart(x, 2, 2)
  BY DEF Apart, Origin, Leaps, signed
<1>5. Origin + Landing(0, e) = Origin /\ Origin + Landing(1, e) = x
  BY DEF Landing, Origin, Leaps, signed
<1> HIDE DEF f, g, x
<1>6. (\A i \in 1..2 : f[i] \in Byte) /\ (\A i \in 1..2 : g[i] \in Byte)
  <2>1. f[1] \in Byte /\ f[2] \in Byte /\ g[1] \in Byte /\ g[2] \in Byte
    BY <1>1, <1>3
  <2> QED
    BY <2>1
<1>7. 2 \in 1..3 /\ 2 \in 1..2
  OBVIOUS
<1>8. /\ p.kind = "inverse" /\ p.keeps = Registers /\ p.end = Origin + 4
      /\ HasHandler(p.code) /\ Loadable(p.code)
  BY <1>1, <1>2, <1>4, <1>6, <1>7, TwoPieces
<1>9. \A i \in 0..2 : i < 2 => Origin + i \in DOMAIN p.code /\ p.code[Origin + i] = f[i + 1]
  BY <1>1, <1>2, <1>4, <1>6, <1>7, TwoPieces
<1>10. \A i \in 0..1 : i < 2 => x + i \in DOMAIN p.code /\ p.code[x + i] = g[i + 1]
  BY <1>1, <1>2, <1>4, <1>6, <1>7, TwoPieces
<1>11. /\ Origin + 0 \in DOMAIN p.code /\ p.code[Origin + 0] = f[0 + 1]
       /\ Origin + 1 \in DOMAIN p.code /\ p.code[Origin + 1] = f[1 + 1]
  BY <1>9
<1>12. /\ x + 0 \in DOMAIN p.code /\ p.code[x + 0] = g[0 + 1]
       /\ x + 1 \in DOMAIN p.code /\ p.code[x + 1] = g[1 + 1]
  BY <1>10
<1>13. ASSUME NEW stage \in 0..1
       PROVE  LET a == Origin + Landing(stage, e)
              IN  /\ a + 0 \in DOMAIN p.code /\ p.code[a + 0] = \h18
                  /\ a + 1 \in DOMAIN p.code
                  /\ p.code[a + 1] = IF stage = 0 THEN e ELSE 256 - e
  <2>1. CASE stage = 0
    BY <1>1, <1>5, <1>11, <2>1
  <2>2. CASE stage = 1
    BY <1>1, <1>5, <1>12, <2>2
  <2> QED
    BY <2>1, <2>2
<1> QED
  BY <1>8, <1>13

LEMMA LeapSame ==
    ASSUME NEW c, NEW s, Ready(c, s), NEW stage, NEW e, NEW q, LeapAt(s, q, stage, e),
           NEW n, Same(n, q)
    PROVE  LeapAt(s, n, stage, e)
  BY AtSame DEF LeapAt

LEMMA LeapSteps ==
    ASSUME NEW p, NEW e \in Leaps, LeapProgram(p, e), NEW s, Ready(p.code, s),
           NEW stage \in 0..1, NEW q, LeapAt(s, q, stage, e)
    PROVE  LeapAt(s, tick(q), stage + 1, e) /\ Regular(q)
<1> DEFINE t == tick(q)
           off == Landing(stage, e)
           d == IF stage = 0 THEN e ELSE 256 - e
           x == Origin + off
<1>1. /\ x + 0 \in DOMAIN p.code /\ p.code[x + 0] = \h18
      /\ x + 1 \in DOMAIN p.code /\ p.code[x + 1] = d
  BY ONLY e \in Leaps, LeapProgram(p, e), stage \in 0..1, LeapCode
<1>2. At(s, q, {}, off, {})
  BY DEF LeapAt
<1>3. Holding(s, q, {}) /\ q.pc = x /\ Machine(q)
  BY <1>2 DEF At, Holding
<1>4. d \in Byte /\ x \in Int /\ 48000 < x /\ x < 49900
      /\ Origin + Landing(stage + 1, e) = x + (2 + signed(d))
      /\ x + (2 + signed(d)) \in Int
      /\ 48000 < x + (2 + signed(d)) /\ x + (2 + signed(d)) < 49900
  <2>1. e \in {4, 127, 240, 129} /\ stage \in {0, 1}
    BY DEF Leaps
  <2>2. d \in Int /\ 0 <= d /\ d <= 255
    BY <2>1
  <2> QED
    BY <2>1, <2>2, IsByte DEF Landing, signed, Origin
<1> HIDE DEF off, d, x
<1>5. Peek(q, q.pc) = \h18
  <2>1. x + 0 = x
    BY <1>4
  <2> QED
    BY <1>1, <1>3, <2>1, HoldingCell
<1>6. Peek(q, After(q.pc, 1)) = d
  <2>1. After(q.pc, 1) = x + 1
    BY <1>3, <1>4 DEF After
  <2> QED
    BY <1>1, <1>3, <2>1, HoldingCell
<1>7. Changed(t, q, {}, 2 + signed(d))
  BY <1>3, <1>4, <1>5, <1>6, TickJump
<1>8. Regular(q)
  <2>1. \h18 \notin Undefined \cup {\h10, \hCB}
    BY DEF Undefined
  <2> QED
    BY <1>5, <2>1, RegularOpcode
<1> HIDE DEF t
<1>9. After(q.pc, 2 + signed(d)) = Origin + Landing(stage + 1, e)
  BY <1>3, <1>4 DEF After
<1>10. SafeSp(q.sp)
  BY <1>2, AtSafe
<1>11. At(s, t, {}, Landing(stage + 1, e), {})
  BY <1>2, <1>7, <1>9, <1>10, AtNothing
<1> QED
  BY <1>8, <1>11 DEF LeapAt, t

-----------------------------------------------------------------------------
(* RUNS: every program goes on to its outcome, whatever interrupts it. *)

\* q runs program p from s, by the kinds of programs.
Operated(p, s, r, k, A, B) ==
    \/ Rotates(p, s, r, k, A, B) \/ Counts2(p, s, r, k, A, B)
    \/ Complements(p, s, r, k, A, B) \/ Adjusts(p, s, r, k, A, B)
OperateRun(p, s, q) ==
    \E r, k, A, B :
        /\ Operated(p, s, r, k, A, B)
        /\ \/ Halfway(s, q, r, 0, Operand(s, r), s.f)
           \/ Halfway(s, q, r, k, A.value, A.flags)
           \/ Halfway(s, q, r, 2 * k, B.value, B.flags)
WideRun(p, s, q) == \E k \in 0..1, off \in 0..6 : WideProgram(p, k) /\ WideAt(s, q, off, k)
StackRun(p, s, q) ==
    \E r \in 0..3, off \in 0..2 : StackProgram(p, r) /\ StackAt(s, q, off, r)
PairRun(p, s, q) == \E r \in 0..3, off \in 0..2 : PairProgram(p, r) /\ PairAt(s, q, off, r)
MoveRun(p, s, q) ==
    \E e \in Steps, off \in {0, 2, 4} : MoveProgram(p, e) /\ MoveAt(s, q, off, e)
SaveRun(p, s, q) == SaveProgram(p) /\ \E off \in {0, 3, 6, 7, 8} : SaveAt(s, q, off)
EchoRun(p, s, q) == EchoProgram(p) /\ \E off \in 0..3 : EchoAt(s, q, off)
CallRun(p, s, q) ==
    \E a \in Calls, b \in Returns, off \in {0, 3, 512, 513} :
        CallProgram(p, a, b) /\ CallAt(s, q, off)
RstRun(p, s, q) == \E n \in 0..7, stage \in 0..2 : RstProgram(p, n) /\ RstAt(s, q, stage, n)
LeapRun(p, s, q) ==
    \E e \in Leaps, stage \in 0..2 : LeapProgram(p, e) /\ LeapAt(s, q, stage, e)
Run(p, s, q) ==
    \/ OperateRun(p, s, q) \/ WideRun(p, s, q) \/ StackRun(p, s, q) \/ PairRun(p, s, q)
    \/ MoveRun(p, s, q) \/ SaveRun(p, s, q) \/ EchoRun(p, s, q) \/ CallRun(p, s, q)
    \/ RstRun(p, s, q) \/ LeapRun(p, s, q)

\* Machine s is about to run p.
Begun(p, s) ==
    /\ Ready(p.code, s)
    /\ p.kind # "wide" => Around(p.code, s)
    /\ p.kind = "decimal" => Packed(s.a) /\ Packed(s.b)
    /\ p.kind = "inverse" => value(s, "hl") \in DOMAIN s.mem

\* What the properties say of a program that has ended.
Outcome(p, s, q) ==
    /\ p.kind = "decimal" => Adjusted(p, s, q)
    /\ p.kind = "wide" => Widened(p, s, q)
    /\ p.kind = "inverse" => Restored(p, s, q)

\* q runs p, the handler is in memory, and every step of q or behind an interrupt
\* goes on running p up to the end.
Sound(p, s, q) ==
    /\ Machine(q) /\ LoadedHandler(q) /\ Origin < p.end
    /\ q.pc # p.end => Run(p, s, tick(q)) /\ Regular(q)
    /\ \A n : Same(n, q) => Run(p, s, n)
    /\ q.pc = p.end => Outcome(p, s, q)

LEMMA AtHandler ==
    ASSUME NEW c, NEW s, Ready(c, s), HasHandler(c), NEW D, \A x \in D : x \notin DOMAIN c,
           NEW q, NEW off, NEW S, At(s, q, D, off, S)
    PROVE  Machine(q) /\ LoadedHandler(q)
<1>1. Holding(s, q, D)
  BY DEF At
<1>2. \A x \in D : x \notin 80..87
  BY DEF HasHandler
<1>3. LoadedHandler(q)
  BY <1>1, <1>2, HoldingHandler
<1> QED
  BY <1>1, <1>3 DEF Holding

\* The same without cells that the program changes.
LEMMA AtCalm ==
    ASSUME NEW c, NEW s, Ready(c, s), HasHandler(c), NEW q, NEW off, NEW S,
           At(s, q, {}, off, S)
    PROVE  Machine(q) /\ LoadedHandler(q)
<1>1. \A x \in {} : x \notin DOMAIN c
  OBVIOUS
<1> QED
  BY <1>1, AtHandler

\* What registers all of which are kept make of the end.
LEMMA AtEnd ==
    ASSUME NEW p, p.kind = "inverse", NEW s, NEW q, NEW off, NEW S, At(s, q, {}, off, S),
           \A x \in p.keeps : x \in Registers \ S
    PROVE  Outcome(p, s, q)
<1>1. p.keeps \cap S = {} /\ "carry" \notin p.keeps
  BY DEF Registers
<1>2. Restored(p, s, q)
  BY <1>1, AtRestored
<1> QED
  BY <1>2 DEF Outcome

LEMMA StackSound ==
    ASSUME NEW p, NEW s, Begun(p, s), NEW q, StackRun(p, s, q)
    PROVE  Sound(p, s, q)
<1>1. PICK r \in 0..3, off \in 0..2 : StackProgram(p, r) /\ StackAt(s, q, off, r)
  BY DEF StackRun
<1> DEFINE S == IF off = 1 THEN {"sp"} ELSE {}
<1>2. At(s, q, {}, off, S) /\ q.pc = Origin + off /\ Ready(p.code, s)
  BY <1>1 DEF StackAt, At, Begun
<1>3. /\ p.kind = "inverse" /\ p.keeps = Registers /\ p.end = Origin + 2
      /\ HasHandler(p.code)
  BY <1>1, StackCode
<1> HIDE DEF S
<1>4. Machine(q) /\ LoadedHandler(q)
  BY <1>2, <1>3, AtCalm
<1>5. Origin < p.end /\ (q.pc = p.end <=> off = 2)
  BY <1>2, <1>3 DEF Origin
<1>6. ASSUME off # 2 PROVE Run(p, s, tick(q)) /\ Regular(q)
  <2>1. off \in 0..1 /\ off + 1 \in 0..2
    BY <1>6
  <2>2. StackAt(s, tick(q), off + 1, r) /\ Regular(q)
    BY <1>1, <1>2, <2>1, StackSteps
  <2> QED
    BY <1>1, <2>1, <2>2 DEF Run, StackRun
<1>7. ASSUME NEW n, Same(n, q) PROVE Run(p, s, n)
  <2>1. StackAt(s, n, off, r)
    BY <1>1, <1>2, <1>7, StackSame
  <2> QED
    BY <1>1, <2>1 DEF Run, StackRun
<1>8. ASSUME off = 2 PROVE Outcome(p, s, q)
  <2>1. \A x \in p.keeps : x \in Registers \ S
    BY <1>3, <1>8 DEF S
  <2> QED
    BY <1>2, <1>3, <2>1, AtEnd
<1> QED
  BY <1>4, <1>5, <1>6, <1>7, <1>8 DEF Sound

LEMMA PairSound ==
    ASSUME NEW p, NEW s, Begun(p, s), NEW q, PairRun(p, s, q)
    PROVE  Sound(p, s, q)
<1>1. PICK r \in 0..3, off \in 0..2 : PairProgram(p, r) /\ PairAt(s, q, off, r)
  BY DEF PairRun
<1> DEFINE S == IF off = 1 THEN Halves(Reg16[r + 1]) ELSE {}
<1>2. At(s, q, {}, off, S) /\ q.pc = Origin + off /\ Ready(p.code, s)
  BY <1>1 DEF PairAt, At, Begun
<1>3. /\ p.kind = "inverse" /\ p.keeps = Registers /\ p.end = Origin + 2
      /\ HasHandler(p.code)
  BY <1>1, PairCode
<1> HIDE DEF S
<1>4. Machine(q) /\ LoadedHandler(q)
  BY <1>2, <1>3, AtCalm
<1>5. Origin < p.end /\ (q.pc = p.end <=> off = 2)
  BY <1>2, <1>3 DEF Origin
<1>6. ASSUME off # 2 PROVE Run(p, s, tick(q)) /\ Regular(q)
  <2>1. off \in 0..1 /\ off + 1 \in 0..2
    BY <1>6
  <2>2. PairAt(s, tick(q), off + 1, r) /\ Regular(q)
    BY <1>1, <1>2, <2>1, PairSteps
  <2> QED
    BY <1>1, <2>1, <2>2 DEF Run, PairRun
<1>7. ASSUME NEW n, Same(n, q) PROVE Run(p, s, n)
  <2>1. PairAt(s, n, off, r)
    BY <1>1, <1>2, <1>7, PairSame
  <2> QED
    BY <1>1, <2>1 DEF Run, PairRun
<1>8. ASSUME off = 2 PROVE Outcome(p, s, q)
  <2>1. \A x \in p.keeps : x \in Registers \ S
    BY <1>3, <1>8 DEF S
  <2> QED
    BY <1>2, <1>3, <2>1, AtEnd
<1> QED
  BY <1>4, <1>5, <1>6, <1>7, <1>8 DEF Sound

LEMMA MoveSound ==
    ASSUME NEW p, NEW s, Begun(p, s), NEW q, MoveRun(p, s, q)
    PROVE  Sound(p, s, q)
<1>1. PICK e \in Steps, off \in {0, 2, 4} : MoveProgram(p, e) /\ MoveAt(s, q, off, e)
  BY DEF MoveRun
<1> DEFINE S == {"sp", "f"}
<1>2. At(s, q, {}, off, S) /\ q.pc = Origin + off /\ Ready(p.code, s)
  BY <1>1 DEF MoveAt, At, Begun
<1>3. /\ p.kind = "inverse" /\ p.keeps = Registers \ {"f"} /\ p.end = Origin + 4
      /\ HasHandler(p.code)
  BY <1>1, MoveCode
<1> HIDE DEF S
<1>4. Machine(q) /\ LoadedHandler(q)
  BY <1>2, <1>3, AtCalm
<1>5. Origin < p.end /\ (q.pc = p.end <=> off = 4)
  BY <1>2, <1>3 DEF Origin
<1>6. ASSUME off # 4 PROVE Run(p, s, tick(q)) /\ Regular(q)
  <2>1. off \in {0, 2} /\ off + 2 \in {0, 2, 4}
    BY <1>6
  <2>2. MoveAt(s, tick(q), off + 2, e) /\ Regular(q)
    BY <1>1, <1>2, <2>1, MoveSteps
  <2> QED
    BY <1>1, <2>1, <2>2 DEF Run, MoveRun
<1>7. ASSUME NEW n, Same(n, q) PROVE Run(p, s, n)
  <2>1. MoveAt(s, n, off, e)
    BY <1>1, <1>2, <1>7, MoveSame
  <2> QED
    BY <1>1, <2>1 DEF Run, MoveRun
<1>8. ASSUME off = 4 PROVE Outcome(p, s, q)
  <2>1. q.sp = s.sp
    BY <1>1, <1>2, <1>8 DEF MoveAt, Ready
  <2> DEFINE T == {"f"}
  <2>2. \A x \in S : x \notin T => q[x] = s[x]
    BY <2>1 DEF S
  <2>3. \A x \in p.keeps : x \in Registers \ T
    BY <1>3
  <2> HIDE DEF T
  <2>4. At(s, q, {}, off, T)
    BY <1>2, <2>2, AtShrink
  <2> QED
    BY <1>3, <2>3, <2>4, AtEnd
<1> QED
  BY <1>4, <1>5, <1>6, <1>7, <1>8 DEF Sound

LEMMA SaveSound ==
    ASSUME NEW p, NEW s, Begun(p, s), NEW q, SaveRun(p, s, q)
    PROVE  Sound(p, s, q)
<1>1. PICK off \in {0, 3, 6, 7, 8} : SaveProgram(p) /\ SaveAt(s, q, off)
  BY DEF SaveRun
<1> DEFINE S == {"h", "l", "sp"}
<1>2. At(s, q, {}, off, S) /\ q.pc = Origin + off /\ Ready(p.code, s)
  BY <1>1 DEF SaveAt, At, Begun
<1>3. /\ p.kind = "inverse" /\ p.keeps = Registers \ {"h", "l"} /\ p.end = Origin + 8
      /\ HasHandler(p.code)
  BY <1>1, SaveCode
<1> HIDE DEF S
<1>4. Machine(q) /\ LoadedHandler(q)
  BY <1>2, <1>3, AtCalm
<1>5. Origin < p.end /\ (q.pc = p.end <=> off = 8)
  BY <1>2, <1>3 DEF Origin
<1>6. ASSUME off # 8 PROVE Run(p, s, tick(q)) /\ Regular(q)
  <2>1. off \in {0, 3, 6, 7}
    BY <1>6
  <2>2. Regular(q)
    BY <1>1, <1>2, <2>1, SaveNext
  <2>3. off = 0 => SaveAt(s, tick(q), 3)
    BY <1>1, <1>2, SaveStore
  <2>4. off = 3 => SaveAt(s, tick(q), 6)
    BY <1>1, <1>2, SaveLoad
  <2>5. off = 6 => SaveAt(s, tick(q), 7)
    BY <1>1, <1>2, SavePop
  <2>6. off = 7 => SaveAt(s, tick(q), 8)
    BY <1>1, <1>2, SaveRestore
  <2>7. SaveRun(p, s, tick(q))
    BY <1>1, <2>1, <2>3, <2>4, <2>5, <2>6 DEF SaveRun
  <2> QED
    BY <2>2, <2>7 DEF Run
<1>7. ASSUME NEW n, Same(n, q) PROVE Run(p, s, n)
  <2>1. SaveAt(s, n, off)
    BY <1>1, <1>2, <1>7, SaveSame
  <2> QED
    BY <1>1, <2>1 DEF Run, SaveRun
<1>8. ASSUME off = 8 PROVE Outcome(p, s, q)
  <2>1. q.sp = s.sp
    BY <1>1, <1>2, <1>8 DEF SaveAt, Ready, Stack
  <2> DEFINE T == {"h", "l"}
  <2>2. \A x \in S : x \notin T => q[x] = s[x]
    BY <2>1 DEF S
  <2>3. \A x \in p.keeps : x \in Registers \ T
    BY <1>3
  <2> HIDE DEF T
  <2>4. At(s, q, {}, off, T)
    BY <1>2, <2>2, AtShrink
  <2> QED
    BY <1>3, <2>3, <2>4, AtEnd
<1> QED
  BY <1>4, <1>5, <1>6, <1>7, <1>8 DEF Sound

LEMMA EchoSound ==
    ASSUME NEW p, NEW s, Begun(p, s), NEW q, EchoRun(p, s, q)
    PROVE  Sound(p, s, q)
<1>1. PICK off \in 0..3 : EchoProgram(p) /\ EchoAt(s, q, off)
  BY DEF EchoRun
<1> DEFINE S == {"a", "h", "l"}
           D == {value(s, "hl")}
<1>3. /\ p.kind = "inverse" /\ p.end = Origin + 3 /\ HasHandler(p.code)
  BY <1>1, EchoCode
<1>2. At(s, q, D, off, S) /\ q.pc = Origin + off /\ Ready(p.code, s)
  BY <1>1 DEF EchoAt, At, Begun
<1>9. Around(p.code, s)
  BY <1>3 DEF Begun
<1>10. \A x \in D : x \notin DOMAIN p.code
  BY <1>9 DEF Around
<1> HIDE DEF S, D
<1>4. Machine(q) /\ LoadedHandler(q)
  BY <1>2, <1>3, <1>10, AtHandler
<1>5. Origin < p.end /\ (q.pc = p.end <=> off = 3)
  BY <1>2, <1>3 DEF Origin
<1>6. ASSUME off # 3 PROVE Run(p, s, tick(q)) /\ Regular(q)
  <2>1. off \in 0..2
    BY <1>6
  <2>2. Regular(q)
    BY <1>1, <1>9, <2>1, EchoNext
  <2>3. ASSUME off \in 0..1 PROVE EchoAt(s, tick(q), off + 1) /\ off + 1 \in 0..3
    BY <1>1, <1>9, <2>3, EchoLoads
  <2>4. off = 2 => EchoAt(s, tick(q), 3)
    BY <1>1, <1>9, EchoStores
  <2>5. EchoRun(p, s, tick(q))
    BY <1>1, <2>1, <2>3, <2>4 DEF EchoRun
  <2> QED
    BY <2>2, <2>5 DEF Run
<1>7. ASSUME NEW n, Same(n, q) PROVE Run(p, s, n)
  <2>1. EchoAt(s, n, off)
    BY <1>1, <1>9, <1>7, EchoSame
  <2> QED
    BY <1>1, <2>1 DEF Run, EchoRun
<1>8. ASSUME off = 3 PROVE Outcome(p, s, q)
  <2>1. Restored(p, s, q)
    BY <1>1, <1>8, <1>9, EchoEnds
  <2> QED
    BY <1>3, <2>1 DEF Outcome
<1> QED
  BY <1>4, <1>5, <1>6, <1>7, <1>8 DEF Sound

LEMMA CallHandler ==
    ASSUME NEW p, NEW a \in Calls, NEW b \in Returns, CallProgram(p, a, b)
    PROVE  /\ p.kind = "inverse" /\ p.keeps = Registers /\ p.end = Origin + 3
           /\ HasHandler(p.code)
  BY CallCode
LEMMA CallSound ==
    ASSUME NEW p, NEW s, Begun(p, s), NEW q, CallRun(p, s, q)
    PROVE  Sound(p, s, q)
<1>1. PICK a \in Calls, b \in Returns, off \in {0, 3, 512, 513} :
        CallProgram(p, a, b) /\ CallAt(s, q, off)
  BY DEF CallRun
<1> DEFINE S == IF off \in {0, 3} THEN {} ELSE {"sp"}
<1>2. At(s, q, {}, off, S) /\ q.pc = Origin + off /\ Ready(p.code, s)
  BY <1>1 DEF CallAt, Within, At, Begun
<1>3. /\ p.kind = "inverse" /\ p.keeps = Registers /\ p.end = Origin + 3
      /\ HasHandler(p.code)
  BY <1>1, CallHandler
<1> HIDE DEF S
<1>4. Machine(q) /\ LoadedHandler(q)
  BY <1>2, <1>3, AtCalm
<1>5. Origin < p.end /\ (q.pc = p.end <=> off = 3)
  BY <1>2, <1>3 DEF Origin
<1>6. ASSUME off # 3 PROVE Run(p, s, tick(q)) /\ Regular(q)
  <2>1. ASSUME off = 0
        PROVE  (CallAt(s, tick(q), 512) \/ CallAt(s, tick(q), 3)) /\ Regular(q)
    BY <1>1, <1>2, <2>1, CallFirst
  <2>2. ASSUME off \in {512, 513}
        PROVE  (CallAt(s, tick(q), 3) \/ CallAt(s, tick(q), 513)) /\ Regular(q)
    BY <1>1, <1>2, <2>2, CallThen
  <2>3. \E next \in {0, 3, 512, 513} : CallAt(s, tick(q), next)
    BY <1>6, <2>1, <2>2
  <2>4. CallRun(p, s, tick(q))
    BY <1>1, <2>3 DEF CallRun
  <2> QED
    BY <1>6, <2>1, <2>2, <2>4 DEF Run
<1>7. ASSUME NEW n, Same(n, q) PROVE Run(p, s, n)
  <2>1. CallAt(s, n, off)
    BY <1>1, <1>2, <1>7, CallSame
  <2> QED
    BY <1>1, <2>1 DEF Run, CallRun
<1>8. ASSUME off = 3 PROVE Outcome(p, s, q)
  <2>1. \A x \in p.keeps : x \in Registers \ S
    BY <1>3, <1>8 DEF S
  <2> QED
    BY <1>2, <1>3, <2>1, AtEnd
<1> QED
  BY <1>4, <1>5, <1>6, <1>7, <1>8 DEF Sound

LEMMA RstSound ==
    ASSUME NEW p, NEW s, Begun(p, s), NEW q, RstRun(p, s, q)
    PROVE  Sound(p, s, q)
<1>1. PICK k \in 0..7, stage \in 0..2 : RstProgram(p, k) /\ RstAt(s, q, stage, k)
  BY DEF RstRun
<1> DEFINE S   == IF stage = 1 THEN {"sp"} ELSE {}
           off == IF stage = 1 THEN 8 * k - Origin ELSE IF stage = 0 THEN 0 ELSE 1
<1>2. At(s, q, {}, off, S) /\ q.pc = Origin + off /\ Ready(p.code, s)
  BY <1>1 DEF RstAt, Within, At, Begun
<1>3. /\ p.kind = "inverse" /\ p.keeps = Registers /\ p.end = Origin + 1
      /\ HasHandler(p.code)
  BY ONLY <1>1, RstCode
<1>5. Origin < p.end /\ (q.pc = p.end <=> stage = 2)
  BY <1>2, <1>3 DEF Origin
<1> HIDE DEF S, off
<1>4. Machine(q) /\ LoadedHandler(q)
  BY <1>2, <1>3, AtCalm
<1>6. ASSUME stage # 2 PROVE Run(p, s, tick(q)) /\ Regular(q)
  <2>1. stage \in 0..1 /\ stage + 1 \in 0..2
    BY <1>6
  <2>2. RstAt(s, tick(q), stage + 1, k) /\ Regular(q)
    BY <1>1, <1>2, <2>1, RstSteps
  <2> QED
    BY <1>1, <2>1, <2>2 DEF Run, RstRun
<1>7. ASSUME NEW n, Same(n, q) PROVE Run(p, s, n)
  <2>1. RstAt(s, n, stage, k)
    BY <1>1, <1>2, <1>7, RstSame
  <2> QED
    BY <1>1, <2>1 DEF Run, RstRun
<1>8. ASSUME stage = 2 PROVE Outcome(p, s, q)
  <2>1. \A x \in p.keeps : x \in Registers \ S
    BY <1>3, <1>8 DEF S
  <2> QED
    BY <1>2, <1>3, <2>1, AtEnd
<1> QED
  BY <1>4, <1>5, <1>6, <1>7, <1>8 DEF Sound

LEMMA LeapSound ==
    ASSUME NEW p, NEW s, Begun(p, s), NEW q, LeapRun(p, s, q)
    PROVE  Sound(p, s, q)
<1>1. PICK e \in Leaps, stage \in 0..2 : LeapProgram(p, e) /\ LeapAt(s, q, stage, e)
  BY DEF LeapRun
<1> DEFINE off == Landing(stage, e)
<1>2. At(s, q, {}, off, {}) /\ q.pc = Origin + off /\ Ready(p.code, s)
  BY <1>1 DEF LeapAt, At, Begun
<1>3. /\ p.kind = "inverse" /\ p.keeps = Registers /\ p.end = Origin + 4
      /\ HasHandler(p.code)
  BY <1>1, LeapCode
<1>5. Origin < p.end /\ (q.pc = p.end <=> stage = 2)
  <2>1. signed(e) # 2
    BY DEF Leaps, signed
  <2>2. stage = 1 => off = 2 + signed(e) /\ signed(e) \in Int
    BY DEF Leaps, signed, Landing
  <2>3. (stage = 0 => off = 0) /\ (stage = 2 => off = 4)
    BY DEF Landing
  <2> QED
    BY <1>2, <1>3, <2>1, <2>2, <2>3 DEF Origin
<1> HIDE DEF off
<1>4. Machine(q) /\ LoadedHandler(q)
  BY <1>2, <1>3, AtCalm
<1>6. ASSUME stage # 2 PROVE Run(p, s, tick(q)) /\ Regular(q)
  <2>1. stage \in 0..1 /\ stage + 1 \in 0..2
    BY <1>6
  <2>2. LeapAt(s, tick(q), stage + 1, e) /\ Regular(q)
    BY <1>1, <1>2, <2>1, LeapSteps
  <2> QED
    BY <1>1, <2>1, <2>2 DEF Run, LeapRun
<1>7. ASSUME NEW n, Same(n, q) PROVE Run(p, s, n)
  <2>1. LeapAt(s, n, stage, e)
    BY <1>1, <1>2, <1>7, LeapSame
  <2> QED
    BY <1>1, <2>1 DEF Run, LeapRun
<1>8. ASSUME stage = 2 PROVE Outcome(p, s, q)
  <2>1. \A x \in p.keeps : x \in Registers \ {}
    BY <1>3
  <2> QED
    BY <1>2, <1>3, <2>1, AtEnd
<1> QED
  BY <1>4, <1>5, <1>6, <1>7, <1>8 DEF Sound

LEMMA WideSound ==
    ASSUME NEW p, NEW s, Begun(p, s), NEW q, WideRun(p, s, q)
    PROVE  Sound(p, s, q)
<1>1. PICK k \in 0..1, off \in 0..6 : WideProgram(p, k) /\ WideAt(s, q, off, k)
  BY DEF WideRun
<1>2. At(s, q, {}, off, Changes) /\ q.pc = Origin + off /\ Ready(p.code, s)
  BY <1>1 DEF WideAt, At, Begun
<1>3. p.kind = "wide" /\ p.end = Origin + 6 /\ HasHandler(p.code)
  BY <1>1, WideCode
<1>4. Machine(q) /\ LoadedHandler(q)
  BY <1>2, <1>3, AtCalm
<1>5. Origin < p.end /\ (q.pc = p.end <=> off = 6)
  BY <1>2, <1>3 DEF Origin
<1>6. ASSUME off # 6 PROVE Run(p, s, tick(q)) /\ Regular(q)
  <2>1. off \in 0..5 /\ off + 1 \in 0..6
    BY <1>6
  <2>2. WideAt(s, tick(q), off + 1, k) /\ Regular(q)
    BY <1>1, <1>2, <2>1, WideSteps
  <2> QED
    BY <1>1, <2>1, <2>2 DEF Run, WideRun
<1>7. ASSUME NEW n, Same(n, q) PROVE Run(p, s, n)
  <2>1. WideAt(s, n, off, k)
    BY <1>1, <1>2, <1>7, WideSame
  <2> QED
    BY <1>1, <2>1 DEF Run, WideRun
<1>8. ASSUME off = 6 PROVE Outcome(p, s, q)
  <2>1. Machine(s)
    BY <1>2 DEF Ready
  <2>2. Widened(p, s, q)
    BY <1>1, <1>8, <2>1, WideEnds
  <2> QED
    BY <1>3, <2>2 DEF Outcome
<1> QED
  BY <1>4, <1>5, <1>6, <1>7, <1>8 DEF Sound

\* What the programs that change one operand have in common.
LEMMA OperatedWorks ==
    ASSUME NEW p, NEW s, Begun(p, s), NEW r, NEW k, NEW A, NEW B, Operated(p, s, r, k, A, B)
    PROVE  /\ Around(p.code, s) /\ Works(p, s, r, k, A, B)
           /\ p.kind = "decimal" <=> Adjusts(p, s, r, k, A, B)
           /\ p.kind \in {"decimal", "inverse"}
<1>1. Machine(s)
  BY DEF Begun, Ready
<1>2. Adjusts(p, s, r, k, A, B) => p.kind = "decimal"
  BY DEF Adjusts, Straight, Program
<1>3. ~Adjusts(p, s, r, k, A, B) => p.kind = "inverse"
  BY <1>1, BitwiseCancels DEF Operated
<1>4. Around(p.code, s)
  BY <1>2, <1>3 DEF Begun
<1>5. Works(p, s, r, k, A, B)
  BY <1>4, RotatesWorks, CountsWorks, ComplementsWorks, AdjustsWorks DEF Operated
<1> QED
  BY <1>2, <1>3, <1>4, <1>5

\* The end of such a program.
LEMMA OperatedEnds ==
    ASSUME NEW p, NEW s, Begun(p, s), NEW r, NEW k, NEW A, NEW B, Operated(p, s, r, k, A, B),
           NEW q, NEW off, Halfway(s, q, r, off, B.value, B.flags)
    PROVE  Outcome(p, s, q)
<1>1. CASE Adjusts(p, s, r, k, A, B)
  <2>1. p.kind = "decimal"
    BY <1>1, OperatedWorks
  <2>2. Packed(s.a) /\ Packed(s.b)
    BY <2>1 DEF Begun
  <2>3. Adjusted(p, s, q)
    BY <1>1, <2>2, AdjustsEnds
  <2> QED
    BY <2>1, <2>3 DEF Outcome
<1>2. CASE ~Adjusts(p, s, r, k, A, B)
  <2>1. Machine(s)
    BY DEF Begun, Ready
  <2>2. \/ Rotates(p, s, r, k, A, B) \/ Counts2(p, s, r, k, A, B)
        \/ Complements(p, s, r, k, A, B)
    BY <1>2 DEF Operated
  <2>3. /\ B.value = Operand(s, r) /\ p.kind = "inverse"
        /\ p.keeps \cap Registers \subseteq Registers \ {"f"}
        /\ "carry" \in p.keeps => Carry(B.flags) = Carry(s.f)
    BY <2>1, <2>2, BitwiseCancels
  <2>4. value(s, "hl") \in DOMAIN s.mem
    BY <2>3 DEF Begun
  <2>5. r \in Reg
    BY OperatedWorks DEF Works
  <2>6. Restored(p, s, q)
    BY <2>3, <2>4, <2>5, HalfwayRestored
  <2> QED
    BY <2>3, <2>6 DEF Outcome
<1> QED
  BY <1>1, <1>2

LEMMA OperateSound ==
    ASSUME NEW p, NEW s, Begun(p, s), NEW q, OperateRun(p, s, q)
    PROVE  Sound(p, s, q)
<1>1. PICK r, k, A, B :
        /\ Operated(p, s, r, k, A, B)
        /\ \/ Halfway(s, q, r, 0, Operand(s, r), s.f)
           \/ Halfway(s, q, r, k, A.value, A.flags)
           \/ Halfway(s, q, r, 2 * k, B.value, B.flags)
  BY DEF OperateRun
<1> DEFINE C == p.code
<1>2. Around(C, s) /\ Works(p, s, r, k, A, B)
  BY <1>1, OperatedWorks
<1>3. Ready(C, s) /\ Guarded(value(s, "hl")) /\ HasHandler(C)
  BY <1>2 DEF Around, Works
<1>4. /\ r \in Reg /\ k \in 1..2 /\ p.end = Origin + 2 * k
      /\ \A n : Halfway(s, n, r, 0, Operand(s, r), s.f) =>
                  Modified(tick(n), n, r, A, k) /\ Regular(n)
      /\ \A n : Halfway(s, n, r, k, A.value, A.flags) =>
                  Modified(tick(n), n, r, B, k) /\ Regular(n)
  BY <1>2 DEF Works
<1>5. \A x \in Cell(s, r) : x \notin DOMAIN C
  BY <1>2, NoCell
<1> HIDE DEF C
<1>6. ASSUME NEW off, NEW v, NEW F, Halfway(s, q, r, off, v, F)
      PROVE  /\ Machine(q) /\ LoadedHandler(q) /\ q.pc = Origin + off
             /\ \A n : Same(n, q) => Halfway(s, n, r, off, v, F)
  <2>1. Holding(s, q, Cell(s, r)) /\ q.pc = Origin + off
    BY <1>6 DEF Halfway
  <2>2. \A x \in Cell(s, r) : x \notin 80..87
    BY <1>3, <1>5 DEF HasHandler
  <2>3. LoadedHandler(q)
    BY <1>3, <2>1, <2>2, HoldingHandler
  <2>4. Machine(q)
    BY <2>1 DEF Holding
  <2>5. ASSUME NEW n, Same(n, q) PROVE Halfway(s, n, r, off, v, F)
    BY <1>3, <1>4, <1>6, <2>5, HalfwaySame
  <2> QED
    BY <2>1, <2>3, <2>4, <2>5
<1>7. k + k = 2 * k /\ 0 + k = k /\ 0 \in 0..4 /\ k \in 0..4 /\ Origin < p.end
  BY <1>4 DEF Origin
<1>8. CASE Halfway(s, q, r, 0, Operand(s, r), s.f)
  <2>1. /\ Machine(q) /\ LoadedHandler(q) /\ q.pc = Origin + 0
        /\ \A n : Same(n, q) => Halfway(s, n, r, 0, Operand(s, r), s.f)
    BY <1>6, <1>8
  <2>2. Modified(tick(q), q, r, A, k) /\ Regular(q)
    BY <1>4, <1>8
  <2>3. Halfway(s, tick(q), r, 0 + k, A.value, A.flags)
    BY <1>3, <1>4, <1>7, <1>8, <2>2, HalfwayStep
  <2>4. Halfway(s, tick(q), r, k, A.value, A.flags)
    BY <1>7, <2>3
  <2>5. q.pc # p.end
    BY <1>4, <2>1 DEF Origin
  <2> QED
    BY <1>1, <1>7, <2>1, <2>2, <2>4, <2>5 DEF Sound, Run, OperateRun
<1>9. CASE Halfway(s, q, r, k, A.value, A.flags)
  <2>1. /\ Machine(q) /\ LoadedHandler(q) /\ q.pc = Origin + k
        /\ \A n : Same(n, q) => Halfway(s, n, r, k, A.value, A.flags)
    BY <1>6, <1>9
  <2>2. Modified(tick(q), q, r, B, k) /\ Regular(q)
    BY <1>4, <1>9
  <2>3. Halfway(s, tick(q), r, k + k, B.value, B.flags)
    BY <1>3, <1>4, <1>7, <1>9, <2>2, HalfwayStep
  <2>4. Halfway(s, tick(q), r, 2 * k, B.value, B.flags)
    BY <1>7, <2>3
  <2>5. q.pc # p.end
    BY <1>4, <2>1 DEF Origin
  <2> QED
    BY <1>1, <1>7, <2>1, <2>2, <2>4, <2>5 DEF Sound, Run, OperateRun
<1>10. CASE Halfway(s, q, r, 2 * k, B.value, B.flags)
  <2>1. /\ Machine(q) /\ LoadedHandler(q) /\ q.pc = Origin + 2 * k
        /\ \A n : Same(n, q) => Halfway(s, n, r, 2 * k, B.value, B.flags)
    BY <1>6, <1>10
  <2>2. Outcome(p, s, q)
    BY <1>1, <1>10, OperatedEnds
  <2>3. q.pc = p.end
    BY <1>4, <2>1
  <2> QED
    BY <1>1, <1>7, <2>1, <2>2, <2>3 DEF Sound, Run, OperateRun
<1> QED
  BY <1>1, <1>8, <1>9, <1>10

\* Whatever the program and its operands, and wherever it is interrupted: its run
\* goes on with every instruction, and where it ends its outcome is the one that
\* the properties state (cpu.cpp:230-2657).
THEOREM RunSound ==
    ASSUME NEW p, NEW s, Begun(p, s), NEW q, Run(p, s, q)
    PROVE  Sound(p, s, q)
  BY OperateSound, WideSound, StackSound, PairSound, MoveSound, SaveSound, EchoSound,
     CallSound, RstSound, LeapSound DEF Run

-----------------------------------------------------------------------------
(* STARTS: every program begins such a run. *)

\* Program p may be loaded, and whoever is about to run it runs it.
Startable(p, kind) ==
    /\ p.kind = kind /\ Loadable(p.code) /\ HasHandler(p.code)
    /\ \A s : Ready(p.code, s) => Run(p, s, s)
LEMMA AtStart ==
    ASSUME NEW c, NEW s, Ready(c, s), NEW D, NEW S
    PROVE  At(s, s, D, 0, S) /\ s.sp = \hDF00
<1>1. Holding(s, s, D)
  BY HoldingStart
<1>2. s.pc = Origin + 0
  BY DEF Ready, Origin
<1> QED
  BY <1>1, <1>2 DEF At, Ready
LEMMA OperateStart ==
    ASSUME NEW p, NEW s, Ready(p.code, s), NEW r, NEW k, NEW A, NEW B,
           Operated(p, s, r, k, A, B)
    PROVE  Run(p, s, s)
<1>1. Holding(s, s, Cell(s, r))
  BY HoldingStart
<1>2. s.pc = Origin + 0
  BY DEF Ready, Origin
<1>3. Halfway(s, s, r, 0, Operand(s, r), s.f)
  BY <1>1, <1>2 DEF Halfway
<1> QED
  BY <1>3 DEF Run, OperateRun

LEMMA DecimalStarts ==
    ASSUME NEW p \in Decimal
    PROVE  Startable(p, "decimal") /\ \A x \in DOMAIN p.code : 80 <= x
<1>1. PICK op \in {\h80, \h88, \h90, \h98} : p = Straight("decimal", <<op, \h27>>, {"b"})
  BY DEF Decimal
<1>2. PICK i \in 0..3 : op = 128 + 8 * i
  <2>1. 0 \in 0..3 /\ 1 \in 0..3 /\ 2 \in 0..3 /\ 3 \in 0..3
    OBVIOUS
  <2> QED
    BY <2>1
<1> DEFINE b == <<op, \h27>>
<1>3. Len(b) = 2 /\ \A x \in 1..2 : b[x] \in Byte
  <2>1. op \in Byte /\ \h27 \in Byte
    BY IsByte
  <2> QED
    BY <2>1
<1>4. 2 \in 1..8
  OBVIOUS
<1> HIDE DEF b
<1>5. p = Straight("decimal", b, {"b"})
  BY <1>1 DEF b
<1>6. /\ p.kind = "decimal" /\ Loadable(p.code) /\ HasHandler(p.code)
      /\ \A x \in DOMAIN p.code : 80 <= x
  BY <1>3, <1>4, <1>5, StraightProgram
<1>7. ASSUME NEW s, Ready(p.code, s) PROVE Run(p, s, s)
  <2> DEFINE A == Arithmetic(s, 128 + 8 * i, s.b)
             B == decimal_adjust(A.flags, A.value)
  <2>1. Adjusts(p, s, "a", 1, A, B)
    BY <1>1, <1>2 DEF Adjusts
  <2> HIDE DEF A, B
  <2> QED
    BY <1>7, <2>1, OperateStart DEF Operated
<1> QED
  BY <1>6, <1>7 DEF Startable
LEMMA WideStarts ==
    ASSUME NEW p \in Wide
    PROVE  Startable(p, "wide")
<1>1. PICK op \in {\h81, \h91} :
        p = Straight("wide", <<\h7D, op, \h6F, \h7C, op + 7, \h67>>, {"b", "c"})
  BY DEF Wide
<1>2. PICK k \in 0..1 : WideProgram(p, k)
  <2>1. CASE op = \h81
    <3>1. 0 \in 0..1 /\ WideProgram(p, 0)
      BY <1>1, <2>1 DEF WideProgram, WideBytes
    <3> QED
      BY <3>1
  <2>2. CASE op = \h91
    <3>1. 1 \in 0..1 /\ WideProgram(p, 1)
      BY <1>1, <2>2 DEF WideProgram, WideBytes
    <3> QED
      BY <3>1
  <2> QED
    BY <2>1, <2>2
<1>3. p.kind = "wide" /\ Loadable(p.code) /\ HasHandler(p.code)
  BY <1>2, WideCode
<1>4. ASSUME NEW s, Ready(p.code, s) PROVE Run(p, s, s)
  <2>1. At(s, s, {}, 0, Changes)
    BY <1>4, AtStart
  <2>2. WideAt(s, s, 0, k) /\ 0 \in 0..6
    BY <2>1 DEF WideAt
  <2> QED
    BY <1>2, <2>2 DEF Run, WideRun
<1> QED
  BY <1>3, <1>4 DEF Startable
LEMMA BitwiseStarts ==
    ASSUME NEW p \in Bitwise
    PROVE  Startable(p, "inverse")
<1>1. CASE \E j \in 0..7, pair \in TurnPair :
             p = Inverse2(Turning(j, pair), (Registers \ {"f"}) \cup pair[3])
  <2>1. PICK j \in 0..7, pair \in TurnPair :
             p = Inverse2(Turning(j, pair), (Registers \ {"f"}) \cup pair[3])
    BY <1>1, Zenon
  <2> DEFINE b == Turning(j, pair)
  <2>2. Len(b) = 4 /\ \A x \in 1..4 : b[x] \in Byte
    <3> DEFINE i1 == pair[1]
               i2 == pair[2]
    <3>1. i1 \in 0..7 /\ i2 \in 0..7
      BY DEF TurnPair
    <3>2. b[1] = \hCB /\ b[2] = 8 * i1 + j /\ b[3] = \hCB /\ b[4] = 8 * i2 + j /\ Len(b) = 4
      BY DEF Turning
    <3> HIDE DEF i1, i2, b
    <3>3. \hCB \in Byte /\ 8 * i1 + j \in Byte /\ 8 * i2 + j \in Byte
      BY <3>1, IsByte
    <3> QED
      BY <3>2, <3>3
  <2> HIDE DEF b
  <2>3. p = Straight("inverse", b, (Registers \ {"f"}) \cup pair[3])
    BY <2>1 DEF Inverse2, b
  <2>4. 4 \in 1..8
    OBVIOUS
  <2>5. p.kind = "inverse" /\ Loadable(p.code) /\ HasHandler(p.code)
    BY <2>2, <2>3, <2>4, StraightProgram
  <2>6. ASSUME NEW s, Ready(p.code, s) PROVE Run(p, s, s)
    <3> DEFINE r == Reg8[j + 1]
               A == Turned(s.f, Operand(s, r), pair[1], j)
               B == Turned(A.flags, A.value, pair[2], j)
    <3>1. Rotates(p, s, r, 2, A, B)
      BY <2>1, Zenon DEF Rotates
    <3> HIDE DEF r, A, B
    <3> QED
      BY <2>6, <3>1, OperateStart DEF Operated
  <2> QED
    BY <2>5, <2>6 DEF Startable
<1>2. CASE \E j \in 0..7 : p = Inverse2(Counting(j), (Registers \ {"f"}) \cup {"carry"})
  <2>1. PICK j \in 0..7 : p = Inverse2(Counting(j), (Registers \ {"f"}) \cup {"carry"})
    BY <1>2
  <2> DEFINE x1 == 8 * j + 4
             x2 == 8 * j + 5
  <2>2. x1 \in Byte /\ x2 \in Byte
    BY IsByte
  <2>3. p = Straight("inverse", <<x1, x2>>, (Registers \ {"f"}) \cup {"carry"})
    BY <2>1 DEF Inverse2, Counting
  <2> HIDE DEF x1, x2
  <2>4. p.kind = "inverse" /\ Loadable(p.code) /\ HasHandler(p.code)
    BY <2>2, <2>3, TwoByteCode
  <2>5. ASSUME NEW s, Ready(p.code, s) PROVE Run(p, s, s)
    <3> DEFINE r == Reg8[j + 1]
               A == increment(s.f, Operand(s, r))
               B == decrement(A.flags, A.value)
    <3>1. Counts2(p, s, r, 1, A, B)
      BY <2>1 DEF Counts2
    <3> HIDE DEF r, A, B
    <3> QED
      BY <2>5, <3>1, OperateStart DEF Operated
  <2> QED
    BY <2>4, <2>5 DEF Startable
<1>3. CASE p = Inverse2(<<\h2F, \h2F>>, (Registers \ {"f"}) \cup {"carry"})
  <2>1. p = Straight("inverse", <<\h2F, \h2F>>, (Registers \ {"f"}) \cup {"carry"})
    BY <1>3 DEF Inverse2
  <2>2. \h2F \in Byte
    BY IsByte
  <2>3. p.kind = "inverse" /\ Loadable(p.code) /\ HasHandler(p.code)
    BY <2>1, <2>2, TwoByteCode
  <2>4. ASSUME NEW s, Ready(p.code, s) PROVE Run(p, s, s)
    <3> DEFINE A == complement(s.f, s.a)
               B == complement(A.flags, A.value)
    <3>1. Complements(p, s, "a", 1, A, B)
      BY <1>3 DEF Complements
    <3> HIDE DEF A, B
    <3> QED
      BY <2>4, <3>1, OperateStart DEF Operated
  <2> QED
    BY <2>3, <2>4 DEF Startable
<1>4. \/ \E j \in 0..7, pair \in TurnPair : p = TurnBack(j, pair)
      \/ \E j \in 0..7 : p = Inverse2(Counting(j), (Registers \ {"f"}) \cup {"carry"})
      \/ p = Inverse2(<<\h2F, \h2F>>, (Registers \ {"f"}) \cup {"carry"})
  BY DEF Bitwise, TurnPair, Counting
<1> QED
  BY <1>1, <1>2, <1>3, <1>4, Zenon DEF TurnBack, Turning

LEMMA StackStarts ==
    ASSUME NEW p, NEW r \in 0..3, StackProgram(p, r) \/ PairProgram(p, r)
    PROVE  Startable(p, "inverse")
<1>1. p.kind = "inverse" /\ Loadable(p.code) /\ HasHandler(p.code)
  BY StackCode, PairCode
<1>2. ASSUME NEW s, Ready(p.code, s) PROVE Run(p, s, s)
  <2>1. At(s, s, {}, 0, {}) /\ 0 \in 0..2
    BY <1>2, AtStart
  <2>2. StackAt(s, s, 0, r) /\ PairAt(s, s, 0, r)
    BY <2>1 DEF StackAt, PairAt
  <2> QED
    BY <2>1, <2>2 DEF Run, StackRun, PairRun
<1> QED
  BY <1>1, <1>2 DEF Startable
LEMMA MoveStarts ==
    ASSUME NEW p, NEW e \in Steps, MoveProgram(p, e)
    PROVE  Startable(p, "inverse")
<1>1. p.kind = "inverse" /\ Loadable(p.code) /\ HasHandler(p.code)
  BY MoveCode
<1>2. ASSUME NEW s, Ready(p.code, s) PROVE Run(p, s, s)
  <2>1. At(s, s, {}, 0, {"sp", "f"}) /\ s.sp = \hDF00
    BY <1>2, AtStart
  <2>2. MoveAt(s, s, 0, e)
    BY <2>1 DEF MoveAt
  <2> QED
    BY <2>2 DEF Run, MoveRun
<1> QED
  BY <1>1, <1>2 DEF Startable
LEMMA SaveStarts ==
    ASSUME NEW p, SaveProgram(p)
    PROVE  Startable(p, "inverse")
<1>1. p.kind = "inverse" /\ Loadable(p.code) /\ HasHandler(p.code)
  BY SaveCode
<1>2. ASSUME NEW s, Ready(p.code, s) PROVE Run(p, s, s)
  <2>1. At(s, s, {}, 0, {"h", "l", "sp"}) /\ s.sp = \hDF00
    BY <1>2, AtStart
  <2>2. SaveAt(s, s, 0)
    BY <2>1 DEF SaveAt, Stack
  <2> QED
    BY <2>2 DEF Run, SaveRun
<1> QED
  BY <1>1, <1>2 DEF Startable
LEMMA EchoStarts ==
    ASSUME NEW p, EchoProgram(p)
    PROVE  Startable(p, "inverse")
<1>1. p.kind = "inverse" /\ Loadable(p.code) /\ HasHandler(p.code)
  BY EchoCode
<1>2. ASSUME NEW s, Ready(p.code, s) PROVE Run(p, s, s)
  <2>1. At(s, s, {value(s, "hl")}, 0, {"a", "h", "l"}) /\ 0 \in 0..3
    BY <1>2, AtStart
  <2>2. EchoAt(s, s, 0)
    BY <2>1 DEF EchoAt
  <2> QED
    BY <2>1, <2>2 DEF Run, EchoRun
<1> QED
  BY <1>1, <1>2 DEF Startable
LEMMA CallStarts ==
    ASSUME NEW p, NEW a \in Calls, NEW b \in Returns, CallProgram(p, a, b)
    PROVE  Startable(p, "inverse")
<1>1. p.kind = "inverse" /\ HasHandler(p.code)
  BY CallHandler
<1>2. Loadable(p.code)
  BY CallCode, ZenonT(60)
<1>3. ASSUME NEW s, Ready(p.code, s) PROVE Run(p, s, s)
  <2>1. At(s, s, {}, 0, {})
    BY <1>3, AtStart
  <2>2. CallAt(s, s, 0)
    BY <2>1 DEF CallAt
  <2>3. CallRun(p, s, s)
    BY <2>2 DEF CallRun
  <2> QED
    BY <2>3 DEF Run
<1> QED
  BY <1>1, <1>2, <1>3 DEF Startable
LEMMA RstStarts ==
    ASSUME NEW p, NEW n \in 0..7, RstProgram(p, n)
    PROVE  Startable(p, "inverse")
<1>1. p.kind = "inverse" /\ Loadable(p.code) /\ HasHandler(p.code)
  BY RstCode
<1>2. ASSUME NEW s, Ready(p.code, s) PROVE Run(p, s, s)
  <2>1. At(s, s, {}, 0, {}) /\ 0 \in 0..2
    BY <1>2, AtStart
  <2>2. RstAt(s, s, 0, n)
    BY <2>1 DEF RstAt
  <2> QED
    BY <2>1, <2>2 DEF Run, RstRun
<1> QED
  BY <1>1, <1>2 DEF Startable
LEMMA LeapStarts ==
    ASSUME NEW p, NEW e \in Leaps, LeapProgram(p, e)
    PROVE  Startable(p, "inverse")
<1>1. p.kind = "inverse" /\ Loadable(p.code) /\ HasHandler(p.code)
  BY LeapCode
<1>2. ASSUME NEW s, Ready(p.code, s) PROVE Run(p, s, s)
  <2>1. At(s, s, {}, 0, {}) /\ 0 \in 0..2
    BY <1>2, AtStart
  <2>2. LeapAt(s, s, 0, e)
    BY <2>1 DEF LeapAt, Landing
  <2> QED
    BY <2>1, <2>2 DEF Run, LeapRun
<1> QED
  BY <1>1, <1>2 DEF Startable
LEMMA OthersStart ==
    ASSUME NEW p \in Bitwise \cup Stacked \cup Called
    PROVE  Startable(p, "inverse")
<1>1. CASE p \in Bitwise
  BY <1>1, BitwiseStarts
<1>2. CASE p \in Stacked
  <2>1. \/ \E r \in 0..3 : StackProgram(p, r) \/ PairProgram(p, r)
        \/ \E e \in Steps : MoveProgram(p, e)
        \/ SaveProgram(p) \/ EchoProgram(p)
    BY <1>2 DEF Stacked, Inverse2, StackProgram, PairProgram, MoveProgram, MoveBytes, Steps,
       SaveProgram, SaveBytes, EchoProgram, EchoBytes
  <2> QED
    BY <2>1, StackStarts, MoveStarts, SaveStarts, EchoStarts
<1>3. CASE p \in Called
  <2>1. \/ \E a \in Calls, b \in Returns : CallProgram(p, a, b)
        \/ \E n \in 0..7 : RstProgram(p, n)
        \/ \E e \in Leaps : LeapProgram(p, e)
    BY <1>3 DEF Called, CallProgram, CallBytes, RetBytes, Calls, Returns, RstProgram, RstBytes,
       LeapProgram, LeapBytes, Leaps
  <2> QED
    BY <2>1, CallStarts, RstStarts, LeapStarts
<1> QED
  BY <1>1, <1>2, <1>3

LEMMA StartsSplit ==
    ASSUME NEW p, NEW s, <<p, s>> \in Starts
    PROVE  \/ \E v, w \in BCD, F \in {{}, {"carry"}} :
                 p \in Decimal /\ s = DecimalStart(p.code, v, w, F)
           \/ \E v, w \in Words : p \in Wide /\ s = WideStart(p.code, v, w)
           \/ \E v \in Bytes, F \in {{}, {"carry"}, {"zero"}, Flag} :
                 /\ p \in Bitwise \cup Stacked \cup Called \cup Single
                 /\ s = StartWith(p.code, v, F)
  BY DEF Starts
LEMMA PackedBCD ==
    ASSUME NEW v \in BCD
    PROVE  Packed(v) /\ v \in Byte
<1>1. PICK t \in Digits, u \in Digits : v = 16 * t + u
  BY DEF BCD
<1>2. Digit(t) /\ Digit(u)
  BY OperandsAssumption DEF Digit
<1>3. v \in Byte
  BY <1>1, <1>2, IsByte DEF Digit
<1> QED
  BY <1>1, <1>2, <1>3 DEF Packed

\* A program of one instruction, with a prefix or with operands.
LEMMA SingleShape ==
    ASSUME NEW p \in Single
    PROVE  /\ p.kind = "single"
           /\ \E op \in 0..255 :
                \/ op \notin Undefined \cup {\hCB} /\ p.code = Code(Origin, <<op, \hC0, \hD0>>)
                \/ p.code = Code(Origin, <<\hCB, op>>)
<1>1. CASE \E op \in (0..255) \ (Undefined \cup {\hCB}) :
             p = [kind |-> "single", code |-> Code(Origin, <<op, \hC0, \hD0>>), end |-> 0,
                  keeps |-> {}]
  <2>1. PICK op \in (0..255) \ (Undefined \cup {\hCB}) :
             p = [kind |-> "single", code |-> Code(Origin, <<op, \hC0, \hD0>>), end |-> 0,
                  keeps |-> {}]
    BY <1>1, Zenon
  <2>2. p.kind = "single" /\ p.code = Code(Origin, <<op, \hC0, \hD0>>)
    BY <2>1
  <2>3. op \in 0..255 /\ op \notin Undefined \cup {\hCB}
    BY <2>1
  <2> QED
    BY <2>2, <2>3, Zenon
<1>2. CASE \E op \in 0..255 :
             p = [kind |-> "single", code |-> Code(Origin, <<\hCB, op>>), end |-> 0,
                  keeps |-> {}]
  <2>1. PICK op \in 0..255 :
             p = [kind |-> "single", code |-> Code(Origin, <<\hCB, op>>), end |-> 0,
                  keeps |-> {}]
    BY <1>2, Zenon
  <2>2. p.kind = "single" /\ p.code = Code(Origin, <<\hCB, op>>)
    BY <2>1
  <2> QED
    BY <2>1, <2>2, Zenon
<1> QED
  BY <1>1, <1>2, Zenon DEF Single

\* Memory that holds nothing but code.
LEMMA CodeReady ==
    ASSUME NEW p, NEW kind, Startable(p, kind), NEW s, Launched(s), s.mem = p.code
    PROVE  Ready(p.code, s)
  BY DEF Startable, Launched, Ready, Loadable

LEMMA DecimalBegun ==
    ASSUME NEW p \in Decimal, NEW v \in BCD, NEW w \in BCD, NEW F \in {{}, {"carry"}}
    PROVE  LET s == DecimalStart(p.code, v, w, F)
           IN  p.kind = "decimal" /\ Launched(s) /\ Begun(p, s) /\ Run(p, s, s)
<1> DEFINE s == DecimalStart(p.code, v, w, F)
<1>1. Startable(p, "decimal") /\ \A x \in DOMAIN p.code : 80 <= x
  BY DecimalStarts
<1>2. Packed(v) /\ Packed(w) /\ v \in Byte /\ w \in Byte
  BY PackedBCD
<1>3. F \in SUBSET Flag
  BY DEF Flag
<1>4. Launched(s) /\ s.a = v /\ s.b = w /\ s.mem = p.code
  BY <1>1, <1>2, <1>3, LaunchDecimal DEF Startable
<1>5. value(s, "hl") = 13
  <2>1. s.h = 0 /\ s.l = 13
    BY BaseFields DEF Fields, DecimalStart
  <2> QED
    BY <2>1 DEF value, word
<1> HIDE DEF s
<1>6. Ready(p.code, s)
  BY <1>1, <1>4, CodeReady
<1>7. Around(p.code, s)
  BY <1>1, <1>5, <1>6 DEF Around, Guarded
<1>8. p.kind = "decimal" /\ Run(p, s, s)
  BY <1>1, <1>6 DEF Startable
<1>9. Begun(p, s)
  BY <1>2, <1>4, <1>6, <1>7, <1>8 DEF Begun
<1> QED
  BY <1>4, <1>8, <1>9 DEF s
LEMMA WideBegun ==
    ASSUME NEW p \in Wide, NEW v \in Words, NEW w \in Words
    PROVE  LET s == WideStart(p.code, v, w)
           IN  p.kind = "wide" /\ Launched(s) /\ Begun(p, s) /\ Run(p, s, s)
<1> DEFINE s == WideStart(p.code, v, w)
<1>1. Startable(p, "wide")
  BY WideStarts
<1>2. v \in Word /\ w \in Word
  BY OperandsAssumption
<1>3. Launched(s) /\ s.mem = p.code
  BY <1>1, <1>2, LaunchWide DEF Startable
<1> HIDE DEF s
<1>4. Ready(p.code, s)
  BY <1>1, <1>3, CodeReady
<1>5. p.kind = "wide" /\ Run(p, s, s)
  BY <1>1, <1>4 DEF Startable
<1>6. Begun(p, s)
  BY <1>4, <1>5 DEF Begun
<1> QED
  BY <1>3, <1>5, <1>6 DEF s
LEMMA OtherBegun ==
    ASSUME NEW p \in Bitwise \cup Stacked \cup Called, NEW v \in Byte, NEW F \in SUBSET Flag
    PROVE  LET s == StartWith(p.code, v, F)
           IN  p.kind = "inverse" /\ Launched(s) /\ Begun(p, s) /\ Run(p, s, s)
<1> DEFINE s == StartWith(p.code, v, F)
<1>1. Startable(p, "inverse")
  BY OthersStart
<1>2. /\ Ready(p.code, s) /\ value(s, "hl") \in DOMAIN s.mem
      /\ value(s, "hl") \notin DOMAIN p.code /\ Guarded(value(s, "hl"))
  BY <1>1, OtherReady DEF Startable
<1>3. Launched(s)
  <2>1. \A x \in DOMAIN p.code : p.code[x] \in Byte
    BY <1>1 DEF Startable, Loadable
  <2> QED
    BY <2>1, LaunchOther, Zenon
<1> HIDE DEF s
<1>4. p.kind = "inverse" /\ Run(p, s, s)
  BY <1>1, <1>2 DEF Startable
<1>5. Begun(p, s)
  BY <1>2, <1>4 DEF Begun, Around
<1> QED
  BY <1>3, <1>4, <1>5 DEF s

\* Every start of a program of several instructions is the start of such a run.
THEOREM ProgramsBegin ==
    ASSUME NEW p, NEW s, <<p, s>> \in Starts, p.kind # "single"
    PROVE  Launched(s) /\ Begun(p, s) /\ Run(p, s, s)
<1>1. CASE \E v, w \in BCD, F \in {{}, {"carry"}} :
             p \in Decimal /\ s = DecimalStart(p.code, v, w, F)
  BY <1>1, DecimalBegun, Zenon
<1>2. CASE \E v, w \in Words : p \in Wide /\ s = WideStart(p.code, v, w)
  BY <1>2, WideBegun
<1>3. CASE \E v \in Bytes, F \in {{}, {"carry"}, {"zero"}, Flag} :
             /\ p \in Bitwise \cup Stacked \cup Called \cup Single
             /\ s = StartWith(p.code, v, F)
  <2>1. PICK v \in Bytes, F \in {{}, {"carry"}, {"zero"}, Flag} :
             /\ p \in Bitwise \cup Stacked \cup Called \cup Single
             /\ s = StartWith(p.code, v, F)
    BY <1>3
  <2>2. v \in Byte /\ F \in SUBSET Flag
    BY OperandsAssumption DEF Flag
  <2>3. p \notin Single
    BY SingleShape, Zenon
  <2> QED
    BY <2>1, <2>2, <2>3, OtherBegun
<1> QED
  BY <1>1, <1>2, <1>3, StartsSplit

-----------------------------------------------------------------------------
(* Programs of ONE instruction. *)

\* Machine s is about to execute the one instruction of p.
Once(p, s) ==
    /\ Machine(s) /\ s.cycles = 0
    /\ Peek(s, s.pc) = p.code[Origin] /\ p.code[Origin] \notin Undefined
    /\ p.code[Origin] = \hCB => Peek(s, After(s.pc, 1)) = p.code[Origin + 1]
\* The two instructions whose duration is too short.
Hurried(p) ==
    p.kind = "single" /\ (p.code[Origin] = \h10
                            \/ (p.code[Origin] = \hCB /\ p.code[Origin + 1] \in 64..127))
\* The duration that q reports is that of its accesses.
Lasted(p, q) ==
    \/ Fits(q)
    \/ Hurried(p) /\ (Timed(q, 2, 0, 4) \/ Timed(q, 3, 1, 12))

LEMMA SingleCells ==
    ASSUME NEW n \in 2..3, NEW bytes, Len(bytes) = n, \A i \in 1..n : bytes[i] \in Byte,
           NEW v \in Byte, NEW F \in SUBSET Flag
    PROVE  LET s == StartWith(Code(Origin, bytes), v, F)
           IN  /\ Launched(s)
               /\ Code(Origin, bytes)[Origin] = bytes[1]
               /\ Code(Origin, bytes)[Origin + 1] = bytes[2]
               /\ Peek(s, s.pc) = bytes[1] /\ Peek(s, After(s.pc, 1)) = bytes[2]
<1> DEFINE c == Code(Origin, bytes)
           s == StartWith(c, v, F)
<1>1. Origin \in Nat /\ n \in Nat /\ 0 \in Nat /\ 1 \in Nat /\ 0 < n /\ 1 < n
  BY DEF Origin
<1>2. DOMAIN c = Origin..Origin + n - 1
  BY <1>1, CodeDomain
<1>3. /\ Origin + 0 \in DOMAIN c /\ c[Origin + 0] = bytes[0 + 1]
      /\ Origin + 1 \in DOMAIN c /\ c[Origin + 1] = bytes[1 + 1]
  <2>1. \A i \in Nat : i < n => Origin + i \in DOMAIN c /\ c[Origin + i] = bytes[i + 1]
    BY <1>1, CodeCell
  <2> HIDE DEF c
  <2> QED
    BY <1>1, <2>1
<1>4. ASSUME NEW x \in DOMAIN c PROVE c[x] \in Byte
  <2>1. PICK i \in Nat : i < n /\ x = Origin + i
    <3>1. x - Origin \in Nat /\ x - Origin < n /\ x = Origin + (x - Origin)
      BY <1>1, <1>2
    <3> QED
      BY <3>1
  <2>2. c[Origin + i] = bytes[i + 1] /\ i + 1 \in 1..n
    BY <1>1, <2>1, CodeCell
  <2> QED
    BY <2>1, <2>2
<1> HIDE DEF c
<1>5. Launched(s) /\ s.mem = Over(c, Code(Data + v, <<v>>))
      /\ DOMAIN s.mem = DOMAIN c \cup {Data + v}
  BY <1>4, LaunchOther, Zenon
<1> HIDE DEF s
<1>6. \A x \in DOMAIN c : Peek(s, x) = c[x]
  BY <1>5, OverFirst DEF Peek
<1>7. s.pc = Origin + 0 /\ After(s.pc, 1) = Origin + 1
  <2>1. s.pc = Origin + 0
    BY <1>5 DEF Launched, Origin
  <2>2. 0 \in 0..16 /\ 1 \in 0..8
    OBVIOUS
  <2>3. After(s.pc, 1) = Origin + (0 + 1)
    BY <2>1, <2>2, OffsetStep
  <2> QED
    BY <2>1, <2>3
<1>8. Origin + 0 = Origin
  BY <1>1
<1> QED
  BY <1>3, <1>5, <1>6, <1>7, <1>8 DEF c, s

LEMMA SingleBegins ==
    ASSUME NEW p, NEW s, <<p, s>> \in Starts, p.kind = "single"
    PROVE  Once(p, s)
<1>1. p \notin Decimal /\ p \notin Wide /\ p \notin Bitwise \cup Stacked \cup Called
  <2>1. p \notin Decimal
    BY DecimalStarts DEF Startable
  <2>2. p \notin Wide
    BY WideStarts DEF Startable
  <2> QED
    BY <2>1, <2>2, OthersStart DEF Startable
<1>2. PICK v \in Bytes, F \in {{}, {"carry"}, {"zero"}, Flag} :
             p \in Single /\ s = StartWith(p.code, v, F)
  BY <1>1, StartsSplit
<1>3. v \in Byte /\ F \in SUBSET Flag
  BY OperandsAssumption DEF Flag
<1>4. PICK op \in 0..255 :
        \/ op \notin Undefined \cup {\hCB} /\ p.code = Code(Origin, <<op, \hC0, \hD0>>)
        \/ p.code = Code(Origin, <<\hCB, op>>)
  BY <1>2, SingleShape, Zenon
<1>5. op \in Byte /\ \hC0 \in Byte /\ \hD0 \in Byte /\ \hCB \in Byte
  BY IsByte
<1>6. \hCB \notin Undefined
  BY DEF Undefined
<1>7. CASE op \notin Undefined \cup {\hCB} /\ p.code = Code(Origin, <<op, \hC0, \hD0>>)
  <2> DEFINE b == <<op, \hC0, \hD0>>
  <2>1. b[1] = op /\ b[2] = \hC0 /\ b[3] = \hD0 /\ Len(b) = 3 /\ 3 \in 2..3
    OBVIOUS
  <2> HIDE DEF b
  <2>2. \A i \in 1..3 : b[i] \in Byte
    BY <1>5, <2>1
  <2>3. p.code = Code(Origin, b)
    BY <1>7 DEF b
  <2>4. Launched(s) /\ p.code[Origin] = b[1] /\ Peek(s, s.pc) = b[1]
    BY <1>2, <1>3, <2>1, <2>2, <2>3, SingleCells
  <2> QED
    BY <1>7, <2>1, <2>4 DEF Once, Launched
<1>8. CASE p.code = Code(Origin, <<\hCB, op>>)
  <2> DEFINE b == <<\hCB, op>>
  <2>1. b[1] = \hCB /\ b[2] = op /\ Len(b) = 2 /\ 2 \in 2..3
    OBVIOUS
  <2> HIDE DEF b
  <2>2. \A i \in 1..2 : b[i] \in Byte
    BY <1>5, <2>1
  <2>3. p.code = Code(Origin, b)
    BY <1>8 DEF b
  <2>4. /\ Launched(s) /\ p.code[Origin] = b[1] /\ p.code[Origin + 1] = b[2]
        /\ Peek(s, s.pc) = b[1] /\ Peek(s, After(s.pc, 1)) = b[2]
    BY <1>2, <1>3, <2>1, <2>2, <2>3, SingleCells
  <2> QED
    BY <1>6, <2>1, <2>4 DEF Once, Launched
<1> QED
  BY <1>4, <1>7, <1>8

LEMMA SingleLasts ==
    ASSUME NEW p, p.kind = "single", NEW s, Once(p, s)
    PROVE  Lasted(p, tick(s))
<1>1. Machine(s) /\ Peek(s, s.pc) \notin Undefined
  BY DEF Once
<1>2. /\ ~Stop(s) /\ ~TestsMemory(s) => Fits(tick(s))
      /\ Stop(s) => Timed(tick(s), 2, 0, 4)
      /\ TestsMemory(s) => Timed(tick(s), 3, 1, 12)
  BY <1>1, InstructionsFit
<1>3. Stop(s) => Hurried(p)
  BY DEF Stop, Once, Hurried
<1>4. TestsMemory(s) => Hurried(p)
  <2> SUFFICES ASSUME TestsMemory(s) PROVE Hurried(p)
    OBVIOUS
  <2>1. /\ p.code[Origin] = \hCB
        /\ 64 <= p.code[Origin + 1] /\ p.code[Origin + 1] < 128
    BY DEF TestsMemory, Once
  <2>2. p.code[Origin + 1] \in Int
    <3>1. Peek(s, After(s.pc, 1)) \in Byte
      BY <1>1, PeekByte
    <3> QED
      BY <2>1, <3>1, IsByte DEF Once
  <2> QED
    BY <2>1, <2>2 DEF Hurried
<1> QED
  BY <1>2, <1>3, <1>4 DEF Lasted

-----------------------------------------------------------------------------
(* THE INVARIANT of the programs, and what follows from it. *)

\* The program goes on running, or its run has been interrupted and will be taken up.
Running ==
    /\ Begun(program, start)
    /\ \/ Run(program, start, m)
       \/ served /\ \E q : Run(program, start, q) /\ Interrupted(m, q)
ProgInv ==
    /\ IF program.kind = "single" THEN m.cycles > 0 \/ Once(program, m) ELSE Running
    /\ m.cycles > 0 /\ m.control # "dispatch" => Lasted(program, m)

\* The handler has no instruction whose duration is too short.
LEMMA HandlerRegular ==
    ASSUME NEW q, LoadedHandler(q), NEW n, Interrupted(n, q)
    PROVE  Regular(n)
<1>1. n.pc \in 80..87
  BY DEF Interrupted
<1> DEFINE op == Peek(n, n.pc)
<1>2. op \in {\hF5, \hE5, \hAF, \h37, \h6F, \hE1, \hF1, \hD9}
  <2>1. n.pc \in {80, 81, 82, 83, 84, 85, 86, 87}
    BY <1>1
  <2> QED
    BY <2>1, HandlerOpcode
<1>3. op \notin Undefined \cup {\h10, \hCB}
  BY <1>2 DEF Undefined
<1> HIDE DEF op
<1> QED
  BY <1>3, RegularOpcode DEF op
LEMMA RegularLasts ==
    ASSUME NEW q, Machine(q), Regular(q), NEW p
    PROVE  Lasted(p, tick(q))
  BY InstructionsFit DEF Regular, Lasted

LEMMA ProgBegins == ProgInit => ProgInv
<1> SUFFICES ASSUME ProgInit PROVE ProgInv
  OBVIOUS
<1>1. <<program, start>> \in Starts /\ m = start
  <2>1. PICK x \in Starts : program = x[1] /\ start = x[2] /\ m = x[2]
    BY DEF ProgInit
  <2>2. x = <<x[1], x[2]>>
    BY DEF Starts
  <2> QED
    BY <2>1, <2>2
<1>2. CASE program.kind = "single"
  <2>1. Once(program, m)
    BY <1>1, <1>2, SingleBegins
  <2> QED
    BY <1>2, <2>1 DEF ProgInv, Once
<1>3. CASE program.kind # "single"
  <2>1. Launched(start) /\ Begun(program, start) /\ Run(program, start, start)
    BY <1>1, <1>3, ProgramsBegin
  <2> QED
    BY <1>1, <1>3, <2>1 DEF ProgInv, Running, Launched
<1> QED
  BY <1>2, <1>3

LEMMA ProgRuns ==
    ASSUME ProgInv, RunInstruction
    PROVE  ProgInv'
<1>1. /\ m' = tick(m) /\ program' = program /\ start' = start /\ served' = served /\ ~Ended
  BY DEF RunInstruction
<1> DEFINE p == program
           s == start
           n == tick(m)
<1>2. CASE p.kind = "single"
  <2>1. ~(m.cycles > 0)
    BY <1>1, <1>2 DEF Ended
  <2>2. Once(p, m)
    BY <1>2, <2>1 DEF ProgInv
  <2>3. Lasted(p, n)
    BY <1>2, <2>2, SingleLasts
  <2>4. n.cycles > 0
    BY <2>3 DEF Lasted, Fits, Timed, Durations
  <2> QED
    BY <1>1, <1>2, <2>3, <2>4 DEF ProgInv
<1>3. CASE p.kind # "single"
  <2>1. Begun(p, s) /\ m.pc # p.end
    BY <1>1, <1>3 DEF ProgInv, Running, Ended
  <2>2. CASE Run(p, s, m)
    <3>1. Sound(p, s, m)
      BY <2>1, <2>2, RunSound
    <3>2. Machine(m) /\ Regular(m) /\ Run(p, s, n)
      BY <2>1, <3>1 DEF Sound
    <3>3. Lasted(p, n)
      BY <3>2, RegularLasts
    <3> QED
      BY <1>1, <1>3, <2>1, <3>2, <3>3 DEF ProgInv, Running
  <2>3. CASE served /\ \E q : Run(p, s, q) /\ Interrupted(m, q)
    <3>1. PICK q : Run(p, s, q) /\ Interrupted(m, q)
      BY <2>3
    <3>2. Sound(p, s, q)
      BY <2>1, <3>1, RunSound
    <3>3. Machine(q) /\ LoadedHandler(q) /\ \A t : Same(t, q) => Run(p, s, t)
      BY <3>2 DEF Sound
    <3>4. Machine(m) /\ Regular(m)
      BY <3>1, <3>3, HandlerRegular DEF Interrupted
    <3>5. Lasted(p, n)
      BY <3>4, RegularLasts
    <3>6. Interrupted(n, q) \/ Same(n, q)
      BY <3>1, <3>3, HandlerSteps
    <3>7. Run(p, s, n) \/ Interrupted(n, q)
      BY <3>3, <3>6
    <3> QED
      BY <1>1, <1>3, <2>1, <2>3, <3>1, <3>5, <3>7 DEF ProgInv, Running
  <2> QED
    BY <1>3, <2>2, <2>3 DEF ProgInv, Running
<1> QED
  BY <1>2, <1>3

LEMMA ProgInterrupts ==
    ASSUME ProgInv, Interrupt
    PROVE  ProgInv'
<1>1. /\ m' = dispatch(m, Vector) /\ program' = program /\ start' = start /\ served' = TRUE
      /\ served = FALSE /\ program.kind # "single"
  BY DEF Interrupt, ProgInv, Running
<1>2. Begun(program, start) /\ Run(program, start, m)
  BY <1>1 DEF ProgInv, Running
<1>3. Machine(m)
  BY <1>2, RunSound DEF Sound
<1>4. Interrupted(m', m) /\ m'.control = "dispatch"
  BY <1>1, <1>3, HandlerStarts
<1>5. \E q : Run(program, start, q) /\ Interrupted(m', q)
  BY <1>2, <1>4
<1>6. Running'
  BY <1>1, <1>2, <1>5 DEF Running
<1> QED
  BY <1>1, <1>4, <1>6 DEF ProgInv

\* The inductive invariant of the programs: each of them goes on running or is
\* interrupted by the handler that will let it run on, and the last instruction
\* had the time for its accesses (cpu.cpp:106-121, 191-196, 230-2657).
THEOREM ProgInvariant == ProgSpec => []ProgInv
<1>1. ProgInv /\ [ProgNext]_progvars => ProgInv'
  <2> SUFFICES ASSUME ProgInv, [ProgNext]_progvars PROVE ProgInv'
    OBVIOUS
  <2>1. CASE RunInstruction
    BY <2>1, ProgRuns
  <2>2. CASE Interrupt
    BY <2>2, ProgInterrupts
  <2>3. CASE UNCHANGED progvars
    BY <2>3 DEF progvars, ProgInv, Running
  <2> QED
    BY <2>1, <2>2, <2>3 DEF ProgNext, Stay
<1> QED
  BY <1>1, ProgBegins, PTL DEF ProgSpec

LEMMA ProgOutcome ==
    ASSUME ProgInv, Ended, program.kind # "single"
    PROVE  Outcome(program, start, m)
<1>1. Begun(program, start) /\ m.pc = program.end
  BY DEF ProgInv, Running, Ended
<1>2. CASE Run(program, start, m)
  BY <1>1, <1>2, RunSound DEF Sound
<1>3. CASE \E q : Run(program, start, q) /\ Interrupted(m, q)
  <2>1. PICK q : Run(program, start, q) /\ Interrupted(m, q)
    BY <1>3
  <2>2. Origin < program.end
    BY <1>1, <2>1, RunSound DEF Sound
  <2>3. m.pc \in {80, 81, 82, 83, 84, 85, 86, 87}
    BY <2>1 DEF Interrupted
  <2> QED
    BY <1>1, <2>2, <2>3 DEF Origin
<1> QED
  BY <1>2, <1>3 DEF ProgInv, Running

\* Decimal arithmetic is right for all packed operands, interrupted or not
\* (alu.cpp:292-326, cpu.cpp:1265-1269).
THEOREM ProgDecimal == ProgSpec => []DecimalArithmetic
<1>1. ProgInv => DecimalArithmetic
  <2> SUFFICES ASSUME ProgInv, Ended, program.kind = "decimal" PROVE DecimalArithmetic
    BY Zenon DEF DecimalArithmetic
  <2>1. Adjusted(program, start, m)
    BY ProgOutcome DEF Outcome
  <2> QED
    BY <2>1 DEF Adjusted, Unpacked, DecimalArithmetic
<1> QED
  BY <1>1, ProgInvariant, PTL

\* Arithmetic on words byte by byte is 16-bit arithmetic for all words, interrupted
\* or not (alu.cpp:12-59, 67-117, 243-256).
THEOREM ProgWide == ProgSpec => []WideArithmetic
<1>1. ProgInv => WideArithmetic
  <2> SUFFICES ASSUME ProgInv, Ended, program.kind = "wide" PROVE WideArithmetic
    BY DEF WideArithmetic
  <2>1. Widened(program, start, m)
    BY ProgOutcome DEF Outcome
  <2> QED
    BY <2>1 DEF Widened, WideArithmetic
<1> QED
  BY <1>1, ProgInvariant, PTL

\* Instructions and their counterparts cancel out for all bytes, interrupted or
\* not (cpu.cpp:2552-2617).
THEOREM ProgCancel == ProgSpec => []CounterpartsCancel
<1>1. ProgInv => CounterpartsCancel
  <2> SUFFICES ASSUME ProgInv, Ended, program.kind = "inverse" PROVE CounterpartsCancel
    BY DEF CounterpartsCancel
  <2>1. Restored(program, start, m)
    BY ProgOutcome DEF Outcome
  <2> QED
    BY <2>1 DEF Restored, CounterpartsCancel
<1> QED
  BY <1>1, ProgInvariant, PTL

\* Where the stores are among the accesses.
LEMMA StoresOf ==
    ASSUME NEW q, NEW n \in 1..5, NEW w \in 0..2, Accessed(q, n, w)
    PROVE  LET stores == {i \in 1..Len(q.accesses) : q.accesses[i][1] = "write"}
           IN  stores # {} => 1 <= w /\ \E i, j \in stores : stores = {i, j}
<1> DEFINE stores == {i \in 1..Len(q.accesses) : q.accesses[i][1] = "write"}
<1>1. \A i : i \in stores <=> i \in n + 1..n + w
  BY DEF Accessed
<1> HIDE DEF stores
<1>2. CASE w = 0
  <2>1. \A i : i \notin stores
    BY <1>1, <1>2
  <2>2. stores = {}
    BY <2>1
  <2> QED
    BY <2>2 DEF stores
<1>3. CASE w = 1
  <2>1. stores = {n + 1} /\ n + 1 \in stores
    BY <1>1, <1>3
  <2> QED
    BY <1>3, <2>1 DEF stores
<1>4. CASE w = 2
  <2>1. stores = {n + 1, n + 2} /\ n + 1 \in stores /\ n + 2 \in stores
    BY <1>1, <1>4
  <2> QED
    BY <1>4, <2>1 DEF stores
<1> QED
  BY <1>2, <1>3, <1>4 DEF stores

\* Every instruction of every program has the time for its accesses, but for the
\* two known ones (instruction_info.h:16-562, cpu.cpp:235-241, 1619-1906).
THEOREM ProgDurations == ProgSpec => []AccessesFitDuration
<1>1. ProgInv => AccessesFitDuration
  <2> SUFFICES ASSUME ProgInv, m.cycles > 0, m.control # "dispatch" PROVE AccessesFitDuration
    BY Zenon DEF AccessesFitDuration
  <2> DEFINE stores == {i \in 1..Len(m.accesses) : m.accesses[i][1] = "write"}
  <2>1. PICK n \in 1..5, w \in 0..2, c \in Durations :
           /\ Timed(m, n, w, c)
           /\ 4 * (n + w) <= c \/ (Hurried(program) /\ (w = 0 \/ c = 12))
    <3>1. CASE Fits(m)
      BY <3>1 DEF Fits
    <3>2. CASE Hurried(program) /\ (Timed(m, 2, 0, 4) \/ Timed(m, 3, 1, 12))
      <4>1. 2 \in 1..5 /\ 3 \in 1..5 /\ 0 \in 0..2 /\ 1 \in 0..2
        OBVIOUS
      <4>2. 4 \in Durations /\ 12 \in Durations
        BY DEF Durations
      <4> QED
        BY <3>2, <4>1, <4>2
    <3> QED
      BY <3>1, <3>2 DEF ProgInv, Lasted
  <2>2. Accessed(m, n, w) /\ m.cycles = c /\ Len(m.accesses) = n + w
    BY <2>1 DEF Timed, Accessed
  <2>3. stores # {} => 1 <= w /\ \E i, j \in stores : stores = {i, j}
    BY <2>2, StoresOf, Zenon
  <2> HIDE DEF stores
  <2>4. m.cycles \in {4, 8, 12, 16, 20, 24}
    BY <2>2 DEF Durations
  <2>5. 4 * Len(m.accesses) > m.cycles => Hurried(program)
    BY <2>1, <2>2, <2>4
  <2>6. stores # {} => m.cycles >= 8
    BY <2>1, <2>2, <2>3, <2>4
  <2> QED
    BY <2>3, <2>4, <2>5, <2>6 DEF AccessesFitDuration, Hurried, stores
<1> QED
  BY <1>1, ProgInvariant, PTL
=============================================================================
