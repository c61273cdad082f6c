------------------------------- MODULE MCCpu -------------------------------
(***************************************************************************)
(* Cpu with a history variable, which no step depends on, for the property *)
(* that speaks of what happened earlier.                                   *)
(***************************************************************************)
EXTENDS Cpu

VARIABLE shielded   \* interrupts were switched off and not asked for since

mcvars == <<vars, shielded>>

Dispatch == ServeInterrupt /\ interrupt_master_enable

\* The instruction after DI, with which it takes effect.
DisableArrives == pending_disable = 0 /\ pending_disable' = Idle

History ==
    shielded' = IF Dispatch THEN pending_enable = Idle
                ELSE (shielded \/ DisableArrives) /\ ~EI /\ ~RETI

MCInit == Init /\ shielded = FALSE
MCNext == Next /\ History
MCSpec == MCInit /\ [][MCNext]_mcvars
MCFairSpec == MCSpec /\ WF_mcvars(Step /\ History)

\* Once a dispatch or a DI has switched interrupts off, none is dispatched before
\* the program executes EI or RETI, whatever delayed EI or DI, HALT, STOP, stores
\* and requests come in between (cpu.cpp:135-151, 191-196, 1274-1311, 2525-2598).
\* The exception is a dispatch at which an EI is still pending, executed with IME
\* already set: the first instruction of the handler turns IME on again, and a
\* second interrupt may be dispatched inside the handler unless it begins with DI.
HandlerShielded == [][Dispatch => ~shielded]_mcvars
=============================================================================
