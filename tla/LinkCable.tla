----------------------------- MODULE LinkCable ------------------------------
(***************************************************************************)
(* What a link cable promises: the two machines each hold a byte, and a    *)
(* transfer exchanges the two bytes in one step.  Only a machine that has  *)
(* asked for a transfer can cause an exchange, and one request causes at   *)
(* most one.                                                               *)
(***************************************************************************)
CONSTANTS Machines, Bytes

VARIABLES
    byte,      \* the byte each machine holds
    asking     \* the machines that have asked for a transfer

Init ==
    /\ byte \in [Machines -> Bytes]
    /\ asking = {}

Write(m) ==
    /\ \E data \in Bytes : byte' = [byte EXCEPT ![m] = data]
    /\ UNCHANGED asking

Ask(m) == asking' = asking \cup {m} /\ UNCHANGED byte

Withdraw(m) == asking' = asking \ {m} /\ UNCHANGED byte

Exchange(m, peer) ==
    /\ m \in asking
    /\ asking' = asking \ {m}
    /\ byte' = [byte EXCEPT ![m] = byte[peer], ![peer] = byte[m]]

Next == \E m \in Machines :
    \/ Write(m)
    \/ Ask(m)
    \/ Withdraw(m)
    \/ \E peer \in Machines \ {m} : Exchange(m, peer)

Spec == Init /\ [][Next]_<<byte, asking>>
=============================================================================
