--------------------------- MODULE OrderedDelivery ---------------------------
(***************************************************************************)
(* What the live runner's callbacks promise the broker: a session's events  *)
(* reach it in sequence order.  An event may come more than once, and one   *)
(* that the broker has refused for good is set aside.                       *)
(***************************************************************************)
EXTENDS Integers

CONSTANT Sessions

VARIABLES emitted, taken, parked

vars == <<emitted, taken, parked>>

Init ==
    /\ emitted = [s \in Sessions |-> 0]
    /\ taken = [s \in Sessions |-> {}]
    /\ parked = [s \in Sessions |-> {}]

Settled(s) == taken[s] \cup parked[s]

\* Every event before e is with the broker or set aside.
InTurn(s, e) == e \in 1..emitted[s] /\ \A d \in 1..(e - 1) : d \in Settled(s)

Emit(s) ==
    /\ emitted' = [emitted EXCEPT ![s] = @ + 1]
    /\ UNCHANGED <<taken, parked>>

Take(s, e) ==
    /\ InTurn(s, e)
    /\ taken' = [taken EXCEPT ![s] = @ \cup {e}]
    /\ UNCHANGED <<emitted, parked>>

Park(s, e) ==
    /\ InTurn(s, e)
    /\ parked' = [parked EXCEPT ![s] = @ \cup {e}]
    /\ UNCHANGED <<emitted, taken>>

Next ==
    \E s \in Sessions :
        \/ Emit(s)
        \/ \E e \in 1..emitted[s] : Take(s, e) \/ Park(s, e)

Spec == Init /\ [][Next]_vars
=============================================================================
