----------------------------- MODULE DeploySlot -----------------------------
(***************************************************************************)
(* What the deployments table promises of one app: attempts are made one   *)
(* at a time, and each settles once (deploy/store.py).                     *)
(***************************************************************************)
EXTENDS Naturals

CONSTANT MaxRows   \* attempts in a behaviour

VARIABLES
    made,    \* attempts made so far, numbered in order
    status   \* each attempt's status

vars == <<made, status>>
Attempts == 1 .. MaxRows
InFlight(i) == status[i] = "running"

Init ==
    /\ made = 0
    /\ status = [i \in Attempts |-> "none"]

Start ==
    /\ made < MaxRows
    /\ \A i \in Attempts : ~InFlight(i)
    /\ made' = made + 1
    /\ status' = [status EXCEPT ![made + 1] = "running"]

Settle(i) ==
    /\ InFlight(i)
    /\ \E outcome \in {"succeeded", "failed"} :
        status' = [status EXCEPT ![i] = outcome]
    /\ UNCHANGED made

Next == Start \/ \E i \in Attempts : Settle(i)
Spec == Init /\ [][Next]_vars

\* Nothing holds the slot for ever.
FairSpec == Spec /\ \A i \in Attempts : WF_vars(Settle(i))
=============================================================================
