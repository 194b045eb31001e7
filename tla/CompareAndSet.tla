--------------------------- MODULE CompareAndSet ---------------------------
(***************************************************************************)
(* What the threshold editor promises: an array of registers that one      *)
(* group of writers (forms of the WWW pages) overwrites at will and one    *)
(* client (the LCD) changes by compare-and-set, one request at a time.     *)
(***************************************************************************)
CONSTANTS Ports, Vals, Requests

VARIABLES reg, phase, op, answer

vars == <<reg, phase, op, answer>>

Init == /\ reg \in [Ports -> Vals]
        /\ phase = "idle"
        /\ op \in Requests
        /\ answer = "idle"

(* A form of the WWW pages.                                                *)
Write(p, v) == /\ reg' = [reg EXCEPT ![p] = v]
               /\ UNCHANGED <<phase, op, answer>>

Ask(r) == /\ phase = "idle"
          /\ phase' = "asked"
          /\ op' = r
          /\ answer' = "none"
          /\ UNCHANGED reg

Apply == /\ phase = "asked"
         /\ reg[op.port] = op.base
         /\ reg' = [reg EXCEPT ![op.port] = op.values]
         /\ phase' = "done"
         /\ answer' = "saved"
         /\ UNCHANGED op

Decline == /\ phase = "asked"
           /\ reg[op.port] # op.base
           /\ phase' = "done"
           /\ answer' = "conflict"
           /\ UNCHANGED <<reg, op>>

(* The storage refuses.                                                    *)
Fail == /\ phase = "asked"
        /\ phase' = "done"
        /\ answer' = "storageError"
        /\ UNCHANGED <<reg, op>>

(* The client is told.                                                     *)
Deliver == /\ phase = "done"
           /\ phase' = "idle"
           /\ UNCHANGED <<reg, op, answer>>

Next == \/ \E p \in Ports, v \in Vals : Write(p, v)
        \/ \E r \in Requests : Ask(r)
        \/ Apply \/ Decline \/ Fail \/ Deliver

Spec == Init /\ [][Next]_vars
=============================================================================
