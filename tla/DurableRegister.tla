-------------------------- MODULE DurableRegister --------------------------
(***************************************************************************)
(* What the settings storage promises to the code that uses it: one        *)
(* durable table of settings.  A request replaces one entry of the table   *)
(* as a whole; it is either committed once and then acknowledged, or       *)
(* refused with the table untouched.  A power cycle may end a request      *)
(* before or after its commit but never in between, and never moves the    *)
(* table anywhere else.                                                    *)
(*                                                                         *)
(* http_sensor_settings.h:27 ("Save must return 1 only once its complete   *)
(* byte buffer is durably committed") and sandwitch-all-settings.md:81     *)
(* ("Zapis jest zatwierdzany w RAM dopiero po poprawnym zapisie") are the  *)
(* words this module turns into a specification.                           *)
(***************************************************************************)
CONSTANTS Keys,      \* independently written entries of the settings table
          Vals,      \* values of an entry
          Initial    \* the table of a device that never saved anything

VARIABLES stored,    \* the table the next boot will load
          phase,     \* "free", "asked" (request open) or "committed"
          want,      \* the table the open request asks for
          reply      \* last answer given to a requester

vars == <<stored, phase, want, reply>>

Init == /\ stored = Initial
        /\ phase = "free"
        /\ want = Initial
        /\ reply = "none"

(* A request changes one entry of the table that is stored now.            *)
Ask(k, v) == /\ phase = "free"
             /\ phase' = "asked"
             /\ want' = [stored EXCEPT ![k] = v]
             /\ reply' = "none"
             /\ UNCHANGED stored

(* The request is turned down before anything was tried.                   *)
Reject == /\ phase = "free"
          /\ reply' \in {"none", "failed"}
          /\ UNCHANGED <<stored, phase, want>>

Commit == /\ phase = "asked"
          /\ phase' = "committed"
          /\ stored' = want
          /\ UNCHANGED <<want, reply>>

Acknowledge == /\ phase = "committed"
               /\ phase' = "free"
               /\ reply' = "saved"
               /\ UNCHANGED <<stored, want>>

Refuse == /\ phase = "asked"
          /\ phase' = "free"
          /\ reply' = "failed"
          /\ UNCHANGED <<stored, want>>

PowerCycle == /\ phase' = "free"
              /\ reply' = "none"
              /\ want' = Initial
              /\ UNCHANGED stored

Next == \/ \E k \in Keys, v \in Vals : Ask(k, v)
        \/ Reject
        \/ Commit
        \/ Acknowledge
        \/ Refuse
        \/ PowerCycle

Spec == Init /\ [][Next]_vars
=============================================================================
