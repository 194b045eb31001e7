----------------------------- MODULE DraftBatch -----------------------------
(***************************************************************************)
(* What the page /set of the LCD promises for one kind of field (the modes *)
(* of the ports, their names): the user edits any number of cells of a     *)
(* table that other writers change at will, and asks for all edits at      *)
(* once.  They take effect together, each over the value the user had seen *)
(* in its cell, or not at all, and the drafts are given up only when they  *)
(* have taken effect.                                                      *)
(***************************************************************************)
CONSTANTS Cells, Vals, None

Drafts == [new : Vals, base : Vals]
Given == [c \in Cells |-> None]

VARIABLES table, draft, phase

vars == <<table, draft, phase>>

Init == /\ table \in [Cells -> Vals]
        /\ draft = Given
        /\ phase = "idle"

(* A form of the WWW pages.                                                *)
Write(c, v) == /\ table' = [table EXCEPT ![c] = v]
               /\ UNCHANGED <<draft, phase>>

Edit(c, d) == /\ phase = "idle"
              /\ draft' = [draft EXCEPT ![c] = d]
              /\ UNCHANGED <<table, phase>>

Ask == /\ phase = "idle"
       /\ draft # Given
       /\ phase' = "asked"
       /\ UNCHANGED <<table, draft>>

Commit == /\ phase = "asked"
          /\ \A c \in Cells : draft[c] # None => draft[c].base = table[c]
          /\ table' = [c \in Cells |->
                         IF draft[c] = None THEN table[c] ELSE draft[c].new]
          /\ phase' = "committed"
          /\ UNCHANGED draft

(* A cell was changed by someone else, or the storage refused.             *)
Refuse == /\ phase = "asked"
          /\ phase' = "refused"
          /\ UNCHANGED <<table, draft>>

(* The user is told.                                                       *)
Tell == /\ phase \in {"committed", "refused"}
        /\ phase' = "idle"
        /\ draft' = IF phase = "committed" THEN Given ELSE draft
        /\ UNCHANGED table

Next == \/ \E c \in Cells, v \in Vals : Write(c, v)
        \/ \E c \in Cells, d \in Drafts \cup {None} : Edit(c, d)
        \/ Ask \/ Commit \/ Refuse \/ Tell

Spec == Init /\ [][Next]_vars
=============================================================================
