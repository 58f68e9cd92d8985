------------------------------ MODULE TwoSlots ------------------------------
(***************************************************************************)
(* What an install over SSH promises of the two system slots, whatever     *)
(* path it takes and wherever it is interrupted: the slot that runs is     *)
(* never written; a slot that is selected was whole when it was selected;  *)
(* and a slot that is selected is not written any more, unless Creality's  *)
(* system is the one that runs.                                            *)
(***************************************************************************)
EXTENDS Naturals

CONSTANTS
    Slots,
    Systems,    \* what a whole slot may hold
    Foreign,    \* the systems under which a selected slot may be written
    Broken      \* what a slot holds that is not whole

VARIABLES
    selected,   \* the slot of the next boot, or 0
    content,    \* what each slot holds
    runs        \* the slot this boot runs, or 0

vars == <<selected, content, runs>>

Init ==
    /\ runs \in Slots
    /\ content \in [Slots -> Systems \cup {Broken}]
    /\ content[runs] # Broken
    /\ selected = runs

Write(s, c) ==
    /\ s # runs
    /\ s = selected => runs # 0 /\ content[runs] \in Foreign
    /\ content' = [content EXCEPT ![s] = c]
    /\ UNCHANGED <<selected, runs>>

Select(s) ==
    /\ content[s] # Broken
    /\ selected' = s
    /\ UNCHANGED <<content, runs>>

\* A marker write that does not land whole selects nothing.
Tear ==
    /\ selected' = 0
    /\ UNCHANGED <<content, runs>>

Boot ==
    /\ runs' \in IF selected = 0 THEN {0} \cup {s \in Slots : content[s] # Broken}
                 ELSE IF content[selected] = Broken THEN {0} ELSE {selected}
    /\ UNCHANGED <<selected, content>>

Next ==
    \/ \E s \in Slots, c \in Systems \cup {Broken} : Write(s, c)
    \/ \E s \in Slots : Select(s)
    \/ Tear \/ Boot

Spec == Init /\ [][Next]_vars
=============================================================================
