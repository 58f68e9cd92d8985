---------------------------- MODULE PairJudgement ----------------------------
(***************************************************************************)
(* What the record of the Klipper stack promises, without saying how a     *)
(* pair is tried: the known-good pair changes only to a pair that was      *)
(* offered for a trial and kept, or to the one a new system brings, and    *)
(* never while a trial or a rollback is unfinished.                        *)
(***************************************************************************)
CONSTANTS Pair,      \* what can be live
          NoPair     \* nothing is known yet

VARIABLES known,     \* the pair to go back to
          offered,   \* the pair that was last looked at
          phase      \* how far its trial is

jvars == <<known, offered, phase>>

Settled == phase \in {"new", "settled", "parked"}

JudgementInit == known = NoPair /\ offered = NoPair /\ phase = "new"

\* A system that is new brings its own pair.
Adopt ==
    /\ Settled
    /\ known' \in Pair
    /\ offered' = known'
    /\ phase' = "settled"

Offer ==
    /\ Settled /\ known # NoPair
    /\ offered' \in Pair
    /\ phase' = "trial"
    /\ UNCHANGED known

Keep ==
    /\ phase = "trial"
    /\ known' = offered
    /\ phase' = "settled"
    /\ UNCHANGED offered

\* The trial is put off, or the known pair is back, or nothing could be put back.
Drop ==
    /\ phase \in {"trial", "undoing"}
    /\ offered' = known
    /\ phase' \in {"settled", "parked"}
    /\ UNCHANGED known

\* The rollback has to wait; what is live meanwhile may be anything.
Linger ==
    /\ phase \in {"trial", "undoing"}
    /\ offered' \in Pair
    /\ phase' = "undoing"
    /\ UNCHANGED known

JudgementNext == Adopt \/ Offer \/ Keep \/ Drop \/ Linger
JudgementSpec == JudgementInit /\ [][JudgementNext]_jvars
=============================================================================
