---------------------------- MODULE MCExercises -----------------------------
(* Small instances of Exercises. *)
EXTENDS Exercises

Budget(kinds, n) == [k \in Interruptions |-> IF k \in kinds THEN n ELSE 0]
OneRun == {"r1"}
All == DOMAIN Profiles
Any == {Budget({"term"}, 2), Budget({"term", "print"}, 1), Budget({"term", "lost"}, 1),
        Budget({"term", "cut"}, 1)}
=============================================================================
