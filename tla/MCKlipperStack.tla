--------------------------- MODULE MCKlipperStack ---------------------------
(***************************************************************************)
(* KlipperStack with two commits of each half.  The old and the new pair   *)
(* run; of the two mixed pairs one does, the new extensions on the old     *)
(* Klipper.                                                                *)
(***************************************************************************)
EXTENDS KlipperStackRefines

Pair(k, e) == [k |-> k, e |-> e]

MCKlippers == {1, 2}
MCExtensions == {1, 2}
MCGood == {Pair(1, 1), Pair(1, 2), Pair(2, 2)}
MCImages == {1, 2}
MCSeed == [i \in MCImages |-> Pair(i, i)]
MCContains == [i \in MCImages |-> i .. 2]

Spends(limits) == [kind \in Kinds |-> IF kind \in DOMAIN limits THEN limits[kind] ELSE 0]

AnyFault == Spends([cut |-> 2, update |-> 1, image |-> 1, swap |-> 1, env |-> 1,
                    refuse |-> 1, reset |-> 1, print |-> 1])
=============================================================================
