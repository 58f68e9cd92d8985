--------------------------- MODULE MCHostInstall ---------------------------
(* HostInstall on small budgets of faults. *)
EXTENDS HostInstall

CONSTANTS b1, b2
MCBuilds == {b1, b2}
None == [k \in FaultKinds |-> 0]
Plus(f, k) == [f EXCEPT ![k] = @ + 1]
Common == {"drop", "cut", "kill", "journal", "marker", "flash", "lost", "probe", "outlive"}
\* Any two faults, of any kind, at any moment.
TwoFaults == {Plus(Plus(None, k), l) : k, l \in Common}
\* The installer's process is killed once.
OneKill == {Plus(None, "kill")}
OneFault == {Plus(None, k) : k \in Common}
=============================================================================
