--------------------------- MODULE MCLoadCellProbe ---------------------------
(* The load cell probe on a bed at the start, two steps down, or out of    *)
(* reach of one travel of four steps.                                      *)
EXTENDS LoadCellProbe

MCBeds == {1, 3, 6}
=============================================================================
