------------------------- MODULE KlipperStackRefines -------------------------
(* The record of the Klipper stack implements PairJudgement.                 *)
EXTENDS KlipperStack

PhaseOf(state) ==
    CASE state = "validating"       -> "trial"
      [] state = "rollback-pending" -> "undoing"
      [] state = "factory-fallback" -> "parked"
      [] OTHER                      -> "settled"

J == INSTANCE PairJudgement
        WITH Pair <- Pairs, NoPair <- NoRecord,
             known   <- IF rec = NoRecord THEN NoRecord ELSE rec.kg,
             offered <- IF rec = NoRecord THEN NoRecord ELSE rec.seen,
             phase   <- IF rec = NoRecord THEN "new" ELSE PhaseOf(rec.state)

\* The supervisor keeps the judgement: the known-good pair only ever becomes a
\* pair that was under validation and kept, or the pair of a new generation,
\* and no other record ends a validation or a rollback.
KeepsTheJudgement == J!JudgementSpec
=============================================================================
