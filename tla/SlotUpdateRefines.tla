-------------------------- MODULE SlotUpdateRefines --------------------------
(* The slots, the marker and the TRIAL file implement FallbackPromise: the   *)
(* open offer is the TRIAL file, its starts the counted ones.                *)
EXTENDS SlotUpdate

WholeContents == [img : Image, whole : {TRUE}]
OfferOfTrial ==
    IF trial = NoTrial THEN NoTrial ELSE [fallback |-> trial.from, candidate |-> trial.to]
StartsOfTrial == IF trial = NoTrial THEN 0 ELSE trial.starts

P == INSTANCE FallbackPromise
        WITH Slot <- Slots, Content <- [img : Image \cup {NoImage}, whole : BOOLEAN],
             WholeOnes <- WholeContents, NoOffer <- NoTrial, Limit <- TrialAttempts,
             content <- slot, offer <- OfferOfTrial, starts <- StartsOfTrial

ASSUME OfferAssumption == NoTrial \notin P!Offers

\* The update keeps the promise: a slot on trial always has a whole system to
\* go back to, and a started trial is never replaced before its verdict.
KeepsThePromise == P!PromiseSpec
=============================================================================
