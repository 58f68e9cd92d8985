--------------------------- MODULE FallbackPromise ---------------------------
(***************************************************************************)
(* What the on-printer update promises, without saying how: a system that  *)
(* is offered for a first start always has another, whole system to go     *)
(* back to, and once it has started nothing else is offered until it has   *)
(* its verdict (docs/A_B_SLOT_MODEL.md; image.py, "One automatic fallback  *)
(* after an install").                                                     *)
(***************************************************************************)
EXTENDS Naturals

CONSTANTS Slot,      \* the system slots
          Content,   \* what a slot can hold
          WholeOnes, \* the contents that are a complete system
          NoOffer,   \* no system waits for its verdict
          Limit      \* starts an offered system gets

VARIABLES content,   \* what each slot holds
          offer,     \* [fallback, candidate], or NoOffer
          starts     \* starts of the candidate so far

pvars == <<content, offer, starts>>

Offers == [fallback : Slot, candidate : Slot]

PromiseInit ==
    /\ content \in [Slot -> Content]
    /\ offer = NoOffer /\ starts = 0

\* A candidate is offered by a whole system in another slot, and replaces an
\* earlier offer only if that one never started.
Offer ==
    /\ starts = 0
    /\ \E f, c \in Slot :
          /\ f # c /\ content[f] \in WholeOnes
          /\ offer' = [fallback |-> f, candidate |-> c]
    /\ UNCHANGED <<content, starts>>

\* The candidate starts once more; after Limit starts the count means "too many".
Start ==
    /\ offer # NoOffer
    /\ starts' = starts + 1 /\ starts <= Limit
    /\ UNCHANGED <<content, offer>>

\* The verdict - confirmed, gone back, or never started.
Settle ==
    /\ offer # NoOffer
    /\ offer' = NoOffer /\ starts' = 0
    /\ UNCHANGED content

\* A slot is written; the fallback is only ever replaced by a whole system.
Write ==
    /\ \E s \in Slot, c \in Content :
          /\ offer # NoOffer /\ s = offer.fallback => c \in WholeOnes
          /\ content' = [content EXCEPT ![s] = c]
    /\ UNCHANGED <<offer, starts>>

PromiseNext == Offer \/ Start \/ Settle \/ Write
PromiseSpec == PromiseInit /\ [][PromiseNext]_pvars

\* The way back exists as long as the verdict is open.
FallbackIsWhole == offer # NoOffer => content[offer.fallback] \in WholeOnes
=============================================================================
