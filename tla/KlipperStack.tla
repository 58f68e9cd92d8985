---------------------------- MODULE KlipperStack ----------------------------
(***************************************************************************)
(* Klipper and the NebulaOS extensions are two git checkouts that must fit *)
(* together.  Moonraker updates either of them at any time; the update     *)
(* supervisor judges the pair and puts both halves back when it fails      *)
(* (etc/nebulaos-update-supervisor.sh).  The boot scripts meet it in one   *)
(* lock file: S04nebulaos-migrate with its maintenance gate may replace    *)
(* the checkouts, S05nebulaos-activate binds them over the immutable copy  *)
(* of the image.  One action per step that another program, a print or a   *)
(* power cut can come after.                                               *)
(***************************************************************************)
EXTENDS Integers, FiniteSets

CONSTANTS
    Klippers,      \* commits of Klipper
    Extensions,    \* commits of the extension set
    Good,          \* the pairs that run
    Images,        \* system images
    Seed,          \* image -> the pair it is shipped with
    Contains,      \* image -> the extension commits that are not older than its own
    Immutable,     \* what Klippy runs: the read-only copy of the image
    Nothing,       \* what Klippy runs: nothing, the printer is off
    NoRecord,      \* there is no state.json yet
    MidUpdates,    \* whether Moonraker updates while the supervisor is at work
    Budget         \* how often each fault or outside event may happen

Pairs == [k : Klippers, e : Extensions]

States == {"healthy", "validating", "deferred", "rollback-pending", "rolled-back",
           "interrupted", "factory-fallback"}

Records == [kg : Pairs, seen : Pairs, state : States, gen : Images]

Kinds == {"cut", "update", "image", "swap", "env", "refuse", "reset", "print"}

ASSUME ConstantsAssumption ==
    /\ Good \subseteq Pairs
    /\ Seed \in [Images -> Good]
    /\ Contains \in [Images -> SUBSET Extensions]
    /\ \A i \in Images : Seed[i].e \in Contains[i]
    /\ Immutable \notin Pairs
    /\ Nothing \notin Pairs \cup {Immutable}
    /\ NoRecord \notin Pairs
    /\ NoRecord \notin Records
    /\ MidUpdates \in BOOLEAN
    /\ Budget \in [Kinds -> Nat]

VARIABLES
    heads,     \* the pair in the persistent checkouts
    rec,       \* updates/klipper-stack/state.json
    lock,      \* updates/locks/klipper-stack.lock exists
    gen,       \* app-generation.json, the image the checkouts were seeded from
    image,     \* the system that runs
    bound,     \* /opt/klipper is the persistent checkout
    running,   \* what the Klippy process was started from
    printing,  \* what klipper_busy_reason would answer
    pc,        \* the line the boot or the supervisor is at
    new,       \* new_k and new_e, before that cur_k and cur_e
    spent      \* how much of Budget is used

disk == <<heads, rec, lock, gen>>
vars == <<disk, image, bound, running, printing, pc, new, spent>>

\* The scripts of a boot, the supervisor's loop, validate_klipper_stack,
\* stack_roll_back and factory_fallback.
Migrating == {"gate", "seedK", "seedE", "seedEOnly", "record"}
Booting == Migrating \cup {"activate", "reconcile"}
Looping == {"poll", "sleep", "settle"}
Judging == {"lock", "mark", "check", "restart", "stop", "judge", "defer"}
Undoing == {"undo", "resetK", "resetE", "recheck", "again", "restop", "rejudge", "pend"}
Falling == {"fall", "umount", "fallen"}
PCs == {"off", "unlock"} \cup Booting \cup Looping \cup Judging \cup Undoing \cup Falling

WorldOK ==
    /\ heads \in Pairs
    /\ new \in Pairs
    /\ gen \in Images
    /\ image \in Images
    /\ running \in Pairs \cup {Immutable, Nothing}

FlagsOK == lock \in BOOLEAN /\ bound \in BOOLEAN /\ printing \in BOOLEAN

SpentOK ==
    /\ spent \in [Kinds -> Nat]
    /\ \A kind \in Kinds : spent[kind] <= Budget[kind]

\* Klippy runs from the end of a boot on.
Up == pc \in PCs \ ({"off", "activate"} \cup Migrating)

TypeOK ==
    /\ WorldOK
    /\ FlagsOK
    /\ SpentOK
    /\ rec \in Records \cup {NoRecord}
    /\ pc \in PCs
    /\ Up => running # Nothing

Init ==
    /\ image \in Images
    /\ heads = Seed[image]
    /\ gen = image
    /\ rec = NoRecord
    /\ lock = FALSE
    /\ bound = FALSE
    /\ running = Nothing
    /\ printing = FALSE
    /\ pc = "off"
    /\ new = heads
    /\ spent = [kind \in Kinds |-> 0]

Spend(kind) ==
    /\ spent[kind] < Budget[kind]
    /\ spent' = [spent EXCEPT ![kind] = @ + 1]

\* Either nothing goes wrong, or the fault happens and is counted.
Maybe(kind, ok) ==
    \/ ok /\ UNCHANGED spent
    \/ ~ok /\ Spend(kind)

Goto(line) == pc' = line

\* write_stack_state: both commits of both pairs in one file, moved into place,
\* labelled with the generation of this moment.
Write(known, seen, state) ==
    rec' = [kg |-> known, seen |-> seen, state |-> state, gen |-> gen]

\* What a start of Klippy runs.
OnDisk == IF bound THEN heads ELSE Immutable

Runs(what) == what \in Good \cup {Immutable}

-----------------------------------------------------------------------------
\* The printer and its outside world.

PowerOn ==
    /\ pc = "off"
    /\ Goto("gate")
    /\ \/ UNCHANGED <<image, spent>>
       \/ image' \in Images \ {image} /\ Spend("image")
    /\ UNCHANGED <<disk, bound, running, printing, new>>

\* A power cut, or a reboot: nothing waits for the supervisor.
PowerCut ==
    /\ pc # "off"
    /\ Spend("cut")
    /\ Goto("off")
    /\ bound' = FALSE
    /\ running' = Nothing
    /\ printing' = FALSE
    /\ UNCHANGED <<disk, image, new>>

PrintStart ==
    /\ pc \notin {"off"} \cup Booting
    /\ Runs(running)
    /\ ~printing
    /\ Spend("print")
    /\ printing' = TRUE
    /\ UNCHANGED <<disk, image, bound, running, pc, new>>

PrintEnd ==
    /\ printing
    /\ printing' = FALSE
    /\ UNCHANGED <<disk, image, bound, running, pc, new, spent>>

\* Moonraker pulls one half.  It finds Klipper at /opt/klipper, where there is
\* a checkout only while the persistent copy is bound.  It refuses under a print,
\* and the extensions move forward only.
MoonrakerUpdate ==
    /\ pc \notin {"off"} \cup Booting
    /\ MidUpdates \/ pc = "sleep"
    /\ ~printing
    /\ Spend("update")
    /\ \/ bound /\ \E k \in Klippers \ {heads.k} : heads' = [heads EXCEPT !.k = k]
       \/ \E e \in Extensions \ {heads.e} :
            /\ heads.e \in Contains[image] => e \in Contains[image]
            /\ heads' = [heads EXCEPT !.e = e]
    /\ UNCHANGED <<rec, lock, gen, image, bound, running, printing, pc, new>>

\* managed_services: Moonraker restarts Klipper itself after an update.
MoonrakerRestart ==
    /\ pc \notin {"off"} \cup Booting
    /\ MidUpdates \/ pc = "sleep"
    /\ ~printing
    /\ running # OnDisk
    /\ running' = OnDisk
    /\ UNCHANGED <<disk, image, bound, printing, pc, new, spent>>

-----------------------------------------------------------------------------
\* Boot.

\* Mutant: the gate takes a waiting rollback for a stale one.
StaleTooMuch == {"validating", "interrupted", "factory-fallback", "rollback-pending"}

\* States that make the gate remove the lock and leave state.json alone.
Stale == {"validating", "interrupted", "factory-fallback"}

\* S04: the gate is asked when the checkouts are of another image, and when the
\* seeding finds an environment that does not work.  It clears the stale lock
\* first and may refuse afterwards, for a lock that is left or for want of swap.
Gate ==
    /\ pc = "gate"
    /\ \E asked, swap \in BOOLEAN :
         /\ \/ gen # image /\ asked /\ Maybe("swap", swap)
            \/ gen = image /\ Maybe("env", ~asked) /\ swap
         /\ lock' = (lock /\ ~(asked /\ rec # NoRecord /\ rec.state \in Stale))
         /\ Goto(IF gen # image /\ swap /\ ~lock' THEN "seedK" ELSE "activate")
    /\ UNCHANGED <<heads, rec, gen, image, bound, running, printing, new>>

\* reseed_git_app for each half; a half that fails keeps its tree, the other
\* one is still replaced, and the generation is not recorded.
SeedKlipper ==
    /\ pc = "seedK"
    /\ \E ok \in BOOLEAN :
         /\ Maybe("reset", ok)
         /\ heads' = IF ok THEN [heads EXCEPT !.k = Seed[image].k] ELSE heads
         /\ Goto(IF ok THEN "seedE" ELSE "seedEOnly")
    /\ UNCHANGED <<rec, lock, gen, image, bound, running, printing, new>>

SeedExtensions ==
    /\ pc \in {"seedE", "seedEOnly"}
    /\ \E ok \in BOOLEAN :
         /\ Maybe("reset", ok)
         /\ heads' = IF ok THEN [heads EXCEPT !.e = Seed[image].e] ELSE heads
         /\ Goto(IF ok /\ pc = "seedE" THEN "record" ELSE "activate")
    /\ UNCHANGED <<rec, lock, gen, image, bound, running, printing, new>>

RecordGeneration ==
    /\ pc = "record"
    /\ gen' = image
    /\ Goto("activate")
    /\ UNCHANGED <<heads, rec, lock, image, bound, running, printing, new, spent>>

\* S05 binds the pair when no lock is there, the extensions are not older than
\* the image's and the composition can be built; S55 then starts Klippy.
Activate ==
    /\ pc = "activate"
    /\ \E composed \in BOOLEAN :
         /\ Maybe("refuse", composed)
         /\ bound' = (~lock /\ heads.e \in Contains[image] /\ composed)
    /\ running' = IF bound' THEN heads ELSE Immutable
    /\ Goto("reconcile")
    /\ UNCHANGED <<disk, image, printing, new>>

\* Mutant: what is on disk counts as seen.
ReconcileAccepts ==
    /\ pc = "reconcile"
    /\ IF rec # NoRecord /\ rec.state = "validating"
       THEN Write(rec.kg, heads, "interrupted") /\ Goto("unlock")
       ELSE UNCHANGED rec /\ Goto("poll")
    /\ UNCHANGED <<heads, lock, gen, image, bound, running, printing, new, spent>>

\* reconcile_klipper_stack_on_boot, when the supervisor starts.
Reconcile ==
    /\ pc = "reconcile"
    /\ IF rec # NoRecord /\ rec.state = "validating"
       THEN Write(rec.kg, rec.kg, "interrupted") /\ Goto("unlock")
       ELSE UNCHANGED rec /\ Goto("poll")
    /\ UNCHANGED <<heads, lock, gen, image, bound, running, printing, new, spent>>

\* Every path that ends a transaction removes the lock after the record.
Unlock ==
    /\ pc = "unlock"
    /\ lock' = FALSE
    /\ Goto("poll")
    /\ UNCHANGED <<heads, rec, gen, image, bound, running, printing, new, spent>>

-----------------------------------------------------------------------------
\* poll_klipper_stack_once.

\* There is a record, and it is of this generation.
Known == rec # NoRecord /\ rec.gen = gen

\* The first observation, and the first one after a migration: what is there
\* becomes the known-good pair.
Bootstrap ==
    /\ pc = "poll"
    /\ ~Known
    /\ Write(heads, heads, "healthy")
    /\ Goto("sleep")
    /\ UNCHANGED <<heads, lock, gen, image, bound, running, printing, new, spent>>

Parked ==
    \/ lock /\ rec.state = "factory-fallback"
    \/ rec.state = "validating"

PollNothing ==
    /\ pc = "poll"
    /\ Known
    /\ \/ Parked
       \/ rec.state # "rollback-pending" /\ (heads = rec.seen \/ printing)
    /\ Goto("sleep")
    /\ UNCHANGED <<disk, image, bound, running, printing, new, spent>>

PollPending ==
    /\ pc = "poll"
    /\ Known
    /\ rec.state = "rollback-pending"
    /\ Goto("undo")
    /\ UNCHANGED <<disk, image, bound, running, printing, new, spent>>

PollChange ==
    /\ pc = "poll"
    /\ Known
    /\ ~Parked
    /\ rec.state # "rollback-pending"
    /\ heads # rec.seen
    /\ ~printing
    /\ new' = heads
    /\ Goto("settle")
    /\ UNCHANGED <<disk, image, bound, running, printing, spent>>

\* PAIR_SETTLE_SECONDS later the pair must still be the same.
Settle ==
    /\ pc = "settle"
    /\ Goto(IF heads = new THEN "lock" ELSE "sleep")
    /\ UNCHANGED <<disk, image, bound, running, printing, new, spent>>

Wake ==
    /\ pc = "sleep"
    /\ Goto("poll")
    /\ UNCHANGED <<disk, image, bound, running, printing, new, spent>>

-----------------------------------------------------------------------------
\* validate_klipper_stack.

TakeLock ==
    /\ pc = "lock"
    /\ new' = heads
    /\ lock' = TRUE
    /\ Goto("mark")
    /\ UNCHANGED <<heads, rec, gen, image, bound, running, printing, spent>>

MarkValidating ==
    /\ pc = "mark"
    /\ Write(rec.kg, new, "validating")
    /\ Goto("check")
    /\ UNCHANGED <<heads, lock, gen, image, bound, running, printing, new, spent>>

\* After the wait for the update manager: recomposition, the c_helper.so verdict
\* and stage 1.  They look at the files, so any pair may pass or fail.
PreCheck ==
    /\ pc = "check"
    /\ \E ok \in BOOLEAN : Goto(IF ok THEN "restart" ELSE "undo")
    /\ UNCHANGED <<disk, image, bound, running, printing, new, spent>>

\* restart_component looks for memory pressure and for a print ...
RestartRefused(at, otherwise) ==
    /\ pc = at
    /\ Goto(otherwise)
    /\ UNCHANGED <<disk, image, bound, running, printing, new, spent>>

RestartAllowed(at, next) ==
    /\ pc = at
    /\ ~printing
    /\ Goto(next)
    /\ UNCHANGED <<disk, image, bound, running, printing, new, spent>>

\* ... and stops and starts Klippy: a print that began in between is cut.
Restart(at, next) ==
    /\ pc = at
    /\ running' = OnDisk
    /\ printing' = FALSE
    /\ Goto(next)
    /\ UNCHANGED <<disk, image, bound, new, spent>>

\* stage 2 asks Moonraker about the Klippy that runs; 0 is healthy, 1 is not (a
\* good pair may be too slow, and Moonraker may not answer, under a print too), 3
\* and 4 are a print.  A print is not seen when that one question is not answered.
Stage2(rc) ==
    CASE rc = 0 -> Runs(running)
      [] rc = 1 -> TRUE
      [] rc \in {3, 4} -> printing

JudgeHealthy ==
    /\ pc = "judge"
    /\ Stage2(0)
    /\ Write(new, new, "healthy")
    /\ Goto("unlock")
    /\ UNCHANGED <<heads, lock, gen, image, bound, running, printing, new, spent>>

\* Mutant: a pair that does not run is only postponed.
JudgePostponed ==
    /\ pc = "judge"
    /\ Stage2(1)
    /\ Goto("defer")
    /\ UNCHANGED <<disk, image, bound, running, printing, new, spent>>

JudgeFailed ==
    /\ pc = "judge"
    /\ Stage2(1)
    /\ Goto("undo")
    /\ UNCHANGED <<disk, image, bound, running, printing, new, spent>>

JudgePrint ==
    /\ pc = "judge"
    /\ Stage2(3)
    /\ Goto("defer")
    /\ UNCHANGED <<disk, image, bound, running, printing, new, spent>>

\* Mutant: the postponed pair counts as seen.
DeferSeen ==
    /\ pc = "defer"
    /\ Write(rec.kg, new, "deferred")
    /\ Goto("unlock")
    /\ UNCHANGED <<heads, lock, gen, image, bound, running, printing, new, spent>>

\* Mutant: postponed without a word.
DeferSilently ==
    /\ pc = "defer"
    /\ Goto("unlock")
    /\ UNCHANGED <<disk, image, bound, running, printing, new, spent>>

\* stack_defer_validation: nothing is judged, the next poll sees the change again.
DeferValidation ==
    /\ pc = "defer"
    /\ Write(rec.kg, rec.kg, "deferred")
    /\ Goto("unlock")
    /\ UNCHANGED <<heads, lock, gen, image, bound, running, printing, new, spent>>

-----------------------------------------------------------------------------
\* stack_roll_back, restore_known_good_pair and factory_fallback.

RollBack ==
    /\ pc = "undo"
    /\ Goto(IF printing THEN "pend" ELSE "resetK")
    /\ UNCHANGED <<disk, image, bound, running, printing, new, spent>>

\* Two git resets; their results are not looked at.
ResetKlipper ==
    /\ pc = "resetK"
    /\ \E ok \in BOOLEAN :
         /\ Maybe("reset", ok)
         /\ heads' = IF ok THEN [heads EXCEPT !.k = rec.kg.k] ELSE heads
    /\ Goto("resetE")
    /\ UNCHANGED <<rec, lock, gen, image, bound, running, printing, new>>

ResetExtensions ==
    /\ pc = "resetE"
    /\ \E ok \in BOOLEAN :
         /\ Maybe("reset", ok)
         /\ heads' = IF ok THEN [heads EXCEPT !.e = rec.kg.e] ELSE heads
    /\ Goto("recheck")
    /\ UNCHANGED <<rec, lock, gen, image, bound, running, printing, new>>

Recompose ==
    /\ pc = "recheck"
    /\ \E ok \in BOOLEAN : Goto(IF ok THEN "again" ELSE "fall")
    /\ UNCHANGED <<disk, image, bound, running, printing, new, spent>>

RejudgeHealthy ==
    /\ pc = "rejudge"
    /\ Stage2(0)
    /\ Write(rec.kg, rec.kg, "rolled-back")
    /\ Goto("unlock")
    /\ UNCHANGED <<heads, lock, gen, image, bound, running, printing, new, spent>>

RejudgeFailed ==
    /\ pc = "rejudge"
    /\ Stage2(1)
    /\ Goto("fall")
    /\ UNCHANGED <<disk, image, bound, running, printing, new, spent>>

RejudgePrint ==
    /\ pc = "rejudge"
    /\ Stage2(3)
    /\ Goto("pend")
    /\ UNCHANGED <<disk, image, bound, running, printing, new, spent>>

\* Mutant: the half restored pair is recorded as the one to go back to.
PendingAdopts ==
    /\ pc = "pend"
    /\ lock' = TRUE
    /\ Write(heads, heads, "rollback-pending")
    /\ Goto("sleep")
    /\ UNCHANGED <<heads, gen, image, bound, running, printing, new, spent>>

\* stack_rollback_pending: the lock stays, the next poll starts again at the top.
RollbackPending ==
    /\ pc = "pend"
    /\ lock' = TRUE
    /\ Write(rec.kg, heads, "rollback-pending")
    /\ Goto("sleep")
    /\ UNCHANGED <<heads, gen, image, bound, running, printing, new, spent>>

FallBack ==
    /\ pc = "fall"
    /\ Goto(IF printing THEN "pend" ELSE "umount")
    /\ UNCHANGED <<disk, image, bound, running, printing, new, spent>>

\* Mutant: Klippy is restarted and the persistent copy stays bound.
UnmountForgotten ==
    /\ pc = "umount"
    /\ running' = OnDisk
    /\ printing' = FALSE
    /\ Goto("fallen")
    /\ UNCHANGED <<disk, image, bound, new, spent>>

Unmount ==
    /\ pc = "umount"
    /\ bound' = FALSE
    /\ running' = Immutable
    /\ printing' = FALSE
    /\ Goto("fallen")
    /\ UNCHANGED <<disk, image, new, spent>>

FallenBack ==
    /\ pc = "fallen"
    /\ Write(rec.kg, rec.kg, "factory-fallback")
    /\ Goto("sleep")
    /\ UNCHANGED <<heads, lock, gen, image, bound, running, printing, new, spent>>

-----------------------------------------------------------------------------
Outside == PowerCut \/ PrintStart \/ PrintEnd \/ MoonrakerUpdate \/ MoonrakerRestart

Boot ==
    \/ Gate \/ SeedKlipper \/ SeedExtensions \/ RecordGeneration
    \/ Activate \/ Reconcile \/ Unlock

Poll == Bootstrap \/ PollNothing \/ PollPending \/ PollChange \/ Settle \/ Wake

Validate ==
    \/ TakeLock \/ MarkValidating \/ PreCheck
    \/ RestartRefused("restart", "defer")
    \/ RestartAllowed("restart", "stop")
    \/ Restart("stop", "judge")
    \/ JudgeHealthy \/ JudgeFailed \/ JudgePrint \/ DeferValidation

Undo ==
    \/ RollBack \/ ResetKlipper \/ ResetExtensions \/ Recompose
    \/ RestartRefused("again", "pend")
    \/ RestartAllowed("again", "restop")
    \/ Restart("restop", "rejudge")
    \/ RejudgeHealthy \/ RejudgeFailed \/ RejudgePrint \/ RollbackPending
    \/ FallBack \/ Unmount \/ FallenBack

Next == PowerOn \/ Outside \/ Boot \/ Poll \/ Validate \/ Undo

Spec == Init /\ [][Next]_vars

\* The scripts and the supervisor keep going; a printer that is off is switched
\* on; prints end, and Budget bounds them; memory pressure passes; Moonraker
\* finishes an update with its restart.
Fairness ==
    /\ WF_vars(PowerOn)
    /\ WF_vars(Boot \/ Poll \/ Validate \/ Undo)
    /\ WF_vars(PrintEnd)
    /\ SF_vars(RestartAllowed("restart", "stop"))
    /\ SF_vars(RestartAllowed("again", "restop"))
    /\ SF_vars(MoonrakerRestart)

FairSpec == Spec /\ Fairness

-----------------------------------------------------------------------------
\* Properties.

\* A pair that was not judged is never taken for the current one: the record
\* names the pair on disk as seen only while it is being judged or undone, or
\* when it is the known-good one.  Otherwise the poll would see no change in it.
SeenIsJudged ==
    rec # NoRecord =>
        rec.seen = rec.kg \/ rec.state \in {"validating", "rollback-pending"}

\* The loop leaves a record in state "validating" alone, so it must never meet
\* one: whatever stopped the last supervisor, the reconciliation came first.
NeverStuck ==
    pc \in Looping /\ rec # NoRecord => rec.state # "validating"

\* A rollback that waits for the end of a print keeps its lock, over every boot
\* and every gate: its pair may be half reset and S05 must not bind it.
PendingKeepsLock ==
    rec # NoRecord /\ rec.state = "rollback-pending" => lock

\* While the fallback stands, the pair that failed is not bound over the
\* immutable copy, in this boot and in later ones.
FallbackStands ==
    rec # NoRecord /\ rec.state = "factory-fallback" /\ lock /\ pc \in Looping
        => ~bound

\* The halves are reset, and Klippy is moved to the immutable copy, only under
\* the lock: a boot in the middle finds it.
WorkIsLocked ==
    pc \in (Judging \ {"lock"}) \cup Undoing \cup Falling => lock

\* A pair that is not the known-good one is judged in the end: it becomes
\* known-good, is put back, or is parked in the fallback.
Judged ==
    IF rec = NoRecord THEN FALSE
                      ELSE rec.kg = heads \/ rec.state = "factory-fallback"

ChangeIsJudged == ~Judged ~> Judged

\* A pair is recorded as known-good only by the one that has just seen both
\* halves of it run (comment above write_stack_state).
JudgedIsRunning == [][JudgeHealthy => new = running]_vars

\* The known-good pair is one that runs (the same comment above write_stack_state).
KnownGoodRuns ==
    rec # NoRecord => rec.kg \in Good

\* A printer does not stay on a pair that does not run, whatever happens.
\* Exception: that pair, or another that does not run, became the known-good one
\* (Bootstrap, poll_klipper_stack_once, takes what it finds for that).
Bad == running \in Pairs \ Good
TrustsBad == IF rec = NoRecord THEN FALSE ELSE rec.kg \notin Good
BadIsReplaced == Bad ~> ~Bad \/ TrustsBad

=============================================================================
