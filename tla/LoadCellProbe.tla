---------------------------- MODULE LoadCellProbe ----------------------------
(***************************************************************************)
(* One probe with the load cell: run_step_prtouch on the host and the two  *)
(* halves of prtouch_v2.c on the printer's controller.  The controller's   *)
(* timer interrupt steps the Z motors on its own, the main loop samples    *)
(* the cell and raises the swap pin that stops the motors, and both send   *)
(* the host blocks of their records, which may be lost.  The host's        *)
(* planner knows nothing of these steps: the probe must lift the nozzle by *)
(* just as much as it lowered it.                                          *)
(*                                                                         *)
(* Heights are half steps (one edge of the step pin), counts of steps are  *)
(* whole steps, as in the code.  A block of the record holds one entry and *)
(* every whole step is recorded; the real record keeps 32 entries in eight *)
(* blocks, one entry for every 16 steps.                                   *)
(***************************************************************************)
EXTENDS Integers, Sequences, SequencesExt, FiniteSetsExt

CONSTANTS
    Travel,        \* steps of the way down: step_cnt_down
    Short,         \* steps of the short first lift: best_above_z / 2
    Refresh,       \* half steps the planner lifts after a refresh: bed_max_err
    ErrorLift,     \* steps lifted before an error is raised
    Blocks,        \* blocks of the step record
    PresBlocks,    \* blocks of the pressure record
    ProCnt,        \* measurements that always suffice: pro_cnt
    Beds,          \* how many steps below the start the bed may be
    MaxLost,       \* blocks the line may lose, or cut off when a wait ends
    MaxFalse       \* times the cell may trigger in the air

ASSUME SizesAssumption ==
    /\ {Travel, Short, ErrorLift, Blocks, PresBlocks, ProCnt} \subseteq Nat \ {0}
    /\ Refresh \in Nat /\ MaxLost \in Nat /\ MaxFalse \in Nat
    /\ Beds \subseteq Nat

VARIABLES
    step,    \* step_cfg: the motor timer, its counters, its record
    pres,    \* pres_cfg: whether it samples, how many blocks it still sends
    swap,    \* the pin by which a trigger stops the motors
    clock,   \* sys_time_cfg.is_run and whether send_dly has run out
    z,       \* the true height of the nozzle, in half steps
    host,    \* the locals of run_step_prtouch and the records it received
    world,   \* the bed's depth, z_set_status, what may still go wrong
    seen     \* of this way down: height of the trigger, half steps since,
             \* and whether blocks of the way before were taken for its own

vars == <<step, pres, swap, clock, z, host, world, seen>>

Down == 0
Up == 1
NoHit == [at |-> 0, sunk |-> 0, hit |-> FALSE, old |-> FALSE]
Zeros == [k \in 1 .. Blocks |-> 0]

\* What run_step_prtouch starts with; a wipe out of range asks for a new zero.
Locals(flag) ==
    [pc |-> "clear", step_res |-> <<>>, pres_res |-> <<>>, base |-> 0, lost |-> 0,
     stale |-> FALSE, res_z |-> <<>>, refresh |-> flag, bad |-> [step |-> 0, pres |-> 0],
     up |-> 0, last |-> FALSE]

Init ==
    /\ step = [on |-> FALSE, dir |-> Down, now |-> 0, need_stop |-> FALSE,
               send_active |-> 0, fifo |-> Zeros]
    /\ pres = [acq |-> FALSE, send_active |-> 0]
    /\ swap = 0
    /\ clock = [is_run |-> FALSE, due |-> TRUE]
    /\ z = 0
    /\ \E flag \in BOOLEAN : host = Locals(flag)
    /\ \E bed \in Beds, set \in BOOLEAN :
        world = [bed |-> bed, z_set |-> set, lost |-> MaxLost, false |-> MaxFalse]
    /\ seen = NoHit

-----------------------------------------------------------------------------
(* The controller.                                                         *)

Start(c) == [c EXCEPT !.is_run = TRUE]
Stop(c) == [c EXCEPT !.is_run = FALSE]

(* Time passes until the delay between two blocks has run out.             *)
SysTimeEvent ==
    /\ clock.is_run /\ ~clock.due
    /\ clock' = [clock EXCEPT !.due = TRUE]
    /\ UNCHANGED <<step, pres, swap, z, host, world, seen>>

Touching == z <= -2 * world.bed

\* Mutant: the pin is looked at only where a step is reported.
StopsHere(now) == now = 0 \/ (now % 4 = 0 /\ (step.need_stop \/ swap = 1))
(* May the motor stop after this edge?  Only between whole steps.          *)
MayStop(now) == now = 0 \/ (now % 2 = 0 /\ (step.need_stop \/ swap = 1))

(* One edge of the step pin, in the timer interrupt.  A pressed cell is    *)
(* noticed before the next edge.                                           *)
PrtouchEvent ==
    /\ step.on
    /\ ~(Touching /\ pres.acq)
    /\ LET now == step.now - 1
           ends == MayStop(now)
           fifo == IF ends \/ now % 2 = 0
                   THEN Append(Tail(step.fifo), now \div 2) ELSE step.fifo
       IN step' = IF ends
                  THEN [step EXCEPT !.on = FALSE, !.now = 0, !.fifo = fifo,
                                    !.need_stop = FALSE, !.send_active = Blocks]
                  ELSE [step EXCEPT !.now = now, !.fifo = fifo]
    /\ z' = IF step.dir = Down THEN z - 1 ELSE z + 1
    /\ seen' = IF swap = 1 THEN [seen EXCEPT !.sunk = @ + 1] ELSE seen
    /\ UNCHANGED <<pres, swap, clock, host, world>>

(* The last samples, filtered, pass the trigger's thresholds: on contact,  *)
(* or because of a knock.                                                  *)
CheckPresTri == Touching \/ world.false > 0

(* The main loop samples; a trigger ends the sampling and raises the pin.  *)
PresTask ==
    /\ pres.acq
    /\ CheckPresTri
    /\ pres' = [acq |-> FALSE, send_active |-> PresBlocks]
    /\ swap' = 1
    /\ world' = IF Touching THEN world ELSE [world EXCEPT !.false = @ - 1]
    /\ seen' = [seen EXCEPT !.at = z, !.sunk = 0, !.hit = TRUE]
    /\ UNCHANGED <<step, clock, z, host>>

(* A block is sent when the delay both records share has run out; it       *)
(* arrives and joins the host's record, or it is lost.                     *)
PresEntries == [i \in 0 .. PresBlocks - 1 |-> [index |-> i]]
StepEntries == [i \in 0 .. Blocks - 1 |-> [index |-> i, step |-> step.fifo[i + 1]]]

(* The host's handlers run on the reactor, whatever the probe waits for.    *)
StepArrives(entry) == host' = [host EXCEPT !.step_res = Append(@, entry)]
PresArrives(entry) == host' = [host EXCEPT !.pres_res = Append(@, entry)]

StepTask ==
    /\ step.send_active > 0 /\ clock.due
    /\ clock' = [clock EXCEPT !.due = FALSE]
    /\ step' = [step EXCEPT !.send_active = @ - 1]
    /\ \/ /\ StepArrives(StepEntries[Blocks - step.send_active])
          /\ UNCHANGED world
       \/ /\ world.lost > 0
          /\ world' = [world EXCEPT !.lost = @ - 1]
          /\ UNCHANGED host
    /\ UNCHANGED <<pres, swap, z, seen>>

PresSend ==
    /\ ~pres.acq /\ pres.send_active > 0 /\ clock.due
    /\ clock' = [clock EXCEPT !.due = FALSE]
    /\ pres' = [pres EXCEPT !.send_active = @ - 1]
    /\ \/ /\ PresArrives(PresEntries[PresBlocks - pres.send_active])
          /\ UNCHANGED world
       \/ /\ world.lost > 0
          /\ world' = [world EXCEPT !.lost = @ - 1]
          /\ UNCHANGED host
    /\ UNCHANGED <<step, swap, z, seen>>

(* What start_step_prtouch does to step_cfg.                               *)
StepsStarted(dir, cnt) ==
    [step EXCEPT !.on = TRUE, !.dir = dir, !.now = 2 * cnt, !.fifo = Zeros,
                 !.need_stop = FALSE, !.send_active = 0]

(* With send_ms 0 it only asks for a stop, and freezes the clock.          *)
StopSteps ==
    /\ step' = [step EXCEPT !.need_stop = TRUE]
    /\ clock' = Stop(clock)

(* start_pres_prtouch lowers the pin; with need_cnt 0 it samples no more.  *)
StartPres ==
    /\ swap' = 0
    /\ pres' = [acq |-> TRUE, send_active |-> 0]
    /\ clock' = Start(clock)

StopPres ==
    /\ swap' = 0
    /\ pres' = [pres EXCEPT !.acq = FALSE]
    /\ clock' = Stop(clock)

-----------------------------------------------------------------------------
(* The host.                                                               *)

Goto(h, pc) == [h EXCEPT !.pc = pc]

(* The top of the loop: forget the records.                                *)
Clear ==
    /\ host.pc = "clear"
    /\ host' = [host EXCEPT !.pc = "avgs", !.step_res = <<>>, !.pres_res = <<>>]
    /\ UNCHANGED <<step, pres, swap, clock, z, world, seen>>

(* The controller takes the cell's zero while the host waits.  Its clock   *)
(* runs meanwhile, so that the next block is due, and is frozen after.     *)
DealAvgs ==
    /\ host.pc = "avgs"
    /\ host' = Goto(host, "pres")
    /\ clock' = [is_run |-> FALSE, due |-> TRUE]
    /\ UNCHANGED <<step, pres, swap, z, world, seen>>

SendStartPres ==
    /\ host.pc = "pres"
    /\ StartPres
    /\ host' = Goto(host, "down")
    /\ seen' = [NoHit EXCEPT !.old = host.pres_res # <<>>]
    /\ UNCHANGED <<step, z, world>>

SendDown ==
    /\ host.pc = "down"
    /\ step' = StepsStarted(Down, Travel)
    /\ clock' = Start(clock)
    /\ host' = Goto(host, "wait")
    /\ UNCHANGED <<pres, swap, z, world, seen>>

(* The host waits for its records, but no longer than the whole way takes  *)
(* at its speed and two or five seconds more: the motors have stopped by   *)
(* then and their blocks are sent.  The cell's may still be to come, if it *)
(* was pressed at the end of the wait.                                     *)
Idle == ~step.on /\ step.send_active = 0 /\ pres.send_active = 0

\* Mutant: the wait has no time limit.
NeverTooLong == FALSE
TooLong == ~step.on /\ step.send_active = 0 /\ (Idle \/ world.lost > 0)

WaitEnds(there, pc) ==
    /\ there \/ TooLong
    /\ StopSteps
    /\ host' = Goto(host, pc)
    /\ world' = IF there \/ Idle THEN world ELSE [world EXCEPT !.lost = @ - 1]
    /\ UNCHANGED <<pres, swap, z, seen>>

Waited ==
    /\ host.pc = "wait"
    /\ WaitEnds(Len(host.step_res) = Blocks /\ Len(host.pres_res) = PresBlocks, "disarm")

SendStopPres ==
    /\ host.pc = "disarm"
    /\ StopPres
    /\ host' = Goto(host, "judge")
    /\ UNCHANGED <<step, z, world, seen>>

(* The end of the way down becomes the new zero, and the planner lifts.    *)
ZeroHere(h, pc) ==
    /\ z' = z + Refresh
    /\ host' = [h EXCEPT !.pc = pc, !.base = z + Refresh, !.stale = (h.lost # 0)]

(* Nothing arrived: nothing was touched, or so the host takes it.          *)
NoTrigger ==
    /\ host.pc = "judge"
    /\ host.step_res = <<>> \/ host.pres_res = <<>>
    /\ IF world.z_set THEN ZeroHere([host EXCEPT !.refresh = TRUE], "clear")
                      ELSE host' = Goto(host, "raise") /\ UNCHANGED z
    /\ UNCHANGED <<step, pres, swap, clock, world, seen>>

\* Mutant: a block fetched again is put at the end.
RefetchedLast(res, entry, size) ==
    LET Have(i) == \E k \in DOMAIN res : res[k].index = i
        missing == {i \in 0 .. size - 1 : ~Have(i)}
    IN res \o [k \in 1 .. Cardinality(missing) |->
                 entry[CHOOSE i \in missing :
                         Cardinality({j \in missing : j < i}) = k - 1]]
(* Block i - 1, if it is not at its place, is asked for and put there.      *)
Placed(r, entry, i) ==
    IF Len(r) >= i /\ r[i].index = i - 1 THEN r
    ELSE InsertAt(r, Min({i, Len(r) + 1}), entry[i - 1])

(* One block after the other, the record is made whole.                    *)
Refetched(res, entry, size) ==
    LET upto[i \in 0 .. size] == IF i = 0 THEN res ELSE Placed(upto[i - 1], entry, i)
    IN upto[size]

Whole(res, entry, size) ==
    IF Len(res) = size THEN res ELSE Refetched(res, entry, size)

(* The lost blocks are fetched; after the third failure in a row the       *)
(* error is raised.                                                        *)
GetSteps ==
    /\ host.pc = "judge"
    /\ host.step_res # <<>> /\ host.pres_res # <<>>
    /\ LET res == Whole(host.step_res, StepEntries, Blocks)
           bad == IF Len(res) = Blocks THEN 0 ELSE host.bad.step + 1
       IN host' = [host EXCEPT !.step_res = res, !.bad.step = bad,
                     !.pc = IF bad > 2 THEN "raise" ELSE "getpres"]
    /\ UNCHANGED <<step, pres, swap, clock, z, world, seen>>

GetPres ==
    /\ host.pc = "getpres"
    /\ LET res == Whole(host.pres_res, PresEntries, PresBlocks)
           bad == IF Len(res) = PresBlocks THEN 0 ELSE host.bad.pres + 1
       IN host' = [host EXCEPT !.pres_res = res,
                     !.bad.pres = bad,
                     !.pc = IF bad > 2 THEN "raise" ELSE "use"]
    /\ UNCHANGED <<step, pres, swap, clock, z, world, seen>>

(* The first trigger after a refresh sets the zero once more; what was     *)
(* measured before it is dropped.                                          *)
RefreshZ ==
    /\ host.pc = "use" /\ host.refresh
    /\ ZeroHere([host EXCEPT !.refresh = FALSE, !.res_z = <<>>], "clear")
    /\ UNCHANGED <<step, pres, swap, clock, world, seen>>

\* Mutant: the short lift is not taken off the measurement.
MeasuredAsIs(h, out) == -2 * (Travel - out)
(* cal_tri_data: the height of the entry the trigger falls on.             *)
Measured(h, out) == -2 * (Travel - out) - 2 * h.lost

LastStep(h) == h.step_res[Len(h.step_res)].step

(* Of the entries, the trigger falls on the last or the one before.        *)
TriSteps(h) ==
    LET n == Len(h.step_res)
    IN {LastStep(h)} \cup
       {s \in {h.step_res[k].step : k \in {n - 1} \cap DOMAIN h.step_res} : s # 0}

\* Mutant: the last lift forgets the steps the first one left out.
LiftForgets(h, res, rt) ==
    LET up == Travel - LastStep(h)
    IN IF Len(res) = 1 /\ up > Short THEN [up |-> Short, lost |-> up - Short, short |-> TRUE]
       ELSE [up |-> up, lost |-> h.lost, short |-> FALSE]
(* The steps of the lift: the first is short, and the last gives back what *)
(* the first left out.                                                     *)
Lift(h, res, rt) ==
    LET up == Travel - LastStep(h)
    IN IF Len(res) = 1 /\ ProCnt > 2 /\ up > Short
       THEN [up |-> Short, lost |-> up - Short, short |-> TRUE]
       ELSE IF Len(res) > 0 /\ ProCnt > 2 /\ (Len(res) >= ProCnt \/ rt)
            THEN [up |-> up + h.lost, lost |-> h.lost, short |-> FALSE]
            ELSE [up |-> up, lost |-> h.lost, short |-> FALSE]

Measure ==
    /\ host.pc = "use" /\ ~host.refresh
    /\ \E out \in TriSteps(host), agree \in BOOLEAN :
        LET full == Len(host.pres_res) >= PresBlocks
            res == IF full THEN Append(host.res_z, Measured(host, out)) ELSE host.res_z
            rt == full /\ agree /\ Len(res) >= 2
            lift == Lift(host, res, rt)
        IN host' = [host EXCEPT !.res_z = res, !.up = lift.up, !.lost = lift.lost,
                      !.stale = @ /\ ~lift.short,
                      !.last = Len(res) >= ProCnt \/ rt, !.pc = "lift"]
    /\ UNCHANGED <<step, pres, swap, clock, z, world, seen>>

SendLift ==
    /\ host.pc = "lift"
    /\ step' = StepsStarted(Up, host.up)
    /\ clock' = Start(clock)
    /\ host' = [host EXCEPT !.pc = "lifting", !.step_res = <<>>, !.pres_res = <<>>]
    /\ UNCHANGED <<pres, swap, z, world, seen>>

(* The lift ends when its record is there or the time is up; nothing looks *)
(* at what was recorded.                                                   *)
Lifted ==
    /\ host.pc = "lifting"
    /\ WaitEnds(Len(host.step_res) = Blocks, IF host.last THEN "done" ELSE "clear")

(* ck_and_raise_error lifts the nozzle a little before it raises.          *)
RaiseLift ==
    /\ host.pc = "raise"
    /\ step' = StepsStarted(Up, ErrorLift)
    /\ clock' = Start(clock)
    /\ host' = [host EXCEPT !.pc = "raising", !.step_res = <<>>]
    /\ UNCHANGED <<pres, swap, z, world, seen>>

Raise ==
    /\ host.pc = "raising"
    /\ WaitEnds(Len(host.step_res) = Blocks, "raised")

-----------------------------------------------------------------------------
Over == host.pc \in {"done", "raised"}

Controller == SysTimeEvent \/ PrtouchEvent \/ StepTask \/ PresSend

Host ==
    \/ Clear \/ DealAvgs \/ SendStartPres \/ SendDown \/ Waited \/ SendStopPres
    \/ NoTrigger \/ GetSteps \/ GetPres \/ RefreshZ \/ Measure
    \/ SendLift \/ Lifted \/ RaiseLift \/ Raise

Next == Controller \/ PresTask \/ Host

Spec == Init /\ [][Next]_vars

(* Interrupts, main loop and host run on; a pressed cell triggers.         *)
Fairness ==
    /\ WF_vars(SysTimeEvent) /\ WF_vars(PrtouchEvent)
    /\ WF_vars(StepTask) /\ WF_vars(PresSend)
    /\ WF_vars(Touching /\ PresTask)
    /\ WF_vars(Host)

FairSpec == Spec /\ Fairness

-----------------------------------------------------------------------------
(* After the pin rises the nozzle goes on for at most one whole step, even *)
(* though the sampling and the stepping know of each other by the pin only *)
(* and the motor may stop between whole steps only.                        *)
StopsWithinAStep == seen.sunk <= 2

(* A probe that ends well leaves the nozzle where the planner believes it, *)
(* whatever blocks were lost and wherever the cell triggered, unless the   *)
(* zero was set anew with a short lift still to be given back: that debt   *)
(* outlives the refresh (prtouch_v2_wrapper.py:1245-1251).                 *)
ReturnsToStart == host.pc = "done" /\ ~host.stale => z = host.base

(* Nothing is measured on a way on which the cell did not trigger, and what *)
(* is measured is the height at which it did, to a whole step.  The first  *)
(* fails when blocks of the way before arrive after the host has forgotten *)
(* its records and before the cell is armed (1176-1180), the second with   *)
(* the debt of a short lift.                                               *)
MeasuredIsTrue ==
    [][host.pc = "use" /\ Len(host'.res_z) > Len(host.res_z) =>
         /\ seen.hit \/ seen.old
         /\ seen.hit /\ ~host.stale =>
              host'.res_z[Len(host'.res_z)] - (seen.at - host.base) \in -2 .. 2]_vars

(* When the host goes on to use the record of steps, it is the             *)
(* controller's, every entry at its place, whatever blocks were lost.      *)
RepairedIsWhole ==
    host.pc \in {"getpres", "use"} =>
        host.step_res = [k \in 1 .. Blocks |-> StepEntries[k - 1]]

(* Every probe ends, with a height or with an error.                       *)
ProbeEnds == <>Over
=============================================================================
