----------------------------- MODULE SlotUpdate -----------------------------
(***************************************************************************)
(* The two system slots of the printer, the marker that selects the slot   *)
(* the bootloader starts, and the three programs that act on them:         *)
(*                                                                         *)
(*   - the image install job (image.py, run_job), which writes the slot    *)
(*     that is not running, puts it on trial and selects it;               *)
(*   - the slot switch (system.py, swap_slot / keep_slot, with the reboot  *)
(*     of the Moonraker component), which selects the other slot;          *)
(*   - the trial (image.py, count_start and trial, started by              *)
(*     S02nebulaos-watchdog and S99nebulaos-image-trial), which confirms   *)
(*     the new slot or goes back once.                                     *)
(*                                                                         *)
(* marker, slot, confirmed, trial and last survive a power cut; everything *)
(* else is memory or tmpfs and is lost.                                    *)
(*                                                                         *)
(* Abstractions.  A system image is a value of Image; a slot holds one,    *)
(* whole or not, or nothing bootable (NoImage).  Time is left out: every   *)
(* wait may end, and the 120 s after which a pending reboot no longer      *)
(* counts end only once the reboot call has returned.  trial.starts        *)
(* saturates one above TrialAttempts, the code only compares it.  A failed *)
(* marker write leaves the old or the new value: the marker is one sector. *)
(* The bootloader and Creality's firmware are external.                    *)
(***************************************************************************)
EXTENDS Naturals

CONSTANTS
    Nebula,         \* NebulaOS images
    Good,           \* those whose Klipper and screen come up
    Creality,       \* images of the vendor's firmware
    NoImage,        \* what a blank kernel partition holds
    NoTrial,        \* no TRIAL file
    TrialAttempts,  \* TRIAL_ATTEMPTS (3 on the printer)
    Faults,         \* the kinds of fault that may happen
    MaxFaults       \* bound: how many of them

Slots == {"A", "B"}
Image == Nebula \cup Creality
FaultKinds == {"cut", "kill", "freeze", "swap", "lost", "io", "count"}
Trials == [from : Slots, to : Slots, starts : 0..(TrialAttempts + 1), counted : BOOLEAN]

ASSUME ConstantsAssumption ==
    /\ Good \subseteq Nebula
    /\ Nebula \cap Creality = {}
    /\ NoImage \notin Image
    /\ NoTrial \notin Trials
    /\ TrialAttempts \in Nat
    /\ Faults \subseteq FaultKinds
    /\ MaxFaults \in Nat

VARIABLES
    \* durable
    marker,     \* the slot the bootloader starts next
    slot,       \* what each slot holds: [img, whole]
    confirmed,  \* system/slot-confirmed-<slot>: the image it names, or NoImage
    trial,      \* image-update-trial.json
    last,       \* result in image-update-last.json
    \* lost at power off
    power,      \* "off" | "early" | "booting" | "up" | "hung" | "foreign"
    running,    \* the slot this boot runs
    armed,      \* the hardware watchdog counts
    printing,   \* a print (or another busy state) is going on
    pending,    \* /run/nebulaos/reboot-pending counts
    job,        \* the install worker: [pc, img]
    status,     \* JOB_STATE
    req,        \* swap_slot and the component around it: [pc, wrote]
    tpc,        \* S99's background trial
    \* environment
    faults,     \* faults so far
    resets      \* watchdog resets since the present TRIAL was written

durable == <<marker, slot, confirmed, trial, last>>
vars == <<marker, slot, confirmed, trial, last, power, running, armed, printing, pending,
          job, status, req, tpc, faults, resets>>

-----------------------------------------------------------------------------
(* Reading the slots *)

Other(s) == IF s = "A" THEN "B" ELSE "A"
target == Other(running)

Blanked == [img |-> NoImage, whole |-> FALSE]
Half(i) == [img |-> i, whole |-> FALSE]
Full(i) == [img |-> i, whole |-> TRUE]

Whole(s) == slot[s].whole
HoldsNebula(s) == slot[s].img \in Nebula
Bootable(s) == slot[s].img # NoImage
\* The record counts only while it names what the slot holds now.
SlotConfirmed(s) == Bootable(s) /\ confirmed[s] = slot[s].img

OnTrial == trial # NoTrial /\ trial.to = running
NewTrial == [from |-> running, to |-> target, starts |-> 0, counted |-> FALSE]

-----------------------------------------------------------------------------
(* The maintenance lock and the busy checks *)

JobHoldsLock == job.pc # "idle"
SwapHoldsLock == req.pc \in {"grace", "arm"}
LockFree == ~JobHoldsLock /\ ~SwapHoldsLock

\* Mutant: the request profile forgets the pending trial.
RequestBusyWithoutTrial == printing \/ pending
\* busy_state("request") of a caller that holds the lock itself.
RequestBusy == printing \/ pending \/ OnTrial
\* busy_state("point_of_no_return") of the job.
StopBusy == printing \/ pending

Fault(kind) == kind \in Faults /\ faults < MaxFaults /\ faults' = faults + 1
NoFault == UNCHANGED faults

\* nebulaos-slot-swap: write the marker and read it back.
SwapOk(s) == marker' = s /\ NoFault
SwapFails(s) == Fault("swap") /\ marker' \in {marker, s}

-----------------------------------------------------------------------------
(* Power, boot, prints *)

NoJob == [pc |-> "idle", img |-> NoImage]
TrialReq == [pc |-> "arm", wrote |-> TRUE]
NoReq == [pc |-> "idle", wrote |-> FALSE]

\* Everything that is not on flash is gone.
Halt(p) ==
    /\ power' = p
    /\ armed' = FALSE /\ printing' = FALSE /\ pending' = FALSE
    /\ job' = NoJob /\ status' = "none" /\ req' = NoReq /\ tpc' = "none"
    /\ UNCHANGED running

\* The bootloader starts what the marker selects; it has no way back.
PowerOn ==
    /\ power = "off"
    /\ running' = marker
    /\ power' = IF ~Whole(marker) THEN "hung"
                ELSE IF HoldsNebula(marker) THEN "early" ELSE "foreign"
    /\ trial' = IF trial = NoTrial THEN trial ELSE [trial EXCEPT !.counted = FALSE]
    /\ UNCHANGED <<marker, slot, confirmed, last, armed, printing, pending, job, status,
                   req, tpc, faults, resets>>

PowerCut ==
    /\ power \notin {"off", "hung"}
    /\ Fault("cut")
    /\ Halt("off")
    /\ UNCHANGED <<durable, resets>>

\* Someone pulls the plug of a printer that hangs.
PowerCycle ==
    /\ power = "hung"
    /\ Halt("off")
    /\ UNCHANGED <<durable, faults, resets>>

\* A frozen system is reset by an armed watchdog and hangs without one.
Freeze ==
    /\ power \in {"early", "booting", "up"}
    /\ Fault("freeze")
    /\ Halt(IF armed THEN "off" ELSE "hung")
    /\ resets' = IF armed /\ OnTrial THEN resets + 1 ELSE resets
    /\ UNCHANGED durable

\* Mutant: S99 counts again what S02 has counted (the boot is not compared).
CountedTwice == [trial EXCEPT !.counted = TRUE, !.starts = @ + 1]
CountedTrial ==
    IF trial.counted THEN trial
    ELSE [trial EXCEPT !.counted = TRUE,
                       !.starts = IF @ > TrialAttempts THEN @ ELSE @ + 1]

\* Mutant: the watchdog is armed and the start is left for S99 to count.
ArmUncounted ==
    /\ power = "early" /\ power' = "booting"
    /\ armed' \in BOOLEAN /\ NoFault
    /\ UNCHANGED <<trial, marker, slot, confirmed, last, running, printing, pending, job,
                   status, req, tpc, resets>>

\* S02nebulaos-watchdog: count the start, then arm - unless switched off, or
\* the device or the daemon is missing.  A counter that fails does not stop it.
ArmWatchdog ==
    /\ power = "early" /\ power' = "booting"
    /\ \/ OnTrial /\ trial' = CountedTrial /\ NoFault
          /\ armed' \in BOOLEAN /\ (armed' => CountedTrial.starts <= TrialAttempts)
       \/ OnTrial /\ Fault("count") /\ armed' = TRUE /\ UNCHANGED trial
       \/ ~OnTrial /\ NoFault /\ armed' \in BOOLEAN /\ UNCHANGED trial
       \/ NoFault /\ armed' = FALSE /\ UNCHANGED trial
    /\ UNCHANGED <<marker, slot, confirmed, last, running, printing, pending, job, status,
                   req, tpc, resets>>

\* Moonraker and the command line answer from here, long before S99: a Klippy
\* that is not ready yet is no reason to refuse.
BootDone ==
    /\ power = "booting" /\ power' = "up" /\ tpc' = "boot"
    /\ UNCHANGED <<durable, running, armed, printing, pending, job, status, req, faults,
                   resets>>

\* S99nebulaos-image-trial starts the trial when there is a TRIAL file.
TrialBegins ==
    /\ power = "up" /\ tpc = "boot"
    /\ tpc' = IF trial = NoTrial THEN "none" ELSE "start"
    /\ UNCHANGED <<durable, power, running, armed, printing, pending, job, status, req, faults,
                   resets>>

PrintStart ==
    /\ power = "up" /\ ~printing /\ printing' = TRUE
    /\ UNCHANGED <<durable, power, running, armed, pending, job, status, req, tpc, faults,
                   resets>>

PrintEnd ==
    /\ printing /\ printing' = FALSE
    /\ UNCHANGED <<durable, power, running, armed, pending, job, status, req, tpc, faults,
                   resets>>

\* Creality's firmware: its user selects a slot and restarts, or its updater
\* writes the other slot and selects it.
ForeignSwitch ==
    /\ power = "foreign"
    /\ \/ UNCHANGED slot /\ marker' \in Slots
       \/ marker' = target /\ \E i \in Image :
              slot' = [slot EXCEPT ![target] = Full(i)]
    /\ Halt("off")
    /\ UNCHANGED <<confirmed, trial, last, faults, resets>>

-----------------------------------------------------------------------------
(* The install job: install and run_job *)

JobFrame == UNCHANGED <<last, running, armed, printing, pending, req, tpc>>
StillUp == UNCHANGED power

JobAt(pc) == power = "up" /\ job.pc = pc
JobTo(pc) == job' = [job EXCEPT !.pc = pc] /\ UNCHANGED status
JobEnds(result) == job' = NoJob /\ status' = result

\* _blank_kernel: 64 zero bytes over the uImage header, or an I/O error.
Blank(s) ==
    \/ NoFault /\ slot' = [slot EXCEPT ![s] = Blanked]
    \/ Fault("io") /\ UNCHANGED slot

\* install: refused while a job is on, under the lock, or busy.
Install(i) ==
    /\ power = "up"
    /\ status \notin {"running", "restarting"}
    /\ LockFree /\ ~RequestBusy
    /\ job' = [pc |-> "check", img |-> i] /\ status' = "running"
    /\ UNCHANGED <<durable, running, armed, printing, pending, req, tpc, power, faults,
                   resets>>

\* The file, its sizes and the free space, then the unpacking: nothing written yet.
JobCheck ==
    /\ JobAt("check")
    /\ JobTo("unconfirm") \/ JobEnds("failed")
    /\ JobFrame /\ StillUp /\ UNCHANGED <<marker, slot, confirmed, trial, faults, resets>>

\* Mutant: the old confirmation stays until the new image is written.
JobUnconfirmForgotten ==
    /\ JobAt("unconfirm")
    /\ JobTo("kernel")
    /\ JobFrame /\ StillUp /\ UNCHANGED <<marker, slot, confirmed, trial, faults, resets>>

JobUnconfirm ==
    /\ JobAt("unconfirm")
    /\ confirmed' = [confirmed EXCEPT ![target] = NoImage]
    /\ JobTo("kernel")
    /\ JobFrame /\ StillUp /\ UNCHANGED <<marker, slot, trial, faults, resets>>

\* The first kernel chunk carries the header: from here the slot looks bootable.
JobWriteKernel ==
    /\ JobAt("kernel")
    /\ slot' = [slot EXCEPT ![target] = Half(job.img)]
    /\ JobTo("rootfs")
    /\ JobFrame /\ StillUp /\ UNCHANGED <<marker, confirmed, trial, faults, resets>>

\* Mutant: the partition is not read back.
JobWriteUnverified ==
    /\ JobAt("rootfs")
    /\ \E ok \in BOOLEAN : slot' = [slot EXCEPT ![target].whole = ok]
    /\ JobTo("stop1")
    /\ JobFrame /\ StillUp /\ UNCHANGED <<marker, confirmed, trial, faults, resets>>

\* Kernel and rootfs written, and read back as the package says.
JobWriteRootfs ==
    /\ JobAt("rootfs")
    /\ slot' = [slot EXCEPT ![target].whole = TRUE]
    /\ JobTo("stop1")
    /\ JobFrame /\ StillUp /\ UNCHANGED <<marker, confirmed, trial, faults, resets>>

\* An exception while the slot counts as touched: blank it, report "failed".
JobFails ==
    /\ \E pc \in {"unconfirm", "kernel", "rootfs", "trial"} : JobAt(pc)
    /\ Blank(target) /\ JobEnds("failed")
    /\ JobFrame /\ StillUp /\ UNCHANGED <<marker, confirmed, trial, resets>>

\* The same after the marker: touched is still set, so the selected slot is blanked.
JobFailsLate ==
    /\ JobAt("stop2") \/ JobAt("reboot")
    /\ Fault("io")
    /\ slot' \in {slot, [slot EXCEPT ![target] = Blanked]}
    /\ JobEnds("failed")
    /\ JobFrame /\ StillUp /\ UNCHANGED <<marker, confirmed, trial, resets>>

\* Stop point 1, before the marker is written.
JobStop1 ==
    /\ JobAt("stop1")
    /\ \/ StopBusy /\ Blank(target) /\ JobEnds("stopped")
       \/ ~StopBusy /\ JobTo("trial") /\ UNCHANGED <<slot, faults>>
    /\ JobFrame /\ StillUp /\ UNCHANGED <<marker, confirmed, trial, resets>>

\* TRIAL before the marker; none for Creality's firmware, which never runs it.
JobTrial ==
    /\ JobAt("trial")
    /\ trial' = IF job.img \in Creality THEN NoTrial ELSE NewTrial
    /\ resets' = 0
    /\ JobTo("swap")
    /\ JobFrame /\ StillUp /\ UNCHANGED <<marker, slot, confirmed, faults>>

JobSwap ==
    /\ JobAt("swap")
    /\ \/ SwapOk(target) /\ JobTo("stop2") /\ UNCHANGED trial
       \/ SwapFails(target) /\ JobEnds("failed") /\ trial' = NoTrial
    /\ JobFrame /\ StillUp /\ UNCHANGED <<slot, confirmed, resets>>

\* Stop point 2, after the grace period and right before the reboot.
JobStop2 ==
    /\ JobAt("stop2")
    /\ JobTo(IF StopBusy THEN "undo" ELSE "reboot")
    /\ JobFrame /\ StillUp /\ UNCHANGED <<marker, slot, confirmed, trial, faults, resets>>

\* The marker back to the running slot; if it cannot be put back, nothing more.
JobUndo ==
    /\ JobAt("undo")
    /\ \/ SwapOk(running) /\ JobTo("undone")
       \/ SwapFails(running) /\ JobEnds("next_power_on")
    /\ JobFrame /\ StillUp /\ UNCHANGED <<slot, confirmed, trial, resets>>

\* Mutant: the TRIAL of the stopped install stays.
JobUndoneKeepsTrial ==
    /\ JobAt("undone")
    /\ JobTo("clear")
    /\ JobFrame /\ StillUp /\ UNCHANGED <<marker, slot, confirmed, trial, faults, resets>>

JobUndone ==
    /\ JobAt("undone")
    /\ trial' = NoTrial /\ JobTo("clear")
    /\ JobFrame /\ StillUp /\ UNCHANGED <<marker, slot, confirmed, faults, resets>>

JobClear ==
    /\ JobAt("clear")
    /\ Blank(target) /\ JobEnds("stopped")
    /\ JobFrame /\ StillUp /\ UNCHANGED <<marker, confirmed, trial, resets>>

JobReboot ==
    /\ JobAt("reboot")
    /\ \/ Halt("off") /\ NoFault
       \/ Fault("lost") /\ JobEnds("restarting")
          /\ UNCHANGED <<power, running, armed, printing, pending, req, tpc>>
    /\ UNCHANGED <<durable, resets>>

\* The worker is killed (out of memory): its lock goes, its state file stays.
JobKilled ==
    /\ power = "up" /\ job.pc # "idle"
    /\ Fault("kill") /\ JobEnds(status)
    /\ JobFrame /\ StillUp /\ UNCHANGED <<marker, slot, confirmed, trial, resets>>

-----------------------------------------------------------------------------
(* The slot switch: swap_slot, _arm_swap, _reboot_or_undo, keep_slot *)

SwapFrame ==
    UNCHANGED <<slot, confirmed, last, running, armed, printing, job, status, tpc>>
SwapAt(pc) == power = "up" /\ req.pc = pc
SwapTo(pc) == req' = [req EXCEPT !.pc = pc]

\* Refused SLOT_EMPTY on a kernel without a header, before the lock is taken.
SwapRequest ==
    /\ power = "up" /\ req.pc = "idle" /\ Bootable(target)
    /\ SwapTo("lock")
    /\ SwapFrame /\ StillUp /\ UNCHANGED <<marker, trial, pending, faults, resets>>

SwapLock ==
    /\ SwapAt("lock")
    /\ req' = IF LockFree THEN [req EXCEPT !.pc = "grace"] ELSE NoReq
    /\ SwapFrame /\ StillUp /\ UNCHANGED <<marker, trial, pending, faults, resets>>

\* Mutant: a switch writes no TRIAL.
SwapCheckWithoutTrial ==
    /\ SwapAt("grace")
    /\ IF RequestBusy THEN req' = NoReq ELSE SwapTo("arm")
    /\ SwapFrame /\ StillUp /\ UNCHANGED <<marker, trial, pending, faults, resets>>

\* After the grace period: refused while busy, else TRIAL for an unconfirmed
\* slot (not for Creality's firmware).
SwapCheck ==
    /\ SwapAt("grace")
    /\ IF RequestBusy THEN req' = NoReq /\ UNCHANGED <<trial, resets>>
       ELSE IF SlotConfirmed(target) \/ slot[target].img \in Creality
       THEN SwapTo("arm") /\ UNCHANGED <<trial, resets>>
       ELSE req' = TrialReq /\ trial' = NewTrial /\ resets' = 0
    /\ SwapFrame /\ StillUp /\ UNCHANGED <<marker, pending, faults>>

\* Mutant: the lock ends before the reboot and no mark keeps the gap (G102).
SwapArmWithoutMark ==
    /\ SwapAt("arm")
    /\ \/ SwapOk(target) /\ SwapTo("reboot") /\ UNCHANGED trial
       \/ SwapFails(target) /\ req' = NoReq
          /\ trial' = IF req.wrote THEN NoTrial ELSE trial
    /\ SwapFrame /\ StillUp /\ UNCHANGED <<pending, resets>>

\* The marker, then reboot-pending, then the lock is released.
SwapArm ==
    /\ SwapAt("arm")
    /\ \/ SwapOk(target) /\ pending' = TRUE /\ SwapTo("reboot") /\ UNCHANGED trial
       \/ SwapFails(target) /\ req' = NoReq /\ UNCHANGED pending
          /\ trial' = IF req.wrote THEN NoTrial ELSE trial
    /\ SwapFrame /\ StillUp /\ UNCHANGED resets

\* The reboot comes, is refused, or is accepted and never comes.
SwapReboot ==
    /\ SwapAt("reboot")
    /\ \/ Halt("off") /\ NoFault
       \/ Fault("lost") /\ req' \in {[req EXCEPT !.pc = "undo"], NoReq}
          /\ UNCHANGED <<power, running, armed, printing, pending, job, status, tpc>>
    /\ UNCHANGED <<durable, resets>>

\* keep_slot: the marker back first ...
SwapUndo ==
    /\ SwapAt("undo")
    /\ \/ SwapOk(running) /\ SwapTo("drop")
       \/ SwapFails(running) /\ req' = NoReq
    /\ SwapFrame /\ StillUp /\ UNCHANGED <<trial, pending, resets>>

\* ... then reboot-pending and the TRIAL the switch wrote.
SwapDrop ==
    /\ SwapAt("drop")
    /\ pending' = FALSE /\ req' = NoReq
    /\ trial' = IF trial # NoTrial /\ trial.from = running /\ trial.to # running
                THEN NoTrial ELSE trial
    /\ SwapFrame /\ StillUp /\ UNCHANGED <<marker, faults, resets>>

\* REBOOT_PENDING_SECONDS are over and the reboot never came.
PendingExpires ==
    /\ power = "up" /\ pending /\ req.pc = "idle"
    /\ pending' = FALSE
    /\ UNCHANGED <<req, marker, trial, faults, resets>> /\ SwapFrame /\ StillUp

-----------------------------------------------------------------------------
(* The trial of a new slot: trial *)

TrialFrame ==
    UNCHANGED <<slot, running, armed, printing, pending, job, status, req, resets>>
TrialAt(pc) == power = "up" /\ tpc = pc
Verdict(result) == last' = result

\* _stack_up of the running slot can be true.
CanComeUp == slot[running].img \in Good

TrialStart ==
    /\ TrialAt("start")
    /\ \/ /\ OnTrial /\ trial' = CountedTrial
          /\ tpc' = IF CountedTrial.starts > TrialAttempts THEN "busy" ELSE "wait"
       \/ /\ ~OnTrial /\ UNCHANGED trial
          /\ tpc' = IF trial = NoTrial THEN "none" ELSE "stale"
    /\ TrialFrame /\ StillUp /\ UNCHANGED <<marker, confirmed, last, faults>>

\* Not on the new slot: the result, then TRIAL goes - whatever file is there by now.
TrialStale ==
    /\ TrialAt("stale")
    /\ Verdict("NOT_STARTED") /\ tpc' = "discard"
    /\ TrialFrame /\ StillUp /\ UNCHANGED <<marker, confirmed, trial, faults>>

\* An install or a switch has written its TRIAL and has yet to move the marker.
AboutToSwitch == job.pc = "swap" \/ req = TrialReq

\* No lock is taken: a TRIAL that was written meanwhile goes too ("took").
TrialDiscard ==
    /\ TrialAt("discard")
    /\ trial' = NoTrial /\ tpc' = IF trial # NoTrial /\ AboutToSwitch THEN "took" ELSE "none"
    /\ TrialFrame /\ StillUp /\ UNCHANGED <<marker, confirmed, last, faults>>

\* Mutant: no deadline.
TrialWaitForever ==
    /\ TrialAt("wait") /\ CanComeUp
    /\ tpc' = "confirm"
    /\ TrialFrame /\ StillUp /\ UNCHANGED <<marker, confirmed, trial, last, faults>>

\* Klipper and the screen are up before the deadline, or it passes.
TrialWait ==
    /\ TrialAt("wait")
    /\ tpc' \in {"busy"} \cup (IF CanComeUp THEN {"confirm"} ELSE {})
    /\ TrialFrame /\ StillUp /\ UNCHANGED <<marker, confirmed, trial, last, faults>>

\* The verdict waits for a print; after one, the stack is judged again.
TrialPostpone ==
    /\ TrialAt("busy") /\ printing
    /\ tpc' = "postponed"
    /\ TrialFrame /\ StillUp /\ UNCHANGED <<marker, confirmed, trial, last, faults>>

TrialJudge ==
    /\ TrialAt("busy") \/ TrialAt("postponed")
    /\ ~printing
    /\ \/ tpc' = "unlink"
       \/ /\ tpc = "postponed" /\ trial.starts <= TrialAttempts /\ CanComeUp
          /\ tpc' = "confirm"
    /\ TrialFrame /\ StillUp /\ UNCHANGED <<marker, confirmed, trial, last, faults>>

\* _confirm: the result, the slot-confirmed record, then TRIAL goes.
TrialConfirm ==
    /\ \/ TrialAt("confirm") /\ Verdict("CONFIRMED") /\ tpc' = "record"
          /\ UNCHANGED <<confirmed, trial>>
       \/ TrialAt("record") /\ confirmed' = [confirmed EXCEPT ![running] = slot[running].img]
          /\ tpc' = "remove" /\ UNCHANGED <<trial, last>>
       \/ TrialAt("remove") /\ trial' = NoTrial /\ tpc' = "none"
          /\ UNCHANGED <<confirmed, last>>
    /\ TrialFrame /\ StillUp /\ UNCHANGED <<marker, faults>>

\* Mutant: TRIAL is left for the end.
TrialUnlinkLate ==
    /\ TrialAt("unlink")
    /\ tpc' = "rolled"
    /\ TrialFrame /\ StillUp /\ UNCHANGED <<marker, confirmed, trial, last, faults>>

\* Back: TRIAL goes first, then the result, the marker and the reboot.
TrialUnlink ==
    /\ TrialAt("unlink")
    /\ trial' = NoTrial /\ tpc' = "rolled"
    /\ TrialFrame /\ StillUp /\ UNCHANGED <<marker, confirmed, last, faults>>

TrialRecord ==
    /\ TrialAt("rolled")
    /\ Verdict("ROLLED_BACK") /\ tpc' = "swap"
    /\ TrialFrame /\ StillUp /\ UNCHANGED <<marker, confirmed, trial, faults>>

TrialSwap ==
    /\ TrialAt("swap")
    /\ \/ SwapOk(target) /\ tpc' = "reboot" /\ UNCHANGED last
       \/ SwapFails(target) /\ tpc' = "none" /\ Verdict("ROLLBACK_FAILED")
    /\ TrialFrame /\ StillUp /\ UNCHANGED <<confirmed, trial>>

TrialReboot ==
    /\ TrialAt("reboot")
    /\ \/ Halt("off") /\ NoFault
       \/ Fault("lost") /\ tpc' = "none"
          /\ UNCHANGED <<power, running, armed, printing, pending, job, status, req>>
    /\ UNCHANGED <<durable, resets>>

TrialKilled ==
    /\ power = "up" /\ tpc \notin {"boot", "none", "took"}
    /\ Fault("kill") /\ tpc' = "none"
    /\ TrialFrame /\ StillUp /\ UNCHANGED <<marker, confirmed, trial, last>>

\* image ack: the screen showed the result.
Ack ==
    /\ power = "up" /\ last # "none" /\ last' = "none"
    /\ TrialFrame /\ StillUp /\ UNCHANGED <<tpc, marker, confirmed, trial, faults>>

-----------------------------------------------------------------------------
(* The specification *)

\* A printer with NebulaOS in the selected slot and a whole system in the other.
Init ==
    /\ marker \in Slots /\ running = marker
    /\ slot \in [Slots -> [img : Image, whole : {TRUE}]]
    /\ HoldsNebula(marker)
    /\ confirmed = [s \in Slots |-> NoImage]
    /\ trial = NoTrial /\ last = "none"
    /\ power = "off" /\ armed = FALSE /\ printing = FALSE /\ pending = FALSE
    /\ job = NoJob /\ status = "none" /\ req = NoReq /\ tpc = "none"
    /\ faults = 0 /\ resets = 0

JobStep ==
    \/ JobCheck \/ JobUnconfirm \/ JobWriteKernel \/ JobWriteRootfs
    \/ JobFails \/ JobFailsLate \/ JobStop1 \/ JobTrial \/ JobSwap \/ JobStop2
    \/ JobUndo \/ JobUndone \/ JobClear \/ JobReboot
SwapStep ==
    SwapLock \/ SwapCheck \/ SwapArm \/ SwapReboot \/ SwapUndo \/ SwapDrop
TrialStep ==
    \/ TrialStart \/ TrialStale \/ TrialDiscard \/ TrialWait \/ TrialPostpone \/ TrialJudge
    \/ TrialConfirm \/ TrialUnlink \/ TrialRecord \/ TrialSwap \/ TrialReboot
BootStep == PowerOn \/ ArmWatchdog \/ BootDone \/ TrialBegins
Environment ==
    \/ PowerCut \/ PowerCycle \/ Freeze \/ PrintStart \/ PrintEnd \/ ForeignSwitch
    \/ JobKilled \/ TrialKilled \/ PendingExpires

Next ==
    \/ BootStep \/ Environment \/ JobStep \/ SwapStep \/ TrialStep
    \/ SwapRequest \/ Ack \/ \E i \in Image : Install(i)

Spec == Init /\ [][Next]_vars

\* Programs that run keep running; a hung printer is switched off some time;
\* a print ends, and prints leave gaps longer than the trial's poll interval.
Fairness ==
    /\ WF_vars(BootStep) /\ WF_vars(PowerCycle)
    /\ WF_vars(JobStep) /\ WF_vars(SwapStep)
    /\ WF_vars(TrialStep) /\ WF_vars(PrintEnd) /\ SF_vars(TrialJudge)
FairSpec == Spec /\ Fairness

-----------------------------------------------------------------------------
(* What must hold *)

On == power \in {"early", "booting", "up"}
Contents == [img : Image \cup {NoImage}, whole : BOOLEAN]
Results == {"none", "CONFIRMED", "NOT_STARTED", "ROLLED_BACK", "ROLLBACK_FAILED"}
Powers == {"off", "early", "booting", "up", "hung", "foreign"}
JobPc == {"idle", "check", "unconfirm", "kernel", "rootfs", "stop1", "trial", "swap", "stop2",
          "undo", "undone", "clear", "reboot"}
Jobs == [pc : JobPc, img : Image \cup {NoImage}]
Statuses == {"none", "running", "failed", "stopped", "next_power_on", "restarting"}
Reqs == [pc : {"idle", "lock", "grace", "arm", "reboot", "undo", "drop"}, wrote : BOOLEAN]
TrialPc == {"none", "boot", "start", "stale", "discard", "took", "wait", "busy", "postponed",
            "confirm", "record", "remove", "unlink", "rolled", "swap", "reboot"}

FlagsOK == armed \in BOOLEAN /\ printing \in BOOLEAN /\ pending \in BOOLEAN

\* Type correctness of the state.
TypeOK ==
    /\ marker \in Slots /\ running \in Slots
    /\ slot \in [Slots -> Contents]
    /\ confirmed \in [Slots -> Image \cup {NoImage}]
    /\ trial \in Trials \cup {NoTrial}
    /\ last \in Results
    /\ power \in Powers
    /\ FlagsOK
    /\ job \in Jobs /\ status \in Statuses
    /\ req \in Reqs
    /\ tpc \in TrialPc
    /\ faults \in 0..MaxFaults
    /\ resets \in Nat

\* As long as a TRIAL exists, the slot it goes back to holds a whole system:
\* no install, switch, power cut or earlier TRIAL ever damages the way back
\* (target_partitions, the trial reason of the busy check, one lock).
SafeFallback == trial # NoTrial => Whole(trial.from)

\* A confirmation that counts names a whole system that did come up: a cut,
\* rewritten or half-written slot is never taken for a confirmed one
\* (unconfirm_slot before the first write, slot_key).
ConfirmedIsGood == \A s \in Slots : SlotConfirmed(s) => Whole(s) /\ slot[s].img \in Good

\* An unconfirmed system is reset by the watchdog at most TRIAL_ATTEMPTS times,
\* then the printer goes back (count_start before arming, once per boot).
WatchdogResetsBounded == resets <= TrialAttempts

\* A trial that has begun is not diverted: until its verdict the bootloader
\* keeps starting the slot on trial, and that slot stays whole, whatever the
\* user asks for meanwhile (the trial reason of install and swap_slot).
TrialStaysSelected ==
    trial # NoTrial /\ trial.starts > 0 => marker = trial.to /\ Whole(trial.to)

\* An install that a print stops leaves nothing: the running system is
\* selected, nothing is on trial, and the written slot is blank (the two stop
\* points of run_job; outside a rollback in progress).  A TRIAL of an earlier
\* boot may be left that S99 has yet to remove.
Undone ==
    /\ ~Bootable(target) /\ marker = running
    /\ trial = NoTrial \/ tpc \in {"boot", "start", "stale", "discard"}
StoppedInstallIsUndone ==
    [][ status' = "stopped" /\ status # "stopped" /\ tpc # "reboot" => Undone' ]_vars

\* While the job writes the other slot the marker selects the running one, so
\* a power cut leaves a printer that starts (outside a rollback in progress).
WritingLeavesRunningSelected ==
    job.pc \in {"kernel", "rootfs", "stop1"} /\ tpc # "reboot"
        => marker = running

\* The marker of an install or a switch moves to an unconfirmed NebulaOS slot
\* only while a TRIAL for it names the running slot to go back to (_arm_swap and
\* run_job write it first).  The exception: S99, which takes no lock, had read an
\* older TRIAL and unlinked the new one instead.
SwitchIsOnTrial ==
    [][ (JobSwap \/ SwapArm) /\ marker' # running
          => \/ slot[marker'].img \in Creality
             \/ SlotConfirmed(marker')
             \/ trial # NoTrial /\ trial.from = running /\ trial.to = marker'
             \/ tpc = "took" /\ trial = NoTrial ]_vars

\* An install selects only a slot that was written to the end and verified.
InstallSelectsWhole == [][ JobSwap => Whole(target) ]_vars

\* A kernel header is proof of a system: a switch never selects a slot that
\* looks bootable and that an install left half-written (slot_bootable).
SwitchSelectsWhole ==
    [][ SwapArm /\ marker' # running /\ Bootable(marker') => Whole(marker') ]_vars

\* A trial that has started comes to a verdict, however often the printer
\* freezes or loses power meanwhile.
TrialGetsVerdict == (On /\ OnTrial) ~> (trial = NoTrial)

-----------------------------------------------------------------------------
(* Why it holds: the parts of the inductive invariant *)

\* Only a whole system runs, and its programs live no longer than its boot.
RunningInv ==
    /\ On \/ power = "foreign" => Whole(running)
    /\ On => HoldsNebula(running)
    /\ power # "up" => job.pc = "idle" /\ req.pc = "idle" /\ tpc = "none"
    /\ power \notin {"booting", "up"} => armed = FALSE

\* An install, a switch and a running trial keep out of each other's way.
LockInv ==
    /\ job.pc # "idle" => ~SwapHoldsLock /\ ~OnTrial /\ job.img \in Image
    /\ req.pc = "arm" => ~OnTrial
    /\ tpc \in {"wait", "busy", "postponed", "confirm", "record", "remove", "unlink"} => OnTrial

FallbackInv == trial # NoTrial => trial.from # trial.to /\ Whole(trial.from)

CoreInv == TypeOK /\ RunningInv /\ LockInv /\ FallbackInv

\* Only systems that came up are ever named, and the record goes before the slot.
ConfirmedInv ==
    /\ \A s \in Slots : confirmed[s] \in Good \cup {NoImage}
    /\ \A s \in Slots : SlotConfirmed(s) => Whole(s)
    /\ job.pc \in {"kernel", "rootfs"} => confirmed[target] = NoImage
    /\ tpc \in {"confirm", "record"} => CanComeUp

\* A reset needs an armed watchdog, and an armed one has counted its start.
WatchdogInv ==
    /\ armed /\ OnTrial => trial.counted /\ trial.starts <= TrialAttempts
    /\ trial # NoTrial => resets <= trial.starts
    /\ On /\ OnTrial /\ trial.counted => resets < trial.starts
    /\ resets <= TrialAttempts

\* A started trial keeps its slot.
StartedInv ==
    trial # NoTrial /\ trial.starts > 0 =>
        /\ marker = trial.to /\ Whole(trial.to) /\ HoldsNebula(trial.to)
        /\ power # "foreign"
        /\ On => running = trial.to

\* Nothing moves the marker of a system on trial, and what S99 discards or takes
\* back is no longer on trial.
QuietInv ==
    /\ power \in {"early", "booting"} => marker = running
    /\ On /\ OnTrial => marker = running
    /\ tpc \in {"stale", "discard", "took", "rolled", "swap", "reboot"} => ~OnTrial
=============================================================================
