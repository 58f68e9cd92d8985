----------------------------- MODULE HostInstall -----------------------------
(***************************************************************************)
(* An image install driven over SSH from a computer (tools/hardware):      *)
(* the installer process, its journal on the host, and the printer it      *)
(* writes.  Two paths: NebulaOS keeps running and the other slot is        *)
(* written (INACTIVE_SLOT), or the marker is armed for Creality in slot 1  *)
(* and slot 2 is written from there (PRESERVE_STOCK), where a power cut    *)
(* lets Creality's updater overwrite the motion controller.                *)
(*                                                                         *)
(* Abstractions.  A slot holds one whole image or is Damaged; a damaged    *)
(* slot does not boot.  Every command is an SSH call of its own, so a      *)
(* session keeps working after a reboot into the same system and is        *)
(* refused by the other one (host key, password).  Identity, idleness,     *)
(* free space and the hashes of the staged files are one kind of check     *)
(* that fails with the fault "drop", as does a call that is lost.  A       *)
(* marker write and its read-back are one step, before or after which the  *)
(* printer may lose power.  One installer runs at a time (HostLock).  A    *)
(* helper that outlives its connection has ended before the next install   *)
(* has copied its own images, so two helpers never overlap.  A service     *)
(* restart leaves nothing behind that an install reads but its lock.  The  *)
(* bootloader, Creality's updater and the MCU guard are external.          *)
(***************************************************************************)
EXTENDS Naturals

CONSTANTS
    Builds,     \* NebulaOS images, by the hashes an install names
    Creality,   \* the vendor's system
    Damaged,    \* what a slot holds that was not written whole
    NoWriter,   \* no flash helper runs on the printer
    NoJournal,  \* no journal file for this printer
    Commands,   \* the agent's operations in use
    Budgets     \* bound: how often each fault may happen, one alternative each

Slots == {1, 2}
Contents == Builds \cup {Creality, Damaged}
FaultKinds == {"drop", "cut", "kill", "journal", "marker", "flash", "lost", "probe", "outlive"}

ASSUME ConstantsAssumption ==
    /\ Creality \notin Builds
    /\ Damaged \notin Builds \cup {Creality}
    /\ NoWriter \notin [slot : Slots, build : Builds]
    /\ Commands \subseteq {"install", "reboot", "stock-update", "restart", "datafs-repair"}
    /\ Budgets \subseteq [FaultKinds -> Nat]

VARIABLES
    \* on the printer
    marker,     \* the slot it selects, 0 when indeterminate
    holds,      \* what each slot holds
    lock,       \* flash.lock: "free" | "held" | "dead" | "nameless" | "other"
    data,       \* /usr/data: "sound" | "broken" (read-only) | "closed" | "repaired"
    running,    \* the slot this boot runs, 0 when nothing came up
    mcu,        \* "ours" | "stock" | "restored", by the guard, this boot
    writer,     \* flash-spare-slot.sh on the printer: [slot, build]
    going,      \* a reboot command counts down
    \* on the host
    journal,    \* the file: [state, danger, key]
    txn,        \* the Transaction in memory
    pc,         \* where the installer is
    want,       \* the build it installs
    os,         \* the system its session was opened for
    home,       \* _home_marker
    target,     \* plan.target_slot
    rebooted,   \* the boot id differs from boot_before, or that was not read
    \* environment
    profile,    \* the owner's [other, mode]: INSTALL_OTHER_SLOT, INSTALL_MODE
    left        \* the faults that may still happen

device == <<marker, holds, running, mcu, writer, data, going>>
files == <<journal, txn>>
plan == <<want, os, home, target>>
vars == <<marker, holds, lock, running, mcu, writer, data, going, journal, txn, pc, want, os, home,
          target, rebooted, profile, left>>

-----------------------------------------------------------------------------
(* The journal *)

StockWindow == {"ARMED_STOCK", "REBOOTING_TO_STOCK", "STOCK_RUNNING", "FLASHING",
                "FLASH_VERIFIED"}
\* Mutant: entering a disarm already counts as safe.
SafeProvenTooSoon == {"SAFE_NEBULAOS", "NEBULAOS_RUNNING", "DONE", "CLOSE_BACKWARD"}
SafeProven == {"SAFE_NEBULAOS", "NEBULAOS_RUNNING", "DONE"}
Terminal == {"DONE", "FAILED_NEEDS_ATTENTION"}
States == StockWindow \cup SafeProven \cup Terminal \cup
          {"PRECHECKED", "SLOT_FLASHING", "SLOT_FLASH_VERIFIED", "ARMED_NEBULAOS",
           "REBOOTING_TO_NEBULAOS", "CLOSE_BACKWARD"}
Profiles == [other : {"preserve", "expendable"}, mode : {"dev", "release"}]
Journals == [state : States, danger : BOOLEAN, key : Builds]

ASSUME JournalAssumption == NoJournal \notin Journals

Fresh(b) == [state |-> "SAFE_NEBULAOS", danger |-> FALSE, key |-> b]
Advanced(t, new) ==
    [t EXCEPT !.state = new,
              !.danger = new \in StockWindow \/ (@ /\ new \notin SafeProven)]
Dangerous(t) == t # NoJournal /\ (t.state \in StockWindow \/ t.danger)
Closed(t) == t # NoJournal => t.state \in Terminal

Fault(k) == left[k] > 0 /\ left' = [left EXCEPT ![k] = @ - 1]
NoFault == UNCHANGED left

\* The memory changes first, the file only when it can be written.
Record(t) == txn' = t /\ journal' = t /\ NoFault
RecordFails(t) == txn' = t /\ UNCHANGED journal /\ Fault("journal")
Advance(new) == Record(Advanced(txn, new))
AdvanceFails(new) == RecordFails(Advanced(txn, new))

-----------------------------------------------------------------------------
(* The printer *)

\* The word counts only on a development printer.
Expendable == profile.other = "expendable" /\ profile.mode = "dev"

Other(s) == 3 - s
RunsNebula == running # 0 /\ holds[running] \in Builds
RunsCreality == running # 0 /\ holds[running] = Creality
\* A command of the session reaches the system it was opened for.
Reachable == IF os = "nebulaos" THEN RunsNebula ELSE RunsCreality
Root1 == running = 1
Indeterminate == marker = 0
Armed == RunsNebula /\ marker # 0 /\ holds[marker] = Creality

\* NebulaOS keeps the flash lock and what is staged on the data partition.
Writable == data = "sound" \/ RunsCreality

\* What the slot probe may say of a slot that is not running.
Classified(s) ==
    CASE holds[s] \in Builds -> {"nebulaos"}
      [] holds[s] = Creality -> {"creality"}
      [] OTHER -> {"nebulaos", "unknown"}

\* write_marker and the read-back after it
Marked(m) == Reachable /\ marker' = m /\ NoFault
NotMarked(m) == Reachable /\ marker' \in {marker, 0} \ {m} /\ Fault("marker")
MarkRaises(m) == \/ Reachable /\ marker' \in {marker, m} /\ Fault("drop")
                 \/ ~Reachable /\ UNCHANGED marker /\ NoFault

Whole(s) == holds[s] # Damaged
BootsInto == IF marker # 0
             THEN {IF Whole(marker) THEN marker ELSE 0}
             ELSE {0} \cup {s \in Slots : Whole(s)}
McuAfter(s) ==
    CASE s = 0 -> {mcu}
      [] s # 0 /\ holds[s] = Creality -> {"stock"} \cup ({mcu} \ {"restored"})
                                         \cup (IF mcu = "restored" THEN {"ours"} ELSE {})
      [] OTHER -> IF mcu = "stock" THEN {"restored", "stock"} ELSE {"ours"}

Boot ==
    /\ running' \in BootsInto
    /\ mcu' \in McuAfter(running')
    /\ writer' = NoWriter
    /\ going' = FALSE
    /\ rebooted' = TRUE
    /\ data' \in {"sound", "broken"}
    /\ UNCHANGED <<marker, holds>>

\* Only a power cut breaks the data partition.
Reboots ==
    /\ going /\ Boot /\ NoFault
    /\ data \in {"sound", "repaired"} => data' = "sound"
    /\ UNCHANGED <<lock, files, pc, plan, profile>>
PowerCut == Boot /\ Fault("cut") /\ UNCHANGED <<lock, files, pc, plan, profile>>
RebootLost ==
    /\ going /\ going' = FALSE /\ Fault("lost")
    /\ UNCHANGED <<marker, holds, lock, running, mcu, data, writer, files, pc, plan, rebooted,
                   profile>>

\* flash-spare-slot.sh ends: the slot reads back as the staged build, or not.
WriterEnds ==
    /\ writer # NoWriter
    /\ writer' = NoWriter
    /\ \/ holds' = [holds EXCEPT ![writer.slot] = writer.build] /\ NoFault
       \/ UNCHANGED holds /\ Fault("flash")
    /\ UNCHANGED <<marker, lock, running, mcu, data, going, files, pc, plan, rebooted, profile>>

Init ==
    /\ running \in Slots
    /\ holds \in [Slots -> Contents]
    /\ Whole(running)
    /\ marker = running
    /\ lock = "free" /\ data = "sound" /\ mcu = "ours" /\ writer = NoWriter /\ going = FALSE
    /\ journal = NoJournal /\ txn = NoJournal /\ pc = "off"
    /\ want \in Builds /\ os = "nebulaos" /\ home = 2 /\ target = 2
    /\ rebooted = FALSE
    /\ profile \in Profiles
    /\ left \in Budgets

-----------------------------------------------------------------------------
(* Opening the transaction, connecting, deciding the path *)

Matches(b) == journal # NoJournal /\ journal.key = b

\* The file is the transaction of an install that was interrupted.
Resume == txn' = journal /\ UNCHANGED journal /\ NoFault

Begin(b) ==
    /\ pc = "off" /\ "install" \in Commands
    /\ want' = b
    /\ IF Matches(b)
       THEN Resume
       ELSE Record(Fresh(b))
    /\ pc' = "connect"
    /\ home' = 2 /\ target' = 2
    /\ UNCHANGED <<device, lock, os, rebooted, profile>>

\* A session for this system, once the printer that answers is the enrolled one.
Connects(which) ==
    /\ \/ which = "nebulaos" /\ RunsNebula
       \/ which = "stock" /\ RunsCreality
    /\ os' = which

Unreachable ==
    /\ pc = "connect" /\ running = 0
    /\ pc' = "unseen"
    /\ UNCHANGED <<device, lock, files, plan, rebooted, profile, left>>

\* NebulaOS runs: the marker must select its slot before anything is decided.
FoundHome ==
    /\ pc = "connect" /\ Connects("nebulaos") /\ home' = running
    /\ Indeterminate \/ marker = running
    /\ pc' = IF Indeterminate THEN "refuse" ELSE "choose"
    /\ UNCHANGED <<device, lock, files, want, target, rebooted, profile, left>>

FoundArmed ==
    /\ pc = "connect" /\ Connects("nebulaos") /\ home' = running
    /\ marker = Other(running) /\ "creality" \in Classified(marker)
    /\ \/ Advance("ARMED_STOCK") /\ pc' = "found"
       \/ AdvanceFails("ARMED_STOCK") /\ pc' = "undisarmed"
    /\ UNCHANGED <<device, lock, want, target, rebooted, profile>>

\* The marker selects another NebulaOS slot: pointed back here, then read again.
FoundElsewhere ==
    /\ pc = "connect" /\ Connects("nebulaos") /\ home' = running
    /\ marker = Other(running) /\ Classified(marker) # {"creality"}
    /\ \/ /\ marker' = running
          /\ txn' = [txn EXCEPT !.danger = FALSE]
          /\ pc' = "choose"
          /\ \/ journal' = txn' /\ NoFault
             \/ UNCHANGED journal /\ Fault("journal")
       \/ /\ \/ marker' \in {marker, 0} /\ Fault("marker")
             \/ marker' \in {marker, running} /\ Fault("drop")
          /\ pc' = "refuse"
          /\ UNCHANGED files
    /\ UNCHANGED <<holds, running, mcu, data, writer, going, lock, want, target, rebooted, profile>>

\* plan_install, from what the probe says of the other slot
PlansInactive(kind) == kind = "nebulaos" \/ Expendable
PlansPreserve(kind) == kind = "creality" /\ ~Expendable /\ home = 2
\* The way back is the running slot; the way through is Creality in slot 1.
WayBack == running = home /\ marker = home
WayOut == running = 2 /\ holds[1] = Creality

\* The proofs of the path and the staging come before the marker moves.
Prechecked ==
    /\ pc = "choose" /\ Reachable /\ running = home /\ Writable
    /\ \E kind \in Classified(Other(home)) :
         \/ /\ PlansInactive(kind) /\ WayBack
            /\ target' = Other(home)
            /\ \/ Advance("PRECHECKED") /\ pc' = "lock"
               \/ AdvanceFails("PRECHECKED") /\ pc' = "refuse"
            /\ UNCHANGED rebooted
         \/ /\ PlansPreserve(kind) /\ WayOut
            /\ target' = 2
            /\ \/ Advance("PRECHECKED") /\ pc' = "arm"
               \/ AdvanceFails("PRECHECKED") /\ pc' = "refuse"
            /\ rebooted' = FALSE
         \/ /\ ~PlansInactive(kind) /\ ~PlansPreserve(kind)
            /\ pc' = "refuse"
            /\ UNCHANGED <<target, files, rebooted, left>>
    /\ UNCHANGED <<device, lock, want, os, home, profile>>

-----------------------------------------------------------------------------
(* Arming for Creality, and every way back out *)

Arm ==
    /\ pc = "arm"
    /\ \/ Marked(1) /\ pc' = "arming"
       \/ (NotMarked(1) \/ MarkRaises(1)) /\ pc' = "retreat"
    /\ UNCHANGED <<holds, running, mcu, data, writer, going, lock, files, plan, rebooted, profile>>

RecordArmed ==
    /\ pc = "arming"
    /\ \/ Advance("ARMED_STOCK") /\ pc' = "armed"
       \/ AdvanceFails("ARMED_STOCK") /\ pc' = "retreat"
    /\ UNCHANGED <<device, lock, plan, rebooted, profile>>

\* Mutant: only a refusal disarms, not a call that raises.
LeaveUnguarded ==
    /\ pc = "armed"
    /\ \/ Reachable /\ going' = TRUE /\ pc' = "leaving" /\ NoFault
       \/ Reachable /\ going' \in BOOLEAN /\ pc' = "refuse" /\ Fault("drop")
       \/ ~Reachable /\ UNCHANGED going /\ pc' = "retreat" /\ NoFault
    /\ UNCHANGED <<marker, holds, running, mcu, data, writer, lock, files, plan, rebooted, profile>>

\* The last look at the printer, then the reboot.  A call that raises may have
\* started it all the same, and a command that is lost is not noticed.
LeaveForStock ==
    /\ pc = "armed"
    /\ \/ Reachable /\ going' = TRUE /\ pc' = "leaving" /\ NoFault
       \/ Reachable /\ going' \in BOOLEAN /\ pc' \in {"retreat", "leaving"} /\ Fault("drop")
       \/ ~Reachable /\ UNCHANGED going /\ pc' = "retreat" /\ NoFault
    /\ UNCHANGED <<marker, holds, running, mcu, data, writer, lock, files, plan, rebooted, profile>>

RecordLeaving ==
    /\ pc = "leaving"
    /\ \/ Advance("REBOOTING_TO_STOCK") /\ pc' = "tostock"
       \/ AdvanceFails("REBOOTING_TO_STOCK") /\ pc' = "retreat"
    /\ UNCHANGED <<device, lock, plan, rebooted, profile>>

\* _disarm: the journal first, outside its try, then the marker.  A disk that
\* stays full fails RecordArmed and then the disarm that answers it.
Disarm ==
    /\ pc \in {"retreat", "found"}
    /\ \/ /\ Advance("CLOSE_BACKWARD")
          /\ pc' = IF pc = "found" THEN "undo" ELSE "putback"
       \/ AdvanceFails("CLOSE_BACKWARD") /\ pc' = "undisarmed"
    /\ UNCHANGED <<device, lock, plan, rebooted, profile>>

DisarmMarker ==
    /\ pc \in {"undo", "putback"}
    /\ \/ /\ Reachable /\ marker' = home
          /\ txn' = [txn EXCEPT !.danger = FALSE]
          /\ pc' = IF pc = "undo" THEN "choose" ELSE "refuse"
          /\ \/ journal' = txn' /\ NoFault
             \/ UNCHANGED journal /\ Fault("journal")
       \/ /\ NotMarked(home) \/ MarkRaises(home)
          /\ pc' = "undisarmed"
          /\ UNCHANGED files
    /\ UNCHANGED <<holds, running, mcu, data, writer, going, lock, plan, rebooted, profile>>

\* Creality is back under a new boot id.
StockReached ==
    /\ pc = "tostock" /\ Connects("stock") /\ rebooted
    /\ \/ Advance("STOCK_RUNNING") /\ pc' = "lock"
       \/ AdvanceFails("STOCK_RUNNING") /\ pc' = "refuse"
    /\ UNCHANGED <<device, lock, want, home, target, rebooted, profile>>

\* The printer already runs Creality: the probe of slot 2 decides, if it answers.
FoundStock ==
    /\ pc = "connect" /\ Connects("stock")
    /\ LET kept == Root1 /\ holds[2] = Creality /\ ~Expendable IN
       \/ ~kept /\ Advance("STOCK_RUNNING") /\ pc' = "lock"
       \/ ~kept /\ AdvanceFails("STOCK_RUNNING") /\ pc' = "refuse"
       \/ kept /\ pc' = "refuse" /\ UNCHANGED files /\ NoFault
       \/ /\ kept /\ pc' = "lock" /\ Fault("probe")
          /\ txn' = Advanced(txn, "STOCK_RUNNING") /\ journal' = txn'
    /\ UNCHANGED <<device, lock, want, home, target, rebooted, profile>>

-----------------------------------------------------------------------------
(* Writing the target slot *)

\* The owner is this device's name and a process of this host that is gone.
StaleOwn == lock = "dead"

\* mkdir of the lock, then its owner file; a power cut may fall between the two.
AcquireFlashLock(owner) ==
    /\ Writable
    /\ \/ lock' = owner /\ NoFault /\ UNCHANGED <<device, rebooted>>
       \/ lock' = "nameless" /\ Fault("cut") /\ Boot

\* An earlier installer's lock is taken over once its process is gone.
AcquireLock ==
    /\ pc = "lock" /\ Reachable
    /\ os = "stock" => Root1
    /\ \/ /\ lock = "free" \/ StaleOwn
          /\ AcquireFlashLock("held")
          /\ pc' = IF lock' = "held" THEN "write" ELSE "refuse"
       \/ /\ lock \in {"nameless", "other"} \/ ~Writable
          /\ pc' = "refuse" /\ NoFault /\ UNCHANGED <<lock, device, rebooted>>
    /\ UNCHANGED <<files, plan, profile>>

\* release_flash_lock, whose result nobody reads
Released == lock' = IF Reachable /\ Writable THEN "free" ELSE lock

\* The one shape a write may have: the two partitions of the target slot.
Plan == [slot |-> target, build |-> want]
ReadsBack == holds[target] = want

\* The root is read again, then the helper starts; nothing has checked the
\* marker since the connection.
StartWrite ==
    /\ pc = "write" /\ Reachable /\ writer = NoWriter
    /\ os = "nebulaos" => running = home
    /\ LET state == IF os = "stock" THEN "FLASHING" ELSE "SLOT_FLASHING" IN
       \/ /\ Advance(state)
          /\ holds' = [holds EXCEPT ![target] = Damaged]
          /\ writer' = Plan
          /\ pc' = "writing"
          /\ UNCHANGED lock
       \/ /\ AdvanceFails(state)
          /\ Released
          /\ pc' = "refuse"
          /\ UNCHANGED <<holds, writer>>
    /\ UNCHANGED <<marker, running, mcu, data, going, plan, rebooted, profile>>

\* Mutant: the helper's end is taken for success.
VerifyNothing ==
    /\ pc = "writing" /\ writer = NoWriter /\ Reachable
    /\ Released
    /\ Advance(IF os = "stock" THEN "FLASH_VERIFIED" ELSE "SLOT_FLASH_VERIFIED")
    /\ pc' = "select"
    /\ UNCHANGED <<device, plan, rebooted, profile>>

\* The bytes are read back, not the exit code; finally the lock goes.
Verify ==
    /\ pc = "writing" /\ writer = NoWriter /\ Reachable
    /\ Released
    /\ LET state == IF os = "stock" THEN "FLASH_VERIFIED" ELSE "SLOT_FLASH_VERIFIED" IN
       \/ ReadsBack /\ Advance(state) /\ pc' = "select"
       \/ ReadsBack /\ AdvanceFails(state) /\ pc' = "refuse"
       \/ ~ReadsBack /\ pc' = "refuse" /\ UNCHANGED <<files, left>>
    /\ UNCHANGED <<device, plan, rebooted, profile>>

\* The call is lost while the helper runs: it dies with the connection, or not.
WriteLost ==
    /\ pc = "writing"
    /\ \/ Reachable /\ writer' = NoWriter /\ Fault("drop")
       \/ Reachable /\ UNCHANGED writer /\ Fault("outlive")
       \/ ~Reachable /\ UNCHANGED writer /\ NoFault
    /\ Released
    /\ pc' = "refuse"
    /\ UNCHANGED <<marker, holds, running, mcu, data, going, files, plan, rebooted, profile>>

SelectTarget ==
    /\ pc = "select"
    /\ \/ Marked(target) /\ pc' = "selected"
       \/ /\ NotMarked(target) \/ MarkRaises(target)
          /\ pc' = IF os = "stock" THEN "refuse" ELSE "gohome"
    /\ UNCHANGED <<holds, running, mcu, data, writer, going, lock, files, plan, rebooted, profile>>

PutHome ==
    /\ pc = "gohome"
    /\ Marked(home) \/ NotMarked(home) \/ MarkRaises(home)
    /\ pc' = "refuse"
    /\ UNCHANGED <<holds, running, mcu, data, writer, going, lock, files, plan, rebooted, profile>>

RecordSelected ==
    /\ pc = "selected"
    /\ \/ Advance("ARMED_NEBULAOS") /\ pc' = "go"
       \/ AdvanceFails("ARMED_NEBULAOS") /\ pc' = "refuse"
    /\ UNCHANGED <<device, lock, plan, rebooted, profile>>

\* boot_id answers "" when the connection is lost, and then any answer counts as
\* new; a reboot command that is lost is not noticed; a call that hangs raises.
Go ==
    /\ pc = "go"
    /\ \/ /\ Reachable /\ NoFault
          /\ going' = TRUE /\ rebooted' = FALSE /\ pc' = "gone"
       \/ /\ Reachable /\ Fault("drop")
          /\ \/ going' = TRUE /\ rebooted' = TRUE /\ pc' = "gone"
             \/ going' \in BOOLEAN /\ rebooted' = FALSE /\ pc' \in {"gone", "refuse"}
       \/ /\ ~Reachable /\ NoFault
          /\ UNCHANGED going /\ rebooted' = TRUE /\ pc' = "gone"
    /\ UNCHANGED <<marker, holds, running, mcu, data, writer, lock, files, plan, profile>>

RecordGone ==
    /\ pc = "gone"
    /\ \/ Advance("REBOOTING_TO_NEBULAOS") /\ pc' = "close"
       \/ AdvanceFails("REBOOTING_TO_NEBULAOS") /\ pc' = "refuse"
    /\ UNCHANGED <<device, lock, plan, rebooted, profile>>

-----------------------------------------------------------------------------
(* The verdict, and the end of the process *)

\* What is left of an installer that ended: its lock, with a dead owner.
Ends ==
    /\ pc' = "off"
    /\ txn' = NoJournal
    /\ lock' = IF lock = "held" THEN "dead" ELSE lock
    /\ os' = "nebulaos" /\ home' = 2 /\ target' = 2 /\ rebooted' = FALSE
    /\ UNCHANGED want

NebulaReached ==
    /\ pc = "close" /\ Connects("nebulaos") /\ rebooted
    /\ \/ Advance("NEBULAOS_RUNNING") /\ pc' = "judge"
       \/ AdvanceFails("NEBULAOS_RUNNING") /\ pc' = "refuse"
    /\ UNCHANGED <<device, lock, want, home, target, rebooted, profile>>

\* Mutant: the motion controller is not part of the verdict.
Part1Blind == running = target /\ marker = target /\ holds[running] = want

\* A restore that was needed, or cannot be read, fails the verdict.
McuUntouched == mcu = "ours"
Part1 == running = target /\ marker = target /\ holds[running] = want /\ McuUntouched

\* A service that is down, or an updater that acted, fails what Part1 passes.
Judge ==
    /\ pc = "judge" /\ Reachable
    /\ \/ /\ \/ Part1 /\ journal' = Advanced(txn, "DONE") /\ NoFault
             \/ ~Part1 /\ journal' = Advanced(txn, "FAILED_NEEDS_ATTENTION") /\ NoFault
             \/ Part1 /\ journal' = Advanced(txn, "FAILED_NEEDS_ATTENTION") /\ Fault("drop")
          /\ Ends
       \/ /\ AdvanceFails(IF Part1 THEN "DONE" ELSE "FAILED_NEEDS_ATTENTION")
          /\ pc' = "refuse"
          /\ UNCHANGED <<lock, plan, rebooted>>
    /\ UNCHANGED <<device, profile>>

\* A check refuses or a call raises outside the armed window.
Open == {"connect", "choose", "lock", "write", "judge"}
Raises ==
    /\ \/ pc \in Open /\ Fault("drop")
       \/ pc \in Open \ {"connect"} /\ ~Reachable /\ NoFault
       \/ pc = "choose" /\ (running # home \/ ~Writable) /\ NoFault
       \/ pc = "lock" /\ os = "stock" /\ running # 1 /\ NoFault
       \/ pc = "write" /\ os = "nebulaos" /\ running # home /\ NoFault
    /\ lock' \in IF pc = "write" /\ Reachable /\ Writable THEN {"free", lock} ELSE {lock}
    /\ pc' = IF pc = "connect" THEN "unseen" ELSE "refuse"
    /\ UNCHANGED <<device, files, plan, rebooted, profile>>

\* Mutant: the wait has no deadline.
NeverTimesOut == pc \in {"tostock", "close"} /\ UNCHANGED vars

\* REBOOT_BACK_TIMEOUT: the system waited for is not there, or not in time.
TimesOut ==
    /\ \/ pc = "tostock" /\ ~(RunsCreality /\ rebooted) /\ ~going /\ NoFault
       \/ pc = "close" /\ ~(RunsNebula /\ rebooted) /\ ~going /\ NoFault
       \/ pc \in {"tostock", "close"} /\ Fault("drop")
    /\ pc' = "refuse"
    /\ UNCHANGED <<device, lock, files, plan, rebooted, profile>>

\* op_install's handler, whatever the installer refused or raised: it had not
\* looked at the printer yet ("unseen"), a disarm had failed ("undisarmed"), or not.
Refuse ==
    /\ pc \in {"refuse", "unseen", "undisarmed"}
    /\ \/ journal' = Advanced(txn, "FAILED_NEEDS_ATTENTION") /\ NoFault
       \/ UNCHANGED journal /\ Fault("journal")
    /\ Ends
    /\ UNCHANGED <<device, profile>>

\* The host process dies; the helper on the printer dies with it, or not.
Killed ==
    /\ pc # "off" /\ Fault("kill")
    /\ Ends
    /\ writer' \in {writer, NoWriter}
    /\ UNCHANGED <<marker, holds, running, mcu, data, going, journal, profile>>

-----------------------------------------------------------------------------
(* The agent's other operations that move or follow the marker or take the *)
(* lock.  Each holds the host lock, so it meets no installer.              *)

\* No install is open and NebulaOS answers.
MayAct == pc = "off" /\ Closed(journal) /\ RunsNebula

OpReboot ==
    /\ MayAct /\ "reboot" \in Commands
    /\ marker # 0
    /\ marker = running \/ "nebulaos" \in Classified(marker)
    /\ ~going /\ going' = TRUE
    /\ UNCHANGED <<marker, holds, running, mcu, data, writer, lock, files, pc, plan, rebooted,
                   profile, left>>

\* stage-stock-update arms the printer without a transaction of its own.
StageStockUpdate ==
    /\ MayAct /\ "stock-update" \in Commands
    /\ running = 2 /\ holds[1] = Creality /\ ~going /\ Writable
    /\ \/ marker' = 1 /\ going' = TRUE /\ NoFault
       \/ marker' \in {marker, 0, 2} /\ UNCHANGED going /\ Fault("marker")
       \/ marker' \in {marker, 1} /\ UNCHANGED going /\ Fault("drop")
    /\ UNCHANGED <<holds, running, mcu, data, writer, lock, files, pc, plan, rebooted, profile>>

\* A restart takes the flash lock under a name of its own, which no installer
\* takes over: what is left of one that was lost, killed or cut short.
OpRestart ==
    /\ MayAct /\ "restart" \in Commands
    /\ lock = "free" /\ Writable
    /\ lock' = "other"
    /\ \/ (Fault("drop") \/ Fault("kill")) /\ UNCHANGED <<device, rebooted>>
       \/ Fault("cut") /\ Boot
    /\ UNCHANGED <<files, pc, plan, profile>>

\* The repair runs where the boot left the partition read-only and nothing holds
\* it; only a clean second check reboots, whatever the marker selects.
RepairScript ==
    /\ data = "broken"
    /\ \/ data' \in {"broken", "closed"} /\ UNCHANGED going
       \/ data' = "repaired" /\ going' = TRUE

\* The call may be lost before the script starts, while it runs and after it.
DatafsRepair ==
    \/ RepairScript /\ NoFault
    \/ (RepairScript \/ UNCHANGED <<data, going>>) /\ Fault("drop")

OpDatafsRepair ==
    /\ MayAct /\ "datafs-repair" \in Commands
    /\ ~going /\ DatafsRepair
    /\ UNCHANGED <<marker, holds, running, mcu, writer, lock, files, pc, plan, rebooted, profile>>

Installer ==
    \/ Unreachable \/ FoundHome \/ FoundArmed \/ FoundElsewhere \/ FoundStock \/ Prechecked
    \/ Arm \/ RecordArmed \/ LeaveForStock \/ RecordLeaving \/ Disarm \/ DisarmMarker
    \/ StockReached \/ AcquireLock \/ StartWrite \/ Verify \/ WriteLost
    \/ SelectTarget \/ PutHome \/ RecordSelected \/ Go \/ RecordGone
    \/ NebulaReached \/ Judge \/ Raises \/ TimesOut \/ Refuse

Next ==
    \/ \E b \in Builds : Begin(b)
    \/ Installer \/ Killed
    \/ OpReboot \/ StageStockUpdate \/ OpRestart \/ OpDatafsRepair
    \/ WriterEnds \/ Reboots \/ PowerCut \/ RebootLost

Spec == Init /\ [][Next]_vars

\* Calls return or time out, the helper ends, a reboot that was started happens,
\* and the operator runs install again.
Fairness ==
    /\ WF_vars(Installer) /\ WF_vars(WriterEnds) /\ WF_vars(Reboots)
    /\ WF_vars(\E b \in Builds : Begin(b))
FairSpec == Spec /\ Fairness

TypeOK ==
    /\ marker \in 0..2 /\ running \in 0..2
    /\ holds \in [Slots -> Contents]
    /\ lock \in {"free", "held", "dead", "nameless", "other"}
    /\ data \in {"sound", "broken", "closed", "repaired"}
    /\ mcu \in {"ours", "stock", "restored"}
    /\ writer \in [slot : Slots, build : Builds] \cup {NoWriter}
    /\ going \in BOOLEAN /\ rebooted \in BOOLEAN /\ profile \in Profiles
    /\ journal \in Journals \cup {NoJournal} /\ txn \in Journals \cup {NoJournal}
    /\ want \in Builds /\ os \in {"nebulaos", "stock"}
    /\ home \in Slots /\ target \in Slots
    /\ left \in [FaultKinds -> Nat]

-----------------------------------------------------------------------------
(* Properties *)

\* Within one record, the journal (the file) stops calling a power cycle dangerous
\* only once NebulaOS runs and the marker does not select Creality
\* (journal.py, SAFE_PROVEN_STATES and mark_disarmed; DANGER_FIELD is sticky
\* through refusals).  Exception: an install of another build replaces the
\* record, danger and all; DangerSticky is about that.
DangerKept ==
    [][Dangerous(journal) /\ ~Dangerous(journal') =>
          journal'.key # journal.key \/ (RunsNebula /\ marker' # 0 /\ holds[marker'] # Creality)]_vars

\* The danger is remembered until the device is proven safe again, whatever is
\* installed next (the comment of DANGER_FIELD, journal.py).
DangerSticky ==
    [][Dangerous(journal) /\ ~Dangerous(journal') =>
          RunsNebula /\ marker' # 0 /\ holds[marker'] # Creality]_vars

\* The two slots and the marker behave as TwoSlots promises.
Slot == INSTANCE TwoSlots WITH
    Slots <- Slots, Systems <- Builds \cup {Creality}, Foreign <- {Creality},
    Broken <- Damaged, selected <- marker, content <- holds, runs <- running
SlotsKept == Slot!Spec

\* Every exit from the armed window disarms: whatever fails, an install that has
\* looked at the printer does not come back to its operator with NebulaOS running
\* and the marker on Creality, except after the reboot it saw begin and that never
\* came (_install_from_nebulaos, _disarm).  Exceptions: the disarm itself could
\* not write its marker, or the record that precedes it ("undisarmed"; a disk that
\* stays full does it), and the process was killed.
EveryExitDisarms ==
    [][pc \notin {"off", "unseen", "undisarmed"} /\ pc' = "off" /\ left'["kill"] = left["kill"]
          /\ txn.state # "REBOOTING_TO_STOCK" => ~Armed']_vars

\* While the journal says DONE, the next boot starts the build it names and the
\* motion controller runs our firmware: no later command invalidates the record
\* before it has replaced it (_close_forward, part1_verify, advance).
DoneHolds ==
    journal # NoJournal /\ journal.state = "DONE" =>
        marker # 0 /\ holds[marker] = journal.key /\ mcu = "ours"

\* The agent's waits are bounded: an install always comes back to its operator
\* (_wait_for_reboot, REBOOT_BACK_TIMEOUT, the timeouts of _run).
InstallEnds == pc # "off" ~> pc = "off"

=============================================================================
