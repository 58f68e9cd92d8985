------------------------- MODULE HostInstallProofs -------------------------
(***************************************************************************)
(* What an install over SSH promises, for any builds, any number of faults *)
(* of every kind and any number of installs: the refinement of TwoSlots,   *)
(* the danger in the journal and, where no vendor update is staged, the    *)
(* record of a finished install.                                           *)
(***************************************************************************)
EXTENDS HostInstall, TLAPS

\* Names for conditions, seen through everywhere.
USE DEF Connects, MayAct, AcquireFlashLock, Resume, McuUntouched

Disk ==
    /\ marker \in 0..2 /\ running \in 0..2
    /\ holds \in [Slots -> Contents]
    /\ writer \in [slot : Slots, build : Builds] \cup {NoWriter}
    /\ mcu \in {"ours", "stock", "restored"}
Signals ==
    /\ lock \in {"free", "held", "dead", "nameless", "other"}
    /\ data \in {"sound", "broken", "closed", "repaired"}
    /\ going \in BOOLEAN /\ rebooted \in BOOLEAN /\ profile \in Profiles
    /\ left \in [FaultKinds -> Nat]
Files == journal \in Journals \cup {NoJournal} /\ txn \in Journals \cup {NoJournal}
Aims ==
    /\ want \in Builds /\ os \in {"nebulaos", "stock"}
    /\ home \in Slots /\ target \in Slots

\* A helper writes a damaged slot that does not run, and one that is selected
\* only while Creality runs.
WriterInv ==
    writer # NoWriter =>
        /\ holds[writer.slot] = Damaged
        /\ writer.slot # running
        /\ marker = writer.slot => RunsCreality

\* Two slots with Creality are as they were found.
BothInv == holds[1] = Creality /\ holds[2] = Creality => running # 0 /\ marker = running

\* The lines of the path that arms Creality, and of every way back from it.
Backward == {"choose", "found", "undo", "arm", "arming", "armed", "leaving", "retreat",
             "putback", "gohome"}
\* The lines of a write.
Forward == {"lock", "write", "writing", "select"}

\* The system the install came from stays whole while the marker may go back to it.
HomeInv ==
    /\ pc \in Backward => os = "nebulaos" /\ holds[home] \in Builds
    /\ pc \in Forward /\ os = "nebulaos" => target # home /\ holds[home] \in Builds
    /\ pc \in {"lock", "write"} /\ os = "nebulaos" => marker = home

\* Through Creality only slot 2 is written, with Creality in slot 1.
StockInv ==
    /\ pc \in {"connect", "arm", "arming", "armed", "leaving", "tostock"} => target = 2
    /\ pc \in {"lock", "write"} /\ os = "stock" => target = 2
    /\ pc = "arm" => holds[1] = Creality
    /\ pc = "write" /\ os = "stock" =>
         holds[1] = Creality /\ (holds[2] = Creality => running = 1)

\* The lines after the marker was put on the new build.
Selected == {"selected", "go", "gone", "close", "judge"}

\* What was verified stays as it was verified.
TargetInv ==
    /\ pc \in Selected \cup {"select"} => writer = NoWriter /\ holds[target] = want
    /\ pc \in Selected => marker = target
    /\ pc = "judge" => os = "nebulaos"

SlotInv == WriterInv /\ BothInv /\ HomeInv /\ StockInv /\ TargetInv

\* The next boot is NebulaOS, and NebulaOS runs; or the very system that is selected.
Proven == RunsNebula /\ marker # 0 /\ holds[marker] \in Builds
Home == marker # 0 /\ running = marker /\ holds[marker] \in Builds
Early == {"off", "connect", "choose", "refuse", "unseen", "undisarmed"}

\* The file and the memory are of one transaction.
FileInv ==
    /\ pc # "off" => txn # NoJournal /\ journal # NoJournal /\ txn.key = want /\ journal.key = want
    /\ pc = "connect" => txn = journal

\* A file that is dangerous by its state alone was written where that was over.
StaleInv ==
    journal # NoJournal /\ journal.state \in StockWindow /\ ~journal.danger => Home /\ pc \in Early

\* The memory is ahead of a dangerous file only where the danger is over.
LagInv ==
    pc # "off" /\ Dangerous(journal) /\ ~txn.danger => Proven /\ pc \in Early

\* The marker is put back after the record of it.
UndoInv == pc \in {"undo", "putback"} => txn.state = "CLOSE_BACKWARD"

JournalInv == FileInv /\ UndoInv /\ StaleInv /\ LagInv

\* A finished install stays on the printer until its record is replaced.
DoneInv ==
    journal # NoJournal /\ journal.state = "DONE" =>
        Home /\ holds[marker] = journal.key /\ mcu = "ours" /\ pc \in Early

IInv == TypeOK /\ SlotInv /\ JournalInv

\* Where an install is while the marker selects Creality under NebulaOS: on the
\* armed path or the way back from it, or past the reboot it saw begin.
Window ==
    \/ pc \in {"off", "connect", "unseen", "found", "undo", "arming", "armed", "leaving",
               "tostock", "retreat", "putback", "undisarmed"}
    \/ pc = "refuse" /\ txn.state = "REBOOTING_TO_STOCK"

ArmedInv ==
    /\ pc = "tostock" => txn.state = "REBOOTING_TO_STOCK"
    /\ Armed => Window

\* Each step is one of these.
LEMMA Steps ==
  ASSUME Next
  PROVE  \/ \E b \in Builds : Begin(b)
         \/ Unreachable \/ FoundHome \/ FoundArmed \/ FoundElsewhere \/ FoundStock \/ Prechecked
         \/ Arm \/ RecordArmed \/ LeaveForStock \/ RecordLeaving \/ Disarm \/ DisarmMarker
         \/ StockReached \/ AcquireLock \/ StartWrite \/ Verify \/ WriteLost
         \/ SelectTarget \/ PutHome \/ RecordSelected \/ Go \/ RecordGone
         \/ NebulaReached \/ Judge \/ Raises \/ TimesOut \/ Refuse
         \/ Killed \/ OpReboot \/ OpRestart \/ OpDatafsRepair \/ StageStockUpdate
         \/ WriterEnds \/ Reboots \/ PowerCut \/ RebootLost
  BY DEF Next, Installer

LEMMA TypeParts == TypeOK <=> Disk /\ Signals /\ Files /\ Aims
  BY DEF TypeOK, Disk, Signals, Files, Aims

\* What Advanced makes of a transaction.
LEMMA AdvancedIs ==
  ASSUME NEW t \in Journals, NEW new \in States
  PROVE  /\ Advanced(t, new) \in Journals
         /\ Advanced(t, new) # NoJournal
         /\ Advanced(t, new).state = new
         /\ Advanced(t, new).key = t.key
         /\ Advanced(t, new).danger <=> (new \in StockWindow \/ (t.danger /\ new \notin SafeProven))
  BY JournalAssumption DEF Advanced, Journals

LEMMA Cleared ==
  ASSUME NEW t \in Journals
  PROVE  /\ [t EXCEPT !.danger = FALSE] \in Journals
         /\ [t EXCEPT !.danger = FALSE] # NoJournal
         /\ [t EXCEPT !.danger = FALSE].state = t.state
         /\ [t EXCEPT !.danger = FALSE].key = t.key
         /\ ~[t EXCEPT !.danger = FALSE].danger
  BY JournalAssumption DEF Journals

LEMMA FreshIs ==
  ASSUME NEW b \in Builds
  PROVE  /\ Fresh(b) \in Journals /\ Fresh(b) # NoJournal
         /\ Fresh(b).key = b /\ ~Fresh(b).danger /\ Fresh(b).state = "SAFE_NEBULAOS"
  <1>1. "SAFE_NEBULAOS" \in States BY DEF States, SafeProven
  <1>2. Fresh(b) \in Journals BY <1>1 DEF Fresh, Journals
  <1> QED BY <1>2, JournalAssumption DEF Fresh

\* A boot starts what the marker selects, if it is whole.
LEMMA Boots ==
  ASSUME Disk, Boot
  PROVE  /\ UNCHANGED <<marker, holds>> /\ writer' = NoWriter
         /\ going' = FALSE /\ rebooted' = TRUE
         /\ data' \in {"sound", "broken", "closed", "repaired"}
         /\ running' \in 0..2
         /\ running' # 0 => holds[running'] # Damaged
         /\ marker # 0 => running' = IF holds[marker] # Damaged THEN marker ELSE 0
         /\ mcu' \in {"ours", "stock", "restored"}
         /\ running' # 0 /\ holds[running'] \in Builds /\ mcu = "ours" => mcu' = "ours"
  <1>1. running' \in 0..2 /\ (running' # 0 => holds[running'] # Damaged)
    BY DEF Disk, Boot, BootsInto, Whole, Slots
  <1>2. marker # 0 => running' = IF holds[marker] # Damaged THEN marker ELSE 0
    BY DEF Disk, Boot, BootsInto, Whole, Slots
  <1>3. mcu' \in McuAfter(running') BY DEF Boot
  <1>4. mcu' \in {"ours", "stock", "restored"} BY <1>3 DEF Disk, McuAfter
  <1>5. running' # 0 /\ holds[running'] \in Builds /\ mcu = "ours" => mcu' = "ours"
    BY <1>3, ConstantsAssumption DEF McuAfter
  <1> QED BY <1>1, <1>2, <1>4, <1>5 DEF Boot

LEMMA Marks ==
  ASSUME Disk, NEW m \in Slots, Marked(m) \/ NotMarked(m) \/ MarkRaises(m)
  PROVE  /\ marker' \in {marker, 0, m} /\ marker' \in 0..2
         /\ UNCHANGED marker \/ Reachable
         /\ Marked(m) => marker' = m /\ Reachable
  BY DEF Disk, Marked, NotMarked, MarkRaises, Slots

\* The slots are told apart.
LEMMA Others == Slots = {1, 2} /\ Other(1) = 2 /\ Other(2) = 1
  BY DEF Slots, Other
-----------------------------------------------------------------------------
(* Types *)

\* What no action but these changes.
LEMMA DiskSteps ==
  ASSUME [Next]_vars
  PROVE  \/ UNCHANGED <<marker, holds, running, writer>>
         \/ Reboots \/ PowerCut \/ (AcquireLock /\ Boot) \/ (OpRestart /\ Boot) \/ WriterEnds
         \/ FoundElsewhere \/ Arm \/ DisarmMarker \/ SelectTarget \/ PutHome
         \/ StageStockUpdate \/ StartWrite \/ WriteLost \/ Killed
  <1>1. CASE UNCHANGED vars BY <1>1 DEF vars
  <1>2. ASSUME NEW b \in Builds, Begin(b) PROVE UNCHANGED <<marker, holds, running, writer>>
    BY <1>2 DEF Begin, device
  <1>3. CASE Unreachable \/ FoundHome \/ FoundArmed \/ FoundStock \/ Prechecked
    BY <1>3, Zenon DEF Unreachable, FoundHome, FoundArmed, FoundStock, Prechecked, device
  <1>4. CASE RecordArmed \/ LeaveForStock \/ RecordLeaving \/ Disarm \/ StockReached \/ Verify
    BY <1>4, Zenon DEF RecordArmed, LeaveForStock, RecordLeaving, Disarm, StockReached, Verify, device
  <1>5. CASE RecordSelected \/ Go \/ RecordGone \/ NebulaReached \/ Judge \/ Raises
    BY <1>5, Zenon DEF RecordSelected, Go, RecordGone, NebulaReached, Judge, Raises, device
  <1>6. CASE TimesOut \/ Refuse \/ OpReboot \/ OpRestart \/ OpDatafsRepair \/ RebootLost
    BY <1>6, Zenon DEF TimesOut, Refuse, OpReboot, OpRestart, OpDatafsRepair, RebootLost, device
  <1>7. CASE AcquireLock BY <1>7, Zenon DEF AcquireLock, device
  <1> QED BY <1>1, <1>2, <1>3, <1>4, <1>5, <1>6, <1>7, Steps

\* Only a boot moves the guard's firmware.
LEMMA McuSteps == ASSUME [Next]_vars PROVE UNCHANGED mcu \/ Boot
  <1>1. CASE UNCHANGED vars BY <1>1 DEF vars
  <1>2. ASSUME NEW b \in Builds, Begin(b) PROVE UNCHANGED mcu BY <1>2 DEF Begin, device
  <1>3. CASE Unreachable \/ FoundHome \/ FoundArmed \/ FoundElsewhere \/ FoundStock \/ Prechecked
             \/ Arm \/ RecordArmed \/ LeaveForStock \/ RecordLeaving \/ Disarm \/ DisarmMarker
    BY <1>3, Zenon DEF Unreachable, FoundHome, FoundArmed, FoundElsewhere, FoundStock, Prechecked,
                    Arm, RecordArmed, LeaveForStock, RecordLeaving, Disarm, DisarmMarker, device
  <1>4. CASE StockReached \/ AcquireLock \/ StartWrite \/ Verify \/ WriteLost
             \/ SelectTarget \/ PutHome \/ RecordSelected \/ Go \/ RecordGone
             \/ NebulaReached \/ Judge \/ Raises \/ TimesOut \/ Refuse
    BY <1>4, Zenon DEF StockReached, AcquireLock, StartWrite, Verify, WriteLost, SelectTarget,
                    PutHome, RecordSelected, Go, RecordGone, NebulaReached, Judge, Raises,
                    TimesOut, Refuse, device
  <1>5. CASE Killed \/ OpReboot \/ OpRestart \/ OpDatafsRepair \/ StageStockUpdate
             \/ WriterEnds \/ Reboots \/ PowerCut
             \/ RebootLost
    BY <1>5, Zenon DEF Killed, OpReboot, OpRestart, OpDatafsRepair, StageStockUpdate, WriterEnds,
                       Reboots, PowerCut,
                    RebootLost, device
  <1> QED BY <1>1, <1>2, <1>3, <1>4, <1>5, Steps

LEMMA DiskStep == ASSUME TypeOK, SlotInv, [Next]_vars PROVE Disk'
  <1>1. Disk /\ Aims BY TypeParts
  <1>2. CASE UNCHANGED <<marker, holds, running, writer, mcu>> BY <1>1, <1>2 DEF Disk
  <1>3. CASE Boot BY <1>1, <1>3, Boots DEF Disk
  <1>4. CASE WriterEnds BY <1>1, <1>4 DEF WriterEnds, Disk, Contents
  <1>5. CASE FoundElsewhere
    BY <1>1, <1>5 DEF FoundElsewhere, Disk, RunsNebula
  <1>6. CASE Arm \/ DisarmMarker \/ SelectTarget \/ PutHome
    BY <1>1, <1>6 DEF Arm, DisarmMarker, SelectTarget, PutHome, Marked, NotMarked, MarkRaises, Disk,
                      Aims, Slots
  <1>7. CASE StageStockUpdate BY <1>1, <1>7 DEF StageStockUpdate, Disk
  <1>8. CASE StartWrite
    BY <1>1, <1>8 DEF StartWrite, Disk, Aims, Contents, Plan
  <1>9. CASE WriteLost \/ Killed BY <1>1, <1>9 DEF WriteLost, Killed, Disk
  <1>10. UNCHANGED mcu \/ Boot BY McuSteps
  <1> QED BY <1>2, <1>3, <1>4, <1>5, <1>6, <1>7, <1>8, <1>9, <1>10, DiskSteps
          DEF Reboots, PowerCut
\* A fault is spent, or none.
LEMMA Spent ==
  ASSUME left \in [FaultKinds -> Nat], NEW k \in FaultKinds, Fault(k)
  PROVE  left' \in [FaultKinds -> Nat]
  BY DEF Fault

\* A step spends one fault or none.
LEMMA LeftIs == ASSUME [Next]_vars PROVE UNCHANGED left \/ \E k \in FaultKinds : Fault(k)
  <1> USE DEF FaultKinds, NoFault, Record, RecordFails, Advance, AdvanceFails
  <1>1. CASE UNCHANGED vars BY <1>1 DEF vars
  <1>2. ASSUME NEW b \in Builds, Begin(b) PROVE UNCHANGED left BY <1>2 DEF Begin
  <1>3. CASE Unreachable \/ FoundHome \/ FoundArmed \/ FoundElsewhere \/ FoundStock \/ Prechecked
    BY <1>3 DEF Unreachable, FoundHome, FoundArmed, FoundElsewhere, FoundStock, Prechecked
  <1>4. CASE Arm \/ RecordArmed \/ LeaveForStock \/ RecordLeaving \/ Disarm \/ DisarmMarker
    BY <1>4 DEF Arm, RecordArmed, LeaveForStock, RecordLeaving, Disarm, DisarmMarker,
                Marked, NotMarked, MarkRaises
  <1>5. CASE StockReached \/ AcquireLock \/ StartWrite \/ Verify \/ WriteLost \/ Raises
    BY <1>5 DEF StockReached, AcquireLock, StartWrite, Verify, WriteLost, Raises
  <1>6. CASE SelectTarget \/ PutHome \/ RecordSelected \/ Go \/ RecordGone \/ NebulaReached
    BY <1>6 DEF SelectTarget, PutHome, RecordSelected, Go, RecordGone, NebulaReached,
                Marked, NotMarked, MarkRaises
  <1>7. CASE Judge \/ TimesOut \/ Refuse \/ Killed \/ OpReboot \/ StageStockUpdate
    BY <1>7 DEF Judge, TimesOut, Refuse, Killed, OpReboot, StageStockUpdate
  <1>8. CASE WriterEnds \/ Reboots \/ PowerCut \/ RebootLost
    BY <1>8 DEF WriterEnds, Reboots, PowerCut, RebootLost
  <1>9. CASE OpRestart \/ OpDatafsRepair
    BY <1>9 DEF OpRestart, OpDatafsRepair, DatafsRepair
  <1> QED BY <1>1, <1>2, <1>3, <1>4, <1>5, <1>6, <1>7, <1>8, <1>9, Steps

LEMMA LeftStep == ASSUME Signals, [Next]_vars PROVE left' \in [FaultKinds -> Nat]
  BY LeftIs, Spent DEF Signals

LEMMA SignalsStep == ASSUME TypeOK, [Next]_vars PROVE Signals'
  <1>0. Signals /\ Disk BY TypeParts
  <1>1. lock' \in {"free", "held", "dead", "nameless", "other"} /\ going' \in BOOLEAN
          /\ data' \in {"sound", "broken", "closed", "repaired"}
          /\ rebooted' \in BOOLEAN /\ profile' = profile
    <2> USE <1>0 DEF Signals, Ends, Released, device
    <2>1. CASE UNCHANGED vars BY <2>1 DEF vars
    <2>2. ASSUME NEW b \in Builds, Begin(b)
          PROVE UNCHANGED <<lock, data, going, rebooted, profile>> BY <2>2 DEF Begin
    <2>3. CASE Unreachable \/ FoundHome \/ FoundArmed \/ FoundElsewhere \/ FoundStock \/ Prechecked
      BY <2>3 DEF Unreachable, FoundHome, FoundArmed, FoundElsewhere, FoundStock, Prechecked
    <2>4. CASE Arm \/ RecordArmed \/ LeaveForStock \/ RecordLeaving \/ Disarm \/ DisarmMarker
      BY <2>4 DEF Arm, RecordArmed, LeaveForStock, RecordLeaving, Disarm, DisarmMarker
    <2>5. CASE StockReached \/ StartWrite \/ Verify \/ WriteLost \/ Raises
      BY <2>5 DEF StockReached, StartWrite, Verify, WriteLost, Raises
    <2>6. CASE AcquireLock BY <2>6, Boots DEF AcquireLock
    <2>7. CASE SelectTarget \/ PutHome \/ RecordSelected \/ Go \/ RecordGone \/ NebulaReached
      BY <2>7 DEF SelectTarget, PutHome, RecordSelected, Go, RecordGone, NebulaReached
    <2>8. CASE Judge \/ TimesOut \/ Refuse \/ Killed \/ OpReboot \/ StageStockUpdate
      BY ZenonT(60), <2>8 DEF Judge, TimesOut, Refuse, Killed, OpReboot, StageStockUpdate
    <2>9. CASE WriterEnds \/ Reboots \/ PowerCut \/ RebootLost
      BY <2>9, Boots DEF WriterEnds, Reboots, PowerCut, RebootLost
    <2>10. CASE OpRestart BY <2>10, Boots DEF OpRestart
    <2>11. CASE OpDatafsRepair BY <2>11 DEF OpDatafsRepair, DatafsRepair, RepairScript
    <2> QED BY <2>1, <2>2, <2>3, <2>4, <2>5, <2>6, <2>7, <2>8, <2>9, <2>10, <2>11, Steps
  <1> QED BY <1>0, <1>1, LeftStep DEF Signals

LEMMA AimsStep == ASSUME TypeOK, [Next]_vars PROVE Aims'
  <1> USE TypeParts DEF Aims, Slots, Ends, RunsNebula, Other, plan
  <1>1. CASE UNCHANGED vars BY <1>1 DEF vars
  <1>2. ASSUME NEW b \in Builds, Begin(b) PROVE Aims' BY <1>2 DEF Begin
  <1>3. CASE FoundHome \/ FoundArmed \/ FoundElsewhere
    BY <1>3 DEF FoundHome, FoundArmed, FoundElsewhere, Disk
  <1>4. CASE Unreachable \/ FoundStock \/ Prechecked
    BY <1>4 DEF Unreachable, FoundStock, Prechecked
  <1>5. CASE Arm \/ RecordArmed \/ LeaveForStock \/ RecordLeaving \/ Disarm \/ DisarmMarker
    BY <1>5 DEF Arm, RecordArmed, LeaveForStock, RecordLeaving, Disarm, DisarmMarker
  <1>6. CASE StockReached \/ AcquireLock \/ StartWrite \/ Verify \/ WriteLost \/ Raises
    BY <1>6 DEF StockReached, AcquireLock, StartWrite, Verify, WriteLost, Raises
  <1>7. CASE SelectTarget \/ PutHome \/ RecordSelected \/ Go \/ RecordGone \/ NebulaReached
    BY <1>7 DEF SelectTarget, PutHome, RecordSelected, Go, RecordGone, NebulaReached
  <1>8. CASE Judge \/ TimesOut \/ Refuse \/ Killed \/ OpReboot \/ OpRestart \/ OpDatafsRepair
             \/ StageStockUpdate
    BY <1>8 DEF Judge, TimesOut, Refuse, Killed, OpReboot, OpRestart, OpDatafsRepair,
                StageStockUpdate
  <1>9. CASE WriterEnds \/ Reboots \/ PowerCut \/ RebootLost
    BY <1>9 DEF WriterEnds, Reboots, PowerCut, RebootLost
  <1> QED BY <1>1, <1>2, <1>3, <1>4, <1>5, <1>6, <1>7, <1>8, <1>9, Steps
\* What a record leaves in the memory and in the file.
LEMMA Advances ==
  ASSUME txn \in Journals, NEW new \in States, Advance(new) \/ AdvanceFails(new)
  PROVE  /\ txn' \in Journals /\ txn' # NoJournal
         /\ txn'.state = new /\ txn'.key = txn.key
         /\ txn'.danger <=> (new \in StockWindow \/ (txn.danger /\ new \notin SafeProven))
         /\ Advance(new) => journal' = txn'
         /\ AdvanceFails(new) => journal' = journal
  BY AdvancedIs DEF Advance, AdvanceFails, Record, RecordFails

\* The states an install advances to.
LEMMA AllStates ==
  {"PRECHECKED", "ARMED_STOCK", "REBOOTING_TO_STOCK", "STOCK_RUNNING", "FLASHING", "SLOT_FLASHING",
   "FLASH_VERIFIED", "SLOT_FLASH_VERIFIED", "ARMED_NEBULAOS", "REBOOTING_TO_NEBULAOS",
   "NEBULAOS_RUNNING", "CLOSE_BACKWARD", "DONE", "FAILED_NEEDS_ATTENTION"} \subseteq States
  BY DEF States, StockWindow, SafeProven, Terminal

\* The steps that write the memory or the file.
LEMMA FileActions ==
  ASSUME [Next]_vars
  PROVE  \/ UNCHANGED files
         \/ \E b \in Builds : Begin(b)
         \/ FoundArmed \/ Prechecked \/ RecordArmed \/ RecordLeaving \/ Disarm
         \/ StockReached \/ StartWrite \/ Verify \/ RecordSelected \/ RecordGone \/ NebulaReached
         \/ FoundElsewhere \/ DisarmMarker \/ FoundStock \/ Judge \/ Refuse \/ Killed
  <1>1. CASE UNCHANGED vars BY <1>1 DEF vars, files
  <1>2. CASE Unreachable \/ FoundHome \/ Arm \/ LeaveForStock \/ AcquireLock \/ WriteLost
    BY <1>2, Zenon DEF Unreachable, FoundHome, Arm, LeaveForStock, AcquireLock, WriteLost
  <1>3. CASE SelectTarget \/ PutHome \/ Go \/ Raises \/ TimesOut
    BY <1>3, Zenon DEF SelectTarget, PutHome, Go, Raises, TimesOut
  <1>4. CASE OpReboot \/ OpRestart \/ OpDatafsRepair \/ StageStockUpdate \/ WriterEnds
             \/ Reboots \/ PowerCut \/ RebootLost
    BY <1>4, Zenon DEF OpReboot, OpRestart, OpDatafsRepair, StageStockUpdate, WriterEnds,
                       Reboots, PowerCut, RebootLost
  <1> QED BY <1>1, <1>2, <1>3, <1>4, Steps

\* The states they record.
LEMMA FileSteps ==
  ASSUME [Next]_vars
  PROVE  \/ UNCHANGED files
         \/ \E b \in Builds : Begin(b)
         \/ /\ pc # "off"
            /\ \E new \in {"PRECHECKED", "ARMED_STOCK", "REBOOTING_TO_STOCK", "STOCK_RUNNING",
                           "FLASHING", "SLOT_FLASHING", "FLASH_VERIFIED", "SLOT_FLASH_VERIFIED",
                           "ARMED_NEBULAOS", "REBOOTING_TO_NEBULAOS", "NEBULAOS_RUNNING",
                           "CLOSE_BACKWARD"} : Advance(new) \/ AdvanceFails(new)
         \/ FoundElsewhere \/ DisarmMarker \/ FoundStock \/ Judge \/ Refuse \/ Killed
  <1>1. CASE FoundArmed \/ Prechecked BY <1>1 DEF FoundArmed, Prechecked
  <1>2. CASE RecordArmed \/ RecordLeaving \/ Disarm BY <1>2 DEF RecordArmed, RecordLeaving, Disarm
  <1>3. CASE StockReached \/ StartWrite \/ Verify BY <1>3 DEF StockReached, StartWrite, Verify
  <1>4. CASE RecordSelected \/ RecordGone \/ NebulaReached
    BY <1>4 DEF RecordSelected, RecordGone, NebulaReached
  <1> QED BY <1>1, <1>2, <1>3, <1>4, FileActions

LEMMA FilesStep == ASSUME TypeOK, JournalInv, [Next]_vars PROVE Files'
  <1>1. Files /\ Aims BY TypeParts
  <1>2. CASE UNCHANGED files BY <1>1, <1>2 DEF files, Files
  <1>3. ASSUME NEW b \in Builds, Begin(b) PROVE Files'
    BY <1>1, <1>3, FreshIs DEF Begin, Matches, Record, Files
  <1>4. CASE pc # "off"
    <2>1. txn \in Journals /\ journal \in Journals BY <1>1, <1>4 DEF JournalInv, FileInv, Files
    <2>2. ASSUME NEW new \in States, Advance(new) \/ AdvanceFails(new) PROVE Files'
      BY <1>1, <2>1, <2>2, Advances DEF Files
    <2>3. CASE FoundElsewhere \/ DisarmMarker
      <3>1. [txn EXCEPT !.danger = FALSE] \in Journals BY <2>1, Cleared
      <3>2. txn' \in {txn, [txn EXCEPT !.danger = FALSE]} /\ journal' \in {journal, txn'}
        BY <2>3 DEF FoundElsewhere, DisarmMarker, files
      <3> QED BY <1>1, <2>1, <3>1, <3>2 DEF Files
    <2>4. CASE FoundStock
      <3>1. Advanced(txn, "STOCK_RUNNING") \in Journals BY <2>1, AdvancedIs, AllStates
      <3> QED BY <1>1, <2>1, <2>2, <2>4, <3>1, AllStates DEF FoundStock, files, Files
    <2>5. CASE Judge \/ Refuse \/ Killed
      <3>1. /\ Advanced(txn, "DONE") \in Journals
            /\ Advanced(txn, "FAILED_NEEDS_ATTENTION") \in Journals
        BY <2>1, AdvancedIs, AllStates
      <3>2. txn' \in {NoJournal, txn, Advanced(txn, "DONE"), Advanced(txn, "FAILED_NEEDS_ATTENTION")}
            /\ journal' \in {journal, Advanced(txn, "DONE"), Advanced(txn, "FAILED_NEEDS_ATTENTION")}
        BY <2>5 DEF Judge, Refuse, Killed, Ends, AdvanceFails, RecordFails
      <3> QED BY <1>1, <2>1, <3>1, <3>2 DEF Files
    <2> QED BY <1>2, <1>3, <2>2, <2>3, <2>4, <2>5, FileSteps, AllStates
  <1>5. FoundElsewhere \/ DisarmMarker \/ FoundStock \/ Judge \/ Refuse \/ Killed => pc # "off"
    BY DEF FoundElsewhere, DisarmMarker, FoundStock, Judge, Refuse, Killed
  <1> QED BY <1>2, <1>3, <1>4, <1>5, FileSteps
-----------------------------------------------------------------------------
(* The slots *)

\* A marker write goes to a slot that is whole, by NebulaOS or to a verified slot.
LEMMA MarkSteps ==
  ASSUME TypeOK, SlotInv,
         FoundElsewhere \/ Arm \/ DisarmMarker \/ SelectTarget \/ PutHome \/ StageStockUpdate
  PROVE  /\ UNCHANGED <<holds, running, writer>>
         /\ marker' # marker /\ marker' # 0 => holds[marker'] # Damaged
         /\ marker' # marker =>
              RunsNebula \/ (RunsCreality /\ marker' \in {0, target} /\ holds[target] \in Builds)
  <1> USE TypeParts, ConstantsAssumption DEF Disk, Aims, Slots, SlotInv
  <1>1. CASE FoundElsewhere BY <1>1 DEF FoundElsewhere, RunsNebula
  <1>2. CASE Arm
    BY <1>2, Marks DEF Arm, StockInv, HomeInv, Backward, Reachable
  <1>3. CASE DisarmMarker
    BY <1>3 DEF DisarmMarker, HomeInv, Backward, Reachable, NotMarked, MarkRaises
  <1>4. CASE SelectTarget
    BY <1>4, Marks DEF SelectTarget, TargetInv, Selected, Reachable
  <1>5. CASE PutHome
    BY <1>5, Marks DEF PutHome, HomeInv, Backward, Reachable
  <1>6. CASE StageStockUpdate
    BY <1>6 DEF StageStockUpdate, RunsNebula
  <1> QED BY <1>1, <1>2, <1>3, <1>4, <1>5, <1>6

LEMMA WriterStep == ASSUME TypeOK, SlotInv, [Next]_vars PROVE WriterInv'
  <1> USE TypeParts DEF SlotInv
  <1>1. CASE UNCHANGED <<marker, holds, running, writer>>
    BY <1>1 DEF WriterInv, RunsCreality
  <1>2. CASE Boot BY <1>2, Boots DEF WriterInv
  <1>3. CASE WriterEnds BY <1>3 DEF WriterEnds, WriterInv
  <1>4. CASE FoundElsewhere \/ Arm \/ DisarmMarker \/ SelectTarget \/ PutHome \/ StageStockUpdate
    BY <1>4, MarkSteps DEF WriterInv, RunsCreality, Disk, Slots
  <1>5. CASE StartWrite
    <2>1. target \in Slots /\ want \in Builds /\ os \in {"nebulaos", "stock"} BY DEF Aims
    <2>2. target # running /\ (marker = target => RunsCreality)
      <3>1. CASE os = "nebulaos"
        BY <1>5, <3>1 DEF StartWrite, HomeInv, Forward
      <3>2. CASE os = "stock"
        BY <1>5, <3>2, ConstantsAssumption DEF StartWrite, StockInv, Reachable, RunsCreality
      <3> QED BY <2>1, <3>1, <3>2
    <2>3. CASE UNCHANGED <<holds, writer>>
      BY <1>5, <2>3 DEF StartWrite, WriterInv, RunsCreality
    <2>4. CASE holds' = [holds EXCEPT ![target] = Damaged] /\ writer' = Plan
      <3>1. writer'.slot = target BY <2>4 DEF Plan
      <3>2. marker' = marker /\ running' = running BY <1>5 DEF StartWrite
      <3> QED BY <2>1, <2>2, <2>4, <3>1, <3>2 DEF WriterInv, RunsCreality, Disk
    <2> QED BY <1>5, <2>3, <2>4 DEF StartWrite
  <1>6. CASE WriteLost \/ Killed
    BY <1>6 DEF WriteLost, Killed, WriterInv, RunsCreality
  <1> QED BY <1>1, <1>2, <1>3, <1>4, <1>5, <1>6, DiskSteps DEF Reboots, PowerCut

LEMMA BothStep == ASSUME TypeOK, SlotInv, [Next]_vars PROVE BothInv'
  <1> USE TypeParts, ConstantsAssumption DEF SlotInv, Disk, Aims, Slots
  <1>1. CASE UNCHANGED <<marker, holds, running, writer>> BY <1>1 DEF BothInv
  <1>2. CASE Boot
    <2>1. /\ UNCHANGED <<marker, holds>>
          /\ marker # 0 => running' = IF holds[marker] # Damaged THEN marker ELSE 0
      BY <1>2, Boots
    <2> QED BY <2>1 DEF BothInv
  <1>3. CASE WriterEnds
    BY <1>3 DEF WriterEnds, WriterInv, BothInv
  <1>4. CASE FoundElsewhere \/ Arm \/ DisarmMarker \/ SelectTarget \/ PutHome \/ StageStockUpdate
    BY <1>4, MarkSteps DEF BothInv, RunsNebula
  <1>5. CASE StartWrite BY <1>5 DEF StartWrite, BothInv
  <1>6. CASE WriteLost \/ Killed BY <1>6 DEF WriteLost, Killed, BothInv
  <1> QED BY <1>1, <1>2, <1>3, <1>4, <1>5, <1>6, DiskSteps DEF Reboots, PowerCut
LEMMA HomeStep == ASSUME TypeOK, SlotInv, [Next]_vars PROVE HomeInv'
  <1> USE TypeParts, ConstantsAssumption DEF SlotInv
  <1> USE DEF HomeInv, Backward, Forward
  <1>1. CASE UNCHANGED vars BY <1>1 DEF vars
  <1>2. CASE Unreachable BY <1>2 DEF Unreachable
  <1>3. ASSUME NEW b \in Builds, Begin(b) PROVE HomeInv' BY <1>3 DEF Begin
  <1>4. CASE FoundHome \/ FoundArmed \/ FoundElsewhere
    BY <1>4 DEF FoundHome, FoundArmed, FoundElsewhere, RunsNebula, device
  <1>5. CASE FoundStock BY <1>5 DEF FoundStock, device
  <1>6. CASE Prechecked
    BY <1>6, Others DEF Prechecked, WayBack, device, Aims
  <1>7. CASE Arm \/ RecordArmed \/ LeaveForStock \/ RecordLeaving
    BY <1>7 DEF Arm, RecordArmed, LeaveForStock, RecordLeaving, device, plan
  <1>8. CASE Disarm \/ DisarmMarker BY <1>8 DEF Disarm, DisarmMarker, device, plan
  <1>9. CASE StockReached BY <1>9 DEF StockReached, device
  <1>10. CASE AcquireLock
    BY <1>10, Boots DEF AcquireLock, device, plan
  <1>11. CASE StartWrite BY <1>11 DEF StartWrite, plan, Disk, Aims
  <1>12. CASE Verify \/ WriteLost BY <1>12 DEF Verify, WriteLost, device, plan
  <1>13. CASE SelectTarget \/ PutHome BY <1>13 DEF SelectTarget, PutHome, plan, Aims
  <1>14. CASE RecordSelected \/ Go \/ RecordGone \/ NebulaReached
    BY <1>14 DEF RecordSelected, Go, RecordGone, NebulaReached, device, plan
  <1>15. CASE Judge \/ Raises \/ TimesOut \/ Refuse \/ Killed
    BY <1>15 DEF Judge, Raises, TimesOut, Refuse, Killed, Ends, device, plan
  <1>16. CASE OpReboot \/ OpRestart \/ OpDatafsRepair \/ StageStockUpdate BY <1>16 DEF OpReboot,
      OpRestart, OpDatafsRepair, StageStockUpdate, plan
  <1>17. CASE WriterEnds
    <2>1. \A s \in Slots : holds[s] \in Builds => holds'[s] \in Builds
      BY <1>17 DEF WriterEnds, Disk
    <2> QED BY <1>17, <2>1 DEF WriterEnds, plan, Aims
  <1>18. CASE Reboots \/ PowerCut BY <1>18, Boots DEF Reboots, PowerCut, plan
  <1>19. CASE RebootLost BY <1>19 DEF RebootLost, plan
  <1> QED BY <1>1, <1>2, <1>3, <1>4, <1>5, <1>6, <1>7, <1>8, <1>9, <1>10, <1>11, <1>12, <1>13,
             <1>14, <1>15, <1>16, <1>17, <1>18, <1>19, Steps

LEMMA StockStep == ASSUME TypeOK, SlotInv, [Next]_vars PROVE StockInv'
  <1> USE TypeParts, ConstantsAssumption DEF SlotInv
  <1> USE DEF StockInv
  <1>1. CASE UNCHANGED vars BY <1>1 DEF vars
  <1>2. CASE Unreachable BY <1>2 DEF Unreachable
  <1>3. ASSUME NEW b \in Builds, Begin(b) PROVE StockInv' BY <1>3 DEF Begin, device
  <1>4. CASE FoundHome \/ FoundArmed \/ FoundElsewhere
    BY <1>4 DEF FoundHome, FoundArmed, FoundElsewhere, device
  <1>5. CASE FoundStock BY <1>5 DEF FoundStock, device
  <1>6. CASE Prechecked BY <1>6 DEF Prechecked, WayOut, HomeInv, Backward, device
  <1>7. CASE Arm \/ RecordArmed \/ LeaveForStock \/ RecordLeaving
    BY <1>7 DEF Arm, RecordArmed, LeaveForStock, RecordLeaving, device, plan
  <1>8. CASE Disarm \/ DisarmMarker BY <1>8 DEF Disarm, DisarmMarker, device, plan
  <1>9. CASE StockReached BY <1>9 DEF StockReached, device
  <1>10. CASE AcquireLock
    BY <1>10, Boots DEF AcquireLock, device, plan, Root1, Reachable, RunsCreality
  <1>11. CASE StartWrite BY <1>11 DEF StartWrite, plan
  <1>12. CASE Verify \/ WriteLost BY <1>12 DEF Verify, WriteLost, device, plan
  <1>13. CASE SelectTarget \/ PutHome BY <1>13 DEF SelectTarget, PutHome, plan
  <1>14. CASE RecordSelected \/ Go \/ RecordGone \/ NebulaReached
    BY <1>14 DEF RecordSelected, Go, RecordGone, NebulaReached, device, plan
  <1>15. CASE Judge \/ Raises \/ TimesOut \/ Refuse \/ Killed
    BY <1>15 DEF Judge, Raises, TimesOut, Refuse, Killed, Ends, device, plan
  <1>16. CASE OpReboot \/ OpRestart \/ OpDatafsRepair \/ StageStockUpdate BY <1>16 DEF OpReboot,
      OpRestart, OpDatafsRepair, StageStockUpdate, plan
  <1>17. CASE WriterEnds BY <1>17 DEF WriterEnds, plan, Disk, WriterInv, Slots
  <1>18. CASE Reboots \/ PowerCut
    <2>1. /\ UNCHANGED <<marker, holds>> /\ UNCHANGED <<pc, plan>>
          /\ marker # 0 => running' = IF holds[marker] # Damaged THEN marker ELSE 0
      BY <1>18, Boots DEF Reboots, PowerCut
    <2> QED BY <2>1 DEF plan, BothInv
  <1>19. CASE RebootLost BY <1>19 DEF RebootLost, plan
  <1> QED BY <1>1, <1>2, <1>3, <1>4, <1>5, <1>6, <1>7, <1>8, <1>9, <1>10, <1>11, <1>12, <1>13,
             <1>14, <1>15, <1>16, <1>17, <1>18, <1>19, Steps

LEMMA TargetStep == ASSUME TypeOK, SlotInv, [Next]_vars PROVE TargetInv'
  <1> USE TypeParts, ConstantsAssumption DEF SlotInv
  <1> USE DEF TargetInv, Selected
  <1>1. CASE UNCHANGED vars BY <1>1 DEF vars
  <1>2. CASE Unreachable BY <1>2 DEF Unreachable
  <1>3. ASSUME NEW b \in Builds, Begin(b) PROVE TargetInv' BY <1>3 DEF Begin, device
  <1>4. CASE FoundHome \/ FoundArmed \/ FoundElsewhere
    BY <1>4 DEF FoundHome, FoundArmed, FoundElsewhere, device
  <1>5. CASE FoundStock BY <1>5 DEF FoundStock, device
  <1>6. CASE Prechecked BY <1>6 DEF Prechecked, device
  <1>7. CASE Arm \/ RecordArmed \/ LeaveForStock \/ RecordLeaving
    BY <1>7 DEF Arm, RecordArmed, LeaveForStock, RecordLeaving, device, plan
  <1>8. CASE Disarm \/ DisarmMarker BY <1>8 DEF Disarm, DisarmMarker, device, plan
  <1>9. CASE StockReached BY <1>9 DEF StockReached, device
  <1>10. CASE AcquireLock BY <1>10, Boots DEF AcquireLock, device, plan
  <1>11. CASE StartWrite BY <1>11 DEF StartWrite, plan
  <1>12. CASE Verify \/ WriteLost BY <1>12 DEF Verify, WriteLost, device, plan, ReadsBack
  <1>13. CASE SelectTarget \/ PutHome
    BY <1>13, Marks DEF SelectTarget, PutHome, plan, Aims
  <1>14. CASE RecordSelected \/ Go \/ RecordGone \/ NebulaReached
    BY <1>14 DEF RecordSelected, Go, RecordGone, NebulaReached, device, plan
  <1>15. CASE Judge \/ Raises \/ TimesOut \/ Refuse \/ Killed
    BY <1>15 DEF Judge, Raises, TimesOut, Refuse, Killed, Ends, device, plan, Open
  <1>16. CASE OpReboot \/ OpRestart \/ OpDatafsRepair \/ StageStockUpdate BY <1>16 DEF OpReboot,
      OpRestart, OpDatafsRepair, StageStockUpdate, plan
  <1>17. CASE WriterEnds BY <1>17 DEF WriterEnds, plan
  <1>18. CASE Reboots \/ PowerCut BY <1>18, Boots DEF Reboots, PowerCut, plan
  <1>19. CASE RebootLost BY <1>19 DEF RebootLost, plan
  <1> QED BY <1>1, <1>2, <1>3, <1>4, <1>5, <1>6, <1>7, <1>8, <1>9, <1>10, <1>11, <1>12, <1>13,
             <1>14, <1>15, <1>16, <1>17, <1>18, <1>19, Steps
LEMMA SlotsStep == ASSUME TypeOK, SlotInv, [Next]_vars PROVE SlotInv'
  BY WriterStep, BothStep, HomeStep, StockStep, TargetStep DEF SlotInv

-----------------------------------------------------------------------------
(* The refinement of TwoSlots *)

\* Every step of an install is a step of the two slots or leaves them alone.
LEMMA StepIsKept ==
  ASSUME TypeOK, SlotInv, [Next]_vars
  PROVE  [Slot!Next]_(Slot!vars)
  <1> USE TypeParts, ConstantsAssumption DEF SlotInv, Slot!vars
  <1>1. CASE UNCHANGED <<marker, holds, running, writer>> BY <1>1
  <1>2. CASE Boot
    <2>1. running' \in BootsInto /\ UNCHANGED <<marker, holds>> BY <1>2 DEF Boot
    <2> QED BY <2>1 DEF BootsInto, Whole, Slot!Next, Slot!Boot
  <1>3. CASE WriterEnds
    <2>1. CASE UNCHANGED holds BY <1>3, <2>1 DEF WriterEnds
    <2>2. CASE holds' = [holds EXCEPT ![writer.slot] = writer.build]
      <3>1. writer.slot \in Slots /\ writer.build \in Builds BY <1>3 DEF WriterEnds, Disk
      <3>2. Slot!Write(writer.slot, writer.build)
        BY <1>3, <2>2 DEF WriterEnds, WriterInv, RunsCreality, Slot!Write
      <3> QED BY <3>1, <3>2 DEF Slot!Next
    <2> QED BY <1>3, <2>1, <2>2 DEF WriterEnds
  <1>4. CASE FoundElsewhere \/ Arm \/ DisarmMarker \/ SelectTarget \/ PutHome \/ StageStockUpdate
    <2>1. /\ UNCHANGED <<holds, running>>
          /\ marker' # marker /\ marker' # 0 => holds[marker'] # Damaged
      BY <1>4, MarkSteps
    <2>2. marker' \in 0..2 BY DiskStep DEF Disk
    <2>3. CASE marker' = marker BY <2>1, <2>3
    <2>4. CASE marker' = 0 BY <2>1, <2>4 DEF Slot!Next, Slot!Tear
    <2>5. CASE marker' # marker /\ marker' # 0
      <3>1. marker' \in Slots BY <2>2, <2>5 DEF Slots
      <3>2. Slot!Select(marker') BY <2>1, <2>5 DEF Slot!Select
      <3> QED BY <3>1, <3>2 DEF Slot!Next
    <2> QED BY <2>3, <2>4, <2>5
  <1>5. CASE StartWrite
    <2>1. CASE UNCHANGED holds BY <1>5, <2>1 DEF StartWrite
    <2>2. CASE holds' = [holds EXCEPT ![target] = Damaged] /\ writer' = Plan
      <3>1. target \in Slots /\ want \in Builds BY DEF Aims
      <3>2. writer' # NoWriter BY <2>2, <3>1 DEF Plan
      <3>3. UNCHANGED <<marker, running>> BY <1>5 DEF StartWrite
      <3>4. writer'.slot = target BY <2>2 DEF Plan
      <3>5. target # running /\ (marker = target => RunsCreality')
        BY <3>2, <3>3, <3>4, WriterStep DEF WriterInv
      <3>6. Slot!Write(target, Damaged)
        BY <2>2, <3>3, <3>5 DEF Slot!Write, RunsCreality, Disk
      <3> QED BY <3>1, <3>6 DEF Slot!Next
    <2> QED BY <1>5, <2>1, <2>2 DEF StartWrite
  <1>6. CASE WriteLost \/ Killed BY <1>6 DEF WriteLost, Killed
  <1> QED BY <1>1, <1>2, <1>3, <1>4, <1>5, <1>6, DiskSteps DEF Reboots, PowerCut
-----------------------------------------------------------------------------
(* The journal *)

LEMMA FileStep == ASSUME TypeOK, JournalInv, [Next]_vars PROVE FileInv'
  <1>1. Files /\ Aims BY TypeParts
  <1>2. pc # "off" => txn \in Journals /\ journal \in Journals /\ txn.key = want /\ journal.key = want
    BY <1>1 DEF JournalInv, FileInv, Files
  <1>3. (pc' = "off") \/ (pc' = pc /\ UNCHANGED <<files, want>>)
          \/ (\E b \in Builds : Begin(b)) \/ (pc # "off" /\ pc' # "connect" /\ UNCHANGED want)
    <2>1. CASE UNCHANGED vars BY <2>1 DEF vars, files
    <2>2. CASE OpReboot \/ OpRestart \/ OpDatafsRepair \/ StageStockUpdate \/ WriterEnds
               \/ Reboots \/ PowerCut \/ RebootLost
      BY <2>2 DEF OpReboot, OpRestart, OpDatafsRepair, StageStockUpdate, WriterEnds, Reboots,
                  PowerCut, RebootLost, plan
    <2>3. CASE Unreachable \/ FoundHome \/ FoundArmed \/ FoundElsewhere \/ FoundStock \/ Prechecked
      BY <2>3 DEF Unreachable, FoundHome, FoundArmed, FoundElsewhere, FoundStock, Prechecked, plan
    <2>4. CASE Arm \/ RecordArmed \/ LeaveForStock \/ RecordLeaving \/ Disarm \/ DisarmMarker
      BY <2>4 DEF Arm, RecordArmed, LeaveForStock, RecordLeaving, Disarm, DisarmMarker, plan
    <2>5. CASE StockReached \/ AcquireLock \/ StartWrite \/ Verify \/ WriteLost \/ Raises
      BY <2>5 DEF StockReached, AcquireLock, StartWrite, Verify, WriteLost, Raises, Open, plan
    <2>6. CASE SelectTarget \/ PutHome \/ RecordSelected \/ Go \/ RecordGone \/ NebulaReached
      BY <2>6 DEF SelectTarget, PutHome, RecordSelected, Go, RecordGone, NebulaReached, plan
    <2>7. CASE Judge \/ TimesOut \/ Refuse \/ Killed
      BY <2>7 DEF Judge, TimesOut, Refuse, Killed, Ends, plan
    <2> QED BY <2>1, <2>2, <2>3, <2>4, <2>5, <2>6, <2>7, Steps
  <1>4. ASSUME pc # "off", pc' # "off", NEW b \in Builds
        PROVE ~Begin(b)
    BY <1>4 DEF Begin
  <1>5. ASSUME NEW b \in Builds, Begin(b) PROVE FileInv'
    BY <1>1, <1>5, FreshIs DEF Begin, Matches, Record, FileInv, Files
  <1>6. CASE pc # "off" /\ pc' # "off"
    <2>1. /\ txn' # NoJournal /\ journal' # NoJournal
          /\ txn'.key = want /\ journal'.key = want
      <3>1. txn \in Journals /\ journal \in Journals /\ txn # NoJournal /\ journal # NoJournal
        BY <1>6, <1>2, JournalAssumption
      <3>2. CASE UNCHANGED files BY <1>2, <1>6, <3>1, <3>2 DEF files
      <3>3. ASSUME NEW new \in States, Advance(new) \/ AdvanceFails(new)
            PROVE <2>1!1 /\ <2>1!2
        BY <1>2, <1>6, <3>1, <3>3, Advances
      <3>4. CASE FoundElsewhere \/ DisarmMarker
        <4>1. /\ [txn EXCEPT !.danger = FALSE] # NoJournal
              /\ [txn EXCEPT !.danger = FALSE].key = want
          BY <1>2, <1>6, <3>1, Cleared
        <4>2. txn' \in {txn, [txn EXCEPT !.danger = FALSE]} /\ journal' \in {journal, txn'}
          BY <3>4 DEF FoundElsewhere, DisarmMarker, files
        <4> QED BY <1>2, <1>6, <3>1, <4>1, <4>2
      <3>5. CASE FoundStock
        <4>1. Advanced(txn, "STOCK_RUNNING") # NoJournal /\ Advanced(txn, "STOCK_RUNNING").key = want
          BY <1>2, <1>6, <3>1, AdvancedIs, AllStates
        <4> QED BY <1>2, <1>6, <3>1, <3>3, <3>5, <4>1, AllStates DEF FoundStock, files
      <3>6. CASE Judge
        BY <1>6, <3>3, <3>6, AllStates DEF Judge, Ends
      <3>7. CASE Refuse \/ Killed BY <1>6, <3>7 DEF Refuse, Killed, Ends
      <3>8. ASSUME NEW b \in Builds PROVE ~Begin(b) BY <1>6 DEF Begin
      <3> QED BY <3>2, <3>3, <3>4, <3>5, <3>6, <3>7, <3>8, FileSteps, AllStates
    <2>2. want' = want /\ (pc' = "connect" => txn' = txn /\ journal' = journal /\ pc = "connect")
      BY <1>3, <1>4, <1>6 DEF files
    <2> QED BY <2>1, <2>2 DEF FileInv, JournalInv
  <1> QED BY <1>3, <1>5, <1>6 DEF FileInv, JournalInv, files
LEMMA UndoStep == ASSUME TypeOK, JournalInv, [Next]_vars PROVE UndoInv'
  <1> USE DEF UndoInv
  <1>1. pc' \in {"undo", "putback"} => (pc' = pc /\ UNCHANGED files) \/ (pc # "off" /\ Advance("CLOSE_BACKWARD"))
    <2>1. CASE UNCHANGED vars BY <2>1 DEF vars, files
    <2>2. CASE OpReboot \/ OpRestart \/ OpDatafsRepair \/ StageStockUpdate \/ WriterEnds
               \/ Reboots \/ PowerCut \/ RebootLost
      BY <2>2 DEF OpReboot, OpRestart, OpDatafsRepair, StageStockUpdate, WriterEnds, Reboots,
                  PowerCut, RebootLost
    <2>3. CASE Unreachable \/ FoundHome \/ FoundArmed \/ FoundElsewhere \/ FoundStock \/ Prechecked
               \/ \E b \in Builds : Begin(b)
      BY <2>3 DEF Unreachable, FoundHome, FoundArmed, FoundElsewhere, FoundStock, Prechecked, Begin
    <2>4. CASE Arm \/ RecordArmed \/ LeaveForStock \/ RecordLeaving \/ Disarm \/ DisarmMarker
      BY <2>4 DEF Arm, RecordArmed, LeaveForStock, RecordLeaving, Disarm, DisarmMarker
    <2>5. CASE StockReached \/ AcquireLock \/ StartWrite \/ Verify \/ WriteLost \/ Raises
      BY <2>5 DEF StockReached, AcquireLock, StartWrite, Verify, WriteLost, Raises
    <2>6. CASE SelectTarget \/ PutHome \/ RecordSelected \/ Go \/ RecordGone \/ NebulaReached
      BY <2>6 DEF SelectTarget, PutHome, RecordSelected, Go, RecordGone, NebulaReached
    <2>7. CASE Judge \/ TimesOut \/ Refuse \/ Killed
      BY <2>7 DEF Judge, TimesOut, Refuse, Killed, Ends
    <2> QED BY <2>1, <2>2, <2>3, <2>4, <2>5, <2>6, <2>7, Steps
  <1>2. CASE pc' = pc /\ UNCHANGED files BY <1>2 DEF JournalInv, files
  <1>3. CASE pc # "off" /\ Advance("CLOSE_BACKWARD")
    <2>1. txn \in Journals BY <1>3, TypeParts DEF JournalInv, FileInv, Files
    <2> QED BY <1>3, <2>1, Advances, AllStates
  <1> QED BY <1>1, <1>2, <1>3

\* The lines from which Early is entered, and the only one that leaves it on the way.
LEMMA EarlySteps ==
  ASSUME [Next]_vars, pc \in Early, pc' \notin Early
  PROVE  FoundArmed \/ FoundStock \/ Prechecked
  <1> USE DEF Early
  <1>1. CASE UNCHANGED vars BY <1>1 DEF vars
  <1>2. CASE OpReboot \/ OpRestart \/ OpDatafsRepair \/ StageStockUpdate \/ WriterEnds
             \/ Reboots \/ PowerCut \/ RebootLost
    BY <1>2 DEF OpReboot, OpRestart, OpDatafsRepair, StageStockUpdate, WriterEnds, Reboots,
                PowerCut, RebootLost
  <1>3. CASE Unreachable \/ FoundHome \/ FoundElsewhere \/ \E b \in Builds : Begin(b)
    BY <1>3 DEF Unreachable, FoundHome, FoundElsewhere, Begin
  <1>4. CASE Arm \/ RecordArmed \/ LeaveForStock \/ RecordLeaving \/ Disarm \/ DisarmMarker
    BY <1>4 DEF Arm, RecordArmed, LeaveForStock, RecordLeaving, Disarm, DisarmMarker
  <1>5. CASE StockReached \/ AcquireLock \/ StartWrite \/ Verify \/ WriteLost \/ Raises
    BY <1>5 DEF StockReached, AcquireLock, StartWrite, Verify, WriteLost, Raises
  <1>6. CASE SelectTarget \/ PutHome \/ RecordSelected \/ Go \/ RecordGone \/ NebulaReached
    BY <1>6 DEF SelectTarget, PutHome, RecordSelected, Go, RecordGone, NebulaReached
  <1>7. CASE Judge \/ TimesOut \/ Refuse \/ Killed
    BY <1>7 DEF Judge, TimesOut, Refuse, Killed, Ends
  <1> QED BY <1>1, <1>2, <1>3, <1>4, <1>5, <1>6, <1>7, Steps

\* On these lines only a step to the running system moves the marker, and none
\* while it already selects that system; so Home lasts.
LEMMA HomeLasts ==
  ASSUME TypeOK, SlotInv, [Next]_vars, pc \in Early, Home,
         pc = "off" => ~StageStockUpdate
  PROVE  Home' /\ UNCHANGED marker /\ holds'[marker] = holds[marker]
  <1> USE TypeParts, ConstantsAssumption DEF SlotInv, Home, Early
  <1>1. CASE UNCHANGED <<marker, holds, running, writer>> BY <1>1
  <1>2. CASE Boot BY <1>2, Boots
  <1>3. CASE WriterEnds BY <1>3 DEF WriterEnds, WriterInv, Disk, Slots
  <1>4. CASE FoundElsewhere BY <1>4, Others DEF FoundElsewhere, Disk, RunsNebula
  <1>5. CASE Arm \/ DisarmMarker \/ SelectTarget \/ PutHome \/ StageStockUpdate
    BY <1>5 DEF Arm, DisarmMarker, SelectTarget, PutHome, StageStockUpdate
  <1>6. CASE StartWrite BY <1>6 DEF StartWrite
  <1>7. CASE WriteLost \/ Killed BY <1>7 DEF WriteLost, Killed
  <1> QED BY <1>1, <1>2, <1>3, <1>4, <1>5, <1>6, <1>7, DiskSteps DEF Reboots, PowerCut

LEMMA OffSteps ==
  ASSUME [Next]_vars, pc = "off", pc' # "off"
  PROVE  \E b \in Builds : Begin(b)
  <1>1. CASE UNCHANGED vars BY <1>1 DEF vars
  <1>2. CASE OpReboot \/ OpRestart \/ OpDatafsRepair \/ StageStockUpdate \/ WriterEnds
             \/ Reboots \/ PowerCut \/ RebootLost
    BY <1>2 DEF OpReboot, OpRestart, OpDatafsRepair, StageStockUpdate, WriterEnds, Reboots,
                PowerCut, RebootLost
  <1>3. CASE Unreachable \/ FoundHome \/ FoundArmed \/ FoundElsewhere \/ FoundStock \/ Prechecked
    BY <1>3 DEF Unreachable, FoundHome, FoundArmed, FoundElsewhere, FoundStock, Prechecked
  <1>4. CASE Arm \/ RecordArmed \/ LeaveForStock \/ RecordLeaving \/ Disarm \/ DisarmMarker
    BY <1>4 DEF Arm, RecordArmed, LeaveForStock, RecordLeaving, Disarm, DisarmMarker
  <1>5. CASE StockReached \/ AcquireLock \/ StartWrite \/ Verify \/ WriteLost \/ Raises
    BY <1>5 DEF StockReached, AcquireLock, StartWrite, Verify, WriteLost, Raises, Open
  <1>6. CASE SelectTarget \/ PutHome \/ RecordSelected \/ Go \/ RecordGone \/ NebulaReached
    BY <1>6 DEF SelectTarget, PutHome, RecordSelected, Go, RecordGone, NebulaReached
  <1>7. CASE Judge \/ TimesOut \/ Refuse \/ Killed
    BY <1>7 DEF Judge, TimesOut, Refuse, Killed
  <1> QED BY <1>1, <1>2, <1>3, <1>4, <1>5, <1>6, <1>7, Steps

\* So does what Proven says, where the install waits for its handler.
LEMMA ProvenLasts ==
  ASSUME TypeOK, SlotInv, [Next]_vars, pc \in {"choose", "refuse", "unseen", "undisarmed"}, Proven
  PROVE  Proven'
  <1> USE TypeParts, ConstantsAssumption DEF SlotInv, Proven, RunsNebula
  <1>1. CASE UNCHANGED <<marker, holds, running, writer>> BY <1>1
  <1>2. CASE Boot BY <1>2, Boots
  <1>3. CASE WriterEnds BY <1>3 DEF WriterEnds, WriterInv, Disk, Slots
  <1>4. CASE FoundElsewhere \/ Arm \/ DisarmMarker \/ SelectTarget \/ PutHome \/ StageStockUpdate
    BY <1>4 DEF FoundElsewhere, Arm, DisarmMarker, SelectTarget, PutHome, StageStockUpdate
  <1>5. CASE StartWrite BY <1>5 DEF StartWrite
  <1>6. CASE WriteLost \/ Killed BY <1>6 DEF WriteLost, Killed
  <1> QED BY <1>1, <1>2, <1>3, <1>4, <1>5, <1>6, DiskSteps DEF Reboots, PowerCut

Stale(j) == j # NoJournal /\ j.state \in StockWindow /\ ~j.danger

LEMMA StaleStep == ASSUME TypeOK, SlotInv, JournalInv, [Next]_vars PROVE StaleInv'
  <1> SUFFICES ASSUME Stale(journal') PROVE Home' /\ pc' \in Early BY DEF StaleInv, Stale
  <1>1. Files /\ Aims /\ Disk BY TypeParts
  <1>2. pc # "off" => txn \in Journals /\ journal \in Journals
    BY <1>1 DEF JournalInv, FileInv, Files
  <1>3. CASE journal' = journal
    <2>1. Home /\ pc \in Early BY <1>3 DEF JournalInv, StaleInv, Stale
    <2>2. ~StageStockUpdate
      BY <1>3, ConstantsAssumption DEF StageStockUpdate, Closed, Stale, StockWindow, Terminal
    <2>3. Home' BY <2>1, <2>2, HomeLasts
    <2>4. pc' \in Early
      <3>1. SUFFICES ASSUME pc' \notin Early PROVE FALSE OBVIOUS
      <3>2. RunsNebula BY <2>1, <1>1 DEF Home, RunsNebula
      <3>3. ~FoundArmed BY <2>1, <1>1, Others DEF FoundArmed, Home, Disk
      <3>4. ~FoundStock
        BY <3>2, ConstantsAssumption DEF FoundStock, RunsNebula, RunsCreality
      <3>5. CASE Prechecked
        <4>1. Advance("PRECHECKED") \/ pc' = "refuse" BY <3>5 DEF Prechecked
        <4>2. CASE Advance("PRECHECKED")
          <5>1. journal'.state = "PRECHECKED"
            BY <1>2, <3>5, <4>2, Advances, AllStates DEF Prechecked
          <5> QED BY <5>1 DEF Stale, StockWindow
        <4> QED BY <3>1, <4>1, <4>2 DEF Early
      <3> QED BY <2>1, <3>1, <3>3, <3>4, <3>5, EarlySteps
    <2> QED BY <2>3, <2>4
  <1>4. ASSUME NEW b \in Builds, Begin(b), journal' # journal PROVE FALSE
    BY <1>4, FreshIs DEF Begin, Record, Stale, StockWindow
  <1>5. CASE pc # "off" /\ journal' # journal
    <2>1. ASSUME NEW new \in States, Advance(new) \/ AdvanceFails(new) PROVE FALSE
      BY <1>2, <1>5, <2>1, Advances DEF Stale
    <2>2. ASSUME NEW new \in States, journal' = Advanced(txn, new) PROVE FALSE
      BY <1>2, <1>5, <2>2, AdvancedIs DEF Stale
    <2>3. CASE FoundStock BY <1>5, <2>1, <2>2, <2>3, AllStates DEF FoundStock, files
    <2>4. CASE Judge \/ Refuse
      BY <1>5, <2>2, <2>4, AllStates DEF Judge, Refuse, AdvanceFails, RecordFails
    <2>5. CASE Killed BY <1>5, <2>5 DEF Killed
    <2>6. CASE FoundElsewhere
      <3>1. marker' = running /\ pc' = "choose" /\ UNCHANGED <<holds, running>> /\ RunsNebula
        BY <1>5, <2>6 DEF FoundElsewhere, files
      <3> QED BY <1>1, <3>1 DEF Home, RunsNebula, Early
    <2>7. CASE DisarmMarker
      <3>1. journal' = [txn EXCEPT !.danger = FALSE] BY <1>5, <2>7 DEF DisarmMarker, files
      <3>2. journal'.state = txn.state BY <1>2, <1>5, <3>1, Cleared
      <3>3. txn.state = "CLOSE_BACKWARD" BY <2>7 DEF DisarmMarker, JournalInv, UndoInv
      <3> QED BY <3>2, <3>3 DEF Stale, StockWindow
    <2>8. ASSUME NEW b \in Builds PROVE ~Begin(b) BY <1>5 DEF Begin
    <2> QED BY <1>5, <2>1, <2>3, <2>4, <2>5, <2>6, <2>7, <2>8, FileSteps, AllStates DEF files
  <1>6. (\E b \in Builds : Begin(b)) \/ pc # "off" \/ journal' = journal
    BY FileSteps DEF files, FoundElsewhere, DisarmMarker, FoundStock, Judge, Refuse, Killed
  <1> QED BY <1>3, <1>4, <1>5, <1>6
\* The memory gets ahead of the file only by a record of safety that failed.
LEMMA LagStep == ASSUME TypeOK, SlotInv, JournalInv, [Next]_vars PROVE LagInv'
  <1> SUFFICES ASSUME pc' # "off", Dangerous(journal'), ~txn'.danger
               PROVE  Proven' /\ pc' \in Early
    BY DEF LagInv
  <1>1. Files /\ Aims /\ Disk BY TypeParts
  <1>2. pc # "off" => txn \in Journals /\ journal \in Journals
    BY <1>1 DEF JournalInv, FileInv, Files
  <1>3. ASSUME Stale(journal') PROVE Proven' /\ pc' \in Early
    <2>1. Home' /\ pc' \in Early BY <1>3, StaleStep DEF StaleInv, Stale
    <2> QED BY <2>1 DEF Home, Proven, RunsNebula
  <1>4. CASE journal' = txn' BY <1>3, <1>4 DEF Dangerous, Stale
  <1>5. CASE pc = "off"
    BY <1>4, <1>5, OffSteps DEF Begin, Record
  <1>6. ASSUME pc \in Early, Proven, pc # "off", ~txn.danger, Dangerous(journal),
               UNCHANGED files, journal' # txn'
        PROVE  Proven' /\ pc' \in Early
    <2>1. CASE pc = "connect"
      <3>1. Stale(journal') BY <1>6, <2>1 DEF JournalInv, FileInv, Dangerous, Stale, files
      <3> QED BY <1>3, <3>1
    <2>2. CASE pc \in {"choose", "refuse", "unseen", "undisarmed"}
      <3>1. Proven' BY <1>6, <2>2, ProvenLasts
      <3>2. pc' \in Early
        <4>1. Prechecked => pc' = "refuse" \/ Advance("PRECHECKED") \/ AdvanceFails("PRECHECKED")
          BY DEF Prechecked
        <4>2. Prechecked /\ AdvanceFails("PRECHECKED") => pc' = "refuse" \/ Advance("PRECHECKED")
          BY DEF Prechecked
        <4>3. ~Advance("PRECHECKED") \/ journal' = txn' BY DEF Advance, Record
        <4>4. ~FoundArmed /\ ~FoundStock BY <2>2 DEF FoundArmed, FoundStock
        <4> QED BY <1>6, <4>1, <4>2, <4>3, <4>4, EarlySteps DEF Early
      <3> QED BY <3>1, <3>2
    <2> QED BY <1>6, <2>1, <2>2 DEF Early
  <1>7. ASSUME pc # "off", NEW new \in States \ SafeProven, Advance(new) \/ AdvanceFails(new),
               journal' # txn'
        PROVE  pc \in Early /\ Proven
    <2>1. ~txn.danger /\ journal' = journal BY <1>2, <1>7, Advances
    <2> QED BY <1>7, <2>1 DEF JournalInv, LagInv
  <1>8. CASE FoundArmed \/ RecordArmed \/ RecordLeaving \/ StockReached \/ FoundStock
    <2>1. pc # "off" BY <1>8 DEF FoundArmed, RecordArmed, RecordLeaving, StockReached, FoundStock
    <2>2. ASSUME NEW new \in StockWindow, Advance(new) \/ AdvanceFails(new) PROVE FALSE
      BY <1>2, <2>1, <2>2, Advances DEF States
    <2>3. CASE FoundStock
      <3>1. \/ Advance("STOCK_RUNNING") \/ AdvanceFails("STOCK_RUNNING")
            \/ pc' = "refuse" /\ UNCHANGED files
            \/ txn' = Advanced(txn, "STOCK_RUNNING")
        BY <2>3 DEF FoundStock
      <3>2. "STOCK_RUNNING" \in StockWindow BY DEF StockWindow
      <3>3. CASE pc' = "refuse" /\ UNCHANGED files
        <4>1. Dangerous(journal) /\ ~txn.danger BY <3>3 DEF files
        <4>2. Proven BY <2>1, <4>1 DEF JournalInv, LagInv
        <4>3. UNCHANGED <<marker, holds, running>> BY <2>3 DEF FoundStock, device
        <4> QED BY <3>3, <4>2, <4>3 DEF Proven, RunsNebula, Early
      <3>4. txn' # Advanced(txn, "STOCK_RUNNING")
        <4>1. Advanced(txn, "STOCK_RUNNING").danger
          BY <1>2, <2>1, <3>2, AdvancedIs, AllStates
        <4> QED BY <4>1
      <3> QED BY <2>2, <3>1, <3>2, <3>3, <3>4
    <2> QED BY <1>8, <2>2, <2>3 DEF FoundArmed, RecordArmed, RecordLeaving, StockReached, StockWindow
  <1>9. CASE journal' # txn' /\ (Prechecked \/ Disarm \/ StartWrite \/ Verify \/ RecordSelected \/ RecordGone)
    <2>1. pc # "off" BY <1>9 DEF Prechecked, Disarm, StartWrite, Verify, RecordSelected, RecordGone
    <2>2. {"PRECHECKED", "CLOSE_BACKWARD", "FLASHING", "SLOT_FLASHING", "FLASH_VERIFIED",
           "SLOT_FLASH_VERIFIED", "ARMED_NEBULAOS", "REBOOTING_TO_NEBULAOS"}
            \subseteq States \ SafeProven
      BY AllStates DEF SafeProven
    <2>3. CASE UNCHANGED files
      <3>1. Dangerous(journal) /\ ~txn.danger BY <2>3 DEF files
      <3>2. Proven /\ pc \in Early BY <2>1, <3>1 DEF JournalInv, LagInv
      <3> QED BY <1>6, <1>9, <2>1, <2>3, <3>1, <3>2
    <2>4. CASE Prechecked /\ ~UNCHANGED files
      <3>1. pc = "choose" /\ AdvanceFails("PRECHECKED") /\ pc' = "refuse"
        BY <1>9, <2>4 DEF Prechecked, Advance, Record, files
      <3>2. Proven BY <1>7, <1>9, <2>1, <2>2, <3>1
      <3> QED BY <3>1, <3>2, ProvenLasts DEF Early
    <2>5. CASE Disarm \/ StartWrite \/ Verify \/ RecordSelected \/ RecordGone
      <3>1. pc \notin Early BY <2>5 DEF Disarm, StartWrite, Verify, RecordSelected, RecordGone, Early
      <3>2. \E new \in States \ SafeProven : Advance(new) \/ AdvanceFails(new)
        BY <1>9, <2>2, <2>3, <2>5, <3>1, <2>1
           DEF Disarm, StartWrite, Verify, RecordSelected, RecordGone, JournalInv, LagInv, files
      <3> QED BY <1>7, <1>9, <2>1, <3>1, <3>2
    <2> QED BY <1>9, <2>3, <2>4, <2>5
  <1>10. CASE NebulaReached \/ Judge
    <2>1. RunsNebula /\ marker # 0 /\ holds[marker] \in Builds
      <3>1. pc \in {"close", "judge"} => marker # 0 /\ holds[marker] \in Builds
        BY <1>1, Others DEF SlotInv, TargetInv, Selected, Aims
      <3>2. CASE NebulaReached BY <3>1, <3>2, Others DEF NebulaReached
      <3>3. CASE Judge
        <4>1. pc = "judge" /\ Reachable BY <3>3 DEF Judge
        <4>2. RunsNebula BY <4>1 DEF Reachable, SlotInv, TargetInv
        <4> QED BY <3>1, <4>1, <4>2
      <3> QED BY <1>10, <3>2, <3>3
    <2>2. Proven BY <2>1 DEF Proven
    <2>3. pc' = "refuse" \/ journal' = txn'
      BY <1>10 DEF NebulaReached, Judge, Ends, Advance, Record
    <2>4. UNCHANGED <<marker, holds, running>> BY <1>10 DEF NebulaReached, Judge, device
    <2> QED BY <1>4, <2>2, <2>3, <2>4 DEF Proven, RunsNebula, Early
  <1>11. CASE FoundElsewhere
    <2>1. pc = "connect" /\ RunsNebula /\ marker = Other(running) /\ UNCHANGED <<holds, running>>
      BY <1>11 DEF FoundElsewhere
    <2>2. CASE marker' = running /\ pc' = "choose"
      BY <2>1, <2>2 DEF Proven, RunsNebula, Early
    <2>3. CASE UNCHANGED files
      <3>1. Stale(journal) BY <2>1, <2>3 DEF JournalInv, FileInv, Dangerous, Stale, files
      <3>2. Home BY <3>1 DEF JournalInv, StaleInv, Stale
      <3> QED BY <1>1, <2>1, <3>2, Others DEF Home, Disk
    <2> QED BY <1>11, <2>2, <2>3 DEF FoundElsewhere
  <1>12. CASE DisarmMarker
    <2>1. pc \in {"undo", "putback"} /\ UNCHANGED <<holds, running>> BY <1>12 DEF DisarmMarker
    <2>2. CASE Reachable /\ marker' = home /\ pc' \in {"choose", "refuse"}
      <3>1. os = "nebulaos" /\ holds[home] \in Builds BY <2>1 DEF SlotInv, HomeInv, Backward
      <3> QED BY <1>1, <2>1, <2>2, <3>1, Others DEF Proven, RunsNebula, Reachable, Aims, Early
    <2>3. CASE UNCHANGED files
      BY <2>1, <2>3 DEF JournalInv, LagInv, Early, files
    <2> QED BY <1>12, <2>2, <2>3 DEF DisarmMarker
  <1>13. CASE Refuse \/ Killed BY <1>13 DEF Refuse, Killed, Ends
  <1>14. CASE journal' # txn' /\ pc # "off" /\ UNCHANGED files
    <2>1. Dangerous(journal) /\ ~txn.danger BY <1>14 DEF files
    <2>2. pc \in Early /\ Proven BY <1>14, <2>1 DEF JournalInv, LagInv
    <2> QED BY <1>6, <1>14, <2>1, <2>2
  <1>15. ASSUME NEW b \in Builds, Begin(b) PROVE pc = "off" BY <1>15 DEF Begin
  <1> QED BY <1>4, <1>5, <1>8, <1>9, <1>10, <1>11, <1>12, <1>13, <1>14, <1>15, FileActions

LEMMA JournalStep == ASSUME TypeOK, SlotInv, JournalInv, [Next]_vars PROVE JournalInv'
  BY FileStep, UndoStep, StaleStep, LagStep DEF JournalInv

LEMMA Inductive == ASSUME IInv, [Next]_vars PROVE IInv'
  <1>1. TypeOK /\ SlotInv /\ JournalInv BY DEF IInv
  <1>2. TypeOK'
    BY <1>1, DiskStep, SignalsStep, FilesStep, AimsStep DEF TypeOK, Disk, Signals, Files, Aims
  <1> QED BY <1>1, <1>2, SlotsStep, JournalStep DEF IInv

LEMMA Starts == ASSUME Init PROVE IInv
  <1>1. TypeOK
    <2>1. left \in [FaultKinds -> Nat] BY ConstantsAssumption DEF Init
    <2>2. running \in 0..2 /\ marker \in 0..2 /\ home \in Slots /\ target \in Slots
      BY DEF Init, Slots
    <2> QED BY <2>1, <2>2 DEF Init, TypeOK
  <1>2. SlotInv
    BY DEF Init, SlotInv, WriterInv, BothInv, HomeInv, StockInv, TargetInv, Backward, Forward, Selected,
           Slots
  <1>3. JournalInv
    BY DEF Init, JournalInv, FileInv, UndoInv, StaleInv, LagInv
  <1> QED BY <1>1, <1>2, <1>3 DEF IInv

LEMMA Invariant == Spec => []IInv
  BY Starts, Inductive, PTL DEF Spec

\* Where the file loses its danger, the danger was over.
LEMMA DangerStep ==
  ASSUME TypeOK, SlotInv, JournalInv, Next, Dangerous(journal), ~Dangerous(journal'),
         journal'.key = journal.key
  PROVE  RunsNebula /\ marker' # 0 /\ holds[marker'] # Creality
  <1>1. Files /\ Aims /\ Disk BY TypeParts
  <1>2. pc # "off" => txn \in Journals /\ journal \in Journals
    BY <1>1 DEF JournalInv, FileInv, Files
  <1>3. ASSUME Proven, UNCHANGED marker PROVE RunsNebula /\ marker' # 0 /\ holds[marker'] # Creality
    BY <1>3, ConstantsAssumption DEF Proven
  <1>4. pc # "off" /\ ~txn.danger => Proven BY DEF JournalInv, LagInv
  <1>5. ASSUME pc # "off", UNCHANGED marker, NEW new \in States \ SafeProven, journal' = Advanced(txn, new)
        PROVE  Proven
    <2>1. ~txn.danger BY <1>2, <1>5, AdvancedIs DEF Dangerous
    <2> QED BY <1>4, <1>5, <2>1
  <1>6. journal' # journal OBVIOUS
  <1>7. ASSUME NEW b \in Builds, Begin(b) PROVE FALSE
    BY <1>6, <1>7, FreshIs DEF Begin, Matches, Record, Dangerous
  <1>8. CASE FoundArmed \/ Prechecked \/ RecordArmed \/ RecordLeaving \/ Disarm \/ StockReached
             \/ StartWrite \/ Verify \/ RecordSelected \/ RecordGone
    <2>1. pc # "off" /\ UNCHANGED marker
      BY <1>8 DEF FoundArmed, Prechecked, RecordArmed, RecordLeaving, Disarm, StockReached,
                  StartWrite, Verify, RecordSelected, RecordGone, device
    <2>2. {"PRECHECKED", "ARMED_STOCK", "REBOOTING_TO_STOCK", "CLOSE_BACKWARD", "STOCK_RUNNING",
           "FLASHING", "SLOT_FLASHING", "FLASH_VERIFIED", "SLOT_FLASH_VERIFIED", "ARMED_NEBULAOS",
           "REBOOTING_TO_NEBULAOS"} \subseteq States \ SafeProven
      BY AllStates DEF SafeProven
    <2>3. \E new \in States \ SafeProven : journal' = Advanced(txn, new)
      <3> USE <1>6, <2>2 DEF Advance, AdvanceFails, Record, RecordFails, files
      <3>1. CASE FoundArmed \/ Prechecked \/ RecordArmed BY <3>1 DEF FoundArmed, Prechecked, RecordArmed
      <3>2. CASE RecordLeaving \/ Disarm \/ StockReached
        BY <3>2 DEF RecordLeaving, Disarm, StockReached
      <3>3. CASE StartWrite \/ Verify BY <3>3 DEF StartWrite, Verify
      <3>4. CASE RecordSelected \/ RecordGone BY <3>4 DEF RecordSelected, RecordGone
      <3> QED BY <1>8, <3>1, <3>2, <3>3, <3>4
    <2> QED BY <1>3, <1>5, <2>1, <2>3
  <1>9. CASE FoundStock
    <2>1. pc # "off" /\ journal' = Advanced(txn, "STOCK_RUNNING")
      BY <1>6, <1>9 DEF FoundStock, Advance, AdvanceFails, Record, RecordFails, files
    <2>2. Advanced(txn, "STOCK_RUNNING").danger
      BY <1>2, <2>1, AdvancedIs, AllStates DEF StockWindow
    <2> QED BY <2>1, <2>2, <1>2, AdvancedIs, AllStates DEF Dangerous
  <1>10. CASE NebulaReached \/ Judge
    <2>1. pc \in {"close", "judge"} /\ UNCHANGED marker BY <1>10 DEF NebulaReached, Judge, device
    <2>2. marker # 0 /\ holds[marker] \in Builds
      BY <1>1, <2>1, Others DEF SlotInv, TargetInv, Selected, Aims
    <2>3. RunsNebula
      <3>1. CASE NebulaReached BY <3>1 DEF NebulaReached
      <3>2. CASE Judge
        <4>1. pc = "judge" /\ Reachable BY <3>2 DEF Judge
        <4> QED BY <4>1 DEF Reachable, SlotInv, TargetInv
      <3> QED BY <1>10, <3>1, <3>2
    <2> QED BY <1>3, <2>1, <2>2, <2>3 DEF Proven
  <1>11. CASE Refuse
    <2>1. pc # "off" /\ UNCHANGED marker /\ journal' = Advanced(txn, "FAILED_NEEDS_ATTENTION")
      BY <1>6, <1>11 DEF Refuse, device
    <2>2. "FAILED_NEEDS_ATTENTION" \in States \ SafeProven BY AllStates DEF SafeProven
    <2> QED BY <1>3, <1>5, <2>1, <2>2
  <1>12. CASE Killed BY <1>6, <1>12 DEF Killed
  <1>13. CASE FoundElsewhere
    <2>1. RunsNebula /\ marker' = running BY <1>6, <1>13 DEF FoundElsewhere, files
    <2> QED BY <2>1, ConstantsAssumption DEF RunsNebula
  <1>14. CASE DisarmMarker
    <2>1. pc \in {"undo", "putback"} /\ Reachable /\ marker' = home
      BY <1>6, <1>14 DEF DisarmMarker, files
    <2>2. os = "nebulaos" /\ holds[home] \in Builds BY <2>1 DEF SlotInv, HomeInv, Backward
    <2> QED BY <1>1, <2>1, <2>2, Others, ConstantsAssumption DEF RunsNebula, Reachable, Aims
  <1>15. ~UNCHANGED files BY <1>6 DEF files
  <1> QED BY <1>7, <1>8, <1>9, <1>10, <1>11, <1>12, <1>13, <1>14, <1>15, FileActions

LEMMA DoneStep ==
  ASSUME "stock-update" \notin Commands, IInv, DoneInv, [Next]_vars
  PROVE  DoneInv'
  <1> DEFINE Done(j) == j # NoJournal /\ j.state = "DONE"
  <1> SUFFICES ASSUME Done(journal')
               PROVE  Home' /\ holds'[marker'] = journal'.key /\ mcu' = "ours" /\ pc' \in Early
    BY DEF DoneInv
  <1>1. Files /\ Aims /\ Disk /\ TypeOK /\ SlotInv /\ JournalInv BY TypeParts DEF IInv
  <1>2. pc # "off" => txn \in Journals /\ journal \in Journals
    BY <1>1 DEF JournalInv, FileInv, Files
  <1>3. ~StageStockUpdate BY DEF StageStockUpdate
  <1>4. CASE journal' = journal
    <2>1. Home /\ holds[marker] = journal.key /\ mcu = "ours" /\ pc \in Early
      BY <1>4 DEF DoneInv
    <2>2. Home' /\ UNCHANGED marker /\ holds'[marker] = holds[marker]
      BY <1>1, <1>3, <2>1, HomeLasts
    <2>3. mcu' = "ours"
      <3>1. CASE Boot
        <4>1. running' # 0 /\ holds[running'] \in Builds
          BY <1>1, <2>1, <2>2, <3>1, Boots DEF Home
        <4> QED BY <1>1, <2>1, <3>1, <4>1, Boots
      <3>2. UNCHANGED mcu \/ Boot BY McuSteps
      <3> QED BY <2>1, <3>1, <3>2
    <2>4. pc' \in Early
      <3>1. RunsNebula BY <1>1, <2>1 DEF Home, RunsNebula
      <3>2. ~FoundArmed BY <1>1, <2>1, Others DEF FoundArmed, Home, Disk
      <3>3. ~FoundStock BY <3>1, ConstantsAssumption DEF FoundStock, RunsNebula, RunsCreality
      <3>4. ASSUME Prechecked PROVE pc' \in Early
        <4>1. pc # "off" /\ (Advance("PRECHECKED") \/ pc' = "refuse") BY <3>4 DEF Prechecked
        <4>2. ~Advance("PRECHECKED") BY <1>2, <4>1, Advances, AllStates
        <4> QED BY <4>1, <4>2 DEF Early
      <3> QED BY <2>1, <3>2, <3>3, <3>4, EarlySteps
    <2> QED BY <1>4, <2>1, <2>2, <2>3, <2>4
  <1>5. ASSUME NEW b \in Builds, Begin(b), journal' # journal PROVE FALSE
    BY <1>5, FreshIs DEF Begin, Record
  <1>6. CASE pc # "off" /\ journal' # journal
    <2>1. ASSUME NEW new \in States, new # "DONE", Advance(new) \/ AdvanceFails(new) PROVE FALSE
      BY <1>2, <1>6, <2>1, Advances
    <2>2. ASSUME NEW new \in States, new # "DONE", journal' = Advanced(txn, new) PROVE FALSE
      BY <1>2, <1>6, <2>2, AdvancedIs
    <2>3. CASE FoundStock BY <1>6, <2>1, <2>2, <2>3, AllStates DEF FoundStock, files
    <2>4. CASE Refuse BY <1>6, <2>2, <2>4, AllStates DEF Refuse
    <2>5. CASE Killed BY <1>6, <2>5 DEF Killed
    <2>6. CASE FoundElsewhere \/ DisarmMarker
      <3>1. journal' = [txn EXCEPT !.danger = FALSE]
        BY <1>6, <2>6 DEF FoundElsewhere, DisarmMarker, files
      <3>2. txn.state = "DONE" BY <1>2, <1>6, <3>1, Cleared
      <3>3. CASE DisarmMarker BY <1>1, <3>2, <3>3 DEF DisarmMarker, JournalInv, UndoInv
      <3>4. CASE FoundElsewhere
        <4>1. Done(journal) BY <1>1, <1>6, <3>2, <3>4 DEF FoundElsewhere, JournalInv, FileInv
        <4>2. Home BY <4>1 DEF DoneInv
        <4> QED BY <1>1, <3>4, <4>2, Others DEF FoundElsewhere, Home, Disk
      <3> QED BY <2>6, <3>3, <3>4
    <2>7. CASE Judge
      <3>1. Part1 /\ journal' = Advanced(txn, "DONE") /\ pc' = "off" /\ UNCHANGED device
        BY <1>6, <2>2, <2>7, AllStates DEF Judge, AdvanceFails, RecordFails, Ends
      <3>2. journal'.key = want
        BY <1>1, <1>2, <1>6, <3>1, AdvancedIs, AllStates DEF JournalInv, FileInv
      <3> QED BY <1>1, <3>1, <3>2, Others DEF Part1, Home, Aims, device, Early
    <2>8. ASSUME NEW b \in Builds PROVE ~Begin(b) BY <1>6 DEF Begin
    <2> QED BY <1>6, <2>1, <2>3, <2>4, <2>5, <2>6, <2>7, <2>8, FileSteps, AllStates DEF files
  <1>7. (\E b \in Builds : Begin(b)) \/ pc # "off" \/ journal' = journal
    BY FileSteps DEF files, FoundElsewhere, DisarmMarker, FoundStock, Judge, Refuse, Killed
  <1> QED BY <1>4, <1>5, <1>6, <1>7

-----------------------------------------------------------------------------
(* The theorems *)

\* The types of the variables.
THEOREM TypeCorrect == Spec => []TypeOK
  <1>1. IInv => TypeOK BY DEF IInv
  <1> QED BY <1>1, Invariant, PTL

\* Whatever path an install takes and wherever it is interrupted, the slot that
\* runs is never written, the marker is only ever put on a whole slot, and a
\* selected slot is written under Creality only (nebulaos_install.py,
\* nebulaos_slots.py: plan_install, _install_inactive_slot, _flash_on_stock).
THEOREM SlotsHold == Spec => SlotsKept
  <1>1. Init => Slot!Init
    BY DEF Init, Slot!Init, Whole, Contents
  <1>2. IInv /\ [Next]_vars => [Slot!Next]_(Slot!vars)
    BY StepIsKept DEF IInv
  <1> QED BY <1>1, <1>2, Invariant, PTL DEF Spec, SlotsKept, Slot!Spec

\* The journal stops calling a power cycle dangerous only where NebulaOS runs and
\* the marker does not select Creality, or for another build (nebulaos_journal.py,
\* SAFE_PROVEN_STATES, mark_disarmed).
THEOREM DangerHolds == Spec => DangerKept
  <1>1. ASSUME IInv, [Next]_vars
        PROVE  [Dangerous(journal) /\ ~Dangerous(journal') =>
                  journal'.key # journal.key
                  \/ (RunsNebula /\ marker' # 0 /\ holds[marker'] # Creality)]_vars
    BY <1>1, DangerStep DEF IInv
  <1> QED BY <1>1, Invariant, PTL DEF Spec, DangerKept

\* Where no vendor update is staged, an install that is recorded as done is what
\* the next boot starts, with our firmware on the motion controller
\* (_close_forward, part1_verify).
THEOREM DoneStays ==
  ASSUME "stock-update" \notin Commands
  PROVE  Spec => []DoneHolds
  <1>1. Init => DoneInv BY DEF Init, DoneInv
  <1>2. IInv /\ DoneInv /\ [Next]_vars => DoneInv' BY DoneStep
  <1>3. DoneInv => DoneHolds BY DEF DoneInv, DoneHolds, Home
  <1> QED BY <1>1, <1>2, <1>3, Invariant, PTL DEF Spec

-----------------------------------------------------------------------------
(* Every exit disarms *)

\* Nobody is armed after a boot.
LEMMA BootDisarms == ASSUME Disk, Boot PROVE ~Armed'
  <1>1. SUFFICES ASSUME marker' # 0, running' # 0, holds'[running'] \in Builds
                 PROVE  holds'[marker'] # Creality
    BY DEF Armed, RunsNebula
  <1>2. running' = marker' /\ UNCHANGED holds BY <1>1, Boots
  <1> QED BY <1>1, <1>2, ConstantsAssumption

\* What leaves marker, slots and system alone, leaves this alone.
LEMMA ArmedKept == ASSUME UNCHANGED <<marker, holds, running>> PROVE Armed' <=> Armed
  BY DEF Armed, RunsNebula

\* Only the two operations that arm make it true.
LEMMA ArmedByArm ==
  ASSUME TypeOK, SlotInv, [Next]_vars
  PROVE  Armed' => Armed \/ Arm \/ StageStockUpdate
  <1>1. Disk /\ Aims BY TypeParts
  <1>2. CASE UNCHANGED <<marker, holds, running, writer>> BY <1>2, ArmedKept
  <1>3. CASE Boot BY <1>1, <1>3, BootDisarms
  <1>4. CASE WriterEnds
    <2>1. writer # NoWriter /\ UNCHANGED <<marker, running>>
          /\ (UNCHANGED holds \/ holds' = [holds EXCEPT ![writer.slot] = writer.build])
      BY <1>4 DEF WriterEnds
    <2>2. writer.slot # running /\ writer.slot \in Slots /\ writer.build \in Builds
      BY <1>1, <2>1 DEF SlotInv, WriterInv, Disk
    <2>3. \A s \in Slots : s # writer.slot => holds'[s] = holds[s]
      BY <1>1, <2>1, <2>2 DEF Disk
    <2>4. holds'[writer.slot] = holds[writer.slot] \/ holds'[writer.slot] = writer.build
      BY <1>1, <2>1, <2>2 DEF Disk
    <2>5. SUFFICES ASSUME Armed' PROVE Armed OBVIOUS
    <2>6. running \in Slots /\ marker \in Slots BY <1>1, <2>1, <2>5 DEF Armed, RunsNebula, Disk, Slots
    <2>7. holds[running] \in Builds BY <2>1, <2>2, <2>3, <2>5, <2>6 DEF Armed, RunsNebula
    <2>8. holds'[marker] = Creality BY <2>1, <2>5 DEF Armed
    <2>9. holds[marker] = Creality BY <2>2, <2>3, <2>4, <2>6, <2>8, ConstantsAssumption
    <2> QED BY <2>6, <2>7, <2>9 DEF Armed, RunsNebula, Slots
  <1>5. CASE FoundElsewhere
    <2>1. marker' \in {marker, 0, running} /\ UNCHANGED <<holds, running>> /\ RunsNebula
      BY <1>5 DEF FoundElsewhere
    <2> QED BY <2>1, ConstantsAssumption DEF Armed, RunsNebula
  <1>6. CASE DisarmMarker \/ PutHome
    <2>1. home \in Slots /\ holds[home] \in Builds
      BY <1>1, <1>6 DEF SlotInv, HomeInv, DisarmMarker, PutHome, Backward, Aims
    <2>2. marker' \in {marker, 0, home} /\ UNCHANGED <<holds, running>>
      BY <1>6, <2>1 DEF DisarmMarker, PutHome, Marked, NotMarked, MarkRaises
    <2> QED BY <2>1, <2>2, ConstantsAssumption DEF Armed, RunsNebula, Slots
  <1>7. CASE SelectTarget
    <2>1. target \in Slots /\ holds[target] \in Builds
      BY <1>1, <1>7 DEF SlotInv, TargetInv, SelectTarget, Aims
    <2>2. marker' \in {marker, 0, target} /\ UNCHANGED <<holds, running>>
      BY <1>7, <2>1 DEF SelectTarget, Marked, NotMarked, MarkRaises
    <2> QED BY <2>1, <2>2, ConstantsAssumption DEF Armed, RunsNebula, Slots
  <1>8. CASE StartWrite
    <2>1. /\ UNCHANGED <<marker, running>>
          /\ UNCHANGED holds \/ holds' = [holds EXCEPT ![target] = Damaged]
      BY <1>8 DEF StartWrite
    <2>2. \A s \in Slots : holds'[s] = holds[s] \/ holds'[s] = Damaged
      BY <1>1, <2>1 DEF Disk, Aims
    <2>3. SUFFICES ASSUME Armed' PROVE Armed OBVIOUS
    <2>4. running \in Slots /\ marker \in Slots BY <1>1, <2>1, <2>3 DEF Armed, RunsNebula, Disk, Slots
    <2>5. holds'[running] \in Builds /\ holds'[marker] = Creality
      BY <2>1, <2>3 DEF Armed, RunsNebula
    <2>6. holds[running] \in Builds /\ holds[marker] = Creality
      BY <2>2, <2>4, <2>5, ConstantsAssumption
    <2> QED BY <2>4, <2>6 DEF Armed, RunsNebula, Slots
  <1>9. CASE WriteLost \/ Killed
    <2>1. UNCHANGED <<marker, holds, running>> BY <1>9 DEF WriteLost, Killed
    <2> QED BY <2>1, ArmedKept
  <1> QED BY <1>2, <1>3, <1>4, <1>5, <1>6, <1>7, <1>8, <1>9, DiskSteps DEF Reboots, PowerCut

\* One line alone waits for Creality.
LEMMA ToStock ==
  ASSUME [Next]_vars
  PROVE  pc' # "tostock" \/ (pc' = pc /\ UNCHANGED txn) \/ RecordLeaving
  <1>1. CASE UNCHANGED vars BY <1>1 DEF vars
  <1>2. ASSUME NEW b \in Builds, Begin(b) PROVE pc' # "tostock" BY <1>2 DEF Begin
  <1>3. CASE Unreachable \/ FoundHome \/ FoundArmed \/ FoundElsewhere \/ FoundStock \/ Prechecked
    BY <1>3 DEF Unreachable, FoundHome, FoundArmed, FoundElsewhere, FoundStock, Prechecked
  <1>4. CASE Arm \/ RecordArmed \/ LeaveForStock \/ Disarm \/ DisarmMarker
    BY <1>4 DEF Arm, RecordArmed, LeaveForStock, Disarm, DisarmMarker
  <1>5. CASE StockReached \/ AcquireLock \/ StartWrite \/ Verify \/ WriteLost \/ Raises
    BY <1>5 DEF StockReached, AcquireLock, StartWrite, Verify, WriteLost, Raises
  <1>6. CASE SelectTarget \/ PutHome \/ RecordSelected \/ Go \/ RecordGone \/ NebulaReached
    BY <1>6 DEF SelectTarget, PutHome, RecordSelected, Go, RecordGone, NebulaReached
  <1>7. CASE Judge \/ TimesOut \/ Refuse \/ Killed
    BY <1>7 DEF Judge, TimesOut, Refuse, Killed, Ends
  <1>8. CASE OpReboot \/ OpRestart \/ OpDatafsRepair \/ StageStockUpdate \/ WriterEnds
             \/ Reboots \/ PowerCut \/ RebootLost
    BY <1>8 DEF OpReboot, OpRestart, OpDatafsRepair, StageStockUpdate, WriterEnds, Reboots,
                PowerCut, RebootLost, files
  <1> QED BY <1>1, <1>2, <1>3, <1>4, <1>5, <1>6, <1>7, <1>8, Steps

\* How the armed window is entered and left.
LEMMA ArmedStep == ASSUME IInv, ArmedInv, [Next]_vars PROVE ArmedInv'
  <1>0. TypeOK /\ SlotInv /\ Disk /\ Aims BY TypeParts DEF IInv
  <1>1. Armed' => Armed \/ Arm \/ StageStockUpdate BY <1>0, ArmedByArm
  <1>2. pc # "off" => txn \in Journals BY <1>0 DEF IInv, JournalInv, FileInv, TypeOK
  <1>3. pc' = "tostock" => txn'.state = "REBOOTING_TO_STOCK"
    <2>1. CASE pc' = pc /\ UNCHANGED txn BY <2>1 DEF ArmedInv
    <2>2. CASE RecordLeaving
      <3>1. pc' = "tostock" => Advance("REBOOTING_TO_STOCK") BY <2>2 DEF RecordLeaving
      <3>2. txn \in Journals BY <1>2, <2>2 DEF RecordLeaving
      <3> QED BY <3>1, <3>2, Advances, AllStates
    <2>3. pc' # "tostock" \/ (pc' = pc /\ UNCHANGED txn) \/ RecordLeaving BY ToStock
    <2> QED BY <2>1, <2>2, <2>3
  <1>4. ASSUME Armed' PROVE Window'
    <2> USE <1>4
    <2>1. Armed \/ Arm \/ StageStockUpdate BY <1>1
    <2>2. CASE pc' = pc /\ UNCHANGED txn /\ Armed BY <2>2 DEF ArmedInv, Window
    <2>3. CASE Reboots \/ PowerCut BY <1>0, <2>3, BootDisarms DEF Reboots, PowerCut
    <2>4. CASE UNCHANGED vars BY <2>1, <2>2, <2>4 DEF vars, Arm, StageStockUpdate, Window
    <2>5. ASSUME NEW b \in Builds, Begin(b) PROVE Window' BY <2>5 DEF Begin, Window
    <2>6. CASE StageStockUpdate BY <2>6 DEF StageStockUpdate, Window
    <2>7. CASE WriterEnds \/ OpReboot \/ OpRestart \/ OpDatafsRepair \/ RebootLost
      <3>1. pc' = pc /\ UNCHANGED txn
        BY <2>7 DEF WriterEnds, OpReboot, OpRestart, OpDatafsRepair, RebootLost, files
      <3>2. ~(pc \notin {"off", "arm"} /\ ~Armed) BY <2>1 DEF Arm, StageStockUpdate
      <3>3. CASE pc = "off" BY <3>1, <3>3 DEF Window
      <3>4. CASE pc = "arm"
        <4>1. ~StageStockUpdate /\ ~Arm BY <2>7, <3>1, <3>4 DEF StageStockUpdate, Arm
        <4> QED BY <2>1, <2>2, <3>1, <4>1
      <3> QED BY <2>2, <3>1, <3>2, <3>3, <3>4
    <2>8. CASE Unreachable \/ (Raises /\ pc = "connect") \/ FoundArmed \/ Killed
      BY <2>8 DEF Unreachable, Raises, FoundArmed, Killed, Ends, Window
    <2>9. CASE FoundHome \/ FoundElsewhere
      <3>1. Armed BY <2>1, <2>9 DEF FoundHome, FoundElsewhere, Arm, StageStockUpdate
      <3> QED BY <2>9, <3>1, ConstantsAssumption
              DEF FoundHome, FoundElsewhere, Armed, RunsNebula, Indeterminate, Classified
    <2>10. CASE FoundStock \/ StockReached
      <3>1. RunsCreality /\ UNCHANGED <<marker, holds, running>>
        BY <2>10 DEF FoundStock, StockReached, device
      <3> QED BY <3>1, ConstantsAssumption DEF RunsCreality, Armed, RunsNebula
    <2>11. CASE Prechecked \/ AcquireLock \/ StartWrite \/ Verify \/ WriteLost \/ SelectTarget
                \/ PutHome \/ RecordSelected \/ Go \/ RecordGone \/ NebulaReached \/ Judge
                \/ (Raises /\ pc # "connect")
      <3>1. pc \in {"choose", "lock", "write", "writing", "select", "gohome", "selected", "go",
                    "gone", "close", "judge"}
        BY <2>11 DEF Prechecked, AcquireLock, StartWrite, Verify, WriteLost, SelectTarget, PutHome,
                     RecordSelected, Go, RecordGone, NebulaReached, Judge, Raises, Open
      <3> QED BY <2>1, <3>1 DEF Arm, StageStockUpdate, ArmedInv, Window
    <2>12. CASE DisarmMarker
      <3>1. os = "nebulaos" /\ holds[home] \in Builds
        BY <1>0, <2>12 DEF DisarmMarker, SlotInv, HomeInv, Backward
      <3>2. marker' # home
        BY <2>12, <3>1, ConstantsAssumption DEF DisarmMarker, Armed
      <3> QED BY <2>12, <3>2 DEF DisarmMarker, Window
    <2>13. CASE Arm \/ RecordArmed \/ LeaveForStock \/ RecordLeaving \/ Disarm
      BY <2>13 DEF Arm, RecordArmed, LeaveForStock, RecordLeaving, Disarm, Window
    <2>14. CASE TimesOut
      <3>1. pc = "tostock"
        BY <2>1, <2>14 DEF TimesOut, Arm, StageStockUpdate, ArmedInv, Window
      <3> QED BY <2>14, <3>1 DEF TimesOut, files, ArmedInv, Window
    <2>15. CASE Refuse BY <2>15 DEF Refuse, Ends, Window
    <2> QED BY <2>3, <2>4, <2>5, <2>6, <2>7, <2>8, <2>9, <2>10, <2>11, <2>12, <2>13, <2>14, <2>15,
               Steps
  <1> QED BY <1>3, <1>4 DEF ArmedInv

LEMMA ArmedStarts == ASSUME Init PROVE ArmedInv
  BY ConstantsAssumption DEF Init, Armed, RunsNebula, ArmedInv

\* An install comes back by a refusal or a verdict.
LEMMA ExitStep ==
  ASSUME IInv, ArmedInv, [Next]_vars, pc \notin {"off", "unseen", "undisarmed"}, pc' = "off",
         left'["kill"] = left["kill"], txn.state # "REBOOTING_TO_STOCK"
  PROVE  ~Armed'
  <1>0. SlotInv /\ Disk /\ Signals /\ Aims BY TypeParts DEF IInv
  <1>1. ~Fault("kill")
    <2>1. "kill" \in FaultKinds BY DEF FaultKinds
    <2>2. left["kill"] \in Nat /\ left \in [FaultKinds -> Nat] BY <1>0, <2>1 DEF Signals
    <2>3. SUFFICES ASSUME Fault("kill") PROVE FALSE OBVIOUS
    <2>4. left'["kill"] = left["kill"] - 1 BY <2>1, <2>2, <2>3 DEF Fault
    <2> QED BY <2>2, <2>4
  <1>2. Refuse \/ Judge
    <2>1. CASE UNCHANGED vars BY <2>1 DEF vars
    <2>2. ASSUME NEW b \in Builds PROVE ~Begin(b) BY <2>2 DEF Begin
    <2>3. ~(Unreachable \/ FoundHome \/ FoundArmed \/ FoundElsewhere \/ FoundStock \/ Prechecked)
      BY DEF Unreachable, FoundHome, FoundArmed, FoundElsewhere, FoundStock, Prechecked
    <2>4. ~(Arm \/ RecordArmed \/ LeaveForStock \/ RecordLeaving \/ Disarm \/ DisarmMarker)
      BY DEF Arm, RecordArmed, LeaveForStock, RecordLeaving, Disarm, DisarmMarker
    <2>5. ~(StockReached \/ AcquireLock \/ StartWrite \/ Verify \/ WriteLost \/ Raises \/ TimesOut)
      BY DEF StockReached, AcquireLock, StartWrite, Verify, WriteLost, Raises, TimesOut
    <2>6. ~(SelectTarget \/ PutHome \/ RecordSelected \/ Go \/ RecordGone \/ NebulaReached)
      BY DEF SelectTarget, PutHome, RecordSelected, Go, RecordGone, NebulaReached
    <2>7. ~(OpReboot \/ OpRestart \/ OpDatafsRepair \/ StageStockUpdate \/ WriterEnds
             \/ Reboots \/ PowerCut \/ RebootLost)
      BY DEF OpReboot, OpRestart, OpDatafsRepair, StageStockUpdate, WriterEnds, Reboots, PowerCut,
             RebootLost
    <2>8. ~Killed BY <1>1 DEF Killed
    <2> QED BY <2>1, <2>2, <2>3, <2>4, <2>5, <2>6, <2>7, <2>8, Steps
  <1>3. CASE Refuse
    <2>1. ~Armed BY <1>3 DEF Refuse, ArmedInv, Window
    <2> QED BY <1>3, <2>1, ArmedKept DEF Refuse, device
  <1>4. CASE Judge
    <2>1. ~Armed BY <1>0, <1>4, ConstantsAssumption DEF Judge, SlotInv, TargetInv, Selected, Armed, Aims
    <2> QED BY <1>4, <2>1, ArmedKept DEF Judge, device
  <1> QED BY <1>2, <1>3, <1>4

\* For any number of faults of every kind, and with vendor updates staged: an
\* install that looked at the printer does not come back with NebulaOS running and
\* the marker on Creality, unless its disarm could not write the marker or the
\* record before it, or the reboot it saw begin never came (_install_from_nebulaos,
\* _disarm).
THEOREM ExitsDisarm == Spec => EveryExitDisarms
  <1>1. Init => ArmedInv BY ArmedStarts
  <1>2. IInv /\ ArmedInv /\ [Next]_vars => ArmedInv' BY ArmedStep
  <1>3. IInv /\ ArmedInv /\ [Next]_vars =>
          [pc \notin {"off", "unseen", "undisarmed"} /\ pc' = "off"
              /\ left'["kill"] = left["kill"] /\ txn.state # "REBOOTING_TO_STOCK" => ~Armed']_vars
    BY ExitStep
  <1> QED BY <1>1, <1>2, <1>3, Invariant, PTL DEF Spec, EveryExitDisarms
====
