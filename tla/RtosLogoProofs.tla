--------------------------- MODULE RtosLogoProofs ---------------------------
(***************************************************************************)
(* BackedUp and OwnerWrites for any number of agents, any contents and any *)
(* number of faults.                                                       *)
(***************************************************************************)
EXTENDS RtosLogo, TLAPS

Writes == [by : Agents \cup {Gone}, new : Contents, whole : BOOLEAN, alone : BOOLEAN]

Locks ==
    /\ hostlock \in [by : Agents \cup {Gone}, named : BOOLEAN] \cup {Free}
    /\ flash \in Agents \cup {Free, Gone}
Partition ==
    /\ backups \subseteq Contents /\ rtos2 \in Contents
    /\ dds \subseteq Writes /\ stray \in BOOLEAN
    /\ marker \in {1, 2} /\ running \in 0..2
Counters ==
    /\ pc \in [Agents -> Remote \cup {"off", "create", "name", "inspect", "reclaim", "find",
                                      "choose", "writing", "lost", "confirm", "release"}]
Works ==
    /\ op \in [Agents -> Operations]
    /\ image \in [Agents -> Contents] /\ payload \in [Agents -> Contents]

\* What the lock on the printer guards.
Guarded == {"find", "guards", "copy", "backup", "choose", "stage", "write", "writing", "lost",
            "confirm", "release"}

\* An agent works on rtos2 only while the printer's lock is its own.
OwnInv == \A a \in Agents : pc[a] \in Guarded => flash = a

\* A write whose call still stands is its owner's only one.
WriteInv ==
    /\ \A w \in dds : w.by # Gone => pc[w.by] = "writing"
    /\ \A v, w \in dds : v.by = w.by /\ v.by # Gone => v = w

\* Without a write that lost its caller, what is written over is in the backups.
QuietInv == ~stray => Orphans = {} /\ (dds # {} => ~Whole(rtos2) \/ rtos2 \in backups)

\* From the backup to the write the partition is what the backup holds.
BackupInv ==
    ~stray => \A a \in Agents : pc[a] \in {"choose", "stage", "write"} => rtos2 \in backups

IInv == TypeOK /\ OwnInv /\ WriteInv /\ QuietInv /\ BackupInv

\* Each step is one of these.
LEMMA Steps ==
  ASSUME Next
  PROVE  \/ \E a \in Agents :
               \/ \E o \in Operations, c \in backups \cup {Nothing} : Start(a, o, c)
               \/ CreateLock(a) \/ NameLock(a) \/ InspectLock(a) \/ ReclaimLock(a)
               \/ AcquireFlashLock(a) \/ FindBackup(a) \/ Guards(a) \/ ReadImage(a)
               \/ Backup(a) \/ Choose(a) \/ Stage(a) \/ StartWrite(a) \/ WriteReported(a)
               \/ WriteLost(a) \/ Confirm(a) \/ Stops(a) \/ Release(a) \/ Killed(a)
         \/ WriteEnds \/ PowerCut \/ MarkerMoves
  BY Zenon DEF Next, StartAny, Step

LEMMA LeftStep ==
  ASSUME left \in [FaultKinds -> Nat], [Next]_vars
  PROVE  left' \in [FaultKinds -> Nat]
  <1>1. UNCHANGED left \/ \E k \in FaultKinds : Fault(k)
    <2>1. CASE UNCHANGED vars BY <2>1 DEF vars
    <2>2. CASE Next
      <3>1. ASSUME NEW a \in Agents, StartAny(a) PROVE UNCHANGED left
        BY <3>1 DEF StartAny, Start
      <3>2. ASSUME NEW a \in Agents, Step(a) PROVE UNCHANGED left \/ \E k \in FaultKinds : Fault(k)
        BY <3>2 DEF Step, CreateLock, NameLock, InspectLock, ReclaimLock, AcquireFlashLock,
                    FindBackup, Guards, ReadImage, Backup, Choose, Stage, StartWrite,
                    WriteReported, WriteLost, Confirm, Stops, Release, NoFault, FaultKinds
      <3>3. ASSUME NEW a \in Agents, Killed(a) PROVE Fault("kill") BY <3>3 DEF Killed
      <3>4. ASSUME WriteEnds PROVE UNCHANGED left \/ Fault("flash") BY <3>4 DEF WriteEnds, NoFault
      <3>5. ASSUME PowerCut \/ MarkerMoves PROVE Fault("cut") \/ Fault("marker")
        BY <3>5 DEF PowerCut, MarkerMoves
      <3> QED BY <2>2, <3>1, <3>2, <3>3, <3>4, <3>5 DEF Next, FaultKinds
    <2> QED BY <2>1, <2>2
  <1> QED BY <1>1 DEF Fault

\* What a write leaves is a content of the partition, and torn until it ends.
LEMMA Writing ==
  ASSUME NEW w \in Writes, NEW c \in Contents
  PROVE  Over(w, c) \in Contents
  BY DEF Over, Contents, Writes

LEMMA Unwhole ==
  ASSUME NEW w \in Writes, rtos2 \in Contents
  PROVE  \A c \in Unfinished(w) : c \in Contents /\ ~Whole(c)
  BY DEF Unfinished, Contents, Whole, Writes

\* An abandoned write stays a write, and one that stays without its caller is recorded.
LEMMA Abandoning ==
  ASSUME NEW a \in Agents, dds \subseteq Writes, stray \in BOOLEAN, Abandoned(a)
  PROVE  /\ dds' \subseteq Writes /\ stray' \in BOOLEAN
         /\ \A w \in dds' : w.by # Gone => w \in dds /\ w.by # a
         /\ stray => stray'
         /\ ~stray' => dds' = dds \ Mine(a)
  <1>1. \A w \in Writes : [w EXCEPT !.by = Gone] \in Writes /\ [w EXCEPT !.by = Gone].by = Gone
    BY DEF Writes
  <1>2. Mine(a) \subseteq dds /\ \A w \in dds \ Mine(a) : w.by # a BY DEF Mine
  <1> QED BY <1>1, <1>2 DEF Abandoned

-----------------------------------------------------------------------------
LEMMA LocksStep == ASSUME TypeOK, [Next]_vars PROVE Locks'
  <1> USE DEF TypeOK, Locks, Off, Ends, Returns, To, At, locks
  <1>1. CASE UNCHANGED vars BY <1>1 DEF vars
  <1>2. CASE WriteEnds \/ PowerCut \/ MarkerMoves BY <1>2 DEF WriteEnds, PowerCut, MarkerMoves
  <1>3. ASSUME NEW a \in Agents, Killed(a) PROVE Locks' BY <1>3 DEF Killed
  <1>4. ASSUME NEW a \in Agents, Release(a) PROVE Locks' BY <1>4 DEF Release
  <1>5. ASSUME NEW a \in Agents, AcquireFlashLock(a) PROVE Locks' BY <1>5 DEF AcquireFlashLock
  <1>6. ASSUME NEW a \in Agents,
               CreateLock(a) \/ NameLock(a) \/ InspectLock(a) \/ ReclaimLock(a) \/ Stops(a)
        PROVE  Locks'
    <2>1. hostlock # Free =>
            [hostlock EXCEPT !.named = TRUE] \in [by : Agents \cup {Gone}, named : BOOLEAN]
      OBVIOUS
    <2>2. CASE CreateLock(a)
      <3>1. [by |-> a, named |-> FALSE] \in [by : Agents \cup {Gone}, named : BOOLEAN] OBVIOUS
      <3>2. hostlock' \in {[by |-> a, named |-> FALSE], hostlock} /\ UNCHANGED flash
        BY <2>2, Zenon DEF CreateLock
      <3> QED BY <3>1, <3>2
    <2>3. CASE NameLock(a) BY <2>1, <2>3 DEF NameLock
    <2>4. CASE InspectLock(a) BY <2>4 DEF InspectLock
    <2>5. CASE ReclaimLock(a) BY <2>5 DEF ReclaimLock
    <2>6. CASE Stops(a) BY <2>6 DEF Stops
    <2> QED BY <1>6, <2>2, <2>3, <2>4, <2>5, <2>6
  <1>7. ASSUME NEW a \in Agents,
               FindBackup(a) \/ Guards(a) \/ ReadImage(a) \/ Backup(a) \/ Choose(a) \/ Stage(a)
        PROVE  Locks'
    BY <1>7 DEF FindBackup, Guards, ReadImage, Backup, Choose, Stage
  <1>8. ASSUME NEW a \in Agents,
               StartWrite(a) \/ WriteReported(a) \/ WriteLost(a) \/ Confirm(a)
        PROVE  Locks'
    BY <1>8 DEF StartWrite, WriteReported, WriteLost, Confirm
  <1>9. ASSUME NEW a \in Agents, NEW o \in Operations, NEW c, Start(a, o, c) PROVE Locks'
    BY <1>9 DEF Start
  <1> QED BY <1>1, <1>2, <1>3, <1>4, <1>5, <1>6, <1>7, <1>8, <1>9, Steps

LEMMA PartitionStep == ASSUME TypeOK, [Next]_vars PROVE Partition'
  <1> USE DEF TypeOK, Partition, boot, writes
  <1> dds \subseteq Writes BY DEF Writes
  <1>1. CASE UNCHANGED vars BY <1>1 DEF vars
  <1>2. CASE WriteEnds
    <2>1. PICK w \in dds : /\ dds' = dds \ {w}
                           /\ rtos2' \in {Over(w, rtos2), rtos2} \cup Unfinished(w)
      BY <1>2 DEF WriteEnds
    <2>2. rtos2' \in Contents BY <2>1, Writing, Unwhole
    <2> QED BY <1>2, <2>1, <2>2 DEF WriteEnds
  <1>3. CASE PowerCut BY <1>3 DEF PowerCut
  <1>4. CASE MarkerMoves BY <1>4 DEF MarkerMoves
  <1>5. ASSUME NEW a \in Agents, Backup(a) PROVE Partition' BY <1>5 DEF Backup
  <1>6. ASSUME NEW a \in Agents, StartWrite(a) PROVE Partition'
    <2> DEFINE w == [by |-> a, new |-> payload[a], whole |-> op[a] = "rtos-logo-restore",
                     alone |-> dds = {}]
    <2>1. w \in Writes BY DEF Writes
    <2>2. \A v \in Writes : [v EXCEPT !.alone = FALSE] \in Writes BY DEF Writes
    <2>3. dds' = {[v EXCEPT !.alone = FALSE] : v \in dds} \cup {w}
      BY <1>6 DEF StartWrite
    <2>4. rtos2' \in {rtos2} \cup Unfinished(w) BY <1>6 DEF StartWrite
    <2>5. dds' \subseteq Writes BY <2>1, <2>2, <2>3
    <2>6. rtos2' \in Contents BY <2>1, <2>4, Unwhole
    <2>7. UNCHANGED <<backups, stray, marker, running>> BY <1>6 DEF StartWrite
    <2> QED BY <2>5, <2>6, <2>7 DEF Writes
  <1>7. ASSUME NEW a \in Agents, WriteLost(a) \/ Killed(a) PROVE Partition'
    <2>1. Abandoned(a) \/ UNCHANGED writes BY <1>7 DEF WriteLost, Killed
    <2>2. dds' \subseteq Writes /\ stray' \in BOOLEAN BY <2>1, Abandoning
    <2>3. UNCHANGED <<backups, rtos2, marker, running>> BY <1>7 DEF WriteLost, Killed
    <2> QED BY <2>2, <2>3 DEF Writes
  <1>8. ASSUME NEW a \in Agents,
               CreateLock(a) \/ NameLock(a) \/ InspectLock(a) \/ ReclaimLock(a) \/ Stops(a)
        PROVE  Partition'
    BY <1>8 DEF CreateLock, NameLock, InspectLock, ReclaimLock, Stops
  <1>9. ASSUME NEW a \in Agents,
               \/ AcquireFlashLock(a) \/ FindBackup(a) \/ Guards(a) \/ ReadImage(a) \/ Choose(a)
               \/ Stage(a) \/ WriteReported(a) \/ Confirm(a) \/ Release(a)
        PROVE  Partition'
    BY <1>9 DEF AcquireFlashLock, FindBackup, Guards, ReadImage, Choose, Stage, WriteReported,
                Confirm, Release
  <1>10. ASSUME NEW a \in Agents, NEW o \in Operations, NEW c, Start(a, o, c) PROVE Partition'
    BY <1>10 DEF Start
  <1> QED BY <1>1, <1>2, <1>3, <1>4, <1>5, <1>6, <1>7, <1>8, <1>9, <1>10, Steps

LEMMA CountersStep == ASSUME TypeOK, [Next]_vars PROVE Counters'
  <1> USE DEF TypeOK, Counters, Off, Ends, Returns, To, At, work, Remote
  <1>1. CASE UNCHANGED vars BY <1>1 DEF vars
  <1>2. CASE WriteEnds \/ PowerCut \/ MarkerMoves BY <1>2 DEF WriteEnds, PowerCut, MarkerMoves
  <1>3. ASSUME NEW a \in Agents,
               CreateLock(a) \/ NameLock(a) \/ InspectLock(a) \/ ReclaimLock(a) \/ Stops(a)
        PROVE  Counters'
    BY <1>3 DEF CreateLock, NameLock, InspectLock, ReclaimLock, Stops
  <1>4. ASSUME NEW a \in Agents,
               AcquireFlashLock(a) \/ FindBackup(a) \/ Guards(a) \/ ReadImage(a) \/ Backup(a)
        PROVE  Counters'
    BY <1>4 DEF AcquireFlashLock, FindBackup, Guards, ReadImage, Backup
  <1>5. ASSUME NEW a \in Agents, Choose(a) \/ Stage(a) \/ StartWrite(a) \/ WriteReported(a)
        PROVE  Counters'
    BY <1>5 DEF Choose, Stage, StartWrite, WriteReported
  <1>6. ASSUME NEW a \in Agents, WriteLost(a) \/ Confirm(a) \/ Release(a) \/ Killed(a)
        PROVE  Counters'
    BY <1>6 DEF WriteLost, Confirm, Release, Killed
  <1>7. ASSUME NEW a \in Agents, NEW o \in Operations, NEW c, Start(a, o, c) PROVE Counters'
    BY <1>7 DEF Start
  <1> QED BY <1>1, <1>2, <1>3, <1>4, <1>5, <1>6, <1>7, Steps

LEMMA WorksStep == ASSUME TypeOK, [Next]_vars PROVE Works'
  <1> USE DEF TypeOK, Works, work, Off, Ends, Operations
  <1> Nothing \in Contents BY DEF Nothing, Contents
  <1>1. CASE UNCHANGED vars BY <1>1 DEF vars
  <1>2. CASE WriteEnds \/ PowerCut \/ MarkerMoves BY <1>2 DEF WriteEnds, PowerCut, MarkerMoves
  <1>3. ASSUME NEW a \in Agents,
               CreateLock(a) \/ NameLock(a) \/ InspectLock(a) \/ ReclaimLock(a) \/ Stops(a)
        PROVE  Works'
    BY <1>3 DEF CreateLock, NameLock, InspectLock, ReclaimLock, Stops
  <1>4. ASSUME NEW a \in Agents, ReadImage(a) PROVE Works'
    <2>1. [image[a] EXCEPT !.rest = Torn] \in Contents BY DEF Contents
    <2> QED BY <1>4, <2>1 DEF ReadImage
  <1>5. ASSUME NEW a \in Agents, Choose(a) PROVE Works'
    <2>1. Patched(image[a]) \in Contents BY DEF Contents, Patched, Heads
    <2> QED BY <1>5, <2>1 DEF Choose
  <1>6. ASSUME NEW a \in Agents,
               \/ AcquireFlashLock(a) \/ FindBackup(a) \/ Guards(a) \/ Backup(a) \/ Stage(a)
               \/ StartWrite(a) \/ WriteReported(a)
        PROVE  Works'
    BY <1>6 DEF AcquireFlashLock, FindBackup, Guards, Backup, Stage, StartWrite, WriteReported
  <1>7. ASSUME NEW a \in Agents, WriteLost(a) \/ Confirm(a) \/ Release(a) \/ Killed(a)
        PROVE  Works'
    BY <1>7 DEF WriteLost, Confirm, Release, Killed
  <1>8. ASSUME NEW a \in Agents, NEW o \in Operations, NEW c \in backups \cup {Nothing},
               Start(a, o, c)
        PROVE  Works'
    <2>1. c \in Contents OBVIOUS
    <2> QED BY <1>8, <2>1 DEF Start
  <1> QED BY <1>1, <1>2, <1>3, <1>4, <1>5, <1>6, <1>7, <1>8, Steps

LEMMA TypeStep == ASSUME TypeOK, [Next]_vars PROVE TypeOK'
  <1>1. left \in [FaultKinds -> Nat] BY DEF TypeOK
  <1> QED BY <1>1, LeftStep, LocksStep, PartitionStep, CountersStep, WorksStep
          DEF TypeOK, Locks, Partition, Counters, Works, Writes

-----------------------------------------------------------------------------
LEMMA OwnStep == ASSUME IInv, [Next]_vars PROVE OwnInv'
  <1> USE DEF IInv, TypeOK, OwnInv, Guarded, Off, Ends, Returns, To, At, Remote, locks
  <1>1. CASE UNCHANGED vars BY <1>1 DEF vars
  <1>2. CASE WriteEnds \/ PowerCut \/ MarkerMoves BY <1>2 DEF WriteEnds, PowerCut, MarkerMoves
  <1>3. ASSUME NEW a \in Agents,
               CreateLock(a) \/ NameLock(a) \/ InspectLock(a) \/ ReclaimLock(a) \/ Stops(a)
        PROVE  OwnInv'
    BY <1>3 DEF CreateLock, NameLock, InspectLock, ReclaimLock, Stops
  <1>4. ASSUME NEW a \in Agents, AcquireFlashLock(a) PROVE OwnInv'
    <2>1. flash = Free => \A b \in Agents : pc[b] \notin Guarded BY RtosAssumption
    <2>2. flash # Free => UNCHANGED flash BY <1>4 DEF AcquireFlashLock
    <2>3. flash = Free => \A b \in Agents : pc'[b] \in Guarded => b = a /\ flash' = a
      BY <1>4, <2>1 DEF AcquireFlashLock
    <2>4. flash # Free => \A b \in Agents : pc'[b] \in Guarded => b # a /\ pc'[b] = pc[b]
      BY <1>4 DEF AcquireFlashLock
    <2> QED BY <2>2, <2>3, <2>4
  <1>5. ASSUME NEW a \in Agents,
               FindBackup(a) \/ Guards(a) \/ ReadImage(a) \/ Backup(a) \/ Choose(a) \/ Stage(a)
        PROVE  OwnInv'
    BY <1>5 DEF FindBackup, Guards, ReadImage, Backup, Choose, Stage
  <1>6. ASSUME NEW a \in Agents,
               StartWrite(a) \/ WriteReported(a) \/ WriteLost(a) \/ Confirm(a)
        PROVE  OwnInv'
    BY <1>6 DEF StartWrite, WriteReported, WriteLost, Confirm
  <1>7. ASSUME NEW a \in Agents, Release(a) PROVE OwnInv' BY <1>7 DEF Release
  <1>8. ASSUME NEW a \in Agents, Killed(a) PROVE OwnInv' BY <1>8 DEF Killed
  <1>9. ASSUME NEW a \in Agents, NEW o \in Operations, NEW c, Start(a, o, c) PROVE OwnInv'
    BY <1>9 DEF Start
  <1> QED BY <1>1, <1>2, <1>3, <1>4, <1>5, <1>6, <1>7, <1>8, <1>9, Steps

\* Every other step of an agent leaves the partition and its writes alone.
LEMMA Bystander ==
  ASSUME IInv, NEW a \in Agents,
         \/ CreateLock(a) \/ NameLock(a) \/ InspectLock(a) \/ ReclaimLock(a)
         \/ FindBackup(a) \/ Guards(a) \/ ReadImage(a) \/ Backup(a) \/ Choose(a)
         \/ Stage(a) \/ WriteReported(a) \/ Confirm(a) \/ Stops(a) \/ Release(a)
         \/ \E o \in Operations, c \in backups \cup {Nothing} : Start(a, o, c)
  PROVE  /\ UNCHANGED <<dds, stray, rtos2>> /\ backups \subseteq backups'
         /\ \A b \in Agents : b # a => pc'[b] = pc[b]
         /\ pc[a] = "writing" => Mine(a) = {}
         /\ pc'[a] \in {"choose", "stage", "write"} =>
              pc[a] \in {"choose", "stage"} \/ rtos2 \in backups'
  <1> USE DEF IInv, TypeOK, Off, Returns, Ends, To, At, writes, Remote
  <1>1. CASE \/ CreateLock(a) \/ NameLock(a) \/ InspectLock(a) \/ ReclaimLock(a)
             \/ FindBackup(a) \/ Guards(a) \/ ReadImage(a) \/ Stops(a) \/ Release(a)
    BY <1>1 DEF CreateLock, NameLock, InspectLock, ReclaimLock, FindBackup, Guards, ReadImage,
                Stops, Release
  <1>2. CASE Backup(a) BY <1>2 DEF Backup
  <1>3. CASE Choose(a) \/ Stage(a) \/ WriteReported(a) \/ Confirm(a)
    BY <1>3 DEF Choose, Stage, WriteReported, Confirm
  <1>4. ASSUME NEW o \in Operations, NEW c, Start(a, o, c)
        PROVE  /\ UNCHANGED <<dds, stray, rtos2, backups>> /\ pc[a] = "off" /\ pc'[a] = "create"
               /\ \A b \in Agents : b # a => pc'[b] = pc[b]
    BY <1>4 DEF Start
  <1> QED BY <1>1, <1>2, <1>3, <1>4

LEMMA WriteStep == ASSUME IInv, [Next]_vars PROVE WriteInv'
  <1> USE DEF WriteInv
  <1>0. dds \subseteq Writes /\ stray \in BOOLEAN /\ WriteInv BY DEF IInv, TypeOK, Writes
  <1>1. CASE UNCHANGED vars BY <1>0, <1>1 DEF vars
  <1>2. CASE WriteEnds BY <1>0, <1>2 DEF WriteEnds
  <1>3. CASE PowerCut \/ MarkerMoves BY <1>0, <1>3 DEF PowerCut, MarkerMoves, writes
  <1>4. ASSUME NEW a \in Agents, StartWrite(a) PROVE WriteInv'
    <2> DEFINE w == [by |-> a, new |-> payload[a], whole |-> op[a] = "rtos-logo-restore",
                     alone |-> dds = {}]
    <2>1. dds' = {[v EXCEPT !.alone = FALSE] : v \in dds} \cup {w} BY <1>4 DEF StartWrite
    <2>2. \A v \in dds : [v EXCEPT !.alone = FALSE].by = v.by BY <1>0 DEF Writes
    <2>3. pc[a] = "write" /\ pc' = [pc EXCEPT ![a] = "writing"] BY <1>4 DEF StartWrite, At, To
    <2>4. \A v \in dds : v.by # a BY <1>0, <2>3, RtosAssumption
    <2>5. \A v \in dds : v.by # Gone => v.by \in Agents BY <1>0 DEF Writes
    <2>6. \A v \in dds' : v.by # Gone => pc'[v.by] = "writing"
      BY <1>0, <2>1, <2>2, <2>3, <2>4, <2>5 DEF IInv, TypeOK
    <2>7. \A u, v \in dds' : u.by = v.by /\ u.by # Gone => u = v
      <3> DEFINE joined(v) == [v EXCEPT !.alone = FALSE]
      <3>1. dds' = {joined(v) : v \in dds} \cup {w} BY <2>1
      <3>2. \A v \in dds : joined(v).by = v.by BY <2>2
      <3>3. w.by = a OBVIOUS
      <3> HIDE DEF joined, w
      <3> QED BY <1>0, <2>4, <3>1, <3>2, <3>3
    <2> QED BY <2>6, <2>7
  <1>5. ASSUME NEW a \in Agents, WriteLost(a) \/ Killed(a) PROVE WriteInv'
    <2>1. Abandoned(a) \/ (UNCHANGED writes /\ pc[a] = "lost") BY <1>5 DEF WriteLost, Killed, At
    <2>2. \A v \in dds' : v.by # Gone => v \in dds /\ v.by # a
      BY <1>0, <2>1, Abandoning DEF writes
    <2>3. \A b \in Agents : b # a => pc'[b] = pc[b]
      BY <1>5 DEF WriteLost, Killed, Returns, Off, To, IInv, TypeOK
    <2>4. \A v \in dds : v.by # Gone => v.by \in Agents BY <1>0 DEF Writes
    <2> QED BY <1>0, <2>2, <2>3, <2>4
  <1>6. ASSUME NEW a \in Agents, AcquireFlashLock(a) PROVE WriteInv'
    <2>1. UNCHANGED dds /\ pc[a] = "flash" BY <1>6 DEF AcquireFlashLock, At
    <2>2. \A b \in Agents : b # a => pc'[b] = pc[b]
      BY <1>6 DEF AcquireFlashLock, Ends, Off, To, IInv, TypeOK
    <2>3. \A v \in dds : v.by # Gone => v.by \in Agents BY <1>0 DEF Writes
    <2> QED BY <1>0, <2>1, <2>2, <2>3
  <1>7. ASSUME NEW a \in Agents,
               \/ CreateLock(a) \/ NameLock(a) \/ InspectLock(a) \/ ReclaimLock(a)
               \/ FindBackup(a) \/ Guards(a) \/ ReadImage(a) \/ Backup(a) \/ Choose(a)
               \/ Stage(a) \/ WriteReported(a) \/ Confirm(a) \/ Stops(a) \/ Release(a)
               \/ \E o \in Operations, c \in backups \cup {Nothing} : Start(a, o, c)
        PROVE  WriteInv'
    <2>1. /\ UNCHANGED dds /\ (pc[a] = "writing" => Mine(a) = {})
          /\ \A b \in Agents : b # a => pc'[b] = pc[b]
      BY <1>7, Bystander
    <2>2. \A v \in dds : v.by # Gone => v.by \in Agents BY <1>0 DEF Writes
    <2>3. \A v \in dds : v.by # Gone => v.by # a BY <1>0, <2>1 DEF Mine
    <2> QED BY <1>0, <2>1, <2>2, <2>3
  <1> QED BY <1>1, <1>2, <1>3, <1>4, <1>5, <1>6, <1>7, Steps

\* While an agent owns the printer's lock nobody else's call writes.
LEMMA Alone ==
  ASSUME IInv, NEW a \in Agents, flash = a, pc[a] # "writing", ~stray
  PROVE  dds = {}
  <1>1. \A w \in dds : w.by \in Agents
    BY RtosAssumption DEF IInv, QuietInv, Orphans, TypeOK
  <1>2. \A w \in dds : pc[w.by] = "writing" /\ flash = w.by
    BY <1>1, RtosAssumption DEF IInv, WriteInv, OwnInv, Guarded
  <1> QED BY <1>2

LEMMA QuietStep == ASSUME IInv, [Next]_vars PROVE QuietInv'
  <1>0. dds \subseteq Writes /\ stray \in BOOLEAN /\ QuietInv BY DEF IInv, TypeOK, Writes
  <1> SUFFICES ASSUME ~stray'
               PROVE  /\ \A w \in dds' : w.by # Gone
                      /\ dds' # {} => ~Whole(rtos2') \/ rtos2' \in backups'
    BY DEF QuietInv, Orphans, Whole
  <1>1. CASE UNCHANGED vars BY <1>0, <1>1 DEF vars, QuietInv, Orphans
  <1>2. CASE WriteEnds
    <2>1. UNCHANGED stray BY <1>2 DEF WriteEnds
    <2>2. PICK w \in dds : dds' = dds \ {w} BY <1>2 DEF WriteEnds
    <2>3. \A v \in dds : v.by \in Agents /\ v.by # Gone /\ pc[v.by] = "writing" /\ flash = v.by
      BY <1>0, <2>1, RtosAssumption DEF QuietInv, Orphans, Writes, IInv, WriteInv, OwnInv, Guarded
    <2>4. \A v \in dds : v = w BY <2>3 DEF IInv, WriteInv
    <2> QED BY <2>2, <2>4
  <1>3. CASE PowerCut BY <1>3 DEF PowerCut
  <1>4. CASE MarkerMoves BY <1>0, <1>4 DEF MarkerMoves, writes, locks, QuietInv, Orphans
  <1>5. ASSUME NEW a \in Agents, StartWrite(a)
        PROVE  (\A v \in dds' : v.by # Gone) /\ (~Whole(rtos2') \/ rtos2' \in backups')
    <2> DEFINE w == [by |-> a, new |-> payload[a], whole |-> op[a] = "rtos-logo-restore",
                     alone |-> dds = {}]
    <2>1. UNCHANGED <<stray, backups>> /\ pc[a] = "write" BY <1>5 DEF StartWrite, At
    <2>2. dds = {} BY <2>1, Alone DEF IInv, OwnInv, Guarded
    <2>3. dds' = {w} BY <1>5, <2>2 DEF StartWrite
    <2>4. w \in Writes BY DEF IInv, TypeOK, Writes
    <2>5. rtos2' \in {rtos2} \cup Unfinished(w) BY <1>5 DEF StartWrite
    <2>6. rtos2 \in backups BY <2>1 DEF IInv, BackupInv
    <2>7. \A c \in Unfinished(w) : ~Whole(c) BY <2>4, Unwhole DEF IInv, TypeOK
    <2> QED BY <2>1, <2>3, <2>5, <2>6, <2>7, RtosAssumption
  <1>6. ASSUME NEW a \in Agents, WriteLost(a) \/ Killed(a)
        PROVE  /\ \A w \in dds' : w.by # Gone
               /\ dds' # {} => ~Whole(rtos2') \/ rtos2' \in backups'
    <2>1. Abandoned(a) \/ UNCHANGED writes BY <1>6 DEF WriteLost, Killed
    <2>2. dds' \subseteq dds /\ ~stray BY <1>0, <2>1, Abandoning DEF writes
    <2>3. UNCHANGED <<rtos2, backups>> BY <1>6 DEF WriteLost, Killed
    <2> QED BY <1>0, <2>2, <2>3 DEF QuietInv, Orphans
  <1>7. ASSUME NEW a \in Agents, AcquireFlashLock(a)
        PROVE  /\ \A w \in dds' : w.by # Gone
               /\ dds' # {} => ~Whole(rtos2') \/ rtos2' \in backups'
    <2>1. UNCHANGED <<dds, rtos2, backups>> BY <1>7 DEF AcquireFlashLock
    <2>2. CASE UNCHANGED stray BY <1>0, <2>1, <2>2 DEF QuietInv, Orphans
    <2>3. CASE flash = Free /\ stray' = (Orphans # {})
      <3>1. \A w \in dds : w.by # Gone BY <2>3 DEF Orphans
      <3>2. \A w \in dds : w.by \in Agents /\ pc[w.by] = "writing"
        BY <1>0, <3>1 DEF Writes, IInv, WriteInv
      <3>3. dds = {} BY <2>3, <3>2, RtosAssumption DEF IInv, OwnInv, Guarded
      <3> QED BY <2>1, <3>3
    <2> QED BY <1>7, <2>2, <2>3 DEF AcquireFlashLock
  <1>8. ASSUME NEW a \in Agents,
               \/ CreateLock(a) \/ NameLock(a) \/ InspectLock(a) \/ ReclaimLock(a)
               \/ FindBackup(a) \/ Guards(a) \/ ReadImage(a) \/ Backup(a) \/ Choose(a)
               \/ Stage(a) \/ WriteReported(a) \/ Confirm(a) \/ Stops(a) \/ Release(a)
               \/ \E o \in Operations, c \in backups \cup {Nothing} : Start(a, o, c)
        PROVE  /\ \A w \in dds' : w.by # Gone
               /\ dds' # {} => ~Whole(rtos2') \/ rtos2' \in backups'
    <2>1. UNCHANGED <<dds, stray, rtos2>> /\ backups \subseteq backups' BY <1>8, Bystander
    <2> QED BY <1>0, <2>1 DEF QuietInv, Orphans
  <1> QED BY <1>1, <1>2, <1>3, <1>4, <1>5, <1>6, <1>7, <1>8, Steps

LEMMA BackupStep == ASSUME IInv, [Next]_vars PROVE BackupInv'
  <1> DEFINE Busy(b) == pc[b] \in {"choose", "stage", "write"}
  <1>0. stray \in BOOLEAN /\ BackupInv BY DEF IInv, TypeOK
  <1>1. CASE UNCHANGED vars BY <1>0, <1>1 DEF vars, BackupInv
  <1>2. CASE WriteEnds
    <2>1. UNCHANGED <<stray, pc, backups>> BY <1>2 DEF WriteEnds, locks
    <2>2. PICK w \in dds : TRUE BY <1>2 DEF WriteEnds
    <2>3. ~stray => w.by \in Agents /\ pc[w.by] = "writing" /\ flash = w.by
      BY <2>2, RtosAssumption DEF IInv, QuietInv, Orphans, TypeOK, WriteInv, OwnInv, Guarded
    <2>4. ~stray => \A b \in Agents : ~Busy(b) BY <2>3 DEF IInv, OwnInv, Guarded
    <2> QED BY <2>1, <2>4 DEF BackupInv
  <1>3. CASE PowerCut \/ MarkerMoves
    BY <1>0, <1>3 DEF PowerCut, MarkerMoves, locks, writes, BackupInv, IInv, TypeOK, At
  <1>4. ASSUME NEW a \in Agents, StartWrite(a) PROVE BackupInv'
    <2>1. flash = a BY <1>4 DEF StartWrite, At, IInv, OwnInv, Guarded
    <2>2. \A b \in Agents : b # a => ~Busy(b) BY <2>1 DEF IInv, OwnInv, Guarded
    <2>3. pc' = [pc EXCEPT ![a] = "writing"] BY <1>4 DEF StartWrite, To
    <2> QED BY <2>2, <2>3 DEF BackupInv, IInv, TypeOK
  <1>5. ASSUME NEW a \in Agents, WriteLost(a) \/ Killed(a) PROVE BackupInv'
    <2>1. Abandoned(a) \/ UNCHANGED writes BY <1>5 DEF WriteLost, Killed
    <2>2. dds \subseteq Writes BY DEF IInv, TypeOK, Writes
    <2>3. stray => stray' BY <1>0, <2>1, <2>2, Abandoning DEF writes
    <2>4. UNCHANGED <<rtos2, backups>> BY <1>5 DEF WriteLost, Killed
    <2>5. \A b \in Agents : pc'[b] \in {pc[b], "release", "off"}
      BY <1>5 DEF WriteLost, Killed, Returns, Off, To, IInv, TypeOK
    <2> QED BY <1>0, <2>3, <2>4, <2>5 DEF BackupInv
  <1>6. ASSUME NEW a \in Agents, AcquireFlashLock(a) PROVE BackupInv'
    <2>1. UNCHANGED <<rtos2, backups>> BY <1>6 DEF AcquireFlashLock
    <2>2. CASE UNCHANGED stray
      <3>1. \A b \in Agents : pc'[b] \in {pc[b], "guards", "find", "off"}
        BY <1>6 DEF AcquireFlashLock, Ends, Off, To, IInv, TypeOK
      <3> QED BY <1>0, <2>1, <2>2, <3>1 DEF BackupInv
    <2>3. CASE flash = Free
      <3>1. \A b \in Agents : ~Busy(b) BY <2>3, RtosAssumption DEF IInv, OwnInv, Guarded
      <3>2. \A b \in Agents : pc'[b] \in {pc[b], "guards", "find", "off"}
        BY <1>6 DEF AcquireFlashLock, Ends, Off, To, IInv, TypeOK
      <3> QED BY <3>1, <3>2 DEF BackupInv
    <2> QED BY <1>6, <2>2, <2>3 DEF AcquireFlashLock
  <1>7. ASSUME NEW a \in Agents,
               \/ CreateLock(a) \/ NameLock(a) \/ InspectLock(a) \/ ReclaimLock(a)
               \/ FindBackup(a) \/ Guards(a) \/ ReadImage(a) \/ Backup(a) \/ Choose(a)
               \/ Stage(a) \/ WriteReported(a) \/ Confirm(a) \/ Stops(a) \/ Release(a)
               \/ \E o \in Operations, c \in backups \cup {Nothing} : Start(a, o, c)
        PROVE  BackupInv'
    <2>1. /\ UNCHANGED <<stray, rtos2>> /\ backups \subseteq backups'
          /\ \A b \in Agents : b # a => pc'[b] = pc[b]
          /\ pc'[a] \in {"choose", "stage", "write"} =>
               pc[a] \in {"choose", "stage"} \/ rtos2 \in backups'
      BY <1>7, Bystander
    <2> QED BY <1>0, <2>1 DEF BackupInv
  <1> QED BY <1>1, <1>2, <1>3, <1>4, <1>5, <1>6, <1>7, Steps

-----------------------------------------------------------------------------
LEMMA InitType == Init => TypeOK
  <1> SUFFICES ASSUME Init PROVE TypeOK OBVIOUS
  <1>1. rtos2 \in Contents BY DEF Init, Contents
  <1>2. Locks /\ Counters BY DEF Init, Locks, Counters
  <1>3. Partition /\ Works
    <2>1. Nothing \in Contents BY DEF Nothing, Contents
    <2>2. Works BY <2>1 DEF Init, Works, Operations
    <2>3. dds \subseteq Writes /\ stray \in BOOLEAN BY DEF Init
    <2>4. backups \subseteq Contents /\ marker \in {1, 2} /\ running \in 0..2 BY DEF Init
    <2> QED BY <1>1, <2>2, <2>3, <2>4 DEF Partition
  <1>4. left \in [FaultKinds -> Nat] BY RtosAssumption DEF Init
  <1> QED BY <1>1, <1>2, <1>3, <1>4 DEF TypeOK, Locks, Partition, Counters, Works, Writes

\* The state keeps its types, for any agents, contents and faults.
THEOREM TypeCorrect == Spec => []TypeOK
  <1>1. TypeOK /\ [Next]_vars => TypeOK' BY TypeStep
  <1> QED BY <1>1, InitType, PTL DEF Spec

LEMMA Invariant == Spec => []IInv
  <1>1. Init => IInv
    BY InitType DEF Init, IInv, OwnInv, WriteInv, QuietInv, BackupInv, Guarded, Orphans
  <1>2. IInv /\ [Next]_vars => IInv'
    BY TypeStep, OwnStep, WriteStep, QuietStep, BackupStep DEF IInv
  <1> QED BY <1>1, <1>2, PTL DEF Spec

\* rtos2 changes only in a write, of the lock's owner.
LEMMA Changes ==
  ASSUME IInv, [Next]_vars, rtos2' # rtos2
  PROVE  \/ \E a \in Agents : StartWrite(a)
         \/ WriteEnds
  <1>1. ~UNCHANGED vars BY DEF vars
  <1>2. ASSUME NEW a \in Agents,
               \/ CreateLock(a) \/ NameLock(a) \/ InspectLock(a) \/ ReclaimLock(a)
               \/ AcquireFlashLock(a) \/ FindBackup(a) \/ Guards(a) \/ ReadImage(a)
               \/ Backup(a) \/ Choose(a) \/ Stage(a) \/ WriteReported(a) \/ WriteLost(a)
               \/ Confirm(a) \/ Stops(a) \/ Release(a) \/ Killed(a)
        PROVE  FALSE
    BY <1>2 DEF CreateLock, NameLock, InspectLock, ReclaimLock, AcquireFlashLock, FindBackup,
                Guards, ReadImage, Backup, Choose, Stage, WriteReported, WriteLost, Confirm, Stops,
                Release, Killed
  <1>3. ASSUME NEW a \in Agents, NEW o \in Operations, NEW c, Start(a, o, c) PROVE FALSE
    BY <1>3 DEF Start
  <1>4. ~PowerCut /\ ~MarkerMoves BY DEF PowerCut, MarkerMoves
  <1> QED BY <1>1, <1>2, <1>3, <1>4, Steps

\* A whole rtos2 that changes is in the backups, however many agents share the
\* printer, or a dd whose call was given up ran on since flash.lock was taken.
THEOREM BackedUpHolds == Spec => BackedUp
  <1>1. IInv /\ [Next]_vars => [Whole(rtos2) /\ rtos2' # rtos2 => rtos2 \in backups \/ stray]_vars
    <2> SUFFICES ASSUME IInv, [Next]_vars, Whole(rtos2), rtos2' # rtos2, ~stray
                 PROVE  rtos2 \in backups
      OBVIOUS
    <2>1. CASE WriteEnds BY <2>1 DEF WriteEnds, IInv, QuietInv
    <2>2. ASSUME NEW a \in Agents, StartWrite(a) PROVE rtos2 \in backups
      BY <2>2 DEF StartWrite, At, IInv, BackupInv
    <2> QED BY <2>1, <2>2, Changes
  <1> QED BY <1>1, Invariant, PTL DEF Spec, BackedUp

\* rtos2 is changed by the owner of the printer's lock only, or while such a dd
\* runs on.
THEOREM OwnerWritesHolds == Spec => OwnerWrites
  <1>1. IInv /\ [Next]_vars
          => [rtos2' # rtos2 =>
                \/ flash \in Agents /\ pc[flash] \in {"write", "writing"}
                \/ Orphans # {}]_vars
    <2> SUFFICES ASSUME IInv, [Next]_vars, rtos2' # rtos2, Orphans = {}
                 PROVE  flash \in Agents /\ pc[flash] \in {"write", "writing"}
      OBVIOUS
    <2>1. CASE WriteEnds
      <3>1. PICK w \in dds : TRUE BY <2>1 DEF WriteEnds
      <3>2. w.by \in Agents /\ pc[w.by] = "writing"
        BY <3>1 DEF Orphans, IInv, TypeOK, WriteInv
      <3> QED BY <3>2 DEF IInv, OwnInv, Guarded
    <2>2. ASSUME NEW a \in Agents, StartWrite(a) PROVE flash = a /\ pc[a] = "write"
      BY <2>2 DEF StartWrite, At, IInv, OwnInv, Guarded
    <2> QED BY <2>1, <2>2, Changes
  <1> QED BY <1>1, Invariant, PTL DEF Spec, OwnerWrites

=============================================================================
