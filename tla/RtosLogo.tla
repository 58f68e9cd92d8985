------------------------------ MODULE RtosLogo ------------------------------
(***************************************************************************)
(* rtos-logo and rtos-logo-restore (tools/hardware/nebulaos_rtos.py): one  *)
(* partition, rtos2, is copied to the computer and then written over SSH,  *)
(* while the printer keeps running the system that rtos2 starts.  Several  *)
(* agents on one computer share a host lock; the printer has a lock of its *)
(* own.  A boot into slot 2 with a torn rtos2 stops before Linux.          *)
(*                                                                         *)
(* Abstractions.  rtos2 is two regions, the pinned image at its head and   *)
(* the rest of the partition; a region that a write did not finish is Torn.*)
(* Hashes are compared as the bytes they stand for.  Identity, idleness,   *)
(* free space, an open install transaction and rtos (p3) being unchanged   *)
(* are one kind of check that fails with the fault "drop", as does a call  *)
(* that is lost.  The steps on one side of an SSH call are one action.  The*)
(* result an operation prints is read by nobody and is left out.           *)
(***************************************************************************)
EXTENDS Naturals

CONSTANTS
    Agents,     \* agent processes on one computer
    Rests,      \* what may follow the image in rtos2
    Torn,       \* bytes a write left unfinished
    Free,       \* no lock
    Gone,       \* a process, or a call, that no longer exists
    Commands,   \* the operations in use
    Budgets     \* bound: how often each fault may happen, one alternative each

FaultKinds == {"drop", "kill", "cut", "flash", "marker"}
Operations == {"rtos-logo", "rtos-logo-restore"}
Heads == {"stock", "nebulaos", "other"}
Contents == [head : Heads \cup {Torn}, rest : Rests \cup {Torn}]

ASSUME RtosAssumption ==
    /\ Torn \notin Heads \cup Rests
    /\ Free \notin Agents \cup {Gone} /\ Gone \notin Agents
    /\ Commands \subseteq Operations
    /\ Budgets \subseteq [FaultKinds -> Nat]

VARIABLES
    \* on the computer
    hostlock,   \* the lock file: [by, named], named once its text is written
    backups,    \* the copies kept under rtos-backups
    \* on the printer
    flash,      \* flash.lock: Free, its owner, or Gone
    rtos2,      \* the partition
    dds,        \* the writes in progress: [by, new, whole, alone], by Gone once the call is over
    stray,      \* history: one with no caller ran since flash.lock was last taken
    marker,     \* the slot it selects
    running,    \* the slot this boot runs, 0 when SPL stopped
    \* each agent
    pc, op,
    image,      \* the copy of rtos2 it took
    payload,    \* what it writes
    left        \* the faults that may still happen

locks == <<hostlock, flash>>
boot == <<marker, running>>
writes == <<dds, stray>>
work == <<op, image, payload>>
vars == <<hostlock, backups, flash, rtos2, dds, stray, marker, running, pc, op, image, payload, left>>

Nothing == [head |-> Torn, rest |-> Torn]
Whole(c) == c.head # Torn /\ c.rest # Torn

Fault(k) == left[k] > 0 /\ left' = [left EXCEPT ![k] = @ - 1]
NoFault == UNCHANGED left
At(a, p) == pc[a] = p
To(a, p) == pc' = [pc EXCEPT ![a] = p]
Up == running # 0
Orphans == {w \in dds : w.by = Gone}
Mine(a) == {w \in dds : w.by = a}

Init ==
    /\ hostlock = Free /\ backups = {}
    /\ flash = Free /\ dds = {} /\ stray = FALSE
    /\ rtos2 \in [head : Heads, rest : Rests]
    /\ marker = 2 /\ running = 2
    /\ pc = [a \in Agents |-> "off"]
    /\ op = [a \in Agents |-> "rtos-logo"]
    /\ image = [a \in Agents |-> Nothing] /\ payload = [a \in Agents |-> Nothing]
    /\ left \in Budgets

-----------------------------------------------------------------------------
(* HostLock *)

\* A process that ends takes what it held in memory with it.
Off(a) ==
    /\ To(a, "off")
    /\ op' = [op EXCEPT ![a] = "rtos-logo"]
    /\ image' = [image EXCEPT ![a] = Nothing] /\ payload' = [payload EXCEPT ![a] = Nothing]

Start(a, o, c) ==
    /\ At(a, "off") /\ o \in Commands
    /\ op' = [op EXCEPT ![a] = o]
    /\ c \in IF o = "rtos-logo-restore" THEN backups ELSE {Nothing}
    /\ payload' = [payload EXCEPT ![a] = c]
    /\ To(a, "create")
    /\ UNCHANGED <<locks, backups, rtos2, writes, boot, image, left>>

\* O_CREAT | O_EXCL makes the file; its text is written afterwards.
CreateLock(a) ==
    /\ At(a, "create")
    /\ IF hostlock = Free
       THEN hostlock' = [by |-> a, named |-> FALSE] /\ To(a, "name")
       ELSE UNCHANGED hostlock /\ To(a, "inspect")
    /\ UNCHANGED <<backups, flash, rtos2, writes, boot, work, left>>

\* The file may have been replaced meanwhile; then the text goes nowhere.
NameLock(a) ==
    /\ At(a, "name")
    /\ hostlock' = IF hostlock # Free /\ hostlock.by = a
                   THEN [hostlock EXCEPT !.named = TRUE] ELSE hostlock
    /\ To(a, "flash")
    /\ UNCHANGED <<backups, flash, rtos2, writes, boot, work, left>>

\* _inspect: no usable pid, or a process that is gone.
Stale == hostlock # Free /\ (~hostlock.named \/ hostlock.by = Gone)
InspectLock(a) ==
    /\ At(a, "inspect")
    /\ IF Stale THEN To(a, "reclaim") /\ UNCHANGED work ELSE Off(a)
    /\ UNCHANGED <<locks, backups, rtos2, writes, boot, left>>

ReclaimLock(a) ==
    /\ At(a, "reclaim")
    /\ hostlock' = [by |-> a, named |-> TRUE]
    /\ To(a, "flash")
    /\ UNCHANGED <<backups, flash, rtos2, writes, boot, work, left>>

\* release unlinks the path, whoever's file is there.
Ends(a) == hostlock' = Free /\ Off(a)

-----------------------------------------------------------------------------
(* The printer's lock *)

\* Mutant: the lock of another computer's process is taken over.
TakeFlashLock(a) ==
    /\ At(a, "flash") /\ Up
    /\ flash' = a /\ To(a, IF op[a] = "rtos-logo" THEN "guards" ELSE "find")
    /\ stray' = (Orphans # {})
    /\ UNCHANGED <<hostlock, backups, rtos2, dds, boot, work, left>>

\* mkdir decides; an answer that is lost leaves the lock behind.
AcquireFlashLock(a) ==
    /\ At(a, "flash") /\ Up
    /\ \/ /\ flash = Free /\ flash' = a /\ stray' = (Orphans # {})
          /\ To(a, IF op[a] = "rtos-logo" THEN "guards" ELSE "find")
          /\ UNCHANGED <<hostlock, work>> /\ NoFault
       \/ flash # Free /\ UNCHANGED <<flash, stray>> /\ Ends(a) /\ NoFault
       \/ /\ flash = Free /\ flash' \in {Free, Gone} /\ UNCHANGED stray
          /\ Ends(a) /\ Fault("drop")
    /\ UNCHANGED <<backups, rtos2, dds, boot>>

\* release_flash_lock removes its own lock; whether it did is not read.
Release(a) ==
    /\ At(a, "release")
    /\ LET left_behind == IF flash = a THEN Gone ELSE flash
           removed == IF flash = a THEN Free ELSE flash IN
       \/ Up /\ flash' = removed /\ NoFault
       \/ flash' \in {removed, left_behind} /\ Fault("drop")
       \/ ~Up /\ flash' = left_behind /\ NoFault
    /\ Ends(a)
    /\ UNCHANGED <<backups, rtos2, writes, boot>>

Returns(a) == To(a, "release")

-----------------------------------------------------------------------------
(* The guards and the backup *)

\* The backup to restore must be the partition's size and carry the RTOS tag.
FindBackup(a) ==
    /\ At(a, "find")
    /\ \/ To(a, "guards")
       \/ payload[a].head = Torn /\ Returns(a)
    /\ UNCHANGED <<locks, backups, rtos2, writes, boot, work, left>>

GuardsPass == running = 2 /\ marker = 2

Guards(a) ==
    /\ At(a, "guards") /\ Up
    /\ IF ~GuardsPass THEN Returns(a)
       ELSE IF op[a] = "rtos-logo-restore" /\ rtos2 = payload[a] THEN Returns(a)
       ELSE To(a, "copy")
    /\ UNCHANGED <<locks, backups, rtos2, writes, boot, work, left>>

\* The copy and the printer's own hash are two reads of the partition.
ReadImage(a) ==
    /\ At(a, "copy") /\ Up
    /\ \/ image' = [image EXCEPT ![a] = rtos2] /\ To(a, "backup") /\ NoFault
       \/ image' = [image EXCEPT ![a].rest = Torn] /\ To(a, "backup") /\ Fault("drop")
    /\ UNCHANGED <<locks, backups, rtos2, writes, boot, op, payload>>

\* Mutant: the copy is kept without the printer's own hash.
BackupUnproven(a) ==
    /\ At(a, "backup") /\ Up
    /\ backups' = backups \cup {image[a]} /\ To(a, "choose")
    /\ UNCHANGED <<locks, rtos2, writes, boot, work, left>>

Backup(a) ==
    /\ At(a, "backup") /\ Up
    /\ IF image[a] = rtos2
       THEN backups' = backups \cup {image[a]} /\ To(a, "choose")
       ELSE UNCHANGED backups /\ Returns(a)
    /\ UNCHANGED <<locks, rtos2, writes, boot, work, left>>

\* nebulaos_image: the stock image with its logo slot replaced.
Patched(c) == [c EXCEPT !.head = "nebulaos"]

Choose(a) ==
    /\ At(a, "choose")
    /\ \/ /\ op[a] = "rtos-logo" /\ image[a].head = "stock"
          /\ payload' = [payload EXCEPT ![a] = Patched(image[a])]
          /\ To(a, "stage")
       \/ /\ op[a] = "rtos-logo" /\ image[a].head # "stock"
          /\ Returns(a) /\ UNCHANGED payload
       \/ op[a] = "rtos-logo-restore" /\ To(a, "stage") /\ UNCHANGED payload
    /\ UNCHANGED <<locks, backups, rtos2, writes, boot, op, image, left>>

\* The file is staged and hashed, then the guards run once more.
Stage(a) ==
    /\ At(a, "stage") /\ Up
    /\ IF GuardsPass THEN To(a, "write") ELSE Returns(a)
    /\ UNCHANGED <<locks, backups, rtos2, writes, boot, work, left>>

-----------------------------------------------------------------------------
(* The write *)

\* A logo is written over the image only, a backup over the partition.
Unfinished(w) ==
    {[rtos2 EXCEPT !.head = Torn]} \cup
    IF w.whole THEN {[head |-> h, rest |-> Torn] : h \in {Torn, w.new.head}} ELSE {}
Over(w, c) == IF w.whole THEN w.new ELSE [c EXCEPT !.head = w.new.head]

\* The script checks the node and the staged file before its dd begins.
StartWrite(a) ==
    /\ At(a, "write") /\ Up
    /\ LET w == [by |-> a, new |-> payload[a], whole |-> op[a] = "rtos-logo-restore",
                 alone |-> dds = {}] IN
       /\ dds' = {[v EXCEPT !.alone = FALSE] : v \in dds} \cup {w}
       /\ rtos2' \in {rtos2} \cup Unfinished(w)
    /\ To(a, "writing")
    /\ UNCHANGED <<locks, backups, stray, boot, work, left>>

\* Two writes at once may leave anything; so may one that its caller has left.
WriteEnds ==
    /\ \E w \in dds :
          /\ dds' = dds \ {w}
          /\ \/ rtos2' = Over(w, rtos2) /\ NoFault
             \/ /\ rtos2' \in {rtos2} \cup Unfinished(w)
                /\ IF w.alone /\ w.by # Gone THEN Fault("flash") ELSE NoFault
    /\ UNCHANGED <<locks, backups, stray, boot, pc, work>>

InPlace(a) == Over([new |-> payload[a], whole |-> op[a] = "rtos-logo-restore"], rtos2) = rtos2

\* The read-back on the printer.
WriteReported(a) ==
    /\ At(a, "writing") /\ Up /\ Mine(a) = {}
    /\ IF InPlace(a) THEN To(a, "confirm") ELSE Returns(a)
    /\ UNCHANGED <<locks, backups, rtos2, writes, boot, work, left>>

\* A call that is given up ends on the computer only: its dd dies with the
\* connection, or runs on with nobody waiting for it.
Abandoned(a) ==
    \/ dds' = dds \ Mine(a) /\ UNCHANGED stray
    \/ /\ Mine(a) # {} /\ stray' = TRUE
       /\ dds' = (dds \ Mine(a)) \cup {[w EXCEPT !.by = Gone] : w \in Mine(a)}

\* The report is lost or does not come in time.
WriteLost(a) ==
    /\ \/ At(a, "writing") /\ Fault("drop") /\ Abandoned(a)
       \/ At(a, "lost") /\ NoFault /\ UNCHANGED writes
    /\ Returns(a)
    /\ UNCHANGED <<locks, backups, rtos2, boot, work>>

\* Hashed again from the computer; whatever it finds, nothing more is written.
Confirm(a) ==
    /\ At(a, "confirm") /\ Returns(a)
    /\ \/ NoFault
       \/ Fault("drop")
    /\ UNCHANGED <<locks, backups, rtos2, writes, boot, work>>

Remote == {"flash", "guards", "copy", "backup", "stage", "write"}
\* A check refuses or a call fails before the write.
Stops(a) ==
    /\ pc[a] \in Remote \cup {"find"}
    /\ \/ pc[a] \in Remote /\ ~Up /\ NoFault
       \/ Fault("drop")
    /\ IF At(a, "flash") THEN Ends(a) ELSE Returns(a) /\ UNCHANGED <<hostlock, work>>
    /\ UNCHANGED <<flash, backups, rtos2, writes, boot>>

-----------------------------------------------------------------------------
(* The environment *)

\* A process that dies leaves both locks, and perhaps its dd.
Killed(a) ==
    /\ ~At(a, "off") /\ Fault("kill")
    /\ hostlock' = IF hostlock # Free /\ hostlock.by = a THEN [hostlock EXCEPT !.by = Gone]
                   ELSE hostlock
    /\ flash' = IF flash = a THEN Gone ELSE flash
    /\ Abandoned(a)
    /\ Off(a)
    /\ UNCHANGED <<backups, rtos2, boot>>

\* SPL loads rtos2 for slot 2.  Every write ends, and so do the calls that wait for one.
PowerCut ==
    /\ Fault("cut")
    /\ running' = IF marker = 1 THEN 1 ELSE IF rtos2.head = Torn THEN 0 ELSE 2
    /\ dds' = {}
    /\ pc' = [a \in Agents |-> IF At(a, "writing") THEN "lost" ELSE pc[a]]
    /\ UNCHANGED <<locks, backups, rtos2, stray, marker, work>>

\* The printer's own slot switch, which knows nothing of these locks.
MarkerMoves ==
    /\ Up /\ Fault("marker") /\ marker' = 3 - marker
    /\ UNCHANGED <<locks, backups, rtos2, writes, running, pc, work>>

Step(a) ==
    \/ CreateLock(a) \/ NameLock(a) \/ InspectLock(a) \/ ReclaimLock(a)
    \/ AcquireFlashLock(a) \/ FindBackup(a) \/ Guards(a) \/ ReadImage(a) \/ Backup(a)
    \/ Choose(a) \/ Stage(a) \/ StartWrite(a) \/ WriteReported(a) \/ WriteLost(a)
    \/ Confirm(a) \/ Stops(a) \/ Release(a)

StartAny(a) == \E o \in Operations, c \in backups \cup {Nothing} : Start(a, o, c)

Next ==
    \/ \E a \in Agents : StartAny(a) \/ Step(a) \/ Killed(a)
    \/ WriteEnds \/ PowerCut \/ MarkerMoves

Spec == Init /\ [][Next]_vars

TypeOK ==
    /\ hostlock \in [by : Agents \cup {Gone}, named : BOOLEAN] \cup {Free}
    /\ flash \in Agents \cup {Free, Gone}
    /\ backups \subseteq Contents /\ rtos2 \in Contents
    /\ dds \subseteq [by : Agents \cup {Gone}, new : Contents, whole : BOOLEAN, alone : BOOLEAN]
    /\ stray \in BOOLEAN
    /\ marker \in {1, 2} /\ running \in 0..2
    /\ pc \in [Agents -> Remote \cup {"off", "create", "name", "inspect", "reclaim", "find",
                                      "choose", "writing", "lost", "confirm", "release"}]
    /\ op \in [Agents -> Operations]
    /\ image \in [Agents -> Contents] /\ payload \in [Agents -> Contents]
    /\ left \in [FaultKinds -> Nat]

-----------------------------------------------------------------------------
(* Properties *)

\* A whole rtos2 is on the computer, byte for byte, before a write touches it,
\* whatever else two agents do at the same time (_backup before _write).
\* The exception: a dd whose call was given up may run on, while flash.lock is
\* released or left behind (device.py:608-617, agent.py:888), and change rtos2
\* between the next owner's copy and its write.
BackedUp == [][Whole(rtos2) /\ rtos2' # rtos2 => rtos2 \in backups \/ stray]_vars

\* Only the owner of the printer's lock changes rtos2, or such a dd while it
\* runs on: the lock that mkdir decides holds where the host lock does not
\* (acquire_flash_lock).
OwnerWrites ==
    [][rtos2' # rtos2 =>
        \/ flash \in Agents /\ pc[flash] \in {"write", "writing"}
        \/ Orphans # {}]_vars

=============================================================================
