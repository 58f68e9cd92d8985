----------------------------- MODULE Exercises ------------------------------
(***************************************************************************)
(* The agent's exercises (tools/hardware/nebulaos_capture.py): shell       *)
(* scripts that change the state of an idle printer for a measurement, with*)
(* an undo that runs from a trap, however the script ends.  Unlike an      *)
(* install, an exercise takes neither the host's nor the printer's lock.   *)
(*                                                                         *)
(* Abstractions.  A script is the sequence of its commands that change     *)
(* state, or a shell variable the undo reads; measuring, printing and      *)
(* waiting are left out and a loop runs once or twice.  A setting holds its*)
(* default, a value of the owner, or one under test; a job is anything else*)
(* a run leaves behind: a process, a mount, a file.  A signal's trap runs  *)
(* between two commands.                                                   *)
(***************************************************************************)
EXTENDS Sequences, Naturals

CONSTANTS
    Runs,       \* runs of an exercise, by the name of their shell
    InUse,      \* the profiles the operator runs
    Budgets     \* bound: how often each interruption may happen, one alternative each

Interruptions == {"term", "lost", "cut", "print"}

Volatile == {"sof_filter", "autosuspend_delay", "control", "swappiness", "ktimers", "tty_flip",
             "klippy", "services", "camera", "webcam", "controller", "panel", "swap"}
\* What is kept in files of /usr/data: a boot leaves it as it is.
Persistent == {"display", "camera_marker", "wifi_wait", "boot_mode"}
Settings == Volatile \cup Persistent
\* What an owner may have set to something else before the exercise.
Owned == {"sof_filter", "autosuspend_delay", "control", "swappiness", "ktimers", "tty_flip",
          "display", "camera_marker"}
\* Two profiles change these for good, and say so.
Deliberate == {"wifi_wait", "boot_mode"}
Values == {"default", "owner", "test", "unset"}

Jobs == {"monitor", "ramp", "hog", "hog2", "viewer", "ping", "file", "copy", "feeder", "head",
         "mount"}
Flags == {"P", "KS", "C2SET", "CAMLV", "GS_STARTED", "hangup"}
S02 == "S02"

-----------------------------------------------------------------------------
(* Commands: what they do, to what, and the shell variable that must be set *)

Always == "always"                           \* no variable is looked at
Save(s) == <<"save", s, Always>>             \* X=$(cat setting)
Set(s) == <<"set", s, Always>>
Put(s) == <<"put", s, Always>>               \* back to its default
PutIf(s, f) == <<"put", s, f>>
Restore(s) == <<"restore", s, Always>>       \* [ -n "$X" ] && echo $X > setting
RestoreOr(s, f) == <<"restore_or", s, f>>    \* echo ${X:-default} > setting
Mark(f) == <<"mark", f, Always>>             \* F=1
Spawn(j) == <<"spawn", j, Always>>           \* command &
Keep(j) == <<"keep", j, Always>>             \* J=$!
Reap(j) == <<"reap", j, Always>>             \* kill or wait, then J=
Kill(j) == <<"kill", j, Always>>             \* [ -n "$J" ] && kill $J
Adopt == <<"adopt", "feeder", Always>>       \* W=$(pidof watchdog)
Starve == <<"starve", "feeder", Always>>     \* kill -KILL $W; W=
Clear(j) == <<"clear", j, Always>>           \* rm -rf, whoever made it
IdleGuard == <<"idle", "klippy", Always>>    \* no print, no heater, Klippy ready
NoPrint == <<"noprint", "klippy", Always>>
NoFeeder == <<"nofeeder", "feeder", Always>> \* pidof watchdog && exit 3

Profile(body, undo) == [body |-> body, undo |-> undo]

\* Mutant: the setting is read after it was changed.
SofFilterLate == Profile(<<Set("sof_filter"), Save("sof_filter"), Set("sof_filter")>>,
                         <<Restore("sof_filter")>>)
SofFilterAb == Profile(<<Save("sof_filter"), Set("sof_filter")>>, <<Restore("sof_filter")>>)
StorageAutosuspend ==
    Profile(<<Mark("P"), Save("control"), Save("autosuspend_delay"), Set("autosuspend_delay"),
              Set("control")>>,
            <<RestoreOr("autosuspend_delay", "P"), RestoreOr("control", "P")>>)
CameraResume == Profile(<<Set("camera"), Put("camera")>>, <<Put("camera")>>)
CameraStates ==
    Profile(<<Set("camera"), Put("camera"), Set("webcam"), Put("webcam")>>,
            <<Put("webcam"), Put("camera")>>)
MemExercise ==
    Profile(<<NoPrint, Spawn("monitor"), Keep("monitor"), Spawn("ramp"), Keep("ramp"),
              Reap("ramp")>>,
            <<Kill("ramp"), Kill("monitor")>>)
MemExerciseSw100 ==
    Profile(<<Save("swappiness"), Set("swappiness")>> \o MemExercise.body,
            MemExercise.undo \o <<Restore("swappiness")>>)
\* Mutant: the undo knows one of the two.
CpuLoadHalf ==
    Profile(<<Spawn("hog"), Keep("hog"), Spawn("hog2"), Keep("hog2")>>, <<Kill("hog")>>)
CpuLoad ==
    Profile(<<Spawn("hog"), Keep("hog"), Spawn("hog2"), Keep("hog2")>>,
            <<Kill("hog"), Kill("hog2")>>)
CameraViewer == Profile(<<Spawn("viewer"), Keep("viewer"), Reap("viewer")>>, <<Kill("viewer")>>)
WifiLoad == Profile(<<Spawn("ping"), Keep("ping"), Reap("ping")>>, <<Kill("ping")>>)
UsbStorageIo == Profile(<<Keep("file"), Spawn("file"), Reap("file")>>, <<Kill("file")>>)
KtimersAb == Profile(<<Save("ktimers"), Set("ktimers")>>, <<Restore("ktimers")>>)
TtyflipAb == Profile(<<Save("tty_flip"), Set("tty_flip")>>, <<Restore("tty_flip")>>)
WatchdogArm ==
    Profile(<<NoFeeder, Spawn("feeder"), Keep("feeder"), Mark("hangup"), Reap("feeder")>>,
            <<Kill("feeder")>>)
WatchdogFire ==
    Profile(<<IdleGuard, Adopt, Mark("hangup"), Starve>>, <<Kill("feeder")>>)

\* Mutant: Klippy is stopped before the undo can know of it.
KlippyStopFirst == <<IdleGuard, Set("klippy"), Mark("KS")>>

\* Klippy is marked before it is stopped, and started by the undo.
KlippyStop == <<IdleGuard, Mark("KS"), Set("klippy")>>
KlippyRestore == <<PutIf("klippy", "KS")>>
McuLinkBench == Profile(KlippyStop, KlippyRestore)
LiveM1Identify ==
    Profile(KlippyStop \o <<Spawn("hog"), Keep("hog"), Spawn("hog2"), Keep("hog2"), Reap("hog"),
                            Reap("hog2")>>,
            <<Kill("hog"), Kill("hog2")>> \o KlippyRestore)
KlippyBatch == Profile(<<NoPrint, Spawn("head"), Reap("head")>>, <<>>)
WifiEventdrivenArm == Profile(<<Set("wifi_wait")>>, <<>>)
DiskswapCycle == Profile(<<Set("swap"), Put("swap")>>, <<Put("swap")>>)
\* Its undo stops the controller, which was not running when it was written.
CameraC2Qualify ==
    Profile(<<Set("camera_marker"), Mark("C2SET"), Set("camera"), Spawn("viewer"), Keep("viewer"),
              Reap("viewer")>>,
            <<Kill("viewer"), PutIf("camera_marker", "C2SET"), Set("controller"), Put("camera")>>)
LiveG5Debugfs == Profile(<<Spawn("mount"), Keep("mount")>>, <<Kill("mount")>>)
PfCamera ==
    Profile(<<IdleGuard, Spawn("viewer"), Keep("viewer"), Reap("viewer"), Set("controller"),
              Put("controller")>>,
            <<Kill("viewer"), Put("controller")>>)
GsDisplay ==
    Profile(<<IdleGuard, Save("display"), Mark("GS_STARTED"), Set("display")>>,
            <<RestoreOr("display", "GS_STARTED")>>)
\* The panel sleeps until somebody touches it, or the undo wakes it.
GsDisplaySleep ==
    Profile(GsDisplay.body \o <<Set("panel"), Put("panel")>>,
            <<PutIf("panel", "GS_STARTED")>> \o GsDisplay.undo)
GsBootMode == Profile(<<IdleGuard, Set("boot_mode")>>, <<>>)
\* The way out of a boot screen whose lock hangs: the default, and no guard.
GsBootModeLogoDirect == Profile(<<Put("boot_mode")>>, <<>>)
\* Only the page cache is dropped; live-g9-ext4 and live-ng1-tornado only read.
BootCheckCosts == Profile(<<>>, <<>>)
LiveG9Ext4 == BootCheckCosts
LiveNg1Tornado == BootCheckCosts
\* The guard's handshake at right and at wrong rates, with Klippy stopped.
UartFeProbe == McuLinkBench
\* The handshake again and again, with Klippy stopped.
McuIdentifyRepeat == Profile(KlippyStop, KlippyRestore)

\* Patched copies of the image's scripts, on a file system in memory.
LiveS1S03 == Profile(<<Keep("copy"), Spawn("copy")>>, <<Put("swap"), Kill("copy")>>)
LiveS2S97 == Profile(<<Keep("copy"), Spawn("copy")>>, <<Kill("copy")>>)
\* The copies have their name in the shell only once they are all written.
LiveS3S4Camera ==
    Profile(<<Spawn("copy"), Mark("CAMLV"), Keep("copy"), Set("controller"), Set("camera"),
              Spawn("viewer"), Keep("viewer"), Reap("viewer"), Put("controller")>>,
            <<Kill("viewer"), PutIf("controller", "CAMLV"), PutIf("camera", "CAMLV"),
              Kill("copy")>>)
LiveG7Klippy ==
    Profile(<<IdleGuard, Mark("KS"), Keep("copy"), Spawn("copy"), Set("klippy"), Set("services"),
              Put("services"), Put("klippy"), Reap("copy")>>,
            <<Kill("copy"), Put("services")>> \o KlippyRestore)
\* A script and its log, or a patched seeder and its marker, at names of their own.
LiveG6Dhcp == Profile(<<Keep("copy"), Spawn("copy"), Reap("copy")>>, <<Kill("copy")>>)
LiveG8Seeder == LiveG6Dhcp
LiveVerifyCleanup == Profile(<<Clear("copy")>>, <<>>)
LiveG10Diskswap == Profile(<<Set("swap"), Put("swap")>>, <<Put("swap")>>)
\* Klippy starts while two hogs run, over and over.
FbNg3Handoff ==
    Profile(KlippyStop \o <<Spawn("hog"), Keep("hog"), Spawn("hog2"), Keep("hog2"), Put("klippy"),
                            Reap("hog"), Reap("hog2")>>,
            <<Kill("hog"), Kill("hog2")>> \o KlippyRestore)
FbCamera10 ==
    Profile(<<IdleGuard, Spawn("viewer"), Keep("viewer"), Reap("viewer")>>,
            <<Kill("viewer"), Put("controller")>>)

Profiles ==
    [sof_filter_ab |-> SofFilterAb, storage_autosuspend |-> StorageAutosuspend,
     camera_resume |-> CameraResume, camera_states |-> CameraStates,
     memexercise |-> MemExercise,
     memexercise_sw100 |-> MemExerciseSw100, cpu_load |-> CpuLoad,
     camera_viewer |-> CameraViewer, wifi_load |-> WifiLoad, usb_storage_io |-> UsbStorageIo,
     ktimers_ab |-> KtimersAb, ttyflip_ab |-> TtyflipAb, watchdog_arm |-> WatchdogArm,
     watchdog_fire |-> WatchdogFire, mcu_link_bench |-> McuLinkBench,
     live_m1_identify |-> LiveM1Identify, klippy_batch |-> KlippyBatch,
     wifi_eventdriven_arm |-> WifiEventdrivenArm, diskswap_cycle |-> DiskswapCycle,
     camera_c2_qualify |-> CameraC2Qualify, live_g5_debugfs |-> LiveG5Debugfs,
     pf_camera |-> PfCamera, gs_display |-> GsDisplay, gs_boot_mode |-> GsBootMode,
     gs_display_sleep |-> GsDisplaySleep, gs_boot_mode_logo_direct |-> GsBootModeLogoDirect,
     boot_check_costs |-> BootCheckCosts, mcu_identify_repeat |-> McuIdentifyRepeat,
     live_s1_s03 |-> LiveS1S03, live_s2_s97 |-> LiveS2S97,
     live_s3_s4_camera |-> LiveS3S4Camera, live_g7_klippy |-> LiveG7Klippy,
     live_g10_diskswap |-> LiveG10Diskswap, fb_ng3_handoff |-> FbNg3Handoff,
     fb_camera_10 |-> FbCamera10, uart_fe_probe |-> UartFeProbe, live_g6_dhcp |-> LiveG6Dhcp,
     live_g8_seeder |-> LiveG8Seeder, live_g9_ext4 |-> LiveG9Ext4,
     live_ng1_tornado |-> LiveNg1Tornado, live_verify_cleanup |-> LiveVerifyCleanup]

ASSUME ExercisesAssumption ==
    /\ S02 \notin Runs
    /\ InUse \subseteq DOMAIN Profiles /\ InUse # {}
    /\ Budgets \subseteq [Interruptions -> Nat]

-----------------------------------------------------------------------------
VARIABLES
    cfg,        \* the settings of the printer
    own,        \* what they were when nothing ran
    jobs,       \* what runs: [by, job]
    counting,   \* the hardware watchdog counts and nobody feeds it
    printing,
    prof, pc,   \* each run's profile; "off", "body", "undo", or "gone": ended without its undo
    at,         \* the next command
    saved,      \* the shell's copies of settings
    held,       \* the jobs its variables name
    flags,      \* its other variables
    result,     \* what the agent told the operator
    left        \* the interruptions that may still happen

shell == <<saved, held, flags>>
printer == <<cfg, own, jobs, counting, printing>>
vars == <<cfg, own, jobs, counting, printing, prof, pc, at, saved, held, flags, result, left>>

Job(r, j) == [by |-> r, job |-> j]
Feeder == Job(S02, "feeder")
Nothing == [s \in Settings |-> "unset"]
Off == \A r \in Runs : pc[r] = "off"
Gone == \E r \in Runs : pc[r] = "gone"
Fault(k) == left[k] > 0 /\ left' = [left EXCEPT ![k] = @ - 1]

Init ==
    /\ own \in {[s \in Settings |-> IF s \in O THEN "owner" ELSE "default"] : O \in {{}, Owned}}
    /\ cfg = own /\ jobs \in {{}, {Feeder}}
    /\ counting = FALSE /\ printing = FALSE
    /\ prof = [r \in Runs |-> CHOOSE p \in InUse : TRUE]
    /\ pc = [r \in Runs |-> "off"] /\ at = [r \in Runs |-> 1]
    /\ saved = [r \in Runs |-> Nothing] /\ held = [r \in Runs |-> {}]
    /\ flags = [r \in Runs |-> {}] /\ result = [r \in Runs |-> "none"]
    /\ left \in Budgets

\* op_exercise: no lock, and no look at an open install transaction.  Bound: one
\* exercise in each run.
Start(r, p) ==
    /\ pc[r] = "off" /\ result[r] = "none"
    /\ prof' = [prof EXCEPT ![r] = p]
    /\ pc' = [pc EXCEPT ![r] = "body"] /\ at' = [at EXCEPT ![r] = 1]
    /\ saved' = [saved EXCEPT ![r] = Nothing] /\ held' = [held EXCEPT ![r] = {}]
    /\ flags' = [flags EXCEPT ![r] = {}]
    /\ UNCHANGED <<printer, result, left>>

Script(r) == Profiles[prof[r]][pc[r]]
Command(r) == Script(r)[at[r]]
More(r) == pc[r] \in {"body", "undo"} /\ at[r] <= Len(Script(r))
Advance(r) == at' = [at EXCEPT ![r] = @ + 1] /\ UNCHANGED pc
ToUndo(r) == pc' = [pc EXCEPT ![r] = "undo"] /\ at' = [at EXCEPT ![r] = 1]

Change(r, kind, x, flag) ==
    \/ kind = "save" /\ saved' = [saved EXCEPT ![r][x] = cfg[x]] /\ UNCHANGED <<cfg, jobs, held, flags>>
    \/ kind = "set" /\ cfg' = [cfg EXCEPT ![x] = "test"] /\ UNCHANGED <<jobs, shell>>
    \/ /\ kind = "put"
       /\ cfg' = IF flag \in flags[r] \cup {Always} THEN [cfg EXCEPT ![x] = "default"] ELSE cfg
       /\ UNCHANGED <<jobs, shell>>
    \/ /\ kind = "restore"
       /\ cfg' = IF saved[r][x] # "unset" THEN [cfg EXCEPT ![x] = saved[r][x]] ELSE cfg
       /\ UNCHANGED <<jobs, shell>>
    \/ /\ kind = "restore_or"
       /\ cfg' = IF flag \notin flags[r] THEN cfg
                 ELSE [cfg EXCEPT ![x] = IF saved[r][x] # "unset" THEN saved[r][x] ELSE "default"]
       /\ UNCHANGED <<jobs, shell>>
    \/ kind = "mark" /\ flags' = [flags EXCEPT ![r] = @ \cup {x}] /\ UNCHANGED <<cfg, jobs, saved, held>>
    \/ kind = "spawn" /\ jobs' = jobs \cup {Job(r, x)} /\ UNCHANGED <<cfg, shell>>
    \/ kind = "keep" /\ held' = [held EXCEPT ![r] = @ \cup {Job(r, x)}]
                     /\ UNCHANGED <<cfg, jobs, saved, flags>>
    \/ kind = "reap" /\ jobs' = jobs \ {Job(r, x)} /\ held' = [held EXCEPT ![r] = @ \ {Job(r, x)}]
                     /\ UNCHANGED <<cfg, saved, flags>>
    \/ kind = "kill" /\ jobs' = jobs \ {h \in held[r] : h.job = x} /\ UNCHANGED <<cfg, shell>>
    \/ /\ kind = "adopt"
       /\ LET w == IF Feeder \in jobs THEN Feeder ELSE Job(r, "feeder") IN
          jobs' = jobs \cup {w} /\ held' = [held EXCEPT ![r] = @ \cup {w}]
       /\ UNCHANGED <<cfg, saved, flags>>
    \/ kind = "clear" /\ jobs' = {j \in jobs : j.job # x} /\ UNCHANGED <<cfg, shell>>
    \/ kind = "starve" /\ jobs' = jobs \ held[r] /\ held' = [held EXCEPT ![r] = {}]
                       /\ UNCHANGED <<cfg, saved, flags>>

Refused(r) ==
    \/ Command(r)[1] = "idle" /\ (printing \/ cfg["klippy"] # "default")
    \/ Command(r)[1] = "noprint" /\ printing
    \/ Command(r)[1] = "nofeeder" /\ \E j \in jobs : j.job = "feeder"

Passes(r) == Command(r)[1] \in {"idle", "noprint", "nofeeder"} /\ ~Refused(r) /\ UNCHANGED <<cfg, jobs, shell>>

Step(r) ==
    /\ More(r) /\ ~Refused(r)
    /\ Passes(r) \/ Change(r, Command(r)[1], Command(r)[2], Command(r)[3])
    /\ counting' = (counting \/ Command(r)[1] = "starve")
    /\ Advance(r)
    /\ UNCHANGED <<own, printing, prof, result, left>>

\* A guard exits with 3, and the EXIT trap runs.
Refuses(r) ==
    /\ More(r) /\ Refused(r) /\ ToUndo(r)
    /\ UNCHANGED <<printer, prof, shell, result, left>>

BodyEnds(r) ==
    /\ pc[r] = "body" /\ ~More(r) /\ ToUndo(r)
    /\ UNCHANGED <<printer, prof, shell, result, left>>

UndoEnds(r) ==
    /\ pc[r] = "undo" /\ ~More(r)
    /\ pc' = [pc EXCEPT ![r] = "off"]
    /\ result' = [result EXCEPT ![r] = IF @ = "none" THEN "complete" ELSE @]
    /\ UNCHANGED <<printer, prof, at, shell, left>>

\* INT or TERM in the body: exit 130, and the EXIT trap runs the undo.
Interrupted(r) ==
    /\ pc[r] = "body" /\ Fault("term") /\ ToUndo(r)
    /\ UNCHANGED <<printer, prof, shell, result>>

\* The undo begins with "trap - EXIT INT TERM": a signal now ends the shell where
\* it is, and what it printed is reported as a complete exercise, if it printed.
UndoInterrupted(r) ==
    /\ pc[r] = "undo" /\ Fault("term")
    /\ pc' = [pc EXCEPT ![r] = "gone"]
    /\ \E verdict \in {"complete", "error"} : result' = [result EXCEPT ![r] = verdict]
    /\ UNCHANGED <<printer, prof, at, shell>>

\* The connection is lost: the next output kills the shell and no trap runs,
\* but a profile that traps the hang-up stops its feeder and goes on.  What was
\* received so far is reported as a complete exercise.
ConnectionLost(r) ==
    /\ pc[r] \in {"body", "undo"} /\ Fault("lost")
    /\ IF "hangup" \in flags[r]
       THEN jobs' = jobs \ held[r] /\ UNCHANGED pc
       ELSE pc' = [pc EXCEPT ![r] = "gone"] /\ UNCHANGED jobs
    /\ \E verdict \in {"complete", "error"} : result' = [result EXCEPT ![r] = verdict]
    /\ UNCHANGED <<cfg, own, counting, printing, prof, at, shell>>

Reboots ==
    /\ cfg' = [s \in Settings |-> IF s \in Volatile THEN own[s] ELSE cfg[s]]
    /\ \E feeders \in {{}, {Feeder}} : jobs' = {j \in jobs : j.job = "file"} \cup feeders
    /\ counting' = FALSE /\ printing' = FALSE
    /\ pc' = [r \in Runs |-> IF pc[r] = "off" THEN "off" ELSE "gone"]
    /\ held' = [r \in Runs |-> {}]
    /\ result' = [r \in Runs |-> IF result[r] = "none" /\ pc[r] # "off" THEN "complete"
                                 ELSE result[r]]
    /\ UNCHANGED <<own, prof, at, saved, flags>>
PowerCut == Fault("cut") /\ Reboots
WatchdogFires == counting /\ Reboots /\ UNCHANGED left

PrintStarts ==
    /\ ~printing /\ cfg["klippy"] = "default" /\ Fault("print") /\ printing' = TRUE
    /\ UNCHANGED <<cfg, own, jobs, counting, prof, pc, at, shell, result>>

RunSteps(r) == Step(r) \/ Refuses(r) \/ BodyEnds(r) \/ UndoEnds(r)

Next ==
    \/ \E r \in Runs : \/ \E p \in InUse : Start(r, p)
                       \/ RunSteps(r) \/ Interrupted(r) \/ UndoInterrupted(r)
                       \/ ConnectionLost(r)
    \/ PowerCut \/ WatchdogFires \/ PrintStarts

Spec == Init /\ [][Next]_vars

\* The shell runs on.
FairSpec == Spec /\ \A r \in Runs : WF_vars(RunSteps(r))

TypeOK ==
    /\ cfg \in [Settings -> Values \ {"unset"}] /\ own \in [Settings -> {"default", "owner"}]
    /\ jobs \subseteq [by : Runs \cup {S02}, job : Jobs]
    /\ counting \in BOOLEAN /\ printing \in BOOLEAN
    /\ prof \in [Runs -> InUse] /\ pc \in [Runs -> {"off", "body", "undo", "gone"}]
    /\ at \in [Runs -> 1..20]
    /\ saved \in [Runs -> [Settings -> Values]]
    /\ held \in [Runs -> SUBSET [by : Runs \cup {S02}, job : Jobs]]
    /\ flags \in [Runs -> SUBSET Flags]
    /\ result \in [Runs -> {"none", "complete", "error"}]
    /\ left \in [Interruptions -> Nat]

-----------------------------------------------------------------------------
(* Properties *)

\* A setting that a profile saves before it changes it, and Klippy, are as they
\* were once every run came to the end of its undo: from wherever in the body a
\* signal sent it there, and whatever stopped before or refused (EXERCISE_PROFILES,
\* exercise_script's traps).  A run whose undo did not end is excepted: a signal
\* inside the undo, a lost connection and a power cut leave what they find.  So are
\* the two settings of storage-autosuspend, whose undo a signal between P= and the
\* copies after it makes write its own defaults over the owner's.
SavedFirst == {"sof_filter", "swappiness", "ktimers", "tty_flip", "klippy", "camera", "webcam",
               "swap", "display", "panel", "services"}
SettingsReturn == Off => \A s \in SavedFirst : cfg[s] = own[s]

\* What a run started, and its shell could name, is gone when its undo came to its
\* end, whatever became of the runs beside it: no load, viewer, mount, file or
\* watchdog feeder outlives it (the undo of each profile).
NoStray == \A r \in Runs : pc[r] = "off" => held[r] \cap jobs = {}

\* Klippy, stopped for an exercise, is started again, unless the shell died in the
\* undo or without it (_KLIPPY_STOP, _KLIPPY_RESTORE).
KlippyReturns == cfg["klippy"] = "test" ~> cfg["klippy"] = "default" \/ Gone
=============================================================================
