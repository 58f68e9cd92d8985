--------------------------- MODULE ExercisesProofs --------------------------
(***************************************************************************)
(* NoStray for any number of runs and interruptions, SettingsReturn for one*)
(* run at a time.                                                          *)
(*                                                                         *)
(* What the profiles have in common is stated of one script, Safe, and     *)
(* proved of each of them; the invariants follow a run through any script  *)
(* that is safe.                                                           *)
(***************************************************************************)
EXTENDS Exercises, Integers, TLAPS

\* A script names settings, jobs and flags where it should.
IsTyped(s) ==
    /\ Len(s) \in 0 .. 19
    /\ \A i \in 1 .. Len(s) :
         /\ s[i][1] \in {"save", "set", "put", "restore", "restore_or"} => s[i][2] \in Settings
         /\ s[i][1] \in {"spawn", "keep", "reap", "kill"} => s[i][2] \in Jobs
         /\ s[i][1] = "mark" => s[i][2] \in Flags
         /\ s[i][1] = "adopt" => s[i][2] = "feeder"

\* Such a command of the body comes before command i.
Before(body, i, kind, x) ==
    \E j \in 1 .. Len(body) : j < i /\ body[j][1] = kind /\ body[j][2] = x

\* The undo puts back the setting that command i of the body changes, by what the
\* shell knows when it gets there.
Reverts(body, undo, i, s) ==
    \E k \in 1 .. Len(undo) :
        /\ undo[k][2] = s
        /\ \/ undo[k][1] = "put" /\ (undo[k][3] = Always \/ Before(body, i, "mark", undo[k][3]))
           \/ undo[k][1] = "restore" /\ Before(body, i, "save", s)
           \/ /\ undo[k][1] = "restore_or"
              /\ Before(body, i, "save", s) /\ Before(body, i, "mark", undo[k][3])

Guards == {"idle", "noprint", "nofeeder"}
BodyKinds == {"save", "set", "put", "mark", "spawn", "keep", "reap", "adopt", "starve",
              "clear"} \cup Guards
UndoKinds == {"put", "restore", "restore_or", "kill", "set"}

\* Whatever a body changes or starts, its undo knows how to end; it saves a
\* setting before it changes it and before it tells the undo to restore it, and
\* sets nothing an owner may have set to its default.
BodyIsSafe(body, undo) ==
    \A i \in 1 .. Len(body) :
        /\ body[i][1] \in BodyKinds
        /\ body[i][1] \in {"keep", "adopt"} =>
             \E k \in 1 .. Len(undo) : undo[k][1] = "kill" /\ undo[k][2] = body[i][2]
        /\ body[i][1] = "set" /\ body[i][2] \in SavedFirst => Reverts(body, undo, i, body[i][2])
        /\ body[i][1] = "save" => ~Before(body, i, "set", body[i][2])
        /\ body[i][1] = "put" => body[i][2] \notin SavedFirst \cap Owned
        /\ body[i][1] = "mark" =>
             \A k \in 1 .. Len(undo) :
                 undo[k][1] = "restore_or" /\ undo[k][3] = body[i][2] /\ undo[k][2] \in SavedFirst
                   => Before(body, i, "save", undo[k][2])

\* The undo starts nothing, and sets nothing an owner may have set to its default.
UndoIsSafe(undo) ==
    \A k \in 1 .. Len(undo) :
        /\ undo[k][1] \in UndoKinds
        /\ undo[k][1] = "put" => undo[k][2] \notin SavedFirst \cap Owned
        /\ undo[k][1] = "set" => undo[k][2] \notin SavedFirst

Safe(p) ==
    /\ IsTyped(p.body) /\ IsTyped(p.undo)
    /\ BodyIsSafe(p.body, p.undo) /\ UndoIsSafe(p.undo)

\* What each command is.
LEMMA SaveIs == \A x : Save(x)[1] = "save" /\ Save(x)[2] = x BY DEF Save
LEMMA SetIs == \A x : Set(x)[1] = "set" /\ Set(x)[2] = x BY DEF Set
LEMMA PutIs == \A x : Put(x)[1] = "put" /\ Put(x)[2] = x /\ Put(x)[3] = Always BY DEF Put
LEMMA PutIfIs ==
  \A x, f : PutIf(x, f)[1] = "put" /\ PutIf(x, f)[2] = x /\ PutIf(x, f)[3] = f
  BY DEF PutIf
LEMMA RestoreIs == \A x : Restore(x)[1] = "restore" /\ Restore(x)[2] = x BY DEF Restore
LEMMA RestoreOrIs ==
  \A x, f : RestoreOr(x, f)[1] = "restore_or" /\ RestoreOr(x, f)[2] = x /\ RestoreOr(x, f)[3] = f
  BY DEF RestoreOr
LEMMA MarkIs == \A x : Mark(x)[1] = "mark" /\ Mark(x)[2] = x BY DEF Mark
LEMMA SpawnIs == \A x : Spawn(x)[1] = "spawn" /\ Spawn(x)[2] = x BY DEF Spawn
LEMMA KeepIs == \A x : Keep(x)[1] = "keep" /\ Keep(x)[2] = x BY DEF Keep
LEMMA ReapIs == \A x : Reap(x)[1] = "reap" /\ Reap(x)[2] = x BY DEF Reap
LEMMA KillIs == \A x : Kill(x)[1] = "kill" /\ Kill(x)[2] = x BY DEF Kill
LEMMA AdoptIs == Adopt[1] = "adopt" /\ Adopt[2] = "feeder" BY DEF Adopt
LEMMA StarveIs == Starve[1] = "starve" BY DEF Starve
LEMMA ClearIs == \A x : Clear(x)[1] = "clear" BY DEF Clear
LEMMA IdleGuardIs == IdleGuard[1] = "idle" BY DEF IdleGuard
LEMMA NoPrintIs == NoPrint[1] = "noprint" BY DEF NoPrint
LEMMA NoFeederIs == NoFeeder[1] = "nofeeder" BY DEF NoFeeder

\* Every profile is safe.
LEMMA ProfilesAreSafe == \A p \in DOMAIN Profiles : Safe(Profiles[p])
  <1> USE DEF Safe, IsTyped, Settings, Volatile, Persistent, Jobs, Flags, BodyIsSafe, UndoIsSafe,
              BodyKinds, UndoKinds, Guards, Reverts, Before, SavedFirst, Owned, Profile
  <1>1. Safe(SofFilterAb) BY SMTT(30), SaveIs, SetIs, RestoreIs DEF SofFilterAb
  <1>2. Safe(StorageAutosuspend)
    <2>1. IsTyped(StorageAutosuspend.body) /\ IsTyped(StorageAutosuspend.undo)
      BY SMTT(30), MarkIs, SaveIs, SetIs, RestoreOrIs DEF StorageAutosuspend
    <2>2. BodyIsSafe(StorageAutosuspend.body, StorageAutosuspend.undo)
      BY SMTT(30), MarkIs, SaveIs, SetIs, RestoreOrIs DEF StorageAutosuspend
    <2>3. UndoIsSafe(StorageAutosuspend.undo)
      BY SMTT(30), MarkIs, SaveIs, SetIs, RestoreOrIs DEF StorageAutosuspend
    <2> HIDE DEF IsTyped, BodyIsSafe, UndoIsSafe
    <2> QED BY <2>1, <2>2, <2>3
  <1>3. Safe(CameraResume) BY SetIs, PutIs DEF CameraResume
  <1>4. Safe(CameraStates) BY SMTT(30), SetIs, PutIs DEF CameraStates
  <1>5. Safe(MemExercise)
    <2>1. IsTyped(MemExercise.body) /\ IsTyped(MemExercise.undo)
      BY SMTT(30), NoPrintIs, SpawnIs, KeepIs, ReapIs, KillIs DEF MemExercise
    <2>2. BodyIsSafe(MemExercise.body, MemExercise.undo)
      BY SMTT(30), NoPrintIs, SpawnIs, KeepIs, ReapIs, KillIs DEF MemExercise
    <2>3. UndoIsSafe(MemExercise.undo)
      BY SMTT(30), NoPrintIs, SpawnIs, KeepIs, ReapIs, KillIs DEF MemExercise
    <2> HIDE DEF IsTyped, BodyIsSafe, UndoIsSafe
    <2> QED BY <2>1, <2>2, <2>3
  <1>6. Safe(MemExerciseSw100)
    <2>1. IsTyped(MemExerciseSw100.body) /\ IsTyped(MemExerciseSw100.undo)
      BY SMTT(30), SaveIs, SetIs, NoPrintIs, SpawnIs, KeepIs, ReapIs, KillIs, RestoreIs
      DEF MemExerciseSw100, MemExercise
    <2>2. BodyIsSafe(MemExerciseSw100.body, MemExerciseSw100.undo)
      BY SMTT(30), SaveIs, SetIs, NoPrintIs, SpawnIs, KeepIs, ReapIs, KillIs, RestoreIs
      DEF MemExerciseSw100, MemExercise
    <2>3. UndoIsSafe(MemExerciseSw100.undo)
      BY SMTT(30), SaveIs, SetIs, NoPrintIs, SpawnIs, KeepIs, ReapIs, KillIs, RestoreIs
      DEF MemExerciseSw100, MemExercise
    <2> HIDE DEF IsTyped, BodyIsSafe, UndoIsSafe
    <2> QED BY <2>1, <2>2, <2>3
  <1>7. Safe(CpuLoad) BY SMTT(60), SpawnIs, KeepIs, KillIs DEF CpuLoad
  <1>8. Safe(CameraViewer) BY SpawnIs, KeepIs, ReapIs, KillIs DEF CameraViewer
  <1>9. Safe(WifiLoad) BY SpawnIs, KeepIs, ReapIs, KillIs DEF WifiLoad
  <1>10. Safe(UsbStorageIo) BY KeepIs, SpawnIs, ReapIs, KillIs DEF UsbStorageIo
  <1>11. Safe(KtimersAb) BY SMTT(30), SaveIs, SetIs, RestoreIs DEF KtimersAb
  <1>12. Safe(TtyflipAb) BY SMTT(30), SaveIs, SetIs, RestoreIs DEF TtyflipAb
  <1>13. Safe(WatchdogArm)
    BY SMTT(60), NoFeederIs, SpawnIs, KeepIs, MarkIs, ReapIs, KillIs DEF WatchdogArm
  <1>14. Safe(WatchdogFire) BY IdleGuardIs, AdoptIs, MarkIs, StarveIs, KillIs DEF WatchdogFire
  <1>15. Safe(McuLinkBench)
    BY SMTT(30), IdleGuardIs, MarkIs, SetIs, PutIfIs DEF McuLinkBench, KlippyStop, KlippyRestore
  <1>16. Safe(LiveM1Identify)
    <2>1. IsTyped(LiveM1Identify.body) /\ IsTyped(LiveM1Identify.undo)
      BY SMTT(30), IdleGuardIs, MarkIs, SetIs, SpawnIs, KeepIs, ReapIs, KillIs, PutIfIs
      DEF LiveM1Identify, KlippyStop, KlippyRestore
    <2>2. BodyIsSafe(LiveM1Identify.body, LiveM1Identify.undo)
      BY SMTT(30), IdleGuardIs, MarkIs, SetIs, SpawnIs, KeepIs, ReapIs, KillIs, PutIfIs
      DEF LiveM1Identify, KlippyStop, KlippyRestore
    <2>3. UndoIsSafe(LiveM1Identify.undo)
      BY SMTT(30), IdleGuardIs, MarkIs, SetIs, SpawnIs, KeepIs, ReapIs, KillIs, PutIfIs
      DEF LiveM1Identify, KlippyStop, KlippyRestore
    <2> HIDE DEF IsTyped, BodyIsSafe, UndoIsSafe
    <2> QED BY <2>1, <2>2, <2>3
  <1>17. Safe(KlippyBatch) BY NoPrintIs, SpawnIs, ReapIs DEF KlippyBatch
  <1>18. Safe(WifiEventdrivenArm) BY SetIs DEF WifiEventdrivenArm
  <1>19. Safe(DiskswapCycle) BY SetIs, PutIs DEF DiskswapCycle
  <1>20. Safe(CameraC2Qualify)
    <2>1. IsTyped(CameraC2Qualify.body) /\ IsTyped(CameraC2Qualify.undo)
      BY SMTT(30), SetIs, MarkIs, SpawnIs, KeepIs, ReapIs, KillIs, PutIfIs, PutIs
      DEF CameraC2Qualify
    <2>2. BodyIsSafe(CameraC2Qualify.body, CameraC2Qualify.undo)
      BY SMTT(30), SetIs, MarkIs, SpawnIs, KeepIs, ReapIs, KillIs, PutIfIs, PutIs
      DEF CameraC2Qualify
    <2>3. UndoIsSafe(CameraC2Qualify.undo)
      BY SMTT(30), SetIs, MarkIs, SpawnIs, KeepIs, ReapIs, KillIs, PutIfIs, PutIs
      DEF CameraC2Qualify
    <2> HIDE DEF IsTyped, BodyIsSafe, UndoIsSafe
    <2> QED BY <2>1, <2>2, <2>3
  <1>21. Safe(LiveG5Debugfs) BY SMTT(30), SpawnIs, KeepIs, KillIs DEF LiveG5Debugfs
  <1>22. Safe(PfCamera)
    <2>1. IsTyped(PfCamera.body) /\ IsTyped(PfCamera.undo)
      BY SMTT(30), IdleGuardIs, SpawnIs, KeepIs, ReapIs, SetIs, PutIs, KillIs DEF PfCamera
    <2>2. BodyIsSafe(PfCamera.body, PfCamera.undo)
      BY SMTT(30), IdleGuardIs, SpawnIs, KeepIs, ReapIs, SetIs, PutIs, KillIs DEF PfCamera
    <2>3. UndoIsSafe(PfCamera.undo)
      BY SMTT(30), IdleGuardIs, SpawnIs, KeepIs, ReapIs, SetIs, PutIs, KillIs DEF PfCamera
    <2> HIDE DEF IsTyped, BodyIsSafe, UndoIsSafe
    <2> QED BY <2>1, <2>2, <2>3
  <1>23. Safe(GsDisplay) BY IdleGuardIs, SaveIs, MarkIs, SetIs, RestoreOrIs DEF GsDisplay
  <1>24. Safe(GsBootMode) BY IdleGuardIs, SetIs DEF GsBootMode
  <1>25. Safe(GsDisplaySleep)
    <2>1. IsTyped(GsDisplaySleep.body) /\ IsTyped(GsDisplaySleep.undo)
      BY SMTT(30), IdleGuardIs, SaveIs, MarkIs, SetIs, PutIs, PutIfIs, RestoreOrIs
      DEF GsDisplaySleep, GsDisplay
    <2>2. BodyIsSafe(GsDisplaySleep.body, GsDisplaySleep.undo)
      <3> DEFINE b == GsDisplaySleep.body
                 u == GsDisplaySleep.undo
      <3> USE IdleGuardIs, SaveIs, MarkIs, SetIs, PutIs, PutIfIs, RestoreOrIs
      <3>1. \A i \in 1 .. Len(b) :
              /\ b[i][1] \in BodyKinds
              /\ b[i][1] \in {"keep", "adopt"} =>
                   \E k \in 1 .. Len(u) : u[k][1] = "kill" /\ u[k][2] = b[i][2]
              /\ b[i][1] = "save" => ~Before(b, i, "set", b[i][2])
              /\ b[i][1] = "put" => b[i][2] \notin SavedFirst \cap Owned
        BY SMTT(60) DEF GsDisplaySleep, GsDisplay
      <3>2. \A i \in 1 .. Len(b) :
              b[i][1] = "set" /\ b[i][2] \in SavedFirst => Reverts(b, u, i, b[i][2])
        BY SMTT(60) DEF GsDisplaySleep, GsDisplay
      <3>3. \A i \in 1 .. Len(b) : b[i][1] = "mark" =>
              \A k \in 1 .. Len(u) :
                 u[k][1] = "restore_or" /\ u[k][3] = b[i][2] /\ u[k][2] \in SavedFirst
                   => Before(b, i, "save", u[k][2])
        BY SMTT(60) DEF GsDisplaySleep, GsDisplay
      <3> HIDE DEF BodyKinds, Before, Reverts, SavedFirst, Owned, b, u
      <3> QED BY <3>1, <3>2, <3>3 DEF b, u
    <2>3. UndoIsSafe(GsDisplaySleep.undo)
      BY SMTT(30), IdleGuardIs, SaveIs, MarkIs, SetIs, PutIs, PutIfIs, RestoreOrIs
      DEF GsDisplaySleep, GsDisplay
    <2> HIDE DEF IsTyped, BodyIsSafe, UndoIsSafe
    <2> QED BY <2>1, <2>2, <2>3
  <1>26. Safe(GsBootModeLogoDirect) BY PutIs DEF GsBootModeLogoDirect
  <1>27. Safe(BootCheckCosts) BY TRUE DEF BootCheckCosts
  <1>28. Safe(McuIdentifyRepeat)
    BY IdleGuardIs, MarkIs, SetIs, PutIfIs DEF McuIdentifyRepeat, KlippyStop, KlippyRestore
  <1>29. Safe(LiveS1S03) BY KeepIs, SpawnIs, PutIs, KillIs DEF LiveS1S03
  <1>30. Safe(LiveS2S97) BY SMTT(30), KeepIs, SpawnIs, KillIs DEF LiveS2S97
  <1>31. Safe(LiveS3S4Camera)
    <2>1. IsTyped(LiveS3S4Camera.body) /\ IsTyped(LiveS3S4Camera.undo)
      BY SMTT(30), SpawnIs, MarkIs, KeepIs, SetIs, ReapIs, PutIs, KillIs, PutIfIs
      DEF LiveS3S4Camera
    <2>2. BodyIsSafe(LiveS3S4Camera.body, LiveS3S4Camera.undo)
      BY SMTT(30), SpawnIs, MarkIs, KeepIs, SetIs, ReapIs, PutIs, KillIs, PutIfIs
      DEF LiveS3S4Camera
    <2>3. UndoIsSafe(LiveS3S4Camera.undo)
      BY SMTT(30), SpawnIs, MarkIs, KeepIs, SetIs, ReapIs, PutIs, KillIs, PutIfIs
      DEF LiveS3S4Camera
    <2> HIDE DEF IsTyped, BodyIsSafe, UndoIsSafe
    <2> QED BY <2>1, <2>2, <2>3
  <1>32. Safe(LiveG7Klippy)
    <2>1. IsTyped(LiveG7Klippy.body) /\ IsTyped(LiveG7Klippy.undo)
      BY SMTT(30), IdleGuardIs, MarkIs, KeepIs, SpawnIs, SetIs, PutIs, ReapIs, KillIs, PutIfIs
      DEF LiveG7Klippy, KlippyRestore
    <2>2. BodyIsSafe(LiveG7Klippy.body, LiveG7Klippy.undo)
      BY SMTT(30), IdleGuardIs, MarkIs, KeepIs, SpawnIs, SetIs, PutIs, ReapIs, KillIs, PutIfIs
      DEF LiveG7Klippy, KlippyRestore
    <2>3. UndoIsSafe(LiveG7Klippy.undo)
      BY SMTT(30), IdleGuardIs, MarkIs, KeepIs, SpawnIs, SetIs, PutIs, ReapIs, KillIs, PutIfIs
      DEF LiveG7Klippy, KlippyRestore
    <2> HIDE DEF IsTyped, BodyIsSafe, UndoIsSafe
    <2> QED BY <2>1, <2>2, <2>3
  <1>33. Safe(LiveG10Diskswap) BY SetIs, PutIs DEF LiveG10Diskswap
  <1>34. Safe(FbNg3Handoff)
    <2>1. IsTyped(FbNg3Handoff.body) /\ IsTyped(FbNg3Handoff.undo)
      BY SMTT(30), IdleGuardIs, MarkIs, SetIs, SpawnIs, KeepIs, PutIs, ReapIs, KillIs, PutIfIs
      DEF FbNg3Handoff, KlippyStop, KlippyRestore
    <2>2. BodyIsSafe(FbNg3Handoff.body, FbNg3Handoff.undo)
      <3> DEFINE b == FbNg3Handoff.body
                 u == FbNg3Handoff.undo
      <3> USE IdleGuardIs, MarkIs, SetIs, SpawnIs, KeepIs, PutIs, ReapIs, KillIs, PutIfIs
      <3>1. \A i \in 1 .. Len(b) :
              /\ b[i][1] \in BodyKinds
              /\ b[i][1] \in {"keep", "adopt"} =>
                   \E k \in 1 .. Len(u) : u[k][1] = "kill" /\ u[k][2] = b[i][2]
              /\ b[i][1] = "save" => ~Before(b, i, "set", b[i][2])
              /\ b[i][1] = "put" => b[i][2] \notin SavedFirst \cap Owned
        BY SMTT(60) DEF FbNg3Handoff, KlippyStop, KlippyRestore
      <3>2. \A i \in 1 .. Len(b) :
              b[i][1] = "set" /\ b[i][2] \in SavedFirst => Reverts(b, u, i, b[i][2])
        BY SMTT(60) DEF FbNg3Handoff, KlippyStop, KlippyRestore
      <3>3. \A i \in 1 .. Len(b) : b[i][1] = "mark" =>
              \A k \in 1 .. Len(u) :
                 u[k][1] = "restore_or" /\ u[k][3] = b[i][2] /\ u[k][2] \in SavedFirst
                   => Before(b, i, "save", u[k][2])
        BY SMTT(60) DEF FbNg3Handoff, KlippyStop, KlippyRestore
      <3> HIDE DEF BodyKinds, Before, Reverts, SavedFirst, Owned, b, u
      <3> QED BY <3>1, <3>2, <3>3 DEF b, u
    <2>3. UndoIsSafe(FbNg3Handoff.undo)
      BY SMTT(30), IdleGuardIs, MarkIs, SetIs, SpawnIs, KeepIs, PutIs, ReapIs, KillIs, PutIfIs
      DEF FbNg3Handoff, KlippyStop, KlippyRestore
    <2> HIDE DEF IsTyped, BodyIsSafe, UndoIsSafe
    <2> QED BY <2>1, <2>2, <2>3
  <1>35. Safe(FbCamera10) BY IdleGuardIs, SpawnIs, KeepIs, ReapIs, KillIs, PutIs DEF FbCamera10
  <1>36. Safe(UartFeProbe) BY <1>15 DEF UartFeProbe
  <1>37. Safe(LiveG6Dhcp) BY SMTT(30), KeepIs, SpawnIs, ReapIs, KillIs DEF LiveG6Dhcp
  <1>38. Safe(LiveG8Seeder) BY <1>37 DEF LiveG8Seeder
  <1>39. Safe(LiveG9Ext4) /\ Safe(LiveNg1Tornado) BY <1>27 DEF LiveG9Ext4, LiveNg1Tornado
  <1>40. Safe(LiveVerifyCleanup) BY ClearIs DEF LiveVerifyCleanup
  <1>41. ASSUME NEW p \in DOMAIN Profiles
         PROVE  \/ Profiles[p] = SofFilterAb \/ Profiles[p] = StorageAutosuspend
                \/ Profiles[p] = CameraResume \/ Profiles[p] = CameraStates
                \/ Profiles[p] = MemExercise \/ Profiles[p] = MemExerciseSw100
                \/ Profiles[p] = CpuLoad \/ Profiles[p] = CameraViewer
                \/ Profiles[p] = WifiLoad \/ Profiles[p] = UsbStorageIo
                \/ Profiles[p] = KtimersAb \/ Profiles[p] = TtyflipAb
                \/ Profiles[p] = WatchdogArm \/ Profiles[p] = WatchdogFire
                \/ Profiles[p] = McuLinkBench \/ Profiles[p] = LiveM1Identify
                \/ Profiles[p] = KlippyBatch \/ Profiles[p] = WifiEventdrivenArm
                \/ Profiles[p] = DiskswapCycle \/ Profiles[p] = CameraC2Qualify
                \/ Profiles[p] = LiveG5Debugfs \/ Profiles[p] = PfCamera
                \/ Profiles[p] = GsDisplay \/ Profiles[p] = GsBootMode
                \/ Profiles[p] = GsDisplaySleep \/ Profiles[p] = GsBootModeLogoDirect
                \/ Profiles[p] = BootCheckCosts \/ Profiles[p] = McuIdentifyRepeat
                \/ Profiles[p] = LiveS1S03 \/ Profiles[p] = LiveS2S97
                \/ Profiles[p] = LiveS3S4Camera \/ Profiles[p] = LiveG7Klippy
                \/ Profiles[p] = LiveG10Diskswap \/ Profiles[p] = FbNg3Handoff
                \/ Profiles[p] = FbCamera10 \/ Profiles[p] = UartFeProbe
                \/ Profiles[p] = LiveG6Dhcp \/ Profiles[p] = LiveG8Seeder
                \/ Profiles[p] = LiveG9Ext4 \/ Profiles[p] = LiveNg1Tornado
                \/ Profiles[p] = LiveVerifyCleanup
    BY DEF Profiles
  <1> HIDE DEF Safe
  <1> QED BY <1>1, <1>2, <1>3, <1>4, <1>5, <1>6, <1>7, <1>8, <1>9, <1>10, <1>11, <1>12, <1>13,
         <1>14, <1>15, <1>16, <1>17, <1>18, <1>19, <1>20, <1>21, <1>22, <1>23, <1>24, <1>25,
         <1>26, <1>27, <1>28, <1>29, <1>30, <1>31, <1>32, <1>33, <1>34, <1>35, <1>36, <1>37, <1>38,
         <1>39, <1>40, <1>41

-----------------------------------------------------------------------------
(* Types *)

Undo(r) == Profiles[prof[r]].undo
Body(r) == Profiles[prof[r]].body

\* An owner sets only some of the settings.
TypeInv == TypeOK /\ \A s \in Settings \ Owned : own[s] = "default"

\* Each step is one of these.
LEMMA Steps ==
  ASSUME Next
  PROVE  \/ \E r \in Runs : \/ \E p \in InUse : Start(r, p)
                            \/ Step(r) \/ Refuses(r) \/ BodyEnds(r) \/ UndoEnds(r)
                            \/ Interrupted(r) \/ UndoInterrupted(r) \/ ConnectionLost(r)
         \/ PowerCut \/ WatchdogFires \/ PrintStarts
  BY DEF Next, RunSteps

\* A fault is spent.
LEMMA Spent ==
  ASSUME left \in [Interruptions -> Nat], NEW k \in Interruptions, Fault(k)
  PROVE  left' \in [Interruptions -> Nat]
  BY DEF Fault

\* The command that comes next is one of its script.
LEMMA NextCommand ==
  ASSUME TypeInv, NEW r \in Runs, More(r)
  PROVE  /\ Safe(Profiles[prof[r]]) /\ at[r] \in 1 .. Len(Script(r)) /\ at[r] + 1 \in 1 .. 20
         /\ pc[r] = "body" => Script(r) = Body(r)
         /\ pc[r] = "undo" => Script(r) = Undo(r)
         /\ Command(r)[1] \in {"save", "set", "put", "restore", "restore_or"} =>
              Command(r)[2] \in Settings
         /\ Command(r)[1] \in {"spawn", "keep", "reap", "kill"} => Command(r)[2] \in Jobs
         /\ Command(r)[1] = "mark" => Command(r)[2] \in Flags
         /\ Command(r)[1] = "adopt" => Command(r)[2] = "feeder"
  <1>1. prof[r] \in DOMAIN Profiles /\ at[r] \in 1 .. 20 BY ExercisesAssumption DEF TypeInv, TypeOK
  <1>2. Safe(Profiles[prof[r]]) BY <1>1, ProfilesAreSafe
  <1>3. (pc[r] = "body" /\ Script(r) = Body(r)) \/ (pc[r] = "undo" /\ Script(r) = Undo(r))
    BY DEF More, Script, Body, Undo
  <1>4. IsTyped(Script(r)) BY <1>2, <1>3 DEF Safe, Body, Undo
  <1>5. Len(Script(r)) \in 0 .. 19 /\ at[r] <= Len(Script(r)) BY <1>4 DEF IsTyped, More
  <1>6. \A n \in 0 .. 19, i \in 1 .. 20 : i <= n => i \in 1 .. n /\ i + 1 \in 1 .. 20 OBVIOUS
  <1>7. at[r] \in 1 .. Len(Script(r)) /\ at[r] + 1 \in 1 .. 20 BY <1>1, <1>5, <1>6
  <1> QED BY <1>2, <1>3, <1>4, <1>7 DEF IsTyped, Command

LEMMA TypeChange ==
  ASSUME TypeInv, NEW r \in Runs, NEW kind, NEW x, NEW flag, Change(r, kind, x, flag),
         kind \in {"save", "set", "put", "restore", "restore_or"} => x \in Settings,
         kind \in {"spawn", "keep", "reap", "kill"} => x \in Jobs,
         kind = "mark" => x \in Flags
  PROVE  /\ cfg' \in [Settings -> Values \ {"unset"}]
         /\ jobs' \subseteq [by : Runs \cup {S02}, job : Jobs]
         /\ saved' \in [Runs -> [Settings -> Values]]
         /\ held' \in [Runs -> SUBSET [by : Runs \cup {S02}, job : Jobs]]
         /\ flags' \in [Runs -> SUBSET Flags]
  <1> DEFINE J == [by : Runs \cup {S02}, job : Jobs]
  <1>1. /\ cfg \in [Settings -> Values \ {"unset"}] /\ saved \in [Runs -> [Settings -> Values]]
        /\ jobs \subseteq J /\ held \in [Runs -> SUBSET J] /\ flags \in [Runs -> SUBSET Flags]
    BY DEF TypeInv, TypeOK
  <1>2. Feeder \in J /\ Job(r, "feeder") \in J /\ \A j \in Jobs : Job(r, j) \in J
    BY DEF Job, Feeder, Jobs
  <1> HIDE DEF J
  <1>3. CASE kind = "save"
    <2>1. /\ saved' = [saved EXCEPT ![r] = [saved[r] EXCEPT ![x] = cfg[x]]]
          /\ UNCHANGED <<cfg, jobs, held, flags>>
      BY <1>3 DEF Change
    <2>2. [saved[r] EXCEPT ![x] = cfg[x]] \in [Settings -> Values] BY <1>1, <1>3
    <2> QED BY <1>1, <2>1, <2>2 DEF J
  <1>4. CASE kind \in {"set", "put", "restore", "restore_or"}
    <2>1. cfg' \in [Settings -> Values \ {"unset"}]
      BY SMTT(30), <1>1, <1>4 DEF Change, Values
    <2> QED BY <1>1, <1>4, <2>1 DEF Change, J, shell
  <1>5. CASE kind = "mark" BY <1>1, <1>5 DEF Change, J
  <1>6. CASE kind \in {"spawn", "keep", "reap", "kill", "adopt", "starve", "clear"}
    <2>1. UNCHANGED <<cfg, saved, flags>> BY <1>6 DEF Change, shell
    <2>2. jobs' \subseteq J /\ held' \in [Runs -> SUBSET J] BY <1>1, <1>2, <1>6 DEF Change, shell
    <2> QED BY <1>1, <2>1, <2>2 DEF J
  <1> QED BY <1>3, <1>4, <1>5, <1>6 DEF Change

LEMMA TypeStep == TypeInv /\ [Next]_vars => TypeInv'
  <1> SUFFICES ASSUME TypeInv, [Next]_vars PROVE TypeInv'
    OBVIOUS
  <1>1. UNCHANGED own
    BY DEF Next, vars, RunSteps, Start, Step, Refuses, BodyEnds, UndoEnds, Interrupted,
           UndoInterrupted, ConnectionLost, PowerCut, WatchdogFires, Reboots, PrintStarts, printer
  <1>2. SUFFICES TypeOK' BY <1>1 DEF TypeInv
  <1>3. UNCHANGED vars => TypeOK' BY DEF TypeInv, TypeOK, vars
  <1>4. ASSUME NEW r \in Runs, NEW p \in InUse, Start(r, p) PROVE TypeOK'
    <2>1. Nothing \in [Settings -> Values] BY DEF Nothing, Values
    <2> QED BY <1>4, <2>1 DEF Start, TypeInv, TypeOK, printer
  <1>5. ASSUME NEW r \in Runs, Step(r) PROVE TypeOK'
    <2>1. More(r) /\ at' = [at EXCEPT ![r] = @ + 1]
          /\ UNCHANGED <<own, printing, prof, pc, result, left>>
      BY <1>5 DEF Step, Advance
    <2>2. at' \in [Runs -> 1 .. 20] BY <2>1, NextCommand DEF TypeInv, TypeOK
    <2>3. counting' \in BOOLEAN BY <1>5 DEF Step
    <2>4. CASE Passes(r)
      BY <1>1, <2>1, <2>2, <2>3, <2>4 DEF Passes, TypeInv, TypeOK, shell
    <2>5. CASE Change(r, Command(r)[1], Command(r)[2], Command(r)[3])
      <3> HIDE DEF More, Command
      <3>1. /\ cfg' \in [Settings -> Values \ {"unset"}]
            /\ jobs' \subseteq [by : Runs \cup {S02}, job : Jobs]
            /\ saved' \in [Runs -> [Settings -> Values]]
            /\ held' \in [Runs -> SUBSET [by : Runs \cup {S02}, job : Jobs]]
            /\ flags' \in [Runs -> SUBSET Flags]
        BY <2>1, <2>5, NextCommand, TypeChange
      <3> QED BY <1>1, <2>1, <2>2, <2>3, <3>1 DEF TypeInv, TypeOK
    <2> QED BY <1>5, <2>4, <2>5 DEF Step
  <1>6. ASSUME NEW r \in Runs, Refuses(r) \/ BodyEnds(r) PROVE TypeOK'
    <2>1. ToUndo(r) /\ UNCHANGED <<printer, prof, shell, result, left>>
      BY <1>6 DEF Refuses, BodyEnds
    <2>2. 1 \in 1 .. 20 OBVIOUS
    <2>3. pc' \in [Runs -> {"off", "body", "undo", "gone"}] /\ at' \in [Runs -> 1 .. 20]
      BY <2>1, <2>2 DEF ToUndo, TypeInv, TypeOK
    <2> QED BY <2>1, <2>3 DEF TypeInv, TypeOK, printer, shell
  <1>7. ASSUME NEW r \in Runs, UndoEnds(r) PROVE TypeOK'
    BY <1>7 DEF UndoEnds, TypeInv, TypeOK, printer, shell
  <1>8. ASSUME NEW r \in Runs, Interrupted(r) PROVE TypeOK'
    <2>1. left' \in [Interruptions -> Nat]
      BY <1>8, Spent DEF Interrupted, Interruptions, TypeInv, TypeOK
    <2> QED BY <1>8, <2>1 DEF Interrupted, ToUndo, TypeInv, TypeOK, printer, shell
  <1>9. ASSUME NEW r \in Runs, ConnectionLost(r) PROVE TypeOK'
    <2>1. left' \in [Interruptions -> Nat]
      BY <1>9, Spent DEF ConnectionLost, Interruptions, TypeInv, TypeOK
    <2> QED BY ZenonT(60), <1>9, <2>1 DEF ConnectionLost, TypeInv, TypeOK, shell
  <1>14. ASSUME NEW r \in Runs, UndoInterrupted(r) PROVE TypeOK'
    <2>1. left' \in [Interruptions -> Nat]
      BY <1>14, Spent DEF UndoInterrupted, Interruptions, TypeInv, TypeOK
    <2>2. result' \in [Runs -> {"none", "complete", "error"}]
      BY <1>14 DEF UndoInterrupted, TypeInv, TypeOK
    <2> QED BY <1>14, <2>1, <2>2 DEF UndoInterrupted, TypeInv, TypeOK, printer, shell
  <1>10. ASSUME Reboots, left' \in [Interruptions -> Nat] PROVE TypeOK'
    <2>1. cfg' \in [Settings -> Values \ {"unset"}]
      BY <1>10 DEF Reboots, TypeInv, TypeOK, Values
    <2>2. jobs' \subseteq [by : Runs \cup {S02}, job : Jobs]
      BY <1>10 DEF Reboots, TypeInv, TypeOK, Feeder, Job, Jobs
    <2>3. result' \in [Runs -> {"none", "complete", "error"}]
      BY <1>10 DEF Reboots, TypeInv, TypeOK
    <2> QED BY <1>10, <2>1, <2>2, <2>3 DEF Reboots, TypeInv, TypeOK
  <1>11. PowerCut => TypeOK'
    BY <1>10, Spent DEF PowerCut, Interruptions, TypeInv, TypeOK
  <1>12. WatchdogFires => TypeOK' BY <1>10 DEF WatchdogFires, TypeInv, TypeOK
  <1>13. PrintStarts => TypeOK'
    <2>1. PrintStarts => left' \in [Interruptions -> Nat]
      BY Spent DEF PrintStarts, Interruptions, TypeInv, TypeOK
    <2> QED BY <2>1 DEF PrintStarts, TypeInv, TypeOK, shell
  <1> QED BY <1>3, <1>4, <1>5, <1>6, <1>7, <1>8, <1>9, <1>11, <1>12, <1>13, <1>14,
         Steps

LEMMA TypeInit == Init => TypeInv
  <1> SUFFICES ASSUME Init PROVE TypeInv
    OBVIOUS
  <1>1. PICK O \in {{}, Owned} : own = [s \in Settings |-> IF s \in O THEN "owner" ELSE "default"]
    BY DEF Init
  <1>2. own \in [Settings -> {"default", "owner"}] /\ \A s \in Settings \ Owned : own[s] = "default"
    BY <1>1
  <1>3. cfg \in [Settings -> Values \ {"unset"}] BY <1>2 DEF Init, Values
  <1>4. (CHOOSE p \in InUse : TRUE) \in InUse BY ExercisesAssumption
  <1>5. prof \in [Runs -> InUse] BY <1>4 DEF Init
  <1>6. saved \in [Runs -> [Settings -> Values]] BY DEF Init, Nothing, Values
  <1>7. jobs \subseteq [by : Runs \cup {S02}, job : Jobs] BY DEF Init, Feeder, Job, Jobs
  <1>8. left \in [Interruptions -> Nat] BY ExercisesAssumption DEF Init
  <1>9. at \in [Runs -> 1 .. 20]
    <2>1. 1 \in 1 .. 20 OBVIOUS
    <2> QED BY <2>1 DEF Init
  <1>10. /\ pc \in [Runs -> {"off", "body", "undo", "gone"}] /\ flags \in [Runs -> SUBSET Flags]
         /\ held \in [Runs -> SUBSET [by : Runs \cup {S02}, job : Jobs]]
         /\ result \in [Runs -> {"none", "complete", "error"}]
    BY DEF Init
  <1>11. counting \in BOOLEAN /\ printing \in BOOLEAN BY DEF Init
  <1> QED BY <1>2, <1>3, <1>5, <1>6, <1>7, <1>8, <1>9, <1>10, <1>11 DEF TypeInv, TypeOK


\* Every variable has its type: a script names only what it may, and the next
\* command is within it, however the runs are interrupted.
THEOREM WellTyped == Spec => []TypeOK
  <1>1. TypeInv => TypeOK BY DEF TypeInv
  <1> QED BY <1>1, TypeInit, TypeStep, PTL DEF Spec

-----------------------------------------------------------------------------
(* What a run left behind *)

\* From command a on, the undo ends job j.
Killed(undo, a, j) ==
    \E k \in 1 .. Len(undo) : k >= a /\ undo[k][1] = "kill" /\ undo[k][2] = j

\* A shell names its own jobs, or S02's feeder, and its undo ends each of them.
HeldInv(r) ==
    /\ \A h \in held[r] : h.by \in {r, S02}
    /\ pc[r] = "off" => held[r] \cap jobs = {}
    /\ pc[r] = "body" => \A h \in held[r] : Killed(Undo(r), 1, h.job)
    /\ pc[r] = "undo" => \A h \in held[r] \cap jobs : Killed(Undo(r), at[r], h.job)
HeldByAll == \A r \in Runs : HeldInv(r)

\* Another run's commands start none of the jobs a run names.
LEMMA HeldKept ==
  ASSUME NEW r \in Runs, HeldInv(r), prof'[r] = prof[r], at'[r] = at[r], pc'[r] = pc[r],
         held'[r] = held[r], \A j \in jobs' : j \in jobs \/ j.by \notin {r, S02}
  PROVE  HeldInv(r)'
  BY DEF HeldInv, Undo

\* What a command changes, and for whom.
LEMMA ChangeFrame ==
  ASSUME TypeInv, NEW r \in Runs, NEW kind, NEW x, NEW flag, Change(r, kind, x, flag)
  PROVE  /\ \A q \in Runs \ {r} : held'[q] = held[q]
         /\ \A j \in jobs' : j \in jobs \/ j = Job(r, x) \/ j = Job(r, "feeder")
         /\ kind \in UndoKinds => UNCHANGED held
         /\ kind \in UndoKinds \ {"kill"} => UNCHANGED jobs
  <1>1. held \in [Runs -> SUBSET [by : Runs \cup {S02}, job : Jobs]] BY DEF TypeInv, TypeOK
  <1>2. CASE kind \in {"save", "set", "put", "restore", "restore_or", "mark"}
    BY <1>2 DEF Change, shell, UndoKinds
  <1>3. CASE kind \in {"spawn", "keep", "reap", "kill", "adopt", "starve", "clear"}
    BY <1>1, <1>3 DEF Change, shell, UndoKinds
  <1> QED BY <1>2, <1>3 DEF Change

LEMMA HeldOwnBody ==
  ASSUME TypeInv, NEW r \in Runs, HeldInv(r), Step(r), pc[r] = "body"
  PROVE  HeldInv(r)'
  <1> DEFINE c == Command(r)
  <1>1. /\ More(r) /\ prof' = prof /\ pc' = pc
        /\ UNCHANGED shell \/ Change(r, c[1], c[2], c[3])
    BY DEF Step, Advance, Passes
  <1>2. /\ held \in [Runs -> SUBSET [by : Runs \cup {S02}, job : Jobs]] /\ S02 \notin Runs
        /\ pc \in [Runs -> {"off", "body", "undo", "gone"}]
    BY ExercisesAssumption DEF TypeInv, TypeOK
  <1>3. /\ BodyIsSafe(Body(r), Undo(r)) /\ at[r] \in 1 .. Len(Body(r)) /\ c = Body(r)[at[r]]
        /\ c[1] = "adopt" => c[2] = "feeder"
    BY <1>1, NextCommand DEF Safe, Body, Undo, Command
  <1>4. c[1] \in {"keep", "adopt"} => Killed(Undo(r), 1, c[2])
    <2>1. ASSUME c[1] \in {"keep", "adopt"}
          PROVE  \E k \in 1 .. Len(Undo(r)) : Undo(r)[k][1] = "kill" /\ Undo(r)[k][2] = c[2]
      BY <1>3, <2>1 DEF BodyIsSafe
    <2> QED BY <2>1 DEF Killed
  <1>5. \A h \in held'[r] :
           \/ h \in held[r]
           \/ h.by \in {r, S02} /\ h.job = c[2] /\ c[1] \in {"keep", "adopt"}
    <2>1. CASE UNCHANGED shell BY <2>1 DEF shell
    <2> HIDE DEF c
    <2>2. CASE Change(r, c[1], c[2], c[3]) /\ c[1] \notin {"keep", "reap", "adopt", "starve"}
      BY SMTT(30), <2>2 DEF Change, shell
    <2>3. CASE Change(r, c[1], c[2], c[3]) /\ c[1] = "keep"
      <3>1. held' = [held EXCEPT ![r] = @ \cup {Job(r, c[2])}] BY <2>3 DEF Change
      <3> QED BY <1>2, <2>3, <3>1 DEF Job
    <2>4. CASE Change(r, c[1], c[2], c[3]) /\ c[1] = "adopt"
      <3>1. \E w \in {Feeder, Job(r, "feeder")} : held' = [held EXCEPT ![r] = @ \cup {w}]
        BY <2>4 DEF Change
      <3>2. \A w \in {Feeder, Job(r, "feeder")} : w.by \in {r, S02} /\ w.job = c[2]
        BY <1>3, <2>4 DEF Feeder, Job
      <3> QED BY <1>2, <2>4, <3>1, <3>2
    <2>5. CASE Change(r, c[1], c[2], c[3]) /\ c[1] \in {"reap", "starve"}
      <3>1. held' \in {[held EXCEPT ![r] = @ \ {Job(r, c[2])}], [held EXCEPT ![r] = {}]}
        BY <2>5 DEF Change
      <3> QED BY <1>2, <3>1
    <2> QED BY <1>1, <2>1, <2>2, <2>3, <2>4, <2>5
  <1> HIDE DEF c
  <1>6. Undo(r)' = Undo(r) BY <1>1 DEF Undo
  <1> QED BY <1>1, <1>4, <1>5, <1>6 DEF HeldInv

LEMMA HeldOwnUndo ==
  ASSUME TypeInv, NEW r \in Runs, HeldInv(r), Step(r), pc[r] = "undo"
  PROVE  HeldInv(r)'
  <1> DEFINE c == Command(r)
             u == Undo(r)
  <1>1. /\ More(r) /\ prof' = prof /\ pc' = pc /\ at' = [at EXCEPT ![r] = at[r] + 1]
        /\ UNCHANGED <<jobs, shell>> \/ Change(r, c[1], c[2], c[3])
    BY DEF Step, Advance, Passes
  <1>2. /\ held \in [Runs -> SUBSET [by : Runs \cup {S02}, job : Jobs]]
        /\ at \in [Runs -> 1 .. 20]
    BY DEF TypeInv, TypeOK
  <1>3. UndoIsSafe(u) /\ at[r] \in 1 .. Len(u) /\ c = u[at[r]]
    BY <1>1, NextCommand DEF Safe, Undo, Command
  <1>4. c[1] \in UndoKinds BY <1>3 DEF UndoIsSafe
  <1>5. held' = held /\ (c[1] # "kill" => jobs' = jobs)
    BY <1>1, <1>4, ChangeFrame DEF shell
  <1>6. c[1] = "kill" => jobs' = jobs \ {h \in held[r] : h.job = c[2]}
    <2>1. c[1] = "kill" => Change(r, c[1], c[2], c[3])
      BY DEF Step, Passes
    <2> HIDE DEF c
    <2> QED BY <2>1 DEF Change
  <1> HIDE DEF c, u
  <1>7. at'[r] = at[r] + 1 /\ at[r] \in Int
    <2>1. at[r] \in 1 .. 20 BY <1>2
    <2>2. at' = [at EXCEPT ![r] = at[r] + 1] BY <1>1
    <2>3. at'[r] = at[r] + 1 BY <1>2, <2>2
    <2> QED BY <2>1, <2>3
  <1>8. \A h \in held'[r] \cap jobs' : Killed(u, at'[r], h.job)
    <2> SUFFICES ASSUME NEW h \in held[r] \cap jobs, h \in jobs' PROVE Killed(u, at[r] + 1, h.job)
      BY <1>5, <1>6, <1>7
    <2>1. ~(c[1] = "kill" /\ c[2] = h.job) BY <1>6
    <2>2. PICK k \in 1 .. Len(u) : k >= at[r] /\ u[k][1] = "kill" /\ u[k][2] = h.job
      BY DEF HeldInv, Killed, u
    <2>3. k # at[r] BY <1>3, <2>1, <2>2
    <2>4. k >= at[r] + 1 BY <1>7, <2>2, <2>3
    <2> QED BY <2>2, <2>4 DEF Killed
  <1>9. Undo(r)' = u BY <1>1 DEF Undo, u
  <1> QED BY <1>1, <1>5, <1>8, <1>9 DEF HeldInv

LEMMA HeldStep ==
  ASSUME TypeInv, HeldByAll, [Next]_vars
  PROVE  HeldByAll'
  <1> SUFFICES ASSUME NEW r \in Runs PROVE HeldInv(r)'
    BY DEF HeldByAll
  <1>1. HeldInv(r) /\ S02 \notin Runs BY ExercisesAssumption DEF HeldByAll
  <1>2. /\ held \in [Runs -> SUBSET [by : Runs \cup {S02}, job : Jobs]]
        /\ at \in [Runs -> 1 .. 20] /\ pc \in [Runs -> {"off", "body", "undo", "gone"}]
        /\ prof \in [Runs -> InUse]
    BY DEF TypeInv, TypeOK
  <1>3. CASE UNCHANGED vars BY <1>1, <1>3, HeldKept DEF vars
  <1>4. ASSUME NEW q \in Runs, NEW p \in InUse, Start(q, p) PROVE HeldInv(r)'
    <2>1. CASE q = r
      BY <1>2, <1>4, <2>1 DEF Start, HeldInv
    <2>2. CASE q # r
      BY <1>1, <1>2, <1>4, <2>2, HeldKept DEF Start, printer
    <2> QED BY <2>1, <2>2
  <1>5. ASSUME NEW q \in Runs, Step(q) PROVE HeldInv(r)'
    <2>1. CASE q = r
      BY <1>1, <1>5, <2>1, HeldOwnBody, HeldOwnUndo DEF Step, More
    <2>2. CASE q # r
      <3>1. prof'[r] = prof[r] /\ at'[r] = at[r] /\ pc'[r] = pc[r]
        BY <1>2, <1>5, <2>2 DEF Step, Advance
      <3>2. held'[r] = held[r] /\ \A j \in jobs' : j \in jobs \/ j.by = q
        <4>1. CASE Passes(q) BY <4>1 DEF Passes, shell
        <4>2. CASE Change(q, Command(q)[1], Command(q)[2], Command(q)[3])
          <5> HIDE DEF Command
          <5> QED BY <2>2, <4>2, ChangeFrame DEF Job
        <4> QED BY <1>5, <4>1, <4>2 DEF Step
      <3> QED BY <1>1, <2>2, <3>1, <3>2, HeldKept
    <2> QED BY <2>1, <2>2
  <1>6. ASSUME NEW q \in Runs, Refuses(q) \/ BodyEnds(q) \/ Interrupted(q) PROVE HeldInv(r)'
    <2>1. ToUndo(q) /\ UNCHANGED <<printer, prof, shell>> BY <1>6 DEF Refuses, BodyEnds, Interrupted
    <2>2. CASE q = r /\ pc[r] = "body"
      <3>1. pc'[r] = "undo" /\ at'[r] = 1 /\ Undo(r)' = Undo(r)
        BY <1>2, <2>1, <2>2 DEF ToUndo, Undo
      <3> QED BY <1>1, <2>1, <2>2, <3>1 DEF HeldInv, printer, shell
    <2>3. CASE q = r /\ pc[r] # "body"
      <3>1. Refuses(r) /\ pc[r] = "undo" BY <1>6, <2>3 DEF Refuses, BodyEnds, Interrupted, More
      <3>2. UndoIsSafe(Undo(r)) /\ at[r] \in 1 .. Len(Undo(r)) /\ Command(r) = Undo(r)[at[r]]
        BY <3>1, NextCommand DEF Safe, Undo, Command, Refuses
      <3>3. Command(r)[1] \in UndoKinds BY <3>2 DEF UndoIsSafe
      <3>4. Command(r)[1] \in Guards BY <3>1 DEF Refuses, Refused, Guards
      <3> QED BY <3>3, <3>4 DEF Guards, UndoKinds
    <2>4. CASE q # r
      BY <1>1, <1>2, <2>1, <2>4, HeldKept DEF ToUndo, printer, shell
    <2> QED BY <2>2, <2>3, <2>4
  <1>7. ASSUME NEW q \in Runs, UndoEnds(q) PROVE HeldInv(r)'
    <2>1. CASE q = r
      <3>1. pc[r] = "undo" /\ ~(at[r] <= Len(Undo(r)))
        BY <1>7, <2>1 DEF UndoEnds, More, Script, Undo
      <3>2. prof[r] \in DOMAIN Profiles /\ at[r] \in Int BY <1>2, ExercisesAssumption
      <3>3. Len(Undo(r)) \in Int BY <3>2, ProfilesAreSafe DEF Safe, IsTyped, Undo
      <3>4. \A a \in Int, n \in Int : ~(a <= n) => \A k \in 1 .. n : ~(k >= a) OBVIOUS
      <3>5. held[r] \cap jobs = {} BY <1>1, <3>1, <3>2, <3>3, <3>4 DEF HeldInv, Killed
      <3> QED BY <1>1, <1>2, <1>7, <2>1, <3>5 DEF HeldInv, UndoEnds, printer, shell
    <2>2. CASE q # r BY <1>1, <1>2, <1>7, <2>2, HeldKept DEF UndoEnds, printer, shell
    <2> QED BY <2>1, <2>2
  <1>8. ASSUME NEW q \in Runs, ConnectionLost(q) PROVE HeldInv(r)'
    <2>1. UNCHANGED <<prof, at, held>> /\ jobs' \subseteq jobs BY <1>8 DEF ConnectionLost, shell
    <2>2. CASE pc'[r] = pc[r] BY <1>1, <2>1, <2>2, HeldKept
    <2>3. CASE pc'[r] # pc[r]
      <3>1. pc'[r] = "gone" BY <1>2, <1>8, <2>3 DEF ConnectionLost
      <3> QED BY <1>1, <2>1, <3>1 DEF HeldInv
    <2> QED BY <2>2, <2>3
  <1>9. Reboots => HeldInv(r)' BY DEF Reboots, HeldInv
  <1>11. ASSUME NEW q \in Runs, UndoInterrupted(q) PROVE HeldInv(r)'
    <2>1. UNCHANGED <<prof, at, held, jobs>> BY <1>11 DEF UndoInterrupted, printer, shell
    <2>2. CASE q # r BY <1>1, <1>2, <1>11, <2>1, <2>2, HeldKept DEF UndoInterrupted
    <2>3. CASE q = r
      <3>1. pc'[r] = "gone" BY <1>2, <1>11, <2>3 DEF UndoInterrupted
      <3> QED BY <1>1, <2>1, <3>1 DEF HeldInv
    <2> QED BY <2>2, <2>3
  <1>10. PrintStarts => HeldInv(r)' BY <1>1, HeldKept DEF PrintStarts, shell
  <1> QED BY <1>3, <1>4, <1>5, <1>6, <1>7, <1>8, <1>9, <1>10, <1>11, Steps
         DEF PowerCut, WatchdogFires

\* What a run started, and its shell could name, is gone when its undo came to its
\* end: for any number of runs at once, of whatever profiles, with any number of
\* signals, lost connections and power cuts on the way.  A run that one of these
\* ended inside its undo, or without it, is not claimed to leave nothing.
THEOREM NothingOutlives == Spec => []NoStray
  <1>1. Init => TypeInv /\ HeldByAll
    BY TypeInit DEF Init, HeldByAll, HeldInv
  <1>2. TypeInv /\ HeldByAll /\ [Next]_vars => TypeInv' /\ HeldByAll'
    BY TypeStep, HeldStep
  <1>3. TypeInv /\ HeldByAll => NoStray
    BY DEF HeldByAll, HeldInv, NoStray
  <1> QED BY <1>1, <1>2, <1>3, PTL DEF Spec

-----------------------------------------------------------------------------
(* The settings come back *)

\* A command of the undo, not yet run, will put setting s back.
Returns(r, a, s) ==
    \E k \in 1 .. Len(Undo(r)) :
        /\ k >= a /\ Undo(r)[k][2] = s
        /\ \/ Undo(r)[k][1] = "put" /\ Undo(r)[k][3] \in flags[r] \cup {Always}
           \/ Undo(r)[k][1] = "restore" /\ saved[r][s] = own[s]
           \/ /\ Undo(r)[k][1] = "restore_or"
              /\ saved[r][s] = own[s] /\ Undo(r)[k][3] \in flags[r]

\* No command of the undo restores a setting that was never saved.
Trusts(r, s) ==
    \A k \in 1 .. Len(Undo(r)) :
        Undo(r)[k][1] = "restore_or" /\ Undo(r)[k][2] = s /\ Undo(r)[k][3] \in flags[r]
          => saved[r][s] = own[s]

\* How far setting s is from what the owner had, in each phase of a run alone.
SetInv(r, s) ==
    /\ pc[r] = "off" => cfg[s] = own[s]
    /\ pc[r] \in {"body", "undo"} => saved[r][s] \in {"unset", own[s]}
    /\ pc[r] = "body" =>
         /\ cfg[s] # own[s] => Before(Body(r), at[r], "set", s)
         /\ Before(Body(r), at[r], "save", s) => saved[r][s] = own[s]
         /\ \A f : f \in flags[r] <=> Before(Body(r), at[r], "mark", f)
    /\ pc[r] = "undo" => (cfg[s] = own[s] \/ Returns(r, at[r], s)) /\ Trusts(r, s)

\* One command further.
LEMMA BeforeNext ==
  ASSUME NEW b, NEW i \in 1 .. Len(b), NEW kind, NEW x
  PROVE  Before(b, i + 1, kind, x) <=> Before(b, i, kind, x) \/ (b[i][1] = kind /\ b[i][2] = x)
  <1>1. \A j \in 1 .. Len(b) : j < i + 1 <=> j < i \/ j = i OBVIOUS
  <1> QED BY <1>1 DEF Before

\* The values, and the tables they are in.
LEMMA Tables ==
  ASSUME TypeInv, NEW r \in Runs, NEW s \in SavedFirst
  PROVE  /\ s \in Settings
         /\ cfg \in [Settings -> Values \ {"unset"}] /\ saved \in [Runs -> [Settings -> Values]]
         /\ flags \in [Runs -> SUBSET Flags] /\ at \in [Runs -> 1 .. 20]
         /\ pc \in [Runs -> {"off", "body", "undo", "gone"}]
         /\ own[s] # "unset" /\ (s \notin Owned => own[s] = "default")
         /\ s \in SavedFirst
  BY DEF TypeInv, TypeOK, SavedFirst, Settings, Volatile, Persistent

LEMMA SetOwnBody ==
  ASSUME TypeInv, NEW r \in Runs, NEW s \in SavedFirst, SetInv(r, s), Step(r), pc[r] = "body"
  PROVE  SetInv(r, s)'
  <1> DEFINE c == Command(r)
             b == Body(r)
             i == at[r]
  <1>1. /\ More(r) /\ prof' = prof /\ pc' = pc /\ at' = [at EXCEPT ![r] = @ + 1] /\ own' = own
        /\ (c[1] \in Guards /\ UNCHANGED <<cfg, shell>>) \/ Change(r, c[1], c[2], c[3])
    BY DEF Step, Advance, Passes, Guards
  <1>2. /\ BodyIsSafe(b, Undo(r)) /\ i \in 1 .. Len(b) /\ c = b[i]
        /\ c[1] \in {"save", "set", "put", "restore", "restore_or"} => c[2] \in Settings
        /\ c[1] = "mark" => c[2] \in Flags
    BY <1>1, NextCommand DEF Safe, Body, Undo, Command
  <1> HIDE DEF c, b, i
  <1>3. /\ c[1] \in BodyKinds
        /\ c[1] = "save" => ~Before(b, i, "set", c[2])
        /\ c[1] = "put" => c[2] \notin SavedFirst \cap Owned
    BY <1>2 DEF BodyIsSafe
  <1>4. at'[r] = i + 1 /\ b = Body(r) /\ b = Body(r)' /\ pc'[r] = "body" /\ i = at[r]
    BY <1>1, Tables DEF b, i, Body
  <1>5. \A kind, x :
           Before(b, i + 1, kind, x) <=> Before(b, i, kind, x) \/ (c[1] = kind /\ c[2] = x)
    BY <1>2, BeforeNext
  <1>6. /\ cfg[s] # own[s] => Before(b, i, "set", s)
        /\ Before(b, i, "save", s) => saved[r][s] = own[s]
        /\ \A f : f \in flags[r] <=> Before(b, i, "mark", f)
        /\ saved[r][s] \in {"unset", own[s]}
    BY <1>4 DEF SetInv
  <1>7. cfg'[s] # own[s] => (c[1] = "set" /\ c[2] = s) \/ cfg[s] # own[s]
    <2>1. CASE c[1] \in Guards /\ UNCHANGED <<cfg, shell>> BY <2>1
    <2>2. CASE Change(r, c[1], c[2], c[3]) /\ c[1] \in {"set", "put"}
      BY <1>2, <1>3, <2>2, Tables DEF Change
    <2>3. CASE Change(r, c[1], c[2], c[3]) /\ c[1] \notin {"set", "put"}
      BY <1>3, <2>3 DEF Change, BodyKinds, Guards
    <2> QED BY <1>1, <2>1, <2>2, <2>3
  <1>8. saved'[r][s] = IF c[1] = "save" /\ c[2] = s THEN cfg[s] ELSE saved[r][s]
    <2>1. CASE c[1] \in Guards /\ UNCHANGED <<cfg, shell>> BY <2>1 DEF shell, Guards
    <2>2. CASE Change(r, c[1], c[2], c[3]) /\ c[1] = "save"
      <3>1. saved' = [saved EXCEPT ![r] = [saved[r] EXCEPT ![c[2]] = cfg[c[2]]]]
        BY <2>2 DEF Change
      <3> QED BY <1>2, <2>2, <3>1, Tables
    <2>3. CASE Change(r, c[1], c[2], c[3]) /\ c[1] # "save"
      BY <2>3 DEF Change, shell
    <2> QED BY <1>1, <2>1, <2>2, <2>3
  <1>9. \A f : f \in flags'[r] <=> f \in flags[r] \/ (c[1] = "mark" /\ c[2] = f)
    <2>1. CASE c[1] \in Guards /\ UNCHANGED <<cfg, shell>> BY <2>1 DEF shell, Guards
    <2>2. CASE Change(r, c[1], c[2], c[3]) /\ c[1] = "mark"
      BY <1>2, <2>2, Tables DEF Change
    <2>3. CASE Change(r, c[1], c[2], c[3]) /\ c[1] # "mark"
      BY <2>3 DEF Change, shell
    <2> QED BY <1>1, <2>1, <2>2, <2>3
  <1>10. cfg'[s] # own[s] => Before(b, i + 1, "set", s) BY <1>5, <1>6, <1>7
  <1>11. c[1] = "save" /\ c[2] = s => cfg[s] = own[s] BY <1>3, <1>6
  <1>12. /\ Before(b, i + 1, "save", s) => saved'[r][s] = own[s]
         /\ saved'[r][s] \in {"unset", own[s]}
    BY <1>5, <1>6, <1>8, <1>11
  <1>13. \A f : f \in flags'[r] <=> Before(b, i + 1, "mark", f) BY <1>5, <1>6, <1>9
  <1> QED BY <1>1, <1>4, <1>10, <1>12, <1>13 DEF SetInv

LEMMA SetOwnUndo ==
  ASSUME TypeInv, NEW r \in Runs, NEW s \in SavedFirst, SetInv(r, s), Step(r), pc[r] = "undo"
  PROVE  SetInv(r, s)'
  <1> DEFINE c == Command(r)
             u == Undo(r)
             i == at[r]
  <1>1. /\ More(r) /\ prof' = prof /\ pc' = pc /\ at' = [at EXCEPT ![r] = @ + 1] /\ own' = own
        /\ (c[1] \in Guards /\ UNCHANGED <<cfg, shell>>) \/ Change(r, c[1], c[2], c[3])
    BY DEF Step, Advance, Passes, Guards
  <1>2. /\ UndoIsSafe(u) /\ i \in 1 .. Len(u) /\ c = u[i]
        /\ c[1] \in {"save", "set", "put", "restore", "restore_or"} => c[2] \in Settings
    BY <1>1, NextCommand DEF Safe, Undo, Command
  <1> HIDE DEF c, u, i
  <1>3. /\ c[1] \in UndoKinds
        /\ c[1] = "put" => c[2] \notin SavedFirst \cap Owned
        /\ c[1] = "set" => c[2] \notin SavedFirst
    BY <1>2 DEF UndoIsSafe
  <1>4. Change(r, c[1], c[2], c[3]) BY <1>1, <1>3 DEF UndoKinds, Guards
  <1>5. saved' = saved /\ flags' = flags BY <1>3, <1>4 DEF Change, shell, UndoKinds
  <1>6. at'[r] = i + 1 /\ u = Undo(r) /\ u = Undo(r)' /\ pc'[r] = "undo" /\ i = at[r]
    BY <1>1, Tables DEF u, i, Undo
  <1>7. /\ cfg[s] = own[s] \/ Returns(r, i, s)
        /\ Trusts(r, s) /\ saved[r][s] \in {"unset", own[s]}
    BY <1>6 DEF SetInv
  <1>8. c[2] # s => cfg'[s] = cfg[s]
    BY <1>3, <1>4, Tables DEF Change, UndoKinds
  <1>9. cfg[s] = own[s] => cfg'[s] = own[s]
    <2>1. CASE c[2] = s /\ c[1] = "put" BY <1>2, <1>3, <1>4, <2>1, Tables DEF Change
    <2>2. CASE c[2] = s /\ c[1] = "restore" BY <1>2, <1>4, <1>7, <2>2, Tables DEF Change
    <2>3. CASE c[2] = s /\ c[1] = "restore_or"
      <3>1. c[3] \in flags[r] => saved[r][s] = own[s] BY <1>2, <1>6, <1>7, <2>3 DEF Trusts
      <3> QED BY <1>2, <1>4, <2>3, <3>1, Tables DEF Change
    <2>4. CASE c[2] = s /\ c[1] \in {"kill", "set"}
      BY <1>3, <1>4, <2>4 DEF Change
    <2> QED BY <1>3, <1>8, <2>1, <2>2, <2>3, <2>4 DEF UndoKinds
  <1>10. ASSUME cfg'[s] # own[s] PROVE Returns(r, i + 1, s)
    <2>1. PICK k \in 1 .. Len(u) :
             /\ k >= i /\ u[k][2] = s
             /\ \/ u[k][1] = "put" /\ u[k][3] \in flags[r] \cup {Always}
                \/ u[k][1] = "restore" /\ saved[r][s] = own[s]
                \/ /\ u[k][1] = "restore_or"
                   /\ saved[r][s] = own[s] /\ u[k][3] \in flags[r]
      BY <1>6, <1>7, <1>9, <1>10 DEF Returns
    <2>2. CASE k = i
      <3>1. CASE c[1] = "put" BY <1>2, <1>3, <1>4, <1>10, <2>1, <2>2, <3>1, Tables DEF Change
      <3>2. CASE c[1] = "restore" BY <1>2, <1>4, <1>10, <2>1, <2>2, <3>2, Tables DEF Change
      <3>3. CASE c[1] = "restore_or" BY <1>2, <1>4, <1>10, <2>1, <2>2, <3>3, Tables DEF Change
      <3> QED BY <1>2, <2>1, <2>2, <3>1, <3>2, <3>3
    <2>3. CASE k # i
      <3>1. k >= i + 1 BY <1>2, <2>1, <2>3
      <3> QED BY <1>6, <2>1, <3>1 DEF Returns
    <2> QED BY <2>2, <2>3
  <1>11. /\ Returns(r, i + 1, s) => Returns(r, at[r], s)'
         /\ Trusts(r, s)'
    BY <1>1, <1>5, <1>6, <1>7 DEF Returns, Trusts
  <1> QED BY <1>1, <1>5, <1>6, <1>7, <1>10, <1>11 DEF SetInv

\* A body that stops anywhere leaves its undo able to put back what it changed.
LEMMA SetTrapped ==
  ASSUME TypeInv, NEW r \in Runs, NEW s \in SavedFirst, SetInv(r, s), pc[r] = "body", ToUndo(r),
         UNCHANGED <<cfg, own, prof, shell>>
  PROVE  SetInv(r, s)'
  <1> DEFINE b == Body(r)
             u == Undo(r)
             i == at[r]
  <1>1. pc'[r] = "undo" /\ at'[r] = 1 /\ Undo(r)' = u BY Tables DEF ToUndo, Undo
  <1>2. BodyIsSafe(b, u)
    <2>1. prof[r] \in DOMAIN Profiles BY ExercisesAssumption DEF TypeInv, TypeOK
    <2> QED BY <2>1, ProfilesAreSafe DEF Safe, Body, Undo
  <1>3. i \in 1 .. 20 BY Tables
  <1>4. /\ cfg[s] # own[s] => Before(b, i, "set", s)
        /\ Before(b, i, "save", s) => saved[r][s] = own[s]
        /\ \A f : f \in flags[r] <=> Before(b, i, "mark", f)
        /\ saved[r][s] \in {"unset", own[s]}
    BY DEF SetInv
  <1> HIDE DEF b, u, i
  <1>5. \A kind, x : \A j \in 1 .. Len(b) :
                    j < i /\ Before(b, j, kind, x) => Before(b, i, kind, x)
    BY <1>3 DEF Before
  <1>6. ASSUME cfg[s] # own[s]
        PROVE  \E k \in 1 .. Len(u) :
                 /\ k >= 1 /\ u[k][2] = s
                 /\ \/ u[k][1] = "put" /\ u[k][3] \in flags[r] \cup {Always}
                    \/ u[k][1] = "restore" /\ saved[r][s] = own[s]
                    \/ /\ u[k][1] = "restore_or"
                       /\ saved[r][s] = own[s] /\ u[k][3] \in flags[r]
    <2>1. PICK j \in 1 .. Len(b) : j < i /\ b[j][1] = "set" /\ b[j][2] = s
      BY <1>4, <1>6 DEF Before
    <2>2. Reverts(b, u, j, s) BY <1>2, <2>1 DEF BodyIsSafe
    <2>3. PICK k \in 1 .. Len(u) :
            /\ u[k][2] = s
            /\ \/ u[k][1] = "put" /\ (u[k][3] = Always \/ Before(b, j, "mark", u[k][3]))
               \/ u[k][1] = "restore" /\ Before(b, j, "save", s)
               \/ /\ u[k][1] = "restore_or"
                  /\ Before(b, j, "save", s) /\ Before(b, j, "mark", u[k][3])
      BY <2>2 DEF Reverts
    <2>4. k >= 1 BY <2>3
    <2>5. /\ Before(b, j, "save", s) => saved[r][s] = own[s]
          /\ \A f : Before(b, j, "mark", f) => f \in flags[r]
      BY <1>4, <1>5, <2>1
    <2> QED BY <2>3, <2>4, <2>5
  <1>7. ASSUME NEW k \in 1 .. Len(u), u[k][1] = "restore_or", u[k][2] = s, u[k][3] \in flags[r]
        PROVE  saved[r][s] = own[s]
    <2>1. PICK j \in 1 .. Len(b) : j < i /\ b[j][1] = "mark" /\ b[j][2] = u[k][3]
      BY <1>4, <1>7 DEF Before
    <2>2. Before(b, j, "save", s) BY <1>2, <1>7, <2>1 DEF BodyIsSafe
    <2> QED BY <1>4, <1>5, <2>1, <2>2
  <1>8. (cfg[s] = own[s] \/ Returns(r, at[r], s)') /\ Trusts(r, s)'
    BY <1>1, <1>6, <1>7 DEF Returns, Trusts, shell
  <1> QED BY <1>1, <1>4, <1>8 DEF SetInv, shell

\* Where nothing the invariant names changes.
LEMMA SetKept ==
  ASSUME NEW r \in Runs, NEW s \in SavedFirst, SetInv(r, s),
         UNCHANGED <<cfg, own, prof, pc, at, saved, flags>>
  PROVE  SetInv(r, s)'
  BY DEF SetInv, Returns, Trusts, Undo, Body

LEMMA SetStep ==
  ASSUME TypeInv, NEW r \in Runs, \A q \in Runs : q = r, NEW s \in SavedFirst, SetInv(r, s),
         [Next]_vars
  PROVE  SetInv(r, s)'
  <1>1. CASE UNCHANGED vars BY <1>1, SetKept DEF vars
  <1>2. ASSUME NEW p \in InUse, Start(r, p) PROVE SetInv(r, s)'
    <2>1. /\ pc'[r] = "body" /\ at'[r] = 1 /\ saved'[r] = Nothing /\ flags'[r] = {}
          /\ cfg[s] = own[s] /\ UNCHANGED <<cfg, own>>
      BY <1>2, Tables DEF Start, SetInv, printer
    <2>2. \A kind, x : ~Before(Body(r)', 1, kind, x) BY DEF Before
    <2>3. saved'[r][s] = "unset" BY <2>1, Tables DEF Nothing
    <2> QED BY <2>1, <2>2, <2>3 DEF SetInv
  <1>3. Step(r) => SetInv(r, s)' BY SetOwnBody, SetOwnUndo DEF Step, More
  <1>4. BodyEnds(r) \/ Interrupted(r) => SetInv(r, s)'
    BY SetTrapped DEF BodyEnds, Interrupted, printer
  <1>5. ASSUME Refuses(r) PROVE SetInv(r, s)'
    <2>1. CASE pc[r] = "body" BY <1>5, <2>1, SetTrapped DEF Refuses, printer
    <2>2. CASE pc[r] = "undo"
      <3>1. UndoIsSafe(Undo(r)) /\ at[r] \in 1 .. Len(Undo(r)) /\ Command(r) = Undo(r)[at[r]]
        BY <1>5, <2>2, NextCommand DEF Safe, Undo, Command, Refuses
      <3>2. Command(r)[1] \in UndoKinds BY <3>1 DEF UndoIsSafe
      <3>3. Command(r)[1] \in Guards BY <1>5 DEF Refuses, Refused, Guards
      <3> QED BY <3>2, <3>3 DEF Guards, UndoKinds
    <2> QED BY <1>5, <2>1, <2>2 DEF Refuses, More
  <1>6. ASSUME UndoEnds(r) PROVE SetInv(r, s)'
    <2>1. pc[r] = "undo" /\ ~(at[r] <= Len(Undo(r))) BY <1>6 DEF UndoEnds, More, Script, Undo
    <2>2. prof[r] \in DOMAIN Profiles /\ at[r] \in Int
      BY ExercisesAssumption DEF TypeInv, TypeOK
    <2>3. Len(Undo(r)) \in Int BY <2>2, ProfilesAreSafe DEF Safe, IsTyped, Undo
    <2>4. \A a \in Int, n \in Int : ~(a <= n) => \A k \in 1 .. n : ~(k >= a) OBVIOUS
    <2>5. ~Returns(r, at[r], s) BY <2>1, <2>2, <2>3, <2>4 DEF Returns
    <2>6. cfg[s] = own[s] BY <2>1, <2>5 DEF SetInv
    <2>7. pc'[r] = "off" /\ UNCHANGED <<cfg, own>> BY <1>6, Tables DEF UndoEnds, printer
    <2> QED BY <2>6, <2>7 DEF SetInv
  <1>7. ASSUME ConnectionLost(r) PROVE SetInv(r, s)'
    <2>1. UNCHANGED <<cfg, own, prof, at, saved, flags>> BY <1>7 DEF ConnectionLost, shell
    <2>2. CASE pc' = pc BY <2>1, <2>2, SetKept
    <2>3. CASE pc' # pc
      <3>1. pc'[r] = "gone" BY <1>7, <2>3, Tables DEF ConnectionLost
      <3> QED BY <3>1 DEF SetInv
    <2> QED BY <2>2, <2>3
  <1>10. ASSUME UndoInterrupted(r) PROVE SetInv(r, s)'
    <2>1. pc'[r] = "gone" BY <1>10, Tables DEF UndoInterrupted
    <2> QED BY <2>1 DEF SetInv
  <1>8. ASSUME Reboots PROVE SetInv(r, s)'
    <2>1. pc'[r] = IF pc[r] = "off" THEN "off" ELSE "gone" BY <1>8 DEF Reboots
    <2>2. own' = own /\ cfg'[s] \in {own[s], cfg[s]} BY <1>8, Tables DEF Reboots
    <2> QED BY <2>1, <2>2 DEF SetInv
  <1>9. PrintStarts => SetInv(r, s)' BY SetKept DEF PrintStarts, shell
  <1> QED BY <1>1, <1>2, <1>3, <1>4, <1>5, <1>6, <1>7, <1>8, <1>9, <1>10, Steps
         DEF PowerCut, WatchdogFires

\* A setting that a profile saves before it changes it, and Klippy, are as they
\* were once the run came to the end of its undo: for any profiles, from wherever
\* in the body signals, guards and the script's own end sent it there, as long as
\* one exercise runs at a time, which the agent does not check.  A run that a
\* signal ended inside its undo is not claimed to have put them back.
THEOREM SettingsComeBack ==
  ASSUME NEW CONSTANT sh, Runs = {sh}
  PROVE  Spec => []SettingsReturn
  <1> DEFINE SInv == \A s \in SavedFirst : SetInv(sh, s)
  <1>1. Init => TypeInv /\ SInv
    BY TypeInit DEF Init, SetInv
  <1>2. TypeInv /\ SInv /\ [Next]_vars => TypeInv' /\ SInv'
    <2> SUFFICES ASSUME TypeInv, SInv, [Next]_vars, NEW s \in SavedFirst PROVE SetInv(sh, s)'
      BY TypeStep
    <2> QED BY SetStep
  <1>3. TypeInv /\ SInv => SettingsReturn
    BY DEF SetInv, SettingsReturn, Off
  <1> QED BY <1>1, <1>2, <1>3, PTL DEF Spec
=============================================================================
