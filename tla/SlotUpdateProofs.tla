-------------------------- MODULE SlotUpdateProofs --------------------------
(***************************************************************************)
(* The invariants of SlotUpdate, its action properties, and that the slots *)
(* implement FallbackPromise, for any images, any number of attempts and   *)
(* of faults.                                                              *)
(***************************************************************************)
EXTENDS SlotUpdateRefines, TLAPS

LEMMA Targets == ASSUME TypeOK PROVE target \in Slots /\ \A s \in Slots : Other(s) \in Slots
  BY DEF TypeOK, target, Other, Slots

LEMMA Records ==
  ASSUME TypeOK
  PROVE  /\ NoJob \in Jobs /\ NoReq \in Reqs /\ TrialReq \in Reqs /\ job.img \in Image \cup {NoImage}
         /\ \A pc \in JobPc : [job EXCEPT !.pc = pc] \in Jobs
         /\ \A i \in Image : [pc |-> "check", img |-> i] \in Jobs
         /\ \A c \in Contents, s \in Slots : [slot EXCEPT ![s] = c] \in [Slots -> Contents]
         /\ Blanked \in Contents
         /\ \A i \in Image \cup {NoImage} : Half(i) \in Contents /\ Full(i) \in Contents
         /\ [slot EXCEPT ![target].whole = TRUE] \in [Slots -> Contents]
         /\ \A c \in Image \cup {NoImage}, s \in Slots :
              [confirmed EXCEPT ![s] = c] \in [Slots -> Image \cup {NoImage}]
  <1>1. target \in Slots BY Targets
  <1>2. NoJob \in Jobs /\ NoReq \in Reqs /\ TrialReq \in Reqs /\ job.img \in Image \cup {NoImage}
    BY DEF TypeOK, NoJob, NoReq, TrialReq, Jobs, Reqs, JobPc
  <1>3. \A pc \in JobPc : [job EXCEPT !.pc = pc] \in Jobs BY DEF TypeOK, Jobs
  <1>4. \A i \in Image : [pc |-> "check", img |-> i] \in Jobs BY DEF Jobs, JobPc
  <1>5. \A c \in Contents, s \in Slots : [slot EXCEPT ![s] = c] \in [Slots -> Contents]
    BY DEF TypeOK
  <1>6. Blanked \in Contents BY DEF Contents, Blanked
  <1>7. \A i \in Image \cup {NoImage} : Half(i) \in Contents /\ Full(i) \in Contents
    BY DEF Contents, Half, Full
  <1>8. [slot EXCEPT ![target].whole = TRUE] \in [Slots -> Contents]
    BY <1>1 DEF TypeOK, Contents
  <1>9. \A c \in Image \cup {NoImage}, s \in Slots :
              [confirmed EXCEPT ![s] = c] \in [Slots -> Image \cup {NoImage}]
    BY DEF TypeOK
  <1> QED BY <1>2, <1>3, <1>4, <1>5, <1>6, <1>7, <1>8, <1>9

LEMMA TrialRecords ==
  ASSUME TypeOK
  PROVE  /\ NewTrial \in Trials
         /\ trial # NoTrial => CountedTrial \in Trials
         /\ trial # NoTrial => [trial EXCEPT !.counted = FALSE] \in Trials
  <1> USE ConstantsAssumption
  <1>1. target \in Slots BY Targets
  <1>2. NewTrial \in Trials BY <1>1 DEF TypeOK, NewTrial, Trials
  <1>3. ASSUME trial # NoTrial PROVE CountedTrial \in Trials
    <2> DEFINE n == IF trial.starts > TrialAttempts THEN trial.starts ELSE trial.starts + 1
    <2>1. CountedTrial = trial \/ CountedTrial = [trial EXCEPT !.counted = TRUE, !.starts = n]
      BY DEF CountedTrial
    <2>2. trial \in Trials BY <1>3 DEF TypeOK
    <2>3. n \in 0..(TrialAttempts + 1) BY <2>2 DEF Trials
    <2> HIDE DEF n
    <2>4. [trial EXCEPT !.counted = TRUE, !.starts = n] \in Trials BY <2>2, <2>3 DEF Trials
    <2> QED BY <2>1, <2>2, <2>4
  <1>4. trial # NoTrial => [trial EXCEPT !.counted = FALSE] \in Trials BY DEF TypeOK, Trials
  <1> QED BY <1>2, <1>3, <1>4

LEMMA FlagsStep == ASSUME FlagsOK, [Next]_vars PROVE FlagsOK'
  <1> USE DEF FlagsOK
  <1>1. CASE PowerOn BY Zenon, <1>1 DEF PowerOn
  <1>2. CASE ArmWatchdog BY Zenon, <1>2 DEF ArmWatchdog
  <1>3. CASE BootDone BY Zenon, <1>3 DEF BootDone
  <1>4. CASE PowerCut BY Zenon, <1>4 DEF PowerCut, Halt
  <1>5. CASE PowerCycle BY Zenon, <1>5 DEF PowerCycle, Halt
  <1>6. CASE Freeze BY Zenon, <1>6 DEF Freeze, Halt
  <1>7. CASE PrintStart BY Zenon, <1>7 DEF PrintStart
  <1>8. CASE PrintEnd BY Zenon, <1>8 DEF PrintEnd
  <1>9. CASE ForeignSwitch BY Zenon, <1>9 DEF ForeignSwitch, Halt
  <1>10. CASE JobKilled BY Zenon, <1>10 DEF JobKilled, JobFrame
  <1>11. CASE TrialKilled BY Zenon, <1>11 DEF TrialKilled, TrialFrame
  <1>12. CASE PendingExpires BY Zenon, <1>12 DEF PendingExpires, SwapFrame
  <1>13. CASE JobCheck BY Zenon, <1>13 DEF JobCheck, JobFrame
  <1>14. CASE JobUnconfirm BY Zenon, <1>14 DEF JobUnconfirm, JobFrame
  <1>15. CASE JobWriteKernel BY Zenon, <1>15 DEF JobWriteKernel, JobFrame
  <1>16. CASE JobWriteRootfs BY Zenon, <1>16 DEF JobWriteRootfs, JobFrame
  <1>17. CASE JobFails BY Zenon, <1>17 DEF JobFails, JobFrame
  <1>18. CASE JobFailsLate BY Zenon, <1>18 DEF JobFailsLate, JobFrame
  <1>19. CASE JobStop1 BY Zenon, <1>19 DEF JobStop1, JobFrame
  <1>20. CASE JobTrial BY Zenon, <1>20 DEF JobTrial, JobFrame
  <1>21. CASE JobSwap BY Zenon, <1>21 DEF JobSwap, JobFrame
  <1>22. CASE JobStop2 BY Zenon, <1>22 DEF JobStop2, JobFrame
  <1>23. CASE JobUndo BY Zenon, <1>23 DEF JobUndo, JobFrame
  <1>24. CASE JobUndone BY Zenon, <1>24 DEF JobUndone, JobFrame
  <1>25. CASE JobClear BY Zenon, <1>25 DEF JobClear, JobFrame
  <1>26. CASE JobReboot BY Zenon, <1>26 DEF JobReboot, Halt
  <1>27. CASE SwapLock BY Zenon, <1>27 DEF SwapLock, SwapFrame
  <1>28. CASE SwapCheck BY Zenon, <1>28 DEF SwapCheck, SwapFrame
  <1>29. CASE SwapArm BY Zenon, <1>29 DEF SwapArm, SwapFrame
  <1>30. CASE SwapReboot BY Zenon, <1>30 DEF SwapReboot, Halt
  <1>31. CASE SwapUndo BY Zenon, <1>31 DEF SwapUndo, SwapFrame
  <1>32. CASE SwapDrop BY Zenon, <1>32 DEF SwapDrop, SwapFrame
  <1>33. CASE TrialStart BY Zenon, <1>33 DEF TrialStart, TrialFrame
  <1>34. CASE TrialWait BY Zenon, <1>34 DEF TrialWait, TrialFrame
  <1>35. CASE TrialPostpone BY Zenon, <1>35 DEF TrialPostpone, TrialFrame
  <1>36. CASE TrialJudge BY Zenon, <1>36 DEF TrialJudge, TrialFrame
  <1>37. CASE TrialConfirm BY Zenon, <1>37 DEF TrialConfirm, TrialFrame
  <1>38. CASE TrialUnlink BY Zenon, <1>38 DEF TrialUnlink, TrialFrame
  <1>39. CASE TrialRecord BY Zenon, <1>39 DEF TrialRecord, TrialFrame
  <1>40. CASE TrialSwap BY Zenon, <1>40 DEF TrialSwap, TrialFrame
  <1>41. CASE TrialReboot BY Zenon, <1>41 DEF TrialReboot, Halt
  <1>42. CASE SwapRequest BY Zenon, <1>42 DEF SwapRequest, SwapFrame
  <1>43. CASE Ack BY Zenon, <1>43 DEF Ack, TrialFrame
  <1>44. ASSUME NEW i \in Image, Install(i) PROVE FlagsOK' BY Zenon, <1>44 DEF Install
  <1>45. CASE UNCHANGED vars BY Zenon, <1>45 DEF vars
  <1>46. CASE TrialBegins BY Zenon, <1>46 DEF TrialBegins, TrialFrame
  <1>47. CASE TrialStale BY Zenon, <1>47 DEF TrialStale, TrialFrame
  <1>48. CASE TrialDiscard BY Zenon, <1>48 DEF TrialDiscard, TrialFrame
  <1> QED BY <1>1, <1>2, <1>3, <1>4, <1>5, <1>6, <1>7, <1>8, <1>9, <1>10, <1>11, <1>12, <1>13, <1>14, <1>15, <1>16, <1>17, <1>18, <1>19, <1>20, <1>21, <1>22, <1>23, <1>24, <1>25, <1>26, <1>27, <1>28, <1>29, <1>30, <1>31, <1>32, <1>33, <1>34, <1>35, <1>36, <1>37, <1>38, <1>39, <1>40, <1>41, <1>42, <1>43, <1>44, <1>45, <1>46, <1>47, <1>48
      DEF Next, BootStep, Environment, JobStep, SwapStep, TrialStep

LEMMA TypeStep == ASSUME TypeOK, [Next]_vars PROVE TypeOK'
  <1>0. FlagsOK' BY FlagsStep DEF TypeOK
  <1> USE <1>0, ConstantsAssumption, Targets, Records, TrialRecords
      DEF TypeOK, JobAt, JobTo, JobEnds, JobFrame, StillUp, SwapAt, SwapTo, SwapFrame,
        TrialAt, TrialFrame, Verdict, Halt, Fault, NoFault, SwapOk, SwapFails, Blank, durable,
        Powers, Statuses, Results, TrialPc, JobPc
  <1>1. CASE PowerOn BY <1>1 DEF PowerOn
  <1>2. CASE ArmWatchdog BY <1>2 DEF ArmWatchdog, OnTrial
  <1>3. CASE BootDone BY <1>3 DEF BootDone
  <1>4. CASE PowerCut BY <1>4 DEF PowerCut
  <1>5. CASE PowerCycle BY <1>5 DEF PowerCycle
  <1>6. CASE Freeze BY <1>6 DEF Freeze
  <1>7. CASE PrintStart BY <1>7 DEF PrintStart
  <1>8. CASE PrintEnd BY <1>8 DEF PrintEnd
  <1>9. CASE ForeignSwitch BY <1>9 DEF ForeignSwitch
  <1>10. CASE JobKilled BY <1>10 DEF JobKilled
  <1>11. CASE TrialKilled BY <1>11 DEF TrialKilled
  <1>12. CASE PendingExpires BY <1>12 DEF PendingExpires
  <1>13. CASE JobCheck BY <1>13 DEF JobCheck
  <1>14. CASE JobUnconfirm BY <1>14 DEF JobUnconfirm
  <1>15. CASE JobWriteKernel BY <1>15 DEF JobWriteKernel
  <1>16. CASE JobWriteRootfs BY <1>16 DEF JobWriteRootfs
  <1>17. CASE JobFails BY <1>17 DEF JobFails
  <1>18. CASE JobFailsLate BY SMTT(30), <1>18 DEF JobFailsLate
  <1>19. CASE JobStop1
    <2>1. slot' \in [Slots -> Contents] BY <1>19 DEF JobStop1
    <2>2. faults' \in 0..MaxFaults BY <1>19 DEF JobStop1
    <2>3. job' \in Jobs /\ status' \in Statuses BY <1>19 DEF JobStop1
    <2> QED BY <1>19, <2>1, <2>2, <2>3 DEF JobStop1
  <1>20. CASE JobTrial BY <1>20 DEF JobTrial
  <1>21. CASE JobSwap
    <2>1. marker' \in Slots /\ faults' \in 0..MaxFaults BY <1>21 DEF JobSwap
    <2>2. job' \in Jobs /\ status' \in Statuses BY <1>21 DEF JobSwap
    <2>3. trial' \in Trials \cup {NoTrial} BY <1>21 DEF JobSwap
    <2> QED BY <1>21, <2>1, <2>2, <2>3 DEF JobSwap
  <1>22. CASE JobStop2 BY SMTT(30), <1>22 DEF JobStop2
  <1>23. CASE JobUndo BY SMTT(30), <1>23 DEF JobUndo
  <1>24. CASE JobUndone BY <1>24 DEF JobUndone
  <1>25. CASE JobClear BY SMTT(30), <1>25 DEF JobClear
  <1>26. CASE JobReboot BY <1>26 DEF JobReboot
  <1>27. CASE SwapLock BY <1>27 DEF SwapLock, Reqs
  <1>28. CASE SwapCheck BY <1>28 DEF SwapCheck, Reqs
  <1>29. CASE SwapArm BY <1>29 DEF SwapArm, Reqs
  <1>30. CASE SwapReboot BY <1>30 DEF SwapReboot, Reqs
  <1>31. CASE SwapUndo BY <1>31 DEF SwapUndo, Reqs
  <1>32. CASE SwapDrop BY <1>32 DEF SwapDrop
  <1>33. CASE TrialStart BY <1>33 DEF TrialStart, OnTrial
  <1>34. CASE TrialWait BY <1>34 DEF TrialWait
  <1>35. CASE TrialPostpone BY <1>35 DEF TrialPostpone
  <1>36. CASE TrialJudge BY <1>36 DEF TrialJudge
  <1>37. CASE TrialConfirm
    <2>1. slot[running].img \in Image \cup {NoImage} BY DEF Contents
    <2>2. confirmed' \in [Slots -> Image \cup {NoImage}] BY <1>37, <2>1 DEF TrialConfirm
    <2>3. trial' \in Trials \cup {NoTrial} /\ last' \in Results /\ tpc' \in TrialPc
      BY <1>37 DEF TrialConfirm
    <2> QED BY <1>37, <2>2, <2>3 DEF TrialConfirm
  <1>38. CASE TrialUnlink BY <1>38 DEF TrialUnlink
  <1>39. CASE TrialRecord BY <1>39 DEF TrialRecord
  <1>40. CASE TrialSwap BY <1>40 DEF TrialSwap
  <1>41. CASE TrialReboot BY <1>41 DEF TrialReboot
  <1>42. CASE SwapRequest BY <1>42 DEF SwapRequest, Reqs
  <1>43. CASE Ack BY <1>43 DEF Ack
  <1>44. ASSUME NEW i \in Image, Install(i) PROVE TypeOK' BY <1>44 DEF Install
  <1>45. CASE UNCHANGED vars BY <1>45 DEF vars
  <1>46. CASE TrialBegins BY <1>46 DEF TrialBegins
  <1>47. CASE TrialStale BY <1>47 DEF TrialStale
  <1>48. CASE TrialDiscard BY <1>48 DEF TrialDiscard
  <1> QED BY <1>1, <1>2, <1>3, <1>4, <1>5, <1>6, <1>7, <1>8, <1>9, <1>10, <1>11, <1>12, <1>13, <1>14, <1>15, <1>16, <1>17, <1>18, <1>19, <1>20, <1>21, <1>22, <1>23, <1>24, <1>25, <1>26, <1>27, <1>28, <1>29, <1>30, <1>31, <1>32, <1>33, <1>34, <1>35, <1>36, <1>37, <1>38, <1>39, <1>40, <1>41, <1>42, <1>43, <1>44, <1>45, <1>46, <1>47, <1>48
      DEF Next, BootStep, Environment, JobStep, SwapStep, TrialStep

LEMMA SlotWrites ==
  ASSUME TypeOK
  PROVE  /\ target # running /\ \A s \in Slots : s # target => s = running
         /\ \A c : [slot EXCEPT ![target] = c][running] = slot[running]
         /\ \A c : [slot EXCEPT ![target] = c][target] = c
         /\ [slot EXCEPT ![target].whole = TRUE][running] = slot[running]
         /\ [slot EXCEPT ![target].whole = TRUE][target].img = slot[target].img
  <1>1. target # running /\ \A s \in Slots : s # target => s = running
    BY DEF TypeOK, Slots, target, Other
  <1>2. target \in Slots BY Targets
  <1>3. slot[target] \in Contents /\ slot \in [Slots -> Contents] BY <1>2 DEF TypeOK
  <1>4. \A c : [slot EXCEPT ![target] = c][running] = slot[running] BY <1>1, <1>3 DEF TypeOK
  <1>5. \A c : [slot EXCEPT ![target] = c][target] = c BY <1>2, <1>3
  <1>6. [slot EXCEPT ![target].whole = TRUE][running] = slot[running] BY <1>1, <1>3 DEF TypeOK
  <1>7. [slot EXCEPT ![target].whole = TRUE][target].img = slot[target].img
    BY <1>2, <1>3 DEF Contents
  <1> QED BY <1>1, <1>4, <1>5, <1>6, <1>7

LEMMA Fields ==
  ASSUME TypeOK
  PROVE  /\ \A pc : [job EXCEPT !.pc = pc].pc = pc /\ [job EXCEPT !.pc = pc].img = job.img
         /\ \A pc : [req EXCEPT !.pc = pc].pc = pc
         /\ NoJob.pc = "idle" /\ NoReq.pc = "idle" /\ TrialReq.pc = "arm"
         /\ NewTrial.from = running /\ NewTrial.to = target /\ NewTrial.starts = 0
         /\ NewTrial # NoTrial
  <1>1. job \in Jobs /\ req \in Reqs BY DEF TypeOK
  <1>2. \A pc : [job EXCEPT !.pc = pc].pc = pc /\ [job EXCEPT !.pc = pc].img = job.img
    BY <1>1 DEF Jobs
  <1>3. \A pc : [req EXCEPT !.pc = pc].pc = pc BY <1>1 DEF Reqs
  <1>4. NoJob.pc = "idle" /\ NoReq.pc = "idle" /\ TrialReq.pc = "arm"
    BY DEF NoJob, NoReq, TrialReq
  <1>5. NewTrial.from = running /\ NewTrial.to = target /\ NewTrial.starts = 0
    BY DEF NewTrial
  <1>6. NewTrial # NoTrial BY TrialRecords, ConstantsAssumption
  <1> QED BY <1>2, <1>3, <1>4, <1>5, <1>6

LEMMA CountedFields ==
  ASSUME TypeOK, trial # NoTrial
  PROVE  /\ trial \in Trials /\ trial.starts \in Nat
         /\ CountedTrial # NoTrial
         /\ CountedTrial.from = trial.from /\ CountedTrial.to = trial.to
         /\ CountedTrial.counted = TRUE
         /\ CountedTrial.starts =
              IF trial.counted = TRUE \/ trial.starts > TrialAttempts
              THEN trial.starts ELSE trial.starts + 1
  <1>1. trial \in Trials BY DEF TypeOK
  <1>2. trial.starts \in Nat BY <1>1, ConstantsAssumption DEF Trials
  <1>3. CountedTrial # NoTrial BY TrialRecords, ConstantsAssumption
  <1>4. CASE trial.counted = TRUE
    <2>1. CountedTrial = trial BY Zenon, <1>4 DEF CountedTrial
    <2> QED BY <1>1, <1>2, <1>3, <1>4, <2>1
  <1>5. CASE trial.counted = FALSE
    <2> DEFINE n == IF trial.starts > TrialAttempts THEN trial.starts ELSE trial.starts + 1
    <2>1. CountedTrial = [trial EXCEPT !.counted = TRUE, !.starts = n]
      BY Zenon, <1>5 DEF CountedTrial
    <2>2. CountedTrial.starts = n /\ CountedTrial.counted = TRUE
          /\ CountedTrial.from = trial.from /\ CountedTrial.to = trial.to
      BY <1>1, <2>1 DEF Trials
    <2> QED BY <1>1, <1>2, <1>3, <1>5, <2>2
  <1>6. trial.counted \in BOOLEAN BY <1>1 DEF Trials
  <1> QED BY <1>4, <1>5, <1>6

LEMMA UncountedFields ==
  ASSUME TypeOK, trial # NoTrial
  PROVE  LET t == [trial EXCEPT !.counted = FALSE] IN
         /\ t # NoTrial /\ t.from = trial.from /\ t.to = trial.to
         /\ t.starts = trial.starts /\ t.counted = FALSE
  <1>1. trial \in Trials BY DEF TypeOK
  <1>2. [trial EXCEPT !.counted = FALSE] # NoTrial BY TrialRecords, ConstantsAssumption
  <1> QED BY <1>1, <1>2 DEF Trials

LEMMA BlankedKeeps ==
  ASSUME TypeOK, slot' = slot \/ slot' = [slot EXCEPT ![target] = Blanked]
  PROVE  slot'[running] = slot[running] /\ (slot' = slot \/ slot'[target] = Blanked)
  BY SlotWrites

LEMMA BlankKeeps ==
  ASSUME TypeOK, Blank(target)
  PROVE  /\ slot'[running] = slot[running]
         /\ \/ slot' = [slot EXCEPT ![target] = Blanked] /\ slot'[target] = Blanked
            \/ slot' = slot
  BY SlotWrites DEF Blank, NoFault, Fault

LEMMA ReqLeaves ==
  ASSUME TypeOK, NEW pc \in {"undo", "drop"}, req' = NoReq \/ req' = [req EXCEPT !.pc = pc]
  PROVE  req'.pc \notin {"grace", "arm"}
  BY Fields

LEMMA JobMoves ==
  ASSUME TypeOK
  PROVE  /\ \A pc : JobTo(pc) => job'.pc = pc /\ job'.img = job.img
         /\ \A result : JobEnds(result) => job'.pc = "idle"
  <1>1. \A pc : JobTo(pc) => job'.pc = pc /\ job'.img = job.img BY Fields DEF JobTo
  <1>2. \A result : JobEnds(result) => job'.pc = "idle" BY Fields DEF JobEnds
  <1> QED BY <1>1, <1>2

\* A step of a running system that writes no running slot keeps RunningInv.
LEMMA RunningKept ==
  ASSUME RunningInv, power = "up", power' = "up", running' = running, slot'[running] = slot[running]
  PROVE  RunningInv'
  BY DEF RunningInv, On, Whole, HoldsNebula

\* A step that takes no lock and leaves the trial alone keeps LockInv.
LEMMA LockKept ==
  ASSUME LockInv, running' = running, trial' = trial,
         job'.pc # "idle" => job.pc # "idle" /\ job'.img = job.img,
         req'.pc \in {"grace", "arm"} => req' = req,
         tpc' \in {tpc, "none"}
  PROVE  LockInv'
  BY DEF LockInv, SwapHoldsLock, OnTrial

-----------------------------------------------------------------------------
(* What runs, and who holds the lock *)

LEMMA RunningStep ==
  ASSUME CoreInv, TypeOK', [Next]_vars
  PROVE  RunningInv'
  <1>a. TypeOK BY DEF CoreInv
  <1> USE <1>a, ConstantsAssumption, Targets, SlotWrites, Fields
      DEF CoreInv, RunningInv, On, Whole, HoldsNebula,
        JobAt, JobTo, JobEnds, JobFrame, StillUp, SwapAt, SwapTo, SwapFrame, TrialAt,
        TrialFrame, Verdict, Halt, SwapOk, SwapFails, Blank, durable
  <1>1. CASE PowerOn BY <1>1 DEF PowerOn
  <1>2. CASE ArmWatchdog BY <1>2 DEF ArmWatchdog
  <1>3. CASE BootDone BY <1>3 DEF BootDone
  <1>4. CASE PowerCut BY <1>4 DEF PowerCut
  <1>5. CASE PowerCycle BY <1>5 DEF PowerCycle
  <1>6. CASE Freeze BY <1>6 DEF Freeze
  <1>7. CASE PrintStart BY <1>7 DEF PrintStart
  <1>8. CASE PrintEnd BY <1>8 DEF PrintEnd
  <1>9. CASE ForeignSwitch BY <1>9 DEF ForeignSwitch
  <1>10. CASE JobKilled BY <1>10 DEF JobKilled
  <1>11. CASE TrialKilled BY <1>11 DEF TrialKilled
  <1>12. CASE PendingExpires BY <1>12 DEF PendingExpires
  <1>13. CASE JobCheck BY <1>13 DEF JobCheck
  <1>14. CASE JobUnconfirm BY <1>14 DEF JobUnconfirm
  <1>15. CASE JobWriteKernel BY <1>15 DEF JobWriteKernel
  <1>16. CASE JobWriteRootfs BY <1>16 DEF JobWriteRootfs
  <1>17. CASE JobFails
    <2> HIDE DEF RunningInv, Blank
    <2> QED BY <1>17, BlankKeeps, RunningKept DEF JobFails, CoreInv
  <1>18. CASE JobFailsLate
    <2> HIDE DEF RunningInv, Blank
    <2>0. slot' = slot \/ slot' = [slot EXCEPT ![target] = Blanked]
      BY Zenon, <1>18 DEF JobFailsLate
    <2>1. slot'[running] = slot[running] BY <2>0, BlankedKeeps
    <2> QED BY <1>18, <2>1, RunningKept DEF JobFailsLate, CoreInv
  <1>19. CASE JobStop1
    <2> HIDE DEF RunningInv, Blank
    <2>1. slot'[running] = slot[running] BY <1>19, BlankKeeps DEF JobStop1
    <2> QED BY <1>19, <2>1, RunningKept DEF JobStop1, CoreInv
  <1>20. CASE JobTrial BY <1>20 DEF JobTrial
  <1>21. CASE JobSwap BY <1>21 DEF JobSwap
  <1>22. CASE JobStop2 BY <1>22 DEF JobStop2
  <1>23. CASE JobUndo BY <1>23 DEF JobUndo
  <1>24. CASE JobUndone BY <1>24 DEF JobUndone
  <1>25. CASE JobClear
    <2> HIDE DEF RunningInv, Blank
    <2>1. slot'[running] = slot[running] BY <1>25, BlankKeeps DEF JobClear
    <2> QED BY <1>25, <2>1, RunningKept DEF JobClear, CoreInv
  <1>26. CASE JobReboot BY <1>26 DEF JobReboot
  <1>27. CASE SwapLock BY <1>27 DEF SwapLock
  <1>28. CASE SwapCheck BY <1>28 DEF SwapCheck
  <1>29. CASE SwapArm BY <1>29 DEF SwapArm
  <1>30. CASE SwapReboot BY <1>30 DEF SwapReboot
  <1>31. CASE SwapUndo BY <1>31 DEF SwapUndo
  <1>32. CASE SwapDrop BY <1>32 DEF SwapDrop
  <1>33. CASE TrialStart BY <1>33 DEF TrialStart
  <1>34. CASE TrialWait BY <1>34 DEF TrialWait
  <1>35. CASE TrialPostpone BY <1>35 DEF TrialPostpone
  <1>36. CASE TrialJudge BY <1>36 DEF TrialJudge
  <1>37. CASE TrialConfirm BY <1>37 DEF TrialConfirm
  <1>38. CASE TrialUnlink BY <1>38 DEF TrialUnlink
  <1>39. CASE TrialRecord BY <1>39 DEF TrialRecord
  <1>40. CASE TrialSwap BY <1>40 DEF TrialSwap
  <1>41. CASE TrialReboot BY <1>41 DEF TrialReboot
  <1>42. CASE SwapRequest BY <1>42 DEF SwapRequest
  <1>43. CASE Ack BY <1>43 DEF Ack
  <1>44. ASSUME NEW i \in Image, Install(i) PROVE RunningInv'
    BY <1>44 DEF Install
  <1>45. CASE UNCHANGED vars BY <1>45 DEF vars
  <1>46. CASE TrialBegins BY <1>46 DEF TrialBegins
  <1>47. CASE TrialStale BY <1>47 DEF TrialStale
  <1>48. CASE TrialDiscard BY <1>48 DEF TrialDiscard
  <1> QED BY <1>1, <1>2, <1>3, <1>4, <1>5, <1>6, <1>7, <1>8, <1>9, <1>10, <1>11, <1>12, <1>13, <1>14, <1>15, <1>16, <1>17, <1>18, <1>19, <1>20, <1>21, <1>22, <1>23, <1>24, <1>25, <1>26, <1>27, <1>28, <1>29, <1>30, <1>31, <1>32, <1>33, <1>34, <1>35, <1>36, <1>37, <1>38, <1>39, <1>40, <1>41, <1>42, <1>43, <1>44, <1>45, <1>46, <1>47, <1>48
      DEF Next, BootStep, Environment, JobStep, SwapStep, TrialStep

LEMMA LockStep ==
  ASSUME CoreInv, TypeOK', [Next]_vars
  PROVE  LockInv'
  <1>a. TypeOK BY DEF CoreInv
  <1> USE <1>a, ConstantsAssumption, Targets, SlotWrites, Fields, CountedFields, UncountedFields
      DEF CoreInv, RunningInv, LockInv, FallbackInv, On, OnTrial, LockFree, JobHoldsLock,
        RequestBusy, SwapHoldsLock,
        JobAt, JobTo, JobEnds, JobFrame, StillUp, SwapAt, SwapTo, SwapFrame, TrialAt,
        TrialFrame, Verdict, Halt, SwapOk, SwapFails, Blank, durable
  <1>1. CASE PowerOn BY <1>1 DEF PowerOn
  <1>2. CASE ArmWatchdog BY <1>2 DEF ArmWatchdog
  <1>3. CASE BootDone BY <1>3 DEF BootDone
  <1>4. CASE PowerCut BY <1>4 DEF PowerCut
  <1>5. CASE PowerCycle BY <1>5 DEF PowerCycle
  <1>6. CASE Freeze BY <1>6 DEF Freeze
  <1>7. CASE PrintStart BY <1>7 DEF PrintStart
  <1>8. CASE PrintEnd BY <1>8 DEF PrintEnd
  <1>9. CASE ForeignSwitch BY <1>9 DEF ForeignSwitch
  <1>10. CASE JobKilled BY <1>10 DEF JobKilled
  <1>11. CASE TrialKilled BY <1>11 DEF TrialKilled
  <1>12. CASE PendingExpires BY <1>12 DEF PendingExpires
  <1>13. CASE JobCheck
    <2> HIDE DEF LockInv, FallbackInv, Blank, OnTrial, SwapOk, SwapFails, JobTo, JobEnds
    <2> QED BY <1>13, LockKept, JobMoves DEF JobCheck
  <1>14. CASE JobUnconfirm BY <1>14 DEF JobUnconfirm
  <1>15. CASE JobWriteKernel BY <1>15 DEF JobWriteKernel
  <1>16. CASE JobWriteRootfs BY <1>16 DEF JobWriteRootfs
  <1>17. CASE JobFails BY <1>17 DEF JobFails
  <1>18. CASE JobFailsLate BY <1>18 DEF JobFailsLate
  <1>19. CASE JobStop1
    <2> HIDE DEF LockInv, FallbackInv, Blank, OnTrial, SwapOk, SwapFails, JobTo, JobEnds
    <2> QED BY <1>19, LockKept, JobMoves DEF JobStop1
  <1>20. CASE JobTrial BY <1>20 DEF JobTrial
  <1>21. CASE JobSwap
    <2>1. CASE SwapOk(target) /\ JobTo("stop2") /\ UNCHANGED trial
      BY <1>21, <2>1, LockKept DEF JobSwap
    <2>2. CASE JobEnds("failed") /\ trial' = NoTrial BY <1>21, <2>2 DEF JobSwap
    <2> QED BY <1>21, <2>1, <2>2 DEF JobSwap
  <1>22. CASE JobStop2 BY <1>22 DEF JobStop2
  <1>23. CASE JobUndo
    <2> HIDE DEF LockInv, FallbackInv, Blank, OnTrial, SwapOk, SwapFails, JobTo, JobEnds
    <2> QED BY <1>23, LockKept, JobMoves DEF JobUndo
  <1>24. CASE JobUndone BY <1>24 DEF JobUndone
  <1>25. CASE JobClear BY <1>25 DEF JobClear
  <1>26. CASE JobReboot BY <1>26 DEF JobReboot
  <1>27. CASE SwapLock BY SMTT(60), <1>27 DEF SwapLock
  <1>28. CASE SwapCheck BY <1>28 DEF SwapCheck
  <1>29. CASE SwapArm BY <1>29 DEF SwapArm
  <1>30. CASE SwapReboot
    <2> HIDE DEF LockInv, FallbackInv, Blank, OnTrial, SwapOk, SwapFails
    <2>1. req'.pc \notin {"grace", "arm"} 
      <3>1. req' = NoReq \/ req' = [req EXCEPT !.pc = "undo"] BY Zenon, <1>30 DEF SwapReboot
      <3> QED BY <3>1, ReqLeaves
    <2>2. tpc' \in {tpc, "none"} /\ running' = running /\ trial' = trial
          /\ (job'.pc # "idle" => job' = job)
      BY <1>30, Fields DEF SwapReboot
    <2> QED BY <2>1, <2>2, LockKept
  <1>31. CASE SwapUndo
    <2> HIDE DEF LockInv, FallbackInv, Blank, OnTrial, SwapOk, SwapFails
    <2>1. req'.pc \notin {"grace", "arm"} 
      <3>1. req' = NoReq \/ req' = [req EXCEPT !.pc = "drop"] BY Zenon, <1>31 DEF SwapUndo
      <3> QED BY <3>1, ReqLeaves
    <2>2. tpc' = tpc /\ running' = running /\ trial' = trial /\ job' = job
      BY <1>31 DEF SwapUndo
    <2> QED BY <2>1, <2>2, LockKept
  <1>32. CASE SwapDrop BY <1>32 DEF SwapDrop
  <1>33. CASE TrialStart BY <1>33 DEF TrialStart
  <1>34. CASE TrialWait BY <1>34 DEF TrialWait
  <1>35. CASE TrialPostpone BY <1>35 DEF TrialPostpone
  <1>36. CASE TrialJudge BY <1>36 DEF TrialJudge
  <1>37. CASE TrialConfirm BY <1>37 DEF TrialConfirm
  <1>38. CASE TrialUnlink BY <1>38 DEF TrialUnlink
  <1>39. CASE TrialRecord BY <1>39 DEF TrialRecord
  <1>40. CASE TrialSwap BY <1>40 DEF TrialSwap
  <1>41. CASE TrialReboot BY <1>41 DEF TrialReboot
  <1>42. CASE SwapRequest BY <1>42 DEF SwapRequest
  <1>43. CASE Ack BY <1>43 DEF Ack
  <1>44. ASSUME NEW i \in Image, Install(i) PROVE LockInv'
    BY <1>44 DEF Install
  <1>45. CASE UNCHANGED vars BY <1>45 DEF vars
  <1>46. CASE TrialBegins BY <1>46 DEF TrialBegins
  <1>47. CASE TrialStale BY <1>47 DEF TrialStale
  <1>48. CASE TrialDiscard BY <1>48 DEF TrialDiscard
  <1> QED BY <1>1, <1>2, <1>3, <1>4, <1>5, <1>6, <1>7, <1>8, <1>9, <1>10, <1>11, <1>12, <1>13, <1>14, <1>15, <1>16, <1>17, <1>18, <1>19, <1>20, <1>21, <1>22, <1>23, <1>24, <1>25, <1>26, <1>27, <1>28, <1>29, <1>30, <1>31, <1>32, <1>33, <1>34, <1>35, <1>36, <1>37, <1>38, <1>39, <1>40, <1>41, <1>42, <1>43, <1>44, <1>45, <1>46, <1>47, <1>48
      DEF Next, BootStep, Environment, JobStep, SwapStep, TrialStep


-----------------------------------------------------------------------------
(* The way back stays whole *)

LEMMA FallbackKept ==
  ASSUME FallbackInv, slot' = slot,
         \/ trial' = trial \/ trial' = NoTrial
         \/ trial # NoTrial /\ trial'.from = trial.from /\ trial'.to = trial.to
  PROVE  FallbackInv'
  BY DEF FallbackInv, Whole

\* The job writes the slot that is not running, and no TRIAL names that slot
\* as the way back: it would have to lead from it to the running one.
LEMMA FallbackWritten ==
  ASSUME CoreInv, job.pc # "idle", slot'[running] = slot[running],
         trial' = trial \/ trial' = NoTrial
  PROVE  FallbackInv'
  <1>1. CASE trial' = NoTrial BY <1>1 DEF FallbackInv
  <1>2. CASE trial' = trial /\ trial # NoTrial
    <2>1. trial \in Trials BY <1>2 DEF CoreInv, TypeOK
    <2>2. trial.from # trial.to /\ slot[trial.from].whole
      BY <1>2 DEF CoreInv, FallbackInv, Whole
    <2>3. trial.to # running BY <1>2 DEF CoreInv, LockInv, OnTrial
    <2>4. trial.from = running
      BY <2>1, <2>2, <2>3 DEF CoreInv, TypeOK, Trials, Slots
    <2> QED BY <1>2, <2>2, <2>4 DEF FallbackInv, Whole
  <1> QED BY <1>1, <1>2

\* A new TRIAL leads back to the running slot, and only a whole system runs.
LEMMA FallbackNew ==
  ASSUME CoreInv, power = "up", slot' = slot, trial' = NewTrial
  PROVE  FallbackInv'
  BY Fields, SlotWrites DEF CoreInv, RunningInv, On, FallbackInv, Whole

LEMMA FallbackStep ==
  ASSUME CoreInv, TypeOK', [Next]_vars
  PROVE  FallbackInv'
  <1>a. TypeOK /\ FallbackInv BY DEF CoreInv
  <1> USE <1>a DEF JobAt, JobTo, JobEnds, JobFrame, StillUp, SwapAt, SwapTo, SwapFrame, TrialAt,
        TrialFrame, Verdict, Halt, SwapOk, SwapFails, durable
  <1>1. CASE PowerOn BY <1>1, UncountedFields, FallbackKept DEF PowerOn
  <1>2. CASE ArmWatchdog BY <1>2, CountedFields, FallbackKept DEF ArmWatchdog, OnTrial
  <1>3. CASE BootDone BY <1>3, FallbackKept DEF BootDone
  <1>4. CASE PowerCut BY <1>4, FallbackKept DEF PowerCut
  <1>5. CASE PowerCycle BY <1>5, FallbackKept DEF PowerCycle
  <1>6. CASE Freeze BY <1>6, FallbackKept DEF Freeze
  <1>7. CASE PrintStart BY <1>7, FallbackKept DEF PrintStart
  <1>8. CASE PrintEnd BY <1>8, FallbackKept DEF PrintEnd
  <1>9. CASE ForeignSwitch
    <2>1. CASE slot' = slot BY <1>9, <2>1, FallbackKept DEF ForeignSwitch
    <2>2. ASSUME NEW i \in Image, slot' = [slot EXCEPT ![target] = Full(i)] PROVE FallbackInv'
      <3>1. slot'[target] = Full(i) /\ slot'[running] = slot[running]
        BY <2>2, SlotWrites
      <3>2. \A s \in Slots : slot[s].whole => slot'[s].whole
        BY <3>1, SlotWrites DEF Full
      <3>3. trial # NoTrial => trial.from \in Slots BY DEF TypeOK, Trials
      <3>4. trial' = trial BY <1>9 DEF ForeignSwitch
      <3> QED BY <3>2, <3>3, <3>4 DEF FallbackInv, Whole
    <2> QED BY <1>9, <2>1, <2>2 DEF ForeignSwitch
  <1>10. CASE JobKilled BY <1>10, FallbackKept DEF JobKilled
  <1>11. CASE TrialKilled BY <1>11, FallbackKept DEF TrialKilled
  <1>12. CASE PendingExpires BY <1>12, FallbackKept DEF PendingExpires
  <1>13. CASE JobCheck BY <1>13, FallbackKept DEF JobCheck
  <1>14. CASE JobUnconfirm BY <1>14, FallbackKept DEF JobUnconfirm
  <1>15. CASE JobWriteKernel BY <1>15, SlotWrites, FallbackWritten DEF JobWriteKernel
  <1>16. CASE JobWriteRootfs BY <1>16, SlotWrites, FallbackWritten DEF JobWriteRootfs
  <1>17. CASE JobFails BY <1>17, BlankKeeps, FallbackWritten DEF JobFails
  <1>18. CASE JobFailsLate
    <2>0. slot' = slot \/ slot' = [slot EXCEPT ![target] = Blanked]
      BY Zenon, <1>18 DEF JobFailsLate
    <2> QED BY <1>18, <2>0, BlankedKeeps, FallbackWritten DEF JobFailsLate
  <1>19. CASE JobStop1 BY <1>19, BlankKeeps, FallbackWritten DEF JobStop1
  <1>20. CASE JobTrial BY <1>20, FallbackKept, FallbackNew DEF JobTrial
  <1>21. CASE JobSwap BY <1>21, FallbackKept DEF JobSwap
  <1>22. CASE JobStop2 BY <1>22, FallbackKept DEF JobStop2
  <1>23. CASE JobUndo BY <1>23, FallbackKept DEF JobUndo
  <1>24. CASE JobUndone BY <1>24, FallbackKept DEF JobUndone
  <1>25. CASE JobClear BY <1>25, BlankKeeps, FallbackWritten DEF JobClear
  <1>26. CASE JobReboot BY <1>26, FallbackKept DEF JobReboot
  <1>27. CASE SwapLock BY <1>27, FallbackKept DEF SwapLock
  <1>28. CASE SwapCheck BY <1>28, FallbackKept, FallbackNew DEF SwapCheck
  <1>29. CASE SwapArm BY <1>29, FallbackKept DEF SwapArm
  <1>30. CASE SwapReboot BY <1>30, FallbackKept DEF SwapReboot
  <1>31. CASE SwapUndo BY <1>31, FallbackKept DEF SwapUndo
  <1>32. CASE SwapDrop BY <1>32, FallbackKept DEF SwapDrop
  <1>33. CASE TrialStart BY <1>33, CountedFields, FallbackKept DEF TrialStart, OnTrial
  <1>34. CASE TrialWait BY <1>34, FallbackKept DEF TrialWait
  <1>35. CASE TrialPostpone BY <1>35, FallbackKept DEF TrialPostpone
  <1>36. CASE TrialJudge BY <1>36, FallbackKept DEF TrialJudge
  <1>37. CASE TrialConfirm BY <1>37, FallbackKept DEF TrialConfirm
  <1>38. CASE TrialUnlink BY <1>38, FallbackKept DEF TrialUnlink
  <1>39. CASE TrialRecord BY <1>39, FallbackKept DEF TrialRecord
  <1>40. CASE TrialSwap BY <1>40, FallbackKept DEF TrialSwap
  <1>41. CASE TrialReboot BY <1>41, FallbackKept DEF TrialReboot
  <1>42. CASE SwapRequest BY <1>42, FallbackKept DEF SwapRequest
  <1>43. CASE Ack BY <1>43, FallbackKept DEF Ack
  <1>44. ASSUME NEW i \in Image, Install(i) PROVE FallbackInv'
    BY <1>44, FallbackKept DEF Install
  <1>45. CASE UNCHANGED vars BY <1>45, FallbackKept DEF vars
  <1>46. CASE TrialBegins BY <1>46, FallbackKept DEF TrialBegins
  <1>47. CASE TrialStale BY <1>47, FallbackKept DEF TrialStale
  <1>48. CASE TrialDiscard BY <1>48, FallbackKept DEF TrialDiscard
  <1> QED BY <1>1, <1>2, <1>3, <1>4, <1>5, <1>6, <1>7, <1>8, <1>9, <1>10, <1>11, <1>12, <1>13, <1>14, <1>15, <1>16, <1>17, <1>18, <1>19, <1>20, <1>21, <1>22, <1>23, <1>24, <1>25, <1>26, <1>27, <1>28, <1>29, <1>30, <1>31, <1>32, <1>33, <1>34, <1>35, <1>36, <1>37, <1>38, <1>39, <1>40, <1>41, <1>42, <1>43, <1>44, <1>45, <1>46, <1>47, <1>48
      DEF Next, BootStep, Environment, JobStep, SwapStep, TrialStep

-----------------------------------------------------------------------------
(* Only systems that came up are confirmed *)

\* A step that writes a slot only under a cleared record, blanks it, or leaves
\* a whole system in it.
LEMMA ConfirmedKept ==
  ASSUME ConfirmedInv, confirmed' = confirmed,
         \A s \in Slots : \/ slot'[s] = slot[s]
                          \/ slot'[s].img = NoImage \/ slot'[s].whole = TRUE
                          \/ confirmed[s] = NoImage,
         job'.pc \in {"kernel", "rootfs"}
            => job.pc \in {"kernel", "rootfs"} /\ running' = running,
         tpc' \in {"confirm", "record"}
            => /\ tpc \in {"confirm", "record"} \/ CanComeUp
               /\ running' = running /\ slot'[running] = slot[running]
  PROVE  ConfirmedInv'
  BY DEF ConfirmedInv, SlotConfirmed, Bootable, Whole, CanComeUp, target

LEMMA ConfirmedStep ==
  ASSUME CoreInv, ConfirmedInv, TypeOK', [Next]_vars
  PROVE  ConfirmedInv'
  <1>a. TypeOK /\ RunningInv BY DEF CoreInv
  <1> USE <1>a DEF JobAt, JobTo, JobEnds, JobFrame, StillUp, SwapAt, SwapTo, SwapFrame, TrialAt,
        TrialFrame, Verdict, Halt, SwapOk, SwapFails, durable
  <1>1. CASE PowerOn BY <1>1, ConfirmedKept DEF PowerOn, RunningInv
  <1>2. CASE ArmWatchdog BY <1>2, Fields, ConfirmedKept DEF ArmWatchdog
  <1>3. CASE BootDone BY <1>3, Fields, ConfirmedKept DEF BootDone
  <1>4. CASE PowerCut BY <1>4, Fields, ConfirmedKept DEF PowerCut
  <1>5. CASE PowerCycle BY <1>5, Fields, ConfirmedKept DEF PowerCycle
  <1>6. CASE Freeze BY <1>6, Fields, ConfirmedKept DEF Freeze
  <1>7. CASE PrintStart BY <1>7, Fields, ConfirmedKept DEF PrintStart
  <1>8. CASE PrintEnd BY <1>8, Fields, ConfirmedKept DEF PrintEnd
  <1>9. CASE ForeignSwitch
    <2>1. CASE slot' = slot BY <1>9, <2>1, Fields, ConfirmedKept DEF ForeignSwitch
    <2>2. ASSUME NEW i \in Image, slot' = [slot EXCEPT ![target] = Full(i)] PROVE ConfirmedInv'
      <3>1. \A s \in Slots : slot'[s] = slot[s] \/ slot'[s].whole = TRUE
        BY <2>2, SlotWrites DEF Full
      <3> QED BY <1>9, <3>1, Fields, ConfirmedKept DEF ForeignSwitch
    <2> QED BY <1>9, <2>1, <2>2 DEF ForeignSwitch
  <1>10. CASE JobKilled BY <1>10, Fields, ConfirmedKept DEF JobKilled
  <1>11. CASE TrialKilled BY <1>11, Fields, ConfirmedKept DEF TrialKilled
  <1>12. CASE PendingExpires BY <1>12, Fields, ConfirmedKept DEF PendingExpires
  <1>13. CASE JobCheck BY ZenonT(60), <1>13, Fields, ConfirmedKept DEF JobCheck
  <1>14. CASE JobUnconfirm
    <2>1. /\ confirmed'[target] = NoImage
          /\ \A s \in Slots : confirmed'[s] \in {confirmed[s], NoImage}
      BY <1>14, Targets DEF JobUnconfirm, TypeOK
    <2> QED BY <1>14, <2>1 DEF JobUnconfirm, ConfirmedInv, SlotConfirmed, Bootable, Whole,
                           CanComeUp, target
  <1>15. CASE JobWriteKernel
    <2>1. confirmed[target] = NoImage BY <1>15 DEF JobWriteKernel, ConfirmedInv
    <2>2. \A s \in Slots : slot'[s] = slot[s] \/ confirmed[s] = NoImage
      BY <1>15, <2>1, SlotWrites DEF JobWriteKernel
    <2>3. slot'[running] = slot[running] BY <1>15, SlotWrites DEF JobWriteKernel
    <2> QED BY <1>15, <2>2, <2>3, ConfirmedKept DEF JobWriteKernel
  <1>16. CASE JobWriteRootfs
    <2>1. confirmed[target] = NoImage BY <1>16 DEF JobWriteRootfs, ConfirmedInv
    <2>2. slot'[running] = slot[running] BY <1>16, SlotWrites DEF JobWriteRootfs
    <2>3. \A s \in Slots : slot'[s] = slot[s] \/ confirmed[s] = NoImage
      BY <2>1, <2>2, SlotWrites
    <2>4. job'.pc = "stop1" BY <1>16, Fields DEF JobWriteRootfs
    <2> QED BY <1>16, <2>2, <2>3, <2>4, ConfirmedKept DEF JobWriteRootfs
  <1>17. CASE JobFails
    <2>1. \A s \in Slots : slot'[s] = slot[s] \/ slot'[s].img = NoImage
      BY <1>17, BlankKeeps, SlotWrites DEF JobFails, Blanked
    <2>2. slot'[running] = slot[running] BY <1>17, BlankKeeps DEF JobFails
    <2> QED BY <1>17, <2>1, <2>2, Fields, ConfirmedKept DEF JobFails
  <1>18. CASE JobFailsLate
    <2>0. slot' = slot \/ slot' = [slot EXCEPT ![target] = Blanked]
      BY Zenon, <1>18 DEF JobFailsLate
    <2>1. \A s \in Slots : slot'[s] = slot[s] \/ slot'[s].img = NoImage
      BY <2>0, BlankedKeeps, SlotWrites DEF Blanked
    <2>2. slot'[running] = slot[running] BY <2>0, BlankedKeeps
    <2> QED BY <1>18, <2>1, <2>2, Fields, ConfirmedKept DEF JobFailsLate
  <1>19. CASE JobStop1
    <2>1. \A s \in Slots : slot'[s] = slot[s] \/ slot'[s].img = NoImage
      BY <1>19, BlankKeeps, SlotWrites DEF JobStop1, Blanked
    <2>2. slot'[running] = slot[running] BY <1>19, BlankKeeps DEF JobStop1
    <2> QED BY ZenonT(60), <1>19, <2>1, <2>2, Fields, ConfirmedKept DEF JobStop1
  <1>20. CASE JobTrial BY <1>20, Fields, ConfirmedKept DEF JobTrial
  <1>21. CASE JobSwap BY ZenonT(60), <1>21, Fields, ConfirmedKept DEF JobSwap
  <1>22. CASE JobStop2 BY <1>22, Fields, ConfirmedKept DEF JobStop2
  <1>23. CASE JobUndo BY ZenonT(60), <1>23, Fields, ConfirmedKept DEF JobUndo
  <1>24. CASE JobUndone BY <1>24, Fields, ConfirmedKept DEF JobUndone
  <1>25. CASE JobClear
    <2>1. \A s \in Slots : slot'[s] = slot[s] \/ slot'[s].img = NoImage
      BY <1>25, BlankKeeps, SlotWrites DEF JobClear, Blanked
    <2>2. slot'[running] = slot[running] BY <1>25, BlankKeeps DEF JobClear
    <2> QED BY <1>25, <2>1, <2>2, Fields, ConfirmedKept DEF JobClear
  <1>26. CASE JobReboot BY <1>26, Fields, ConfirmedKept DEF JobReboot
  <1>27. CASE SwapLock BY <1>27, Fields, ConfirmedKept DEF SwapLock
  <1>28. CASE SwapCheck BY <1>28, Fields, ConfirmedKept DEF SwapCheck
  <1>29. CASE SwapArm BY <1>29, Fields, ConfirmedKept DEF SwapArm
  <1>30. CASE SwapReboot BY <1>30, Fields, ConfirmedKept DEF SwapReboot
  <1>31. CASE SwapUndo BY <1>31, Fields, ConfirmedKept DEF SwapUndo
  <1>32. CASE SwapDrop BY <1>32, Fields, ConfirmedKept DEF SwapDrop
  <1>33. CASE TrialStart BY <1>33, Fields, ConfirmedKept DEF TrialStart
  <1>34. CASE TrialWait BY <1>34, ConfirmedKept DEF TrialWait
  <1>35. CASE TrialPostpone BY <1>35, Fields, ConfirmedKept DEF TrialPostpone
  <1>36. CASE TrialJudge BY <1>36, ConfirmedKept DEF TrialJudge
  <1>37. CASE TrialConfirm
    <2>1. CASE UNCHANGED <<confirmed, trial>> /\ tpc' = "record"
      BY <1>37, <2>1, ConfirmedKept DEF TrialConfirm
    <2>2. CASE TrialAt("record") /\ confirmed' = [confirmed EXCEPT ![running] = slot[running].img]
               /\ tpc' = "remove"
      <3>1. slot[running].img \in Good /\ slot[running].whole
        BY <2>2 DEF ConfirmedInv, CanComeUp, RunningInv, On, Whole
      <3>2. /\ confirmed'[running] = slot[running].img
            /\ confirmed'[target] = confirmed[target]
            /\ \A s \in Slots : s = running \/ confirmed'[s] = confirmed[s]
        BY <2>2, SlotWrites, Targets DEF TypeOK
      <3>3. slot' = slot /\ running' = running /\ job' = job BY <1>37 DEF TrialConfirm
      <3> QED BY <2>2, <3>1, <3>2, <3>3
              DEF ConfirmedInv, SlotConfirmed, Bootable, Whole, CanComeUp, target
    <2>3. CASE UNCHANGED <<confirmed, last>> /\ tpc' = "none"
      BY <1>37, <2>3, ConfirmedKept DEF TrialConfirm
    <2> QED BY <1>37, <2>1, <2>2, <2>3 DEF TrialConfirm
  <1>38. CASE TrialUnlink BY <1>38, Fields, ConfirmedKept DEF TrialUnlink
  <1>39. CASE TrialRecord BY <1>39, Fields, ConfirmedKept DEF TrialRecord
  <1>40. CASE TrialSwap BY <1>40, Fields, ConfirmedKept DEF TrialSwap
  <1>41. CASE TrialReboot BY <1>41, Fields, ConfirmedKept DEF TrialReboot
  <1>42. CASE SwapRequest BY <1>42, Fields, ConfirmedKept DEF SwapRequest
  <1>43. CASE Ack BY <1>43, Fields, ConfirmedKept DEF Ack
  <1>44. ASSUME NEW i \in Image, Install(i) PROVE ConfirmedInv'
    BY <1>44, ConfirmedKept DEF Install
  <1>45. CASE UNCHANGED vars BY <1>45, ConfirmedKept DEF vars
  <1>46. CASE TrialBegins BY <1>46, Fields, ConfirmedKept DEF TrialBegins
  <1>47. CASE TrialStale BY <1>47, Fields, ConfirmedKept DEF TrialStale
  <1>48. CASE TrialDiscard BY <1>48, Fields, ConfirmedKept DEF TrialDiscard
  <1> QED BY <1>1, <1>2, <1>3, <1>4, <1>5, <1>6, <1>7, <1>8, <1>9, <1>10, <1>11, <1>12, <1>13, <1>14, <1>15, <1>16, <1>17, <1>18, <1>19, <1>20, <1>21, <1>22, <1>23, <1>24, <1>25, <1>26, <1>27, <1>28, <1>29, <1>30, <1>31, <1>32, <1>33, <1>34, <1>35, <1>36, <1>37, <1>38, <1>39, <1>40, <1>41, <1>42, <1>43, <1>44, <1>45, <1>46, <1>47, <1>48
      DEF Next, BootStep, Environment, JobStep, SwapStep, TrialStep

-----------------------------------------------------------------------------
(* A started trial keeps its slot *)

LEMMA StartedKept ==
  ASSUME StartedInv, marker' = marker, running' = running, slot' = slot,
         power' = "foreign" => power = "foreign", On' => On,
         trial' = trial \/ trial' = NoTrial \/ trial'.starts = 0
  PROVE  StartedInv'
  BY DEF StartedInv, Whole, HoldsNebula

\* A trial of the other slot has not started while this one runs.
LEMMA StartedNot ==
  ASSUME TypeOK, StartedInv, On, ~OnTrial,
         trial' = trial \/ trial' = NoTrial \/ trial'.starts = 0
  PROVE  StartedInv'
  <1>1. trial # NoTrial => trial \in Trials /\ trial.starts \in Nat
    BY ConstantsAssumption DEF TypeOK, Trials
  <1> QED BY <1>1 DEF StartedInv, OnTrial

\* Counting a start: the slot on trial runs and is selected.
LEMMA StartedCounts ==
  ASSUME TypeOK, OnTrial, On, Whole(running), HoldsNebula(running), marker = running,
         power' # "foreign", trial' = CountedTrial,
         marker' = marker, running' = running, slot' = slot
  PROVE  StartedInv'
  BY CountedFields DEF StartedInv, OnTrial, Whole, HoldsNebula

LEMMA StartedStep ==
  ASSUME CoreInv, QuietInv, StartedInv, TypeOK', [Next]_vars
  PROVE  StartedInv'
  <1>a. TypeOK /\ StartedInv /\ RunningInv /\ LockInv /\ QuietInv BY DEF CoreInv
  <1> USE <1>a DEF JobAt, JobTo, JobEnds, JobFrame, StillUp, SwapAt, SwapTo, SwapFrame, TrialAt,
        TrialFrame, Verdict, Halt, SwapOk, SwapFails, durable
  <1>1. CASE PowerOn
    <2>1. CASE trial = NoTrial BY <1>1, <2>1 DEF PowerOn, StartedInv
    <2>2. CASE trial # NoTrial
      <3>1. trial'.starts = trial.starts /\ trial'.to = trial.to
        BY <1>1, <2>2, UncountedFields DEF PowerOn
      <3> QED BY <1>1, <2>2, <3>1 DEF PowerOn, StartedInv, Whole, HoldsNebula, On
    <2> QED BY <2>1, <2>2
  <1>2. CASE ArmWatchdog
    <2>1. CASE trial' = CountedTrial /\ OnTrial
      <3>1. Whole(running) /\ HoldsNebula(running) /\ marker = running
        BY <1>2 DEF ArmWatchdog, RunningInv, QuietInv, On
      <3> QED BY <1>2, <2>1, <3>1, StartedCounts DEF ArmWatchdog, On
    <2>2. CASE trial' = trial BY <1>2, <2>2, StartedKept DEF ArmWatchdog, On
    <2> QED BY <1>2, <2>1, <2>2 DEF ArmWatchdog
  <1>3. CASE BootDone BY <1>3, StartedKept DEF BootDone, On
  <1>4. CASE PowerCut BY <1>4, StartedKept DEF PowerCut, On
  <1>5. CASE PowerCycle BY <1>5, StartedKept DEF PowerCycle, On
  <1>6. CASE Freeze BY <1>6, StartedKept DEF Freeze, On
  <1>7. CASE PrintStart BY <1>7, StartedKept DEF PrintStart, On
  <1>8. CASE PrintEnd BY <1>8, StartedKept DEF PrintEnd, On
  <1>9. CASE ForeignSwitch
    <2>1. trial = NoTrial \/ ~(trial.starts > 0) BY <1>9 DEF ForeignSwitch, StartedInv
    <2> QED BY <1>9, <2>1 DEF ForeignSwitch, StartedInv
  <1>10. CASE JobKilled BY <1>10, StartedKept DEF JobKilled, On
  <1>11. CASE TrialKilled BY <1>11, StartedKept DEF TrialKilled, On
  <1>12. CASE PendingExpires BY <1>12, StartedKept DEF PendingExpires, On
  <1>13. CASE JobCheck BY <1>13, StartedKept DEF JobCheck, On
  <1>14. CASE JobUnconfirm BY <1>14, StartedKept DEF JobUnconfirm, On
  <1>15. CASE JobWriteKernel
    <2>1. ~OnTrial BY <1>15 DEF LockInv, JobWriteKernel
    <2> QED BY <1>15, <2>1, StartedNot DEF JobWriteKernel, On
  <1>16. CASE JobWriteRootfs
    <2>1. ~OnTrial BY <1>16 DEF LockInv, JobWriteRootfs
    <2> QED BY <1>16, <2>1, StartedNot DEF JobWriteRootfs, On
  <1>17. CASE JobFails
    <2>1. ~OnTrial BY <1>17 DEF LockInv, JobFails
    <2> QED BY <1>17, <2>1, StartedNot DEF JobFails, On
  <1>18. CASE JobFailsLate
    <2>1. ~OnTrial BY <1>18 DEF LockInv, JobFailsLate
    <2> QED BY <1>18, <2>1, StartedNot DEF JobFailsLate, On
  <1>19. CASE JobStop1
    <2>1. ~OnTrial BY <1>19 DEF LockInv, JobStop1
    <2> QED BY <1>19, <2>1, StartedNot DEF JobStop1, On
  <1>20. CASE JobTrial BY <1>20, Fields, StartedKept DEF JobTrial, On
  <1>21. CASE JobSwap
    <2>1. ~OnTrial BY <1>21 DEF LockInv, JobSwap
    <2> QED BY <1>21, <2>1, StartedNot DEF JobSwap, On
  <1>22. CASE JobStop2 BY <1>22, StartedKept DEF JobStop2, On
  <1>23. CASE JobUndo
    <2>1. ~OnTrial BY <1>23 DEF LockInv, JobUndo
    <2> QED BY <1>23, <2>1, StartedNot DEF JobUndo, On
  <1>24. CASE JobUndone BY <1>24, StartedKept DEF JobUndone, On
  <1>25. CASE JobClear
    <2>1. ~OnTrial BY <1>25 DEF LockInv, JobClear
    <2> QED BY <1>25, <2>1, StartedNot DEF JobClear, On
  <1>26. CASE JobReboot BY <1>26, StartedKept DEF JobReboot, On
  <1>27. CASE SwapLock BY <1>27, StartedKept DEF SwapLock, On
  <1>28. CASE SwapCheck BY <1>28, Fields, StartedKept DEF SwapCheck, On
  <1>29. CASE SwapArm
    <2>1. ~OnTrial BY <1>29 DEF LockInv, SwapArm
    <2> QED BY <1>29, <2>1, StartedNot DEF SwapArm, On
  <1>30. CASE SwapReboot BY <1>30, StartedKept DEF SwapReboot, On
  <1>31. CASE SwapUndo
    <2>1. CASE OnTrial /\ trial.starts > 0 /\ marker' = running
      BY <1>31, <2>1, StartedKept DEF SwapUndo, StartedInv, On
    <2>2. CASE marker' = marker BY <1>31, <2>2, StartedKept DEF SwapUndo, On
    <2>3. CASE ~(OnTrial /\ trial.starts > 0) BY <1>31, <2>3 DEF SwapUndo, StartedInv, On, OnTrial
    <2> QED BY <1>31, <2>1, <2>2, <2>3 DEF SwapUndo
  <1>32. CASE SwapDrop BY <1>32, StartedKept DEF SwapDrop, On
  <1>33. CASE TrialStart
    <2>1. CASE OnTrial
      <3>1. Whole(running) /\ HoldsNebula(running) /\ marker = running
        BY <1>33, <2>1 DEF TrialStart, RunningInv, QuietInv, On
      <3> QED BY <1>33, <2>1, <3>1, StartedCounts DEF TrialStart, On
    <2>2. CASE ~OnTrial BY <1>33, <2>2, StartedKept DEF TrialStart, On
    <2> QED BY <2>1, <2>2
  <1>34. CASE TrialWait BY <1>34, StartedKept DEF TrialWait, On
  <1>35. CASE TrialPostpone BY <1>35, StartedKept DEF TrialPostpone, On
  <1>36. CASE TrialJudge BY <1>36, StartedKept DEF TrialJudge, On
  <1>37. CASE TrialConfirm BY <1>37, StartedKept DEF TrialConfirm, On
  <1>38. CASE TrialUnlink BY <1>38, StartedKept DEF TrialUnlink, On
  <1>39. CASE TrialRecord BY <1>39, StartedKept DEF TrialRecord, On
  <1>40. CASE TrialSwap
    <2>1. ~OnTrial BY <1>40 DEF QuietInv, TrialSwap
    <2> QED BY <1>40, <2>1, StartedNot DEF TrialSwap, On
  <1>41. CASE TrialReboot BY <1>41, StartedKept DEF TrialReboot, On
  <1>42. CASE SwapRequest BY <1>42, StartedKept DEF SwapRequest, On
  <1>43. CASE Ack BY <1>43, StartedKept DEF Ack, On
  <1>44. ASSUME NEW i \in Image, Install(i) PROVE StartedInv'
    BY <1>44, StartedKept DEF Install, On
  <1>45. CASE UNCHANGED vars BY <1>45, StartedKept DEF vars, On, StartedInv
  <1>46. CASE TrialBegins BY <1>46, StartedKept DEF TrialBegins, On
  <1>47. CASE TrialStale BY <1>47, StartedKept DEF TrialStale, On
  <1>48. CASE TrialDiscard BY <1>48, StartedKept DEF TrialDiscard, On
  <1> QED BY <1>1, <1>2, <1>3, <1>4, <1>5, <1>6, <1>7, <1>8, <1>9, <1>10, <1>11, <1>12, <1>13, <1>14, <1>15, <1>16, <1>17, <1>18, <1>19, <1>20, <1>21, <1>22, <1>23, <1>24, <1>25, <1>26, <1>27, <1>28, <1>29, <1>30, <1>31, <1>32, <1>33, <1>34, <1>35, <1>36, <1>37, <1>38, <1>39, <1>40, <1>41, <1>42, <1>43, <1>44, <1>45, <1>46, <1>47, <1>48
      DEF Next, BootStep, Environment, JobStep, SwapStep, TrialStep

\* The marker stays, or comes back; S99 goes no further and the TRIAL stays or goes.
LEMMA QuietKept ==
  ASSUME QuietInv, running' = running, power' = power \/ ~On',
         trial' = trial \/ trial' = NoTrial,
         marker' = marker \/ marker' = running,
         tpc' = tpc \/ tpc' \notin {"stale", "discard", "took", "rolled", "swap", "reboot"}
  PROVE  QuietInv'
  BY DEF QuietInv, OnTrial, On

\* The running slot is not on trial.
LEMMA QuietOff ==
  ASSUME ~OnTrial \/ trial' \in {NoTrial, NewTrial}, trial' \in {trial, NoTrial, NewTrial},
         TypeOK, running' = running, power = "up", power' = power
  PROVE  QuietInv'
  BY Fields, SlotWrites DEF QuietInv, OnTrial

LEMMA QuietStep ==
  ASSUME CoreInv, QuietInv, TypeOK', [Next]_vars
  PROVE  QuietInv'
  <1>a. TypeOK /\ RunningInv /\ LockInv BY DEF CoreInv
  <1> USE <1>a DEF JobAt, JobTo, JobEnds, JobFrame, StillUp, SwapAt, SwapTo, SwapFrame, TrialAt,
        TrialFrame, Verdict, Halt, SwapOk, SwapFails, durable
  <1>1. CASE PowerOn BY <1>1 DEF PowerOn, RunningInv, QuietInv, On
  <1>2. CASE ArmWatchdog
    <2>1. marker = running /\ marker' = marker /\ running' = running /\ tpc = "none" /\ tpc' = tpc
      BY <1>2 DEF ArmWatchdog, QuietInv, RunningInv
    <2> QED BY <2>1 DEF QuietInv
  <1>3. CASE BootDone BY <1>3 DEF BootDone, QuietInv, On
  <1>4. CASE PowerCut BY <1>4, QuietKept DEF PowerCut, On
  <1>5. CASE PowerCycle BY <1>5, QuietKept DEF PowerCycle, On
  <1>6. CASE Freeze BY <1>6, QuietKept DEF Freeze, On
  <1>7. CASE PrintStart BY <1>7, QuietKept DEF PrintStart
  <1>8. CASE PrintEnd BY <1>8, QuietKept DEF PrintEnd
  <1>9. CASE ForeignSwitch BY <1>9 DEF ForeignSwitch, QuietInv, On
  <1>10. CASE JobKilled BY <1>10, QuietKept DEF JobKilled
  <1>11. CASE TrialKilled BY <1>11, QuietKept DEF TrialKilled
  <1>12. CASE PendingExpires BY <1>12, QuietKept DEF PendingExpires
  <1>13. CASE JobCheck BY <1>13, QuietKept DEF JobCheck
  <1>14. CASE JobUnconfirm BY <1>14, QuietKept DEF JobUnconfirm
  <1>15. CASE JobWriteKernel BY <1>15, QuietKept DEF JobWriteKernel
  <1>16. CASE JobWriteRootfs BY <1>16, QuietKept DEF JobWriteRootfs
  <1>17. CASE JobFails BY <1>17, QuietKept DEF JobFails
  <1>18. CASE JobFailsLate BY <1>18, QuietKept DEF JobFailsLate
  <1>19. CASE JobStop1 BY <1>19, QuietKept DEF JobStop1
  <1>20. CASE JobTrial
    <2>1. trial' \in {NoTrial, NewTrial} BY <1>20 DEF JobTrial
    <2> QED BY <1>20, <2>1, QuietOff DEF JobTrial
  <1>21. CASE JobSwap
    <2>1. ~OnTrial BY <1>21 DEF JobSwap, LockInv
    <2> QED BY <1>21, <2>1, QuietOff DEF JobSwap
  <1>22. CASE JobStop2 BY <1>22, QuietKept DEF JobStop2
  <1>23. CASE JobUndo BY <1>23, QuietKept DEF JobUndo
  <1>24. CASE JobUndone BY <1>24, QuietKept DEF JobUndone
  <1>25. CASE JobClear BY <1>25, QuietKept DEF JobClear
  <1>26. CASE JobReboot BY <1>26, QuietKept DEF JobReboot, On
  <1>27. CASE SwapLock BY <1>27, QuietKept DEF SwapLock
  <1>28. CASE SwapCheck
    <2>1. CASE trial' = trial BY <1>28, <2>1, QuietKept DEF SwapCheck
    <2>2. CASE trial' = NewTrial BY <1>28, <2>2, QuietOff DEF SwapCheck
    <2> QED BY <1>28, <2>1, <2>2 DEF SwapCheck
  <1>29. CASE SwapArm
    <2>1. ~OnTrial BY <1>29 DEF SwapArm, LockInv
    <2> QED BY <1>29, <2>1, QuietOff DEF SwapArm
  <1>30. CASE SwapReboot BY <1>30, QuietKept DEF SwapReboot, On
  <1>31. CASE SwapUndo BY <1>31, QuietKept DEF SwapUndo
  <1>32. CASE SwapDrop BY <1>32, QuietKept DEF SwapDrop
  <1>33. CASE TrialStart
    <2>1. CASE OnTrial
      <3>1. marker = running BY <1>33, <2>1 DEF TrialStart, QuietInv, On
      <3> QED BY <1>33, <2>1, <3>1 DEF TrialStart, QuietInv
    <2>2. CASE ~OnTrial BY <1>33, <2>2, QuietOff DEF TrialStart
    <2> QED BY <2>1, <2>2
  <1>34. CASE TrialWait BY <1>34, QuietKept DEF TrialWait
  <1>35. CASE TrialPostpone BY <1>35, QuietKept DEF TrialPostpone
  <1>36. CASE TrialJudge BY <1>36, QuietKept DEF TrialJudge
  <1>37. CASE TrialConfirm BY <1>37, QuietKept DEF TrialConfirm
  <1>38. CASE TrialUnlink BY <1>38, QuietOff DEF TrialUnlink
  <1>39. CASE TrialRecord
    <2>1. ~OnTrial BY <1>39 DEF TrialRecord, QuietInv
    <2> QED BY <1>39, <2>1, QuietOff DEF TrialRecord
  <1>40. CASE TrialSwap
    <2>1. ~OnTrial BY <1>40 DEF TrialSwap, QuietInv
    <2> QED BY <1>40, <2>1, QuietOff DEF TrialSwap
  <1>41. CASE TrialReboot BY <1>41, QuietKept DEF TrialReboot, On
  <1>42. CASE SwapRequest BY <1>42, QuietKept DEF SwapRequest
  <1>43. CASE Ack BY <1>43, QuietKept DEF Ack
  <1>44. ASSUME NEW i \in Image, Install(i) PROVE QuietInv'
    BY <1>44, QuietKept DEF Install
  <1>45. CASE UNCHANGED vars BY <1>45, QuietKept DEF vars
  <1>46. CASE TrialBegins BY <1>46, QuietKept DEF TrialBegins
  <1>47. CASE TrialStale
    <2>1. ~OnTrial BY <1>47 DEF TrialStale, QuietInv
    <2> QED BY <1>47, <2>1, QuietOff DEF TrialStale
  <1>48. CASE TrialDiscard BY <1>48, QuietOff DEF TrialDiscard
  <1> QED BY <1>1, <1>2, <1>3, <1>4, <1>5, <1>6, <1>7, <1>8, <1>9, <1>10, <1>11, <1>12, <1>13, <1>14, <1>15, <1>16, <1>17, <1>18, <1>19, <1>20, <1>21, <1>22, <1>23, <1>24, <1>25, <1>26, <1>27, <1>28, <1>29, <1>30, <1>31, <1>32, <1>33, <1>34, <1>35, <1>36, <1>37, <1>38, <1>39, <1>40, <1>41, <1>42, <1>43, <1>44, <1>45, <1>46, <1>47, <1>48
      DEF Next, BootStep, Environment, JobStep, SwapStep, TrialStep

-----------------------------------------------------------------------------
(* Watchdog resets are counted *)

LEMMA WatchdogKept ==
  ASSUME WatchdogInv, resets' = resets, running' = running,
         trial' = trial \/ trial' = NoTrial, armed' => armed, On' => On
  PROVE  WatchdogInv'
  BY DEF WatchdogInv, OnTrial

\* A new TRIAL starts with no reset, and the running slot is not on trial.
LEMMA WatchdogNew ==
  ASSUME TypeOK, trial' = NewTrial, resets' = 0, running' = running
  PROVE  WatchdogInv'
  BY Fields, SlotWrites, ConstantsAssumption DEF WatchdogInv, OnTrial

\* Counting comes before arming: the new start is above the resets so far.
LEMMA WatchdogCounts ==
  ASSUME TypeOK, WatchdogInv, OnTrial, On, trial' = CountedTrial, resets' = resets,
         running' = running, armed' => CountedTrial.starts <= TrialAttempts
  PROVE  WatchdogInv'
  <1>1. trial # NoTrial BY DEF OnTrial
  <1>2. /\ resets \in Nat /\ resets <= TrialAttempts
        /\ CountedTrial.starts \in Nat /\ resets < CountedTrial.starts
    <2>1. /\ resets \in Nat /\ TrialAttempts \in Nat /\ trial.starts \in Nat
          /\ CountedTrial.starts = IF trial.counted = TRUE \/ trial.starts > TrialAttempts
                                   THEN trial.starts ELSE trial.starts + 1
      BY <1>1, CountedFields, ConstantsAssumption DEF TypeOK
    <2>2. resets <= TrialAttempts /\ resets <= trial.starts BY <1>1 DEF WatchdogInv
    <2>3. trial.counted = TRUE => resets < trial.starts BY DEF WatchdogInv
    <2> QED BY <2>1, <2>2, <2>3
  <1>3. trial'.counted /\ trial'.starts = CountedTrial.starts
    BY <1>1, CountedFields
  <1> QED BY <1>2, <1>3 DEF WatchdogInv

LEMMA WatchdogStep ==
  ASSUME "count" \notin Faults, CoreInv, WatchdogInv, TypeOK', [Next]_vars
  PROVE  WatchdogInv'
  <1>a. TypeOK /\ RunningInv BY DEF CoreInv
  <1> USE <1>a DEF JobAt, JobTo, JobEnds, JobFrame, StillUp, SwapAt, SwapTo, SwapFrame, TrialAt,
        TrialFrame, Verdict, Halt, SwapOk, SwapFails, durable
  <1>1. CASE PowerOn
    <2>1. CASE trial = NoTrial BY <1>1, <2>1 DEF PowerOn, WatchdogInv, OnTrial
    <2>2. CASE trial # NoTrial
      <3>1. trial'.starts = trial.starts /\ trial'.counted = FALSE /\ trial' # NoTrial
        BY <1>1, <2>2, UncountedFields DEF PowerOn
      <3>2. ~armed' BY <1>1 DEF PowerOn, RunningInv
      <3>3. resets' = resets BY <1>1 DEF PowerOn
      <3> QED BY <2>2, <3>1, <3>2, <3>3 DEF WatchdogInv
    <2> QED BY <2>1, <2>2
  <1>2. CASE ArmWatchdog
    <2>1. CASE OnTrial /\ trial' = CountedTrial /\ (armed' => CountedTrial.starts <= TrialAttempts)
      BY <1>2, <2>1, WatchdogCounts DEF ArmWatchdog, On
    <2>2. CASE ~OnTrial /\ trial' = trial
      BY <1>2, <2>2 DEF ArmWatchdog, WatchdogInv, OnTrial, On
    <2>3. CASE trial' = trial /\ armed' = FALSE
      BY <1>2, <2>3, WatchdogKept DEF ArmWatchdog, On
    <2> QED BY Zenon, <1>2, <2>1, <2>2, <2>3 DEF ArmWatchdog, Fault
  <1>3. CASE BootDone BY <1>3, WatchdogKept DEF BootDone, On
  <1>4. CASE PowerCut BY <1>4, WatchdogKept DEF PowerCut, On
  <1>5. CASE PowerCycle BY <1>5, WatchdogKept DEF PowerCycle, On
  <1>6. CASE Freeze
    <2>1. CASE armed /\ OnTrial
      <3>1. /\ resets \in Nat /\ resets < trial.starts /\ trial.starts <= TrialAttempts
            /\ trial # NoTrial /\ trial \in Trials /\ trial.starts \in Nat
        BY <1>6, <2>1, CountedFields DEF Freeze, WatchdogInv, TypeOK, On, OnTrial
      <3>2. resets' = resets + 1 /\ trial' = trial /\ armed' = FALSE /\ ~On'
        BY <1>6, <2>1 DEF Freeze, On
      <3> QED BY <3>1, <3>2, ConstantsAssumption DEF WatchdogInv
    <2>2. CASE ~(armed /\ OnTrial)
      <3>1. resets' = resets BY <1>6, <2>2 DEF Freeze
      <3> QED BY <1>6, <3>1, WatchdogKept DEF Freeze, On
    <2> QED BY <2>1, <2>2
  <1>7. CASE PrintStart BY <1>7, WatchdogKept DEF PrintStart, On
  <1>8. CASE PrintEnd BY <1>8, WatchdogKept DEF PrintEnd, On
  <1>9. CASE ForeignSwitch BY <1>9, WatchdogKept DEF ForeignSwitch, On
  <1>10. CASE JobKilled BY <1>10, WatchdogKept DEF JobKilled, On
  <1>11. CASE TrialKilled BY <1>11, WatchdogKept DEF TrialKilled, On
  <1>12. CASE PendingExpires BY <1>12, WatchdogKept DEF PendingExpires, On
  <1>13. CASE JobCheck BY <1>13, WatchdogKept DEF JobCheck, On
  <1>14. CASE JobUnconfirm BY <1>14, WatchdogKept DEF JobUnconfirm, On
  <1>15. CASE JobWriteKernel BY <1>15, WatchdogKept DEF JobWriteKernel, On
  <1>16. CASE JobWriteRootfs BY <1>16, WatchdogKept DEF JobWriteRootfs, On
  <1>17. CASE JobFails BY <1>17, WatchdogKept DEF JobFails, On
  <1>18. CASE JobFailsLate BY <1>18, WatchdogKept DEF JobFailsLate, On
  <1>19. CASE JobStop1 BY <1>19, WatchdogKept DEF JobStop1, On
  <1>20. CASE JobTrial
    <2>1. CASE trial' = NewTrial BY <1>20, <2>1, WatchdogNew DEF JobTrial
    <2>2. CASE trial' = NoTrial
      BY <1>20, <2>2, ConstantsAssumption DEF JobTrial, WatchdogInv, OnTrial
    <2> QED BY <1>20, <2>1, <2>2 DEF JobTrial
  <1>21. CASE JobSwap BY <1>21, WatchdogKept DEF JobSwap, On
  <1>22. CASE JobStop2 BY <1>22, WatchdogKept DEF JobStop2, On
  <1>23. CASE JobUndo BY <1>23, WatchdogKept DEF JobUndo, On
  <1>24. CASE JobUndone BY <1>24, WatchdogKept DEF JobUndone, On
  <1>25. CASE JobClear BY <1>25, WatchdogKept DEF JobClear, On
  <1>26. CASE JobReboot BY <1>26, WatchdogKept DEF JobReboot, On
  <1>27. CASE SwapLock BY <1>27, WatchdogKept DEF SwapLock, On
  <1>28. CASE SwapCheck
    <2>1. CASE trial' = NewTrial /\ resets' = 0 BY <1>28, <2>1, WatchdogNew DEF SwapCheck
    <2>2. CASE UNCHANGED <<trial, resets>> BY <1>28, <2>2, WatchdogKept DEF SwapCheck, On
    <2> QED BY <1>28, <2>1, <2>2 DEF SwapCheck
  <1>29. CASE SwapArm BY <1>29, WatchdogKept DEF SwapArm, On
  <1>30. CASE SwapReboot BY <1>30, WatchdogKept DEF SwapReboot, On
  <1>31. CASE SwapUndo BY <1>31, WatchdogKept DEF SwapUndo, On
  <1>32. CASE SwapDrop BY <1>32, WatchdogKept DEF SwapDrop, On
  <1>33. CASE TrialStart
    <2>1. CASE OnTrial
      <3>1. trial # NoTrial BY <2>1 DEF OnTrial
      <3>2. armed' => CountedTrial.starts <= TrialAttempts
        BY <1>33, <2>1, <3>1, CountedFields DEF TrialStart, WatchdogInv
      <3> QED BY <1>33, <2>1, <3>2, WatchdogCounts DEF TrialStart, On
    <2>2. CASE ~OnTrial BY <1>33, <2>2, WatchdogKept DEF TrialStart, On
    <2> QED BY <2>1, <2>2
  <1>34. CASE TrialWait BY <1>34, WatchdogKept DEF TrialWait, On
  <1>35. CASE TrialPostpone BY <1>35, WatchdogKept DEF TrialPostpone, On
  <1>36. CASE TrialJudge BY <1>36, WatchdogKept DEF TrialJudge, On
  <1>37. CASE TrialConfirm BY <1>37, WatchdogKept DEF TrialConfirm, On
  <1>38. CASE TrialUnlink BY <1>38, WatchdogKept DEF TrialUnlink, On
  <1>39. CASE TrialRecord BY <1>39, WatchdogKept DEF TrialRecord, On
  <1>40. CASE TrialSwap BY <1>40, WatchdogKept DEF TrialSwap, On
  <1>41. CASE TrialReboot BY <1>41, WatchdogKept DEF TrialReboot, On
  <1>42. CASE SwapRequest BY <1>42, WatchdogKept DEF SwapRequest, On
  <1>43. CASE Ack BY <1>43, WatchdogKept DEF Ack, On
  <1>44. ASSUME NEW i \in Image, Install(i) PROVE WatchdogInv'
    BY <1>44, WatchdogKept DEF Install, On
  <1>45. CASE UNCHANGED vars BY <1>45, WatchdogKept DEF vars, On
  <1>46. CASE TrialBegins BY <1>46, WatchdogKept DEF TrialBegins, On
  <1>47. CASE TrialStale BY <1>47, WatchdogKept DEF TrialStale, On
  <1>48. CASE TrialDiscard BY <1>48, WatchdogKept DEF TrialDiscard, On
  <1> QED BY <1>1, <1>2, <1>3, <1>4, <1>5, <1>6, <1>7, <1>8, <1>9, <1>10, <1>11, <1>12, <1>13, <1>14, <1>15, <1>16, <1>17, <1>18, <1>19, <1>20, <1>21, <1>22, <1>23, <1>24, <1>25, <1>26, <1>27, <1>28, <1>29, <1>30, <1>31, <1>32, <1>33, <1>34, <1>35, <1>36, <1>37, <1>38, <1>39, <1>40, <1>41, <1>42, <1>43, <1>44, <1>45, <1>46, <1>47, <1>48
      DEF Next, BootStep, Environment, JobStep, SwapStep, TrialStep

-----------------------------------------------------------------------------
(* The marker while an install writes *)

\* When the marker has left the running system, something is about to reboot,
\* and a switch that is has made every install be refused.
MarkInv ==
    /\ req.pc \notin {"undo", "drop"}
    /\ req.pc = "reboot" => pending /\ job.pc = "idle"
    /\ power = "up" /\ marker # running =>
          tpc = "reboot" \/ req.pc = "reboot" \/ job.pc \in {"stop2", "undo", "reboot"}

LEMMA MarkStep ==
  ASSUME CoreInv, QuietInv, MarkInv, TypeOK', Faults \subseteq {"cut", "freeze", "count"}, [Next]_vars
  PROVE  MarkInv'
  <1>a. TypeOK /\ RunningInv /\ LockInv BY DEF CoreInv
  <1> USE <1>a, Fields DEF JobAt, JobTo, JobEnds, JobFrame, StillUp, SwapAt, SwapTo, SwapFrame, TrialAt,
        TrialFrame, Verdict, Halt, SwapOk, SwapFails, Fault, durable, QuietInv, MarkInv
  <1>1. CASE PowerOn BY <1>1 DEF PowerOn, RunningInv
  <1>2. CASE ArmWatchdog BY <1>2 DEF ArmWatchdog, RunningInv
  <1>3. CASE BootDone BY <1>3 DEF BootDone, RunningInv
  <1>4. CASE PowerCut BY <1>4 DEF PowerCut
  <1>5. CASE PowerCycle BY <1>5 DEF PowerCycle
  <1>6. CASE Freeze BY <1>6 DEF Freeze
  <1>7. CASE PrintStart BY <1>7 DEF PrintStart
  <1>8. CASE PrintEnd BY <1>8 DEF PrintEnd
  <1>9. CASE ForeignSwitch BY <1>9 DEF ForeignSwitch
  <1>10. CASE JobKilled BY <1>10 DEF JobKilled
  <1>11. CASE TrialKilled BY <1>11 DEF TrialKilled
  <1>12. CASE PendingExpires BY <1>12 DEF PendingExpires
  <1>13. CASE JobCheck BY <1>13 DEF JobCheck
  <1>14. CASE JobUnconfirm BY <1>14 DEF JobUnconfirm
  <1>15. CASE JobWriteKernel BY <1>15 DEF JobWriteKernel
  <1>16. CASE JobWriteRootfs BY <1>16 DEF JobWriteRootfs
  <1>17. CASE JobFails BY <1>17 DEF JobFails
  <1>18. CASE JobFailsLate BY <1>18 DEF JobFailsLate
  <1>19. CASE JobStop1 BY <1>19 DEF JobStop1
  <1>20. CASE JobTrial BY <1>20, SlotWrites DEF JobTrial
  <1>21. CASE JobSwap BY ZenonT(60), <1>21 DEF JobSwap
  <1>22. CASE JobStop2 BY <1>22 DEF JobStop2
  <1>23. CASE JobUndo BY <1>23 DEF JobUndo
  <1>24. CASE JobUndone BY <1>24 DEF JobUndone
  <1>25. CASE JobClear BY <1>25 DEF JobClear
  <1>26. CASE JobReboot BY <1>26 DEF JobReboot
  <1>27. CASE SwapLock BY <1>27 DEF SwapLock
  <1>28. CASE SwapCheck BY <1>28, SlotWrites DEF SwapCheck, TrialReq, NoReq
  <1>29. CASE SwapArm
    <2>1. job.pc = "idle" BY <1>29 DEF SwapArm, LockInv, SwapHoldsLock
    <2>2. UNCHANGED <<job, tpc>> BY <1>29 DEF SwapArm
    <2>3. ~Fault("swap") BY DEF Fault
    <2>4. pending' = TRUE /\ req' = [req EXCEPT !.pc = "reboot"] BY <1>29, <2>3, Zenon DEF SwapArm
    <2>5. req'.pc = "reboot" BY <2>4
    <2> QED BY <2>1, <2>2, <2>4, <2>5
  <1>30. CASE SwapReboot BY <1>30 DEF SwapReboot
  <1>31. CASE SwapUndo BY <1>31 DEF SwapUndo
  <1>32. CASE SwapDrop BY <1>32 DEF SwapDrop
  <1>33. CASE TrialStart BY <1>33 DEF TrialStart
  <1>34. CASE TrialWait BY <1>34 DEF TrialWait
  <1>35. CASE TrialPostpone BY <1>35 DEF TrialPostpone
  <1>36. CASE TrialJudge BY <1>36 DEF TrialJudge
  <1>37. CASE TrialConfirm BY <1>37 DEF TrialConfirm
  <1>38. CASE TrialUnlink BY <1>38 DEF TrialUnlink
  <1>39. CASE TrialRecord BY <1>39 DEF TrialRecord
  <1>40. CASE TrialSwap BY <1>40 DEF TrialSwap
  <1>41. CASE TrialReboot BY <1>41 DEF TrialReboot
  <1>42. CASE SwapRequest BY <1>42 DEF SwapRequest
  <1>43. CASE Ack BY <1>43 DEF Ack
  <1>44. ASSUME NEW i \in Image, Install(i) PROVE MarkInv'
    BY <1>44 DEF Install, RequestBusy, LockFree, JobHoldsLock, SwapHoldsLock
  <1>45. CASE UNCHANGED vars BY <1>45 DEF vars
  <1>46. CASE TrialBegins BY <1>46 DEF TrialBegins
  <1>47. CASE TrialStale BY <1>47 DEF TrialStale
  <1>48. CASE TrialDiscard BY <1>48 DEF TrialDiscard
  <1> QED BY <1>1, <1>2, <1>3, <1>4, <1>5, <1>6, <1>7, <1>8, <1>9, <1>10, <1>11, <1>12, <1>13, <1>14, <1>15, <1>16, <1>17, <1>18, <1>19, <1>20, <1>21, <1>22, <1>23, <1>24, <1>25, <1>26, <1>27, <1>28, <1>29, <1>30, <1>31, <1>32, <1>33, <1>34, <1>35, <1>36, <1>37, <1>38, <1>39, <1>40, <1>41, <1>42, <1>43, <1>44, <1>45, <1>46, <1>47, <1>48
      DEF Next, BootStep, Environment, JobStep, SwapStep, TrialStep

-----------------------------------------------------------------------------
(* The theorems *)

IInv == CoreInv /\ ConfirmedInv /\ StartedInv /\ QuietInv

LEMMA InitInv == Init => IInv /\ WatchdogInv
  <1> SUFFICES ASSUME Init PROVE IInv /\ WatchdogInv OBVIOUS
  <1>1. TypeOK
    <2>1. NoJob \in Jobs /\ NoReq \in Reqs
      BY DEF NoJob, NoReq, Jobs, Reqs, JobPc
    <2>2. slot \in [Slots -> Contents] BY DEF Init, Contents
    <2>3. FlagsOK BY Zenon DEF Init, FlagsOK
    <2> QED BY <2>1, <2>2, <2>3, ConstantsAssumption
            DEF Init, TypeOK, Results, Powers, Statuses, TrialPc
  <1>2. RunningInv /\ LockInv /\ FallbackInv /\ QuietInv /\ StartedInv
    BY DEF Init, RunningInv, LockInv, FallbackInv, QuietInv, StartedInv, NoJob, NoReq, On,
           SwapHoldsLock, OnTrial
  <1>3. ConfirmedInv
    BY ConstantsAssumption
       DEF Init, ConfirmedInv, NoJob, SlotConfirmed, Bootable, Whole, Image
  <1>4. WatchdogInv BY ConstantsAssumption DEF Init, WatchdogInv, OnTrial
  <1> QED BY <1>1, <1>2, <1>3, <1>4 DEF IInv, CoreInv

LEMMA StepInv == IInv /\ [Next]_vars => IInv'
  <1> SUFFICES ASSUME IInv, [Next]_vars PROVE IInv' OBVIOUS
  <1>1. TypeOK' BY TypeStep DEF IInv, CoreInv
  <1>2. CoreInv' BY <1>1, RunningStep, LockStep, FallbackStep DEF IInv, CoreInv
  <1> QED BY <1>1, <1>2, ConfirmedStep, StartedStep, QuietStep DEF IInv

THEOREM Invariant == Spec => []IInv
  BY InitInv, StepInv, PTL DEF Spec

\* The state keeps its types: every record and every program counter is one
\* the code can hold, whatever happens to the printer.
THEOREM TypeCorrect == Spec => []TypeOK
  <1>1. IInv => TypeOK BY DEF IInv, CoreInv
  <1> QED BY <1>1, Invariant, PTL

\* While a TRIAL exists its way back is whole, for any images, any number of
\* attempts and of faults.
THEOREM FallbackSafe == Spec => []SafeFallback
  <1>1. IInv => SafeFallback BY DEF IInv, CoreInv, FallbackInv, SafeFallback
  <1> QED BY <1>1, Invariant, PTL

\* A confirmation that counts names a whole system that came up.
THEOREM ConfirmedSafe == Spec => []ConfirmedIsGood
  <1>1. IInv => ConfirmedIsGood
    BY ConstantsAssumption
       DEF IInv, ConfirmedInv, ConfirmedIsGood, SlotConfirmed, Bootable, Image
  <1> QED BY <1>1, Invariant, PTL

\* A trial that has begun stays selected, and its slot whole, until its verdict.
THEOREM TrialSelected == Spec => []TrialStaysSelected
  <1>1. IInv => TrialStaysSelected BY DEF IInv, StartedInv, TrialStaysSelected
  <1> QED BY <1>1, Invariant, PTL

\* If every start is counted (nothing fails in count_start), an unconfirmed
\* system is reset by the watchdog at most TRIAL_ATTEMPTS times.
THEOREM ResetsBounded ==
  ASSUME "count" \notin Faults
  PROVE  Spec => []WatchdogResetsBounded
  <1>1. IInv /\ WatchdogInv /\ [Next]_vars => WatchdogInv'
    <2> SUFFICES ASSUME IInv, WatchdogInv, [Next]_vars PROVE WatchdogInv' OBVIOUS
    <2>1. TypeOK' BY TypeStep DEF IInv, CoreInv
    <2> QED BY <2>1, WatchdogStep DEF IInv
  <1>2. WatchdogInv => WatchdogResetsBounded BY DEF WatchdogInv, WatchdogResetsBounded
  <1>3. Spec => []IInv BY Invariant
  <1> QED BY <1>1, <1>2, <1>3, InitInv, PTL DEF Spec

\* While an install writes, the marker selects the running system, as long as
\* nothing but power cuts, freezes and uncounted starts happens.
THEOREM WritingSafe ==
  ASSUME Faults \subseteq {"cut", "freeze", "count"}
  PROVE  Spec => []WritingLeavesRunningSelected
  <1>1. Init => MarkInv BY DEF Init, MarkInv, NoReq
  <1>2. IInv /\ MarkInv /\ [Next]_vars => MarkInv'
    <2> SUFFICES ASSUME IInv, MarkInv, [Next]_vars PROVE MarkInv' OBVIOUS
    <2>1. TypeOK' BY TypeStep DEF IInv, CoreInv
    <2> QED BY <2>1, MarkStep DEF IInv
  <1>3. IInv /\ MarkInv => WritingLeavesRunningSelected
    BY DEF IInv, CoreInv, RunningInv, MarkInv, WritingLeavesRunningSelected
  <1>4. Spec => []IInv BY Invariant
  <1> QED BY <1>1, <1>2, <1>3, <1>4, PTL DEF Spec

-----------------------------------------------------------------------------
(* Every step is a step of FallbackPromise, or none of its business        *)

LEMMA Offering ==
  ASSUME TypeOK
  PROVE  /\ trial = NoTrial => OfferOfTrial = NoTrial /\ StartsOfTrial = 0
         /\ trial # NoTrial =>
              /\ OfferOfTrial # NoTrial /\ OfferOfTrial.fallback = trial.from
              /\ OfferOfTrial = [fallback |-> trial.from, candidate |-> trial.to]
              /\ StartsOfTrial = trial.starts
  BY OfferAssumption DEF TypeOK, Trials, OfferOfTrial, StartsOfTrial, P!Offers

LEMMA PromiseStays ==
  ASSUME slot' = slot,
         \/ trial' = trial
         \/ /\ trial # NoTrial /\ trial' # NoTrial
            /\ trial'.from = trial.from /\ trial'.to = trial.to /\ trial'.starts = trial.starts
  PROVE  [P!PromiseNext]_(P!pvars)
  BY DEF P!pvars, OfferOfTrial, StartsOfTrial

LEMMA PromiseSettles ==
  ASSUME TypeOK, slot' = slot, trial' = NoTrial
  PROVE  [P!PromiseNext]_(P!pvars)
  <1>1. OfferOfTrial' = NoTrial /\ StartsOfTrial' = 0 BY DEF OfferOfTrial, StartsOfTrial
  <1>2. CASE trial = NoTrial BY <1>2, PromiseStays
  <1>3. CASE trial # NoTrial BY <1>1, <1>3, Offering DEF P!PromiseNext, P!Settle
  <1> QED BY <1>2, <1>3

\* The start is counted once in a boot, and not beyond one too many.
LEMMA PromiseCounts ==
  ASSUME TypeOK, slot' = slot, trial # NoTrial, trial' = CountedTrial
  PROVE  [P!PromiseNext]_(P!pvars)
  <1>1. CASE trial.counted = TRUE \/ trial.starts > TrialAttempts
    BY <1>1, CountedFields, PromiseStays
  <1>2. CASE ~(trial.counted = TRUE \/ trial.starts > TrialAttempts)
    <2>1. StartsOfTrial = trial.starts /\ StartsOfTrial' = CountedTrial.starts
      BY CountedFields DEF StartsOfTrial
    <2>2. StartsOfTrial' = StartsOfTrial + 1 BY <1>2, <2>1, CountedFields
    <2>3. StartsOfTrial <= TrialAttempts BY <1>2, <2>1, CountedFields, ConstantsAssumption
    <2>4. OfferOfTrial' = OfferOfTrial BY CountedFields DEF OfferOfTrial
    <2> QED BY <2>2, <2>3, <2>4, Offering DEF P!PromiseNext, P!Start
  <1> QED BY <1>1, <1>2

\* A new TRIAL is written by a whole system, over none that started: that one
\* would be on trial here.
LEMMA PromiseOffers ==
  ASSUME CoreInv, StartedInv, power = "up", ~OnTrial, slot' = slot, trial' = NewTrial
  PROVE  [P!PromiseNext]_(P!pvars)
  <1>a. TypeOK BY DEF CoreInv
  <1>1. StartsOfTrial = 0
    <2>1. CASE trial = NoTrial BY <2>1 DEF StartsOfTrial
    <2>2. CASE trial # NoTrial
      <3>1. trial.starts \in Nat BY <1>a, <2>2, CountedFields
      <3>2. ~(trial.starts > 0) BY <2>2 DEF StartedInv, OnTrial, On
      <3> QED BY <2>2, <3>1, <3>2 DEF StartsOfTrial
    <2> QED BY <2>1, <2>2
  <1>2. /\ OfferOfTrial' = [fallback |-> running, candidate |-> target]
        /\ StartsOfTrial' = 0
    BY <1>a, Fields DEF OfferOfTrial, StartsOfTrial
  <1>3. running \in Slots /\ target \in Slots /\ running # target
    BY <1>a, Targets, SlotWrites DEF TypeOK
  <1>4. slot[running] \in WholeContents
    <2>1. slot[running].whole = TRUE /\ slot[running].img \in Nebula
      BY DEF CoreInv, RunningInv, On, Whole, HoldsNebula, TypeOK, Contents
    <2>2. slot[running] \in Contents BY <1>a DEF TypeOK
    <2>3. slot[running].img \in Image BY <2>1 DEF Image
    <2> QED BY <2>1, <2>2, <2>3 DEF Contents, WholeContents
  <1> QED BY <1>1, <1>2, <1>3, <1>4 DEF P!PromiseNext, P!Offer

LEMMA PromiseWrites ==
  ASSUME TypeOK, trial' = trial, NEW s \in Slots, NEW c \in Contents,
         slot' = [slot EXCEPT ![s] = c],
         trial # NoTrial /\ s = trial.from => c \in WholeContents
  PROVE  [P!PromiseNext]_(P!pvars)
  <1>1. OfferOfTrial' = OfferOfTrial /\ StartsOfTrial' = StartsOfTrial
    BY DEF OfferOfTrial, StartsOfTrial
  <1>2. OfferOfTrial # NoTrial /\ s = OfferOfTrial.fallback => c \in WholeContents BY Offering
  <1> QED BY <1>1, <1>2 DEF P!PromiseNext, P!Write, Contents

\* The job writes the slot that no TRIAL names as the way back.
LEMMA JobWrites ==
  ASSUME CoreInv, job.pc # "idle", trial' = trial, NEW c \in Contents,
         slot' = [slot EXCEPT ![target] = c]
  PROVE  [P!PromiseNext]_(P!pvars)
  <1>a. TypeOK BY DEF CoreInv
  <1>1. trial # NoTrial => trial.from # target
    <2> SUFFICES ASSUME trial # NoTrial PROVE trial.from # target OBVIOUS
    <2>1. trial \in Trials BY <1>a DEF TypeOK
    <2>2. trial.from # trial.to BY DEF CoreInv, FallbackInv
    <2>3. trial.to # running BY DEF CoreInv, LockInv, OnTrial
    <2> QED BY <1>a, <2>1, <2>2, <2>3, SlotWrites DEF Trials
  <1> QED BY <1>a, <1>1, Targets, PromiseWrites

LEMMA BlankWrites ==
  ASSUME CoreInv, job.pc # "idle", trial' = trial, Blank(target)
  PROVE  [P!PromiseNext]_(P!pvars)
  <1>a. TypeOK BY DEF CoreInv
  <1>1. CASE slot' = slot BY <1>1, PromiseStays
  <1>2. CASE slot' = [slot EXCEPT ![target] = Blanked] BY <1>a, <1>2, Records, JobWrites
  <1> QED BY <1>1, <1>2 DEF Blank

LEMMA PromiseStep ==
  ASSUME CoreInv, StartedInv, [Next]_vars
  PROVE  [P!PromiseNext]_(P!pvars)
  <1>a. TypeOK /\ LockInv BY DEF CoreInv
  <1> USE <1>a DEF JobAt, JobTo, JobEnds, JobFrame, StillUp, SwapAt, SwapTo, SwapFrame,
        TrialAt, TrialFrame, Verdict, Halt, SwapOk, SwapFails, durable
  <1>1. CASE PowerOn BY <1>1, UncountedFields, PromiseStays DEF PowerOn
  <1>2. CASE ArmWatchdog
    <2>1. trial' = trial \/ (OnTrial /\ trial' = CountedTrial) BY <1>2 DEF ArmWatchdog
    <2>2. slot' = slot BY <1>2 DEF ArmWatchdog
    <2> QED BY <2>1, <2>2, PromiseStays, PromiseCounts DEF OnTrial
  <1>3. CASE BootDone BY <1>3, PromiseStays DEF BootDone
  <1>4. CASE PowerCut BY <1>4, PromiseStays DEF PowerCut
  <1>5. CASE PowerCycle BY <1>5, PromiseStays DEF PowerCycle
  <1>6. CASE Freeze BY <1>6, PromiseStays DEF Freeze
  <1>7. CASE PrintStart BY <1>7, PromiseStays DEF PrintStart
  <1>8. CASE PrintEnd BY <1>8, PromiseStays DEF PrintEnd
  <1>9. CASE ForeignSwitch
    <2>1. trial' = trial BY <1>9 DEF ForeignSwitch
    <2>2. CASE slot' = slot BY <2>1, <2>2, PromiseStays
    <2>3. ASSUME NEW i \in Image, slot' = [slot EXCEPT ![target] = Full(i)]
          PROVE  [P!PromiseNext]_(P!pvars)
      <3>1. Full(i) \in Contents /\ Full(i) \in WholeContents BY DEF Full, Contents, WholeContents
      <3> QED BY <2>1, <2>3, <3>1, Targets, PromiseWrites
    <2> QED BY <1>9, <2>2, <2>3 DEF ForeignSwitch
  <1>10. CASE JobKilled BY <1>10, PromiseStays DEF JobKilled
  <1>11. CASE TrialKilled BY <1>11, PromiseStays DEF TrialKilled
  <1>12. CASE PendingExpires BY <1>12, PromiseStays DEF PendingExpires
  <1>13. CASE JobCheck BY <1>13, PromiseStays DEF JobCheck
  <1>14. CASE JobUnconfirm BY <1>14, PromiseStays DEF JobUnconfirm
  <1>15. CASE JobWriteKernel
    <2>1. slot' = [slot EXCEPT ![target] = Half(job.img)] /\ trial' = trial /\ job.pc # "idle"
      BY <1>15 DEF JobWriteKernel
    <2>2. Half(job.img) \in Contents BY Records DEF TypeOK, Jobs
    <2> QED BY <2>1, <2>2, JobWrites
  <1>16. CASE JobWriteRootfs
    <2>1. slot' = [slot EXCEPT ![target].whole = TRUE] /\ trial' = trial /\ job.pc # "idle"
      BY <1>16 DEF JobWriteRootfs
    <2>2. slot[target] \in Contents BY Targets DEF TypeOK
    <2>3. [slot[target] EXCEPT !.whole = TRUE] \in Contents BY <2>2 DEF Contents
    <2>4. slot' = [slot EXCEPT ![target] = [slot[target] EXCEPT !.whole = TRUE]] BY <2>1
    <2> QED BY <2>1, <2>3, <2>4, JobWrites
  <1>17. CASE JobFails BY <1>17, BlankWrites DEF JobFails
  <1>18. CASE JobFailsLate
    <2>1. slot' = slot \/ slot' = [slot EXCEPT ![target] = Blanked] BY Zenon, <1>18 DEF JobFailsLate
    <2>2. trial' = trial /\ job.pc # "idle" BY <1>18 DEF JobFailsLate
    <2> QED BY <2>1, <2>2, Records, JobWrites, PromiseStays
  <1>19. CASE JobStop1 BY <1>19, BlankWrites, PromiseStays DEF JobStop1
  <1>20. CASE JobTrial
    <2>1. job.pc # "idle" /\ power = "up" /\ slot' = slot BY <1>20 DEF JobTrial
    <2>2. ~OnTrial BY <2>1 DEF LockInv
    <2>3. trial' = NoTrial \/ trial' = NewTrial BY <1>20 DEF JobTrial
    <2> QED BY <2>1, <2>2, <2>3, PromiseSettles, PromiseOffers
  <1>21. CASE JobSwap BY <1>21, PromiseStays, PromiseSettles DEF JobSwap
  <1>22. CASE JobStop2 BY <1>22, PromiseStays DEF JobStop2
  <1>23. CASE JobUndo BY <1>23, PromiseStays DEF JobUndo
  <1>24. CASE JobUndone BY <1>24, PromiseSettles DEF JobUndone
  <1>25. CASE JobClear BY <1>25, BlankWrites DEF JobClear
  <1>26. CASE JobReboot BY <1>26, PromiseStays DEF JobReboot
  <1>27. CASE SwapLock BY <1>27, PromiseStays DEF SwapLock
  <1>28. CASE SwapCheck
    <2>1. power = "up" /\ slot' = slot BY <1>28 DEF SwapCheck
    <2>2. CASE RequestBusy BY <2>1, <2>2, <1>28, PromiseStays DEF SwapCheck
    <2>3. CASE ~RequestBusy
      <3>1. ~OnTrial BY Zenon, <2>3 DEF RequestBusy
      <3>2. trial' = trial \/ trial' = NewTrial BY <2>3, <1>28 DEF SwapCheck
      <3> QED BY <2>1, <3>1, <3>2, PromiseStays, PromiseOffers
    <2> QED BY <2>2, <2>3
  <1>29. CASE SwapArm BY <1>29, PromiseStays, PromiseSettles DEF SwapArm
  <1>30. CASE SwapReboot BY <1>30, PromiseStays DEF SwapReboot
  <1>31. CASE SwapUndo BY <1>31, PromiseStays DEF SwapUndo
  <1>32. CASE SwapDrop BY <1>32, PromiseStays, PromiseSettles DEF SwapDrop
  <1>33. CASE TrialStart BY <1>33, PromiseCounts, PromiseStays DEF TrialStart, OnTrial
  <1>34. CASE TrialWait BY <1>34, PromiseStays DEF TrialWait
  <1>35. CASE TrialPostpone BY <1>35, PromiseStays DEF TrialPostpone
  <1>36. CASE TrialJudge BY <1>36, PromiseStays DEF TrialJudge
  <1>37. CASE TrialConfirm BY <1>37, PromiseStays, PromiseSettles DEF TrialConfirm
  <1>38. CASE TrialUnlink BY <1>38, PromiseSettles DEF TrialUnlink
  <1>39. CASE TrialRecord BY <1>39, PromiseStays DEF TrialRecord
  <1>40. CASE TrialSwap BY <1>40, PromiseStays DEF TrialSwap
  <1>41. CASE TrialReboot BY <1>41, PromiseStays DEF TrialReboot
  <1>42. CASE SwapRequest BY <1>42, PromiseStays DEF SwapRequest
  <1>43. CASE Ack BY <1>43, PromiseStays DEF Ack
  <1>44. ASSUME NEW i \in Image, Install(i) PROVE [P!PromiseNext]_(P!pvars)
    BY <1>44, PromiseStays DEF Install
  <1>45. CASE UNCHANGED vars BY <1>45, PromiseStays DEF vars
  <1>46. CASE TrialBegins BY <1>46, PromiseStays DEF TrialBegins
  <1>47. CASE TrialStale BY <1>47, PromiseStays DEF TrialStale
  <1>48. CASE TrialDiscard BY <1>48, PromiseSettles DEF TrialDiscard
  <1> QED
    BY <1>1, <1>2, <1>3, <1>4, <1>5, <1>6, <1>7, <1>8, <1>9, <1>10, <1>11, <1>12, <1>13,
       <1>14, <1>15, <1>16, <1>17, <1>18, <1>19, <1>20, <1>21, <1>22, <1>23, <1>24, <1>25,
       <1>26, <1>27, <1>28, <1>29, <1>30, <1>31, <1>32, <1>33, <1>34, <1>35, <1>36, <1>37,
       <1>38, <1>39, <1>40, <1>41, <1>42, <1>43, <1>44, <1>45, <1>46, <1>47, <1>48
       DEF Next, BootStep, Environment, JobStep, SwapStep, TrialStep

-----------------------------------------------------------------------------
(* What a selected slot rests on                                           *)

\* A TRIAL of this boot names the slot that is not running - or S99 has just
\* unlinked it with an older one.
Backed ==
    \/ trial # NoTrial /\ trial.from = running /\ trial.to = target
    \/ tpc = "took" /\ trial = NoTrial

\* A job selects what it wrote, a switch what it looked at; and a switch whose
\* reboot is late keeps every job out.
WrittenInv ==
    /\ job.pc \in {"rootfs", "stop1", "trial", "swap"} => slot[target].img = job.img
    /\ job.pc \in {"stop1", "trial", "swap"} => Whole(target)
    /\ job.pc = "swap" => job.img \in Creality \/ Backed
    /\ req.pc = "arm" => \/ SlotConfirmed(target) \/ slot[target].img \in Creality
                         \/ req = TrialReq /\ Backed
    /\ req.pc \in {"reboot", "undo", "drop"} => pending /\ job.pc = "idle"

\* A step that writes neither the target nor its TRIAL, and selects nothing.
LEMMA WrittenKept ==
  ASSUME TypeOK, WrittenInv, running' = running, trial' = trial,
         slot'[target] = slot[target], confirmed'[target] = confirmed[target],
         \/ job' = job
         \/ job.pc # "idle" /\ job'.pc \notin {"rootfs", "stop1", "trial", "swap"},
         req'.pc \in {"arm", "reboot", "undo", "drop"} => req'.pc = req.pc /\ pending' = pending,
         req'.pc = "arm" => req' = req,
         tpc = "took" => tpc' = "took"
  PROVE  WrittenInv'
  BY DEF WrittenInv, Backed, target, Whole, SlotConfirmed, Bootable

\* A job that has left its writing, or has not come to it.
LEMMA JobElsewhere ==
  ASSUME WrittenInv, LockInv, job.pc # "idle", req' = req,
         job'.pc \notin {"rootfs", "stop1", "trial", "swap"}
  PROVE  WrittenInv'
  BY DEF WrittenInv, LockInv, SwapHoldsLock

\* Where there is no job, and the switch has no marker before it.
LEMMA JobIdle ==
  ASSUME WrittenInv, job.pc = "idle", job' = job, req'.pc # "arm",
         req'.pc \in {"reboot", "undo", "drop"} => pending'
  PROVE  WrittenInv'
  BY DEF WrittenInv

\* Power is off, and with it everything that is not on flash.
LEMMA Halted ==
  ASSUME NEW p, Halt(p)
  PROVE  WrittenInv'
  BY DEF Halt, WrittenInv, NoJob, NoReq

LEMMA WrittenStep ==
  ASSUME CoreInv, QuietInv, WrittenInv, TypeOK', [Next]_vars
  PROVE  WrittenInv'
  <1>a. TypeOK /\ RunningInv /\ LockInv BY DEF CoreInv
  <1> USE <1>a DEF JobAt, JobFrame, StillUp, SwapAt, SwapFrame, TrialAt, TrialFrame, Verdict,
        durable, QuietInv
  <1>1. CASE PowerOn BY <1>1 DEF PowerOn, RunningInv, WrittenInv
  <1>2. CASE ArmWatchdog BY <1>2 DEF ArmWatchdog, RunningInv, WrittenInv
  <1>3. CASE BootDone BY <1>3, WrittenKept DEF BootDone, RunningInv
  <1>4. CASE PowerCut BY <1>4, Halted DEF PowerCut
  <1>5. CASE PowerCycle BY <1>5, Halted DEF PowerCycle
  <1>6. CASE Freeze BY <1>6, Halted DEF Freeze
  <1>7. CASE PrintStart BY <1>7, WrittenKept DEF PrintStart
  <1>8. CASE PrintEnd BY <1>8, WrittenKept DEF PrintEnd
  <1>9. CASE ForeignSwitch BY <1>9, Halted DEF ForeignSwitch
  <1>10. CASE JobKilled BY <1>10, JobMoves, JobElsewhere DEF JobKilled
  <1>11. CASE TrialKilled BY <1>11, WrittenKept DEF TrialKilled
  <1>12. CASE PendingExpires BY <1>12, WrittenKept DEF PendingExpires
  <1>13. CASE JobCheck BY <1>13, JobMoves, JobElsewhere DEF JobCheck
  <1>14. CASE JobUnconfirm BY <1>14, JobMoves, JobElsewhere DEF JobUnconfirm
  <1>15. CASE JobWriteKernel
    <2>1. slot'[target] = Half(job.img) /\ job'.pc = "rootfs" /\ job'.img = job.img
      BY <1>15, SlotWrites, JobMoves DEF JobWriteKernel
    <2>2. job.pc = "kernel" /\ running' = running /\ req' = req BY <1>15 DEF JobWriteKernel
    <2> QED BY <2>1, <2>2 DEF WrittenInv, LockInv, SwapHoldsLock, Half, target
  <1>16. CASE JobWriteRootfs
    <2>1. slot'[target].img = slot[target].img /\ slot'[target].whole = TRUE
      BY <1>16, Targets DEF JobWriteRootfs, TypeOK, Contents
    <2>2. job'.pc = "stop1" /\ job'.img = job.img BY <1>16, JobMoves DEF JobWriteRootfs
    <2>3. job.pc = "rootfs" /\ running' = running /\ req' = req BY <1>16 DEF JobWriteRootfs
    <2> QED BY <2>1, <2>2, <2>3 DEF WrittenInv, LockInv, SwapHoldsLock, Whole, target
  <1>17. CASE JobFails BY <1>17, JobMoves, JobElsewhere DEF JobFails
  <1>18. CASE JobFailsLate BY <1>18, JobMoves, JobElsewhere DEF JobFailsLate
  <1>19. CASE JobStop1
    <2>1. CASE JobEnds("stopped") BY <1>19, <2>1, JobMoves, JobElsewhere DEF JobStop1
    <2>2. CASE JobTo("trial") /\ slot' = slot
      <3>1. job'.pc = "trial" /\ job'.img = job.img BY <2>2, JobMoves
      <3>2. job.pc = "stop1" /\ running' = running /\ req' = req BY <1>19 DEF JobStop1
      <3> QED BY <2>2, <3>1, <3>2 DEF WrittenInv, LockInv, SwapHoldsLock, Whole, target
    <2> QED BY <1>19, <2>1, <2>2 DEF JobStop1
  <1>20. CASE JobTrial
    <2>1. job'.pc = "swap" /\ job'.img = job.img BY <1>20, JobMoves DEF JobTrial
    <2>2. job.pc = "trial" /\ slot' = slot /\ running' = running /\ req' = req BY <1>20 DEF JobTrial
    <2>3. job.img \in Creality \/ trial' = NewTrial BY <1>20 DEF JobTrial
    <2>4. job.img \in Creality \/ Backed' BY <2>2, <2>3, Fields DEF Backed, target
    <2> QED BY <2>1, <2>2, <2>4 DEF WrittenInv, LockInv, SwapHoldsLock, Whole, target
  <1>21. CASE JobSwap BY <1>21, JobMoves, JobElsewhere DEF JobSwap
  <1>22. CASE JobStop2 BY <1>22, JobMoves, JobElsewhere DEF JobStop2
  <1>23. CASE JobUndo BY <1>23, JobMoves, JobElsewhere DEF JobUndo
  <1>24. CASE JobUndone BY <1>24, JobMoves, JobElsewhere DEF JobUndone
  <1>25. CASE JobClear BY <1>25, JobMoves, JobElsewhere DEF JobClear
  <1>26. CASE JobReboot BY <1>26, JobMoves, JobElsewhere, Halted DEF JobReboot
  <1>27. CASE SwapLock BY <1>27, Fields, WrittenKept DEF SwapLock
  <1>28. CASE SwapCheck
    <2>1. job.pc = "idle" /\ job' = job /\ slot' = slot /\ confirmed' = confirmed
          /\ running' = running
      BY <1>28 DEF SwapCheck, LockInv, SwapHoldsLock
    <2>2. CASE req' = NoReq BY <2>1, <2>2, Fields, JobIdle
    <2>3. CASE req' = TrialReq /\ trial' = NewTrial
      <3>1. Backed' /\ req'.pc = "arm" BY <2>1, <2>3, Fields DEF Backed, target
      <3> QED BY <2>1, <2>3, <3>1 DEF WrittenInv, TrialReq
    <2>4. CASE req' = [req EXCEPT !.pc = "arm"] /\ (SlotConfirmed(target) \/ slot[target].img \in Creality)
      <3>1. req'.pc = "arm" BY <2>4, Fields
      <3> QED BY <2>1, <2>4, <3>1 DEF WrittenInv, SlotConfirmed, Bootable, target
    <2> QED BY <1>28, <2>2, <2>3, <2>4 DEF SwapCheck, SwapTo
  <1>29. CASE SwapArm
    <2>1. job.pc = "idle" /\ job' = job BY <1>29 DEF SwapArm, LockInv, SwapHoldsLock
    <2>2. req'.pc = "idle" \/ (req'.pc = "reboot" /\ pending' = TRUE)
      BY ZenonT(60), <1>29, Fields DEF SwapArm, SwapTo
    <2> QED BY <2>1, <2>2, JobIdle
  <1>30. CASE SwapReboot
    <2>1. CASE Halt("off") BY <2>1, Halted
    <2>2. CASE req' \in {[req EXCEPT !.pc = "undo"], NoReq} /\ job' = job /\ pending' = pending
      <3>1. req'.pc \in {"undo", "idle"} BY ZenonT(60), <2>2, Fields
      <3>2. job.pc = "idle" /\ pending BY <1>30 DEF SwapReboot, WrittenInv
      <3> QED BY <2>2, <3>1, <3>2, JobIdle
    <2> QED BY <1>30, <2>1, <2>2 DEF SwapReboot
  <1>31. CASE SwapUndo
    <2>1. req'.pc \in {"drop", "idle"} BY ZenonT(60), <1>31, Fields DEF SwapUndo, SwapTo
    <2>2. job.pc = "idle" /\ pending BY <1>31 DEF SwapUndo, WrittenInv
    <2> QED BY <1>31, <2>1, <2>2, JobIdle DEF SwapUndo
  <1>32. CASE SwapDrop
    <2>1. req'.pc = "idle" BY <1>32, Fields DEF SwapDrop
    <2>2. job.pc = "idle" BY <1>32 DEF SwapDrop, WrittenInv
    <2> QED BY <1>32, <2>1, <2>2, JobIdle DEF SwapDrop
  <1>33. CASE TrialStart
    <2>1. job' = job /\ req' = req /\ pending' = pending BY <1>33 DEF TrialStart
    <2>2. CASE OnTrial
      <3>1. job.pc = "idle" /\ req.pc # "arm" BY <2>2 DEF LockInv
      <3>2. req.pc \in {"reboot", "undo", "drop"} => pending BY DEF WrittenInv
      <3> QED BY <2>1, <3>1, <3>2, JobIdle
    <2>3. CASE ~OnTrial BY <1>33, <2>3, WrittenKept DEF TrialStart
    <2> QED BY <2>2, <2>3
  <1>34. CASE TrialWait BY <1>34, WrittenKept DEF TrialWait
  <1>35. CASE TrialPostpone BY <1>35, WrittenKept DEF TrialPostpone
  <1>36. CASE TrialJudge BY <1>36, WrittenKept DEF TrialJudge
  <1>37. CASE TrialConfirm
    <2>1. tpc \in {"confirm", "record", "remove", "unlink"} /\ job' = job /\ req' = req
          /\ pending' = pending
      BY <1>37 DEF TrialConfirm
    <2>2. job.pc = "idle" /\ req.pc # "arm" BY <2>1 DEF LockInv
    <2>3. req.pc \in {"reboot", "undo", "drop"} => pending BY DEF WrittenInv
    <2> QED BY <2>1, <2>2, <2>3, JobIdle
  <1>38. CASE TrialUnlink
    <2>1. tpc \in {"confirm", "record", "remove", "unlink"} /\ job' = job /\ req' = req
          /\ pending' = pending
      BY <1>38 DEF TrialUnlink
    <2>2. job.pc = "idle" /\ req.pc # "arm" BY <2>1 DEF LockInv
    <2>3. req.pc \in {"reboot", "undo", "drop"} => pending BY DEF WrittenInv
    <2> QED BY <2>1, <2>2, <2>3, JobIdle
  <1>39. CASE TrialRecord BY <1>39, WrittenKept DEF TrialRecord
  <1>40. CASE TrialSwap BY <1>40, WrittenKept DEF TrialSwap
  <1>41. CASE TrialReboot BY <1>41, Halted, WrittenKept DEF TrialReboot
  <1>42. CASE SwapRequest BY <1>42, Fields, WrittenKept DEF SwapRequest, SwapTo
  <1>43. CASE Ack BY <1>43, WrittenKept DEF Ack
  <1>44. ASSUME NEW i \in Image, Install(i) PROVE WrittenInv'
    <2>1. job' = [pc |-> "check", img |-> i] /\ req' = req BY <1>44 DEF Install
    <2>2. req.pc # "arm" BY <1>44 DEF Install, LockFree, SwapHoldsLock
    <2>3. req.pc \notin {"reboot", "undo", "drop"}
      BY <1>44 DEF Install, RequestBusy, WrittenInv
    <2> QED BY <2>1, <2>2, <2>3 DEF WrittenInv
  <1>45. CASE UNCHANGED vars BY <1>45, WrittenKept DEF vars
  <1>46. CASE TrialBegins BY <1>46, WrittenKept DEF TrialBegins
  <1>47. CASE TrialStale BY <1>47, WrittenKept DEF TrialStale
  <1>48. CASE TrialDiscard
    <2>1. /\ job' = job /\ req' = req /\ pending' = pending /\ running' = running
          /\ slot' = slot /\ confirmed' = confirmed /\ tpc = "discard"
      BY <1>48 DEF TrialDiscard
    <2>2. AboutToSwitch /\ Backed => Backed' BY <1>48, <2>1 DEF TrialDiscard, Backed
    <2>3. job.pc = "swap" \/ req = TrialReq => AboutToSwitch BY DEF AboutToSwitch
    <2> HIDE DEF Backed
    <2> QED BY <2>1, <2>2, <2>3 DEF WrittenInv, target, Whole, SlotConfirmed, Bootable
  <1> QED
    BY <1>1, <1>2, <1>3, <1>4, <1>5, <1>6, <1>7, <1>8, <1>9, <1>10, <1>11, <1>12, <1>13,
       <1>14, <1>15, <1>16, <1>17, <1>18, <1>19, <1>20, <1>21, <1>22, <1>23, <1>24, <1>25,
       <1>26, <1>27, <1>28, <1>29, <1>30, <1>31, <1>32, <1>33, <1>34, <1>35, <1>36, <1>37,
       <1>38, <1>39, <1>40, <1>41, <1>42, <1>43, <1>44, <1>45, <1>46, <1>47, <1>48
       DEF Next, BootStep, Environment, JobStep, SwapStep, TrialStep

-----------------------------------------------------------------------------
(* What a stopped install leaves                                           *)

\* A TRIAL that is not of this boot waits for S99 to remove it; one that a job
\* or a switch writes in this boot goes with it, or with the reboot.
Open == {"swap", "stop2", "undo", "undone", "reboot"}
Unread == {"boot", "start", "stale", "discard"}
StaleInv ==
    power = "up" /\ trial # NoTrial =>
        \/ OnTrial \/ tpc \in Unread
        \/ job.pc \in Open
        \/ req.pc \in {"arm", "reboot"}

LEMMA StaleKept ==
  ASSUME StaleInv, power' = "up" => power = "up",
         trial' = trial \/ trial' = NoTrial, running' = running,
         tpc \in Unread => tpc' \in Unread \/ trial' = NoTrial,
         job' = job \/ job'.pc \in Open \/ job.pc \notin Open,
         req.pc \in {"arm", "reboot"} => req'.pc \in {"arm", "reboot"}
  PROVE  StaleInv'
  BY DEF StaleInv, OnTrial

LEMMA StaleGone == ASSUME power' # "up" \/ trial' = NoTrial PROVE StaleInv'
  BY DEF StaleInv

LEMMA StaleStep ==
  ASSUME CoreInv, QuietInv, MarkInv, StaleInv, Faults \subseteq {"cut", "freeze", "count"},
         [Next]_vars
  PROVE  StaleInv'
  <1>a. TypeOK /\ LockInv BY DEF CoreInv
  <1>b. \A k : Fault(k) => k \in {"cut", "freeze", "count"} BY DEF Fault
  <1> USE <1>a, <1>b DEF JobAt, JobFrame, StillUp, SwapAt, SwapFrame, TrialAt, TrialFrame, Verdict,
        SwapOk, SwapFails, durable
  <1>1. CASE PowerOn BY <1>1, StaleGone DEF PowerOn
  <1>2. CASE ArmWatchdog BY <1>2, StaleGone DEF ArmWatchdog
  <1>3. CASE BootDone BY <1>3 DEF BootDone, StaleInv, Unread
  <1>4. CASE PowerCut BY <1>4, StaleGone DEF PowerCut, Halt
  <1>5. CASE PowerCycle BY <1>5, StaleGone DEF PowerCycle, Halt
  <1>6. CASE Freeze BY <1>6, StaleGone DEF Freeze, Halt
  <1>7. CASE PrintStart BY <1>7, StaleKept DEF PrintStart
  <1>8. CASE PrintEnd BY <1>8, StaleKept DEF PrintEnd
  <1>9. CASE ForeignSwitch BY <1>9, StaleGone DEF ForeignSwitch, Halt
  <1>10. CASE JobKilled BY <1>10, StaleKept DEF JobKilled
  <1>11. CASE TrialKilled BY <1>11, StaleKept DEF TrialKilled, Unread
  <1>12. CASE PendingExpires BY <1>12, StaleKept DEF PendingExpires
  <1>13. CASE JobCheck BY <1>13, JobMoves, StaleKept DEF JobCheck, Open
  <1>14. CASE JobUnconfirm BY <1>14, JobMoves, StaleKept DEF JobUnconfirm, Open
  <1>15. CASE JobWriteKernel BY <1>15, JobMoves, StaleKept DEF JobWriteKernel, Open
  <1>16. CASE JobWriteRootfs BY <1>16, JobMoves, StaleKept DEF JobWriteRootfs, Open
  <1>17. CASE JobFails BY <1>17, JobMoves, StaleKept DEF JobFails, Open
  <1>18. CASE JobFailsLate BY <1>18, StaleKept DEF JobFailsLate
  <1>19. CASE JobStop1 BY <1>19, JobMoves, StaleKept DEF JobStop1, Open
  <1>20. CASE JobTrial
    <2>1. job'.pc = "swap" BY <1>20, JobMoves DEF JobTrial
    <2> QED BY <2>1 DEF StaleInv, Open
  <1>21. CASE JobSwap BY <1>21, JobMoves, StaleKept DEF JobSwap, Open
  <1>22. CASE JobStop2 BY <1>22, JobMoves, StaleKept DEF JobStop2, Open
  <1>23. CASE JobUndo BY <1>23, JobMoves, StaleKept DEF JobUndo, Open
  <1>24. CASE JobUndone BY <1>24, StaleGone DEF JobUndone
  <1>25. CASE JobClear BY <1>25, JobMoves, StaleKept DEF JobClear, Open
  <1>26. CASE JobReboot BY <1>26, StaleGone DEF JobReboot, Halt
  <1>27. CASE SwapLock BY <1>27, Fields, StaleKept DEF SwapLock
  <1>28. CASE SwapCheck
    <2>1. CASE trial' = trial BY <1>28, <2>1, Fields, StaleKept DEF SwapCheck, SwapTo
    <2>2. CASE req' = TrialReq BY <2>2, Fields DEF StaleInv
    <2> QED BY <1>28, <2>1, <2>2 DEF SwapCheck
  <1>29. CASE SwapArm
    <2>1. req' = [req EXCEPT !.pc = "reboot"] /\ trial' = trial BY <1>29 DEF SwapArm, SwapTo
    <2>2. req'.pc = "reboot" BY <2>1, Fields
    <2> QED BY <2>2 DEF StaleInv
  <1>30. CASE SwapReboot BY <1>30, StaleGone DEF SwapReboot, Halt
  <1>31. CASE SwapUndo BY <1>31 DEF SwapUndo, MarkInv
  <1>32. CASE SwapDrop BY <1>32 DEF SwapDrop, MarkInv
  <1>33. CASE TrialStart
    <2>1. CASE OnTrial /\ trial' = CountedTrial
      BY <1>33, <2>1, CountedFields DEF TrialStart, StaleInv, OnTrial
    <2>2. CASE ~OnTrial
      <3>1. trial' = NoTrial \/ tpc' = "stale" BY <1>33, <2>2 DEF TrialStart
      <3> QED BY <3>1 DEF StaleInv, Unread
    <2> QED BY <1>33, <2>1, <2>2 DEF TrialStart
  <1>34. CASE TrialWait BY <1>34, StaleKept DEF TrialWait, Unread
  <1>35. CASE TrialPostpone BY <1>35, StaleKept DEF TrialPostpone, Unread
  <1>36. CASE TrialJudge BY <1>36, StaleKept DEF TrialJudge, Unread
  <1>37. CASE TrialConfirm BY <1>37, StaleKept DEF TrialConfirm, Unread
  <1>38. CASE TrialUnlink BY <1>38, StaleGone DEF TrialUnlink
  <1>39. CASE TrialRecord BY <1>39, StaleKept DEF TrialRecord, Unread
  <1>40. CASE TrialSwap BY <1>40, StaleKept DEF TrialSwap, Unread
  <1>41. CASE TrialReboot BY <1>41, StaleGone DEF TrialReboot, Halt
  <1>42. CASE SwapRequest BY <1>42, Fields, StaleKept DEF SwapRequest, SwapTo
  <1>43. CASE Ack BY <1>43, StaleKept DEF Ack
  <1>44. ASSUME NEW i \in Image, Install(i) PROVE StaleInv'
    BY <1>44, StaleKept DEF Install, LockFree, JobHoldsLock, Open
  <1>45. CASE UNCHANGED vars BY <1>45, StaleKept DEF vars
  <1>46. CASE TrialBegins BY <1>46, StaleKept DEF TrialBegins, Unread
  <1>47. CASE TrialStale BY <1>47, StaleKept DEF TrialStale, Unread
  <1>48. CASE TrialDiscard BY <1>48, StaleGone DEF TrialDiscard
  <1> QED
    BY <1>1, <1>2, <1>3, <1>4, <1>5, <1>6, <1>7, <1>8, <1>9, <1>10, <1>11, <1>12, <1>13,
       <1>14, <1>15, <1>16, <1>17, <1>18, <1>19, <1>20, <1>21, <1>22, <1>23, <1>24, <1>25,
       <1>26, <1>27, <1>28, <1>29, <1>30, <1>31, <1>32, <1>33, <1>34, <1>35, <1>36, <1>37,
       <1>38, <1>39, <1>40, <1>41, <1>42, <1>43, <1>44, <1>45, <1>46, <1>47, <1>48
       DEF Next, BootStep, Environment, JobStep, SwapStep, TrialStep

\* Only the two stop points end in "stopped".
LEMMA Stops ==
  ASSUME TypeOK, [Next]_vars, status' = "stopped", status # "stopped"
  PROVE  (JobStop1 \/ JobClear) /\ JobEnds("stopped")
  <1> USE DEF JobFrame, SwapFrame, TrialFrame
  <1>1. CASE PowerOn BY <1>1 DEF PowerOn
  <1>2. CASE ArmWatchdog BY <1>2 DEF ArmWatchdog
  <1>3. CASE BootDone BY <1>3 DEF BootDone
  <1>4. CASE PowerCut BY <1>4 DEF PowerCut, Halt
  <1>5. CASE PowerCycle BY <1>5 DEF PowerCycle, Halt
  <1>6. CASE Freeze BY <1>6 DEF Freeze, Halt
  <1>7. CASE PrintStart BY <1>7 DEF PrintStart
  <1>8. CASE PrintEnd BY <1>8 DEF PrintEnd
  <1>9. CASE ForeignSwitch BY <1>9 DEF ForeignSwitch, Halt
  <1>10. CASE JobKilled BY <1>10 DEF JobKilled, JobTo, JobEnds
  <1>11. CASE TrialKilled BY <1>11 DEF TrialKilled
  <1>12. CASE PendingExpires BY <1>12 DEF PendingExpires
  <1>13. CASE JobCheck BY <1>13 DEF JobCheck, JobTo, JobEnds
  <1>14. CASE JobUnconfirm BY <1>14 DEF JobUnconfirm, JobTo, JobEnds
  <1>15. CASE JobWriteKernel BY <1>15 DEF JobWriteKernel, JobTo, JobEnds
  <1>16. CASE JobWriteRootfs BY <1>16 DEF JobWriteRootfs, JobTo, JobEnds
  <1>17. CASE JobFails BY <1>17 DEF JobFails, JobTo, JobEnds
  <1>18. CASE JobFailsLate BY <1>18 DEF JobFailsLate, JobTo, JobEnds
  <1>19. CASE JobStop1 BY <1>19 DEF JobStop1, JobTo
  <1>20. CASE JobTrial BY <1>20 DEF JobTrial, JobTo, JobEnds
  <1>21. CASE JobSwap BY <1>21 DEF JobSwap, JobTo, JobEnds
  <1>22. CASE JobStop2 BY <1>22 DEF JobStop2, JobTo, JobEnds
  <1>23. CASE JobUndo BY <1>23 DEF JobUndo, JobTo, JobEnds
  <1>24. CASE JobUndone BY <1>24 DEF JobUndone, JobTo, JobEnds
  <1>25. CASE JobClear BY <1>25 DEF JobClear
  <1>26. CASE JobReboot BY <1>26 DEF JobReboot, Halt, JobEnds
  <1>27. CASE SwapLock BY <1>27 DEF SwapLock
  <1>28. CASE SwapCheck BY <1>28 DEF SwapCheck
  <1>29. CASE SwapArm BY <1>29 DEF SwapArm
  <1>30. CASE SwapReboot BY <1>30 DEF SwapReboot, Halt
  <1>31. CASE SwapUndo BY <1>31 DEF SwapUndo
  <1>32. CASE SwapDrop BY <1>32 DEF SwapDrop
  <1>33. CASE TrialStart BY <1>33 DEF TrialStart
  <1>34. CASE TrialWait BY <1>34 DEF TrialWait
  <1>35. CASE TrialPostpone BY <1>35 DEF TrialPostpone
  <1>36. CASE TrialJudge BY <1>36 DEF TrialJudge
  <1>37. CASE TrialConfirm BY <1>37 DEF TrialConfirm
  <1>38. CASE TrialUnlink BY <1>38 DEF TrialUnlink
  <1>39. CASE TrialRecord BY <1>39 DEF TrialRecord
  <1>40. CASE TrialSwap BY <1>40 DEF TrialSwap
  <1>41. CASE TrialReboot BY <1>41 DEF TrialReboot, Halt
  <1>42. CASE SwapRequest BY <1>42 DEF SwapRequest
  <1>43. CASE Ack BY <1>43 DEF Ack
  <1>44. ASSUME NEW i \in Image, Install(i) PROVE (JobStop1 \/ JobClear) /\ JobEnds("stopped")
    BY <1>44 DEF Install
  <1>45. CASE UNCHANGED vars BY <1>45 DEF vars
  <1>46. CASE TrialBegins BY <1>46 DEF TrialBegins
  <1>47. CASE TrialStale BY <1>47 DEF TrialStale
  <1>48. CASE TrialDiscard BY <1>48 DEF TrialDiscard
  <1> QED
    BY <1>1, <1>2, <1>3, <1>4, <1>5, <1>6, <1>7, <1>8, <1>9, <1>10, <1>11, <1>12, <1>13,
       <1>14, <1>15, <1>16, <1>17, <1>18, <1>19, <1>20, <1>21, <1>22, <1>23, <1>24, <1>25,
       <1>26, <1>27, <1>28, <1>29, <1>30, <1>31, <1>32, <1>33, <1>34, <1>35, <1>36, <1>37,
       <1>38, <1>39, <1>40, <1>41, <1>42, <1>43, <1>44, <1>45, <1>46, <1>47, <1>48
       DEF Next, BootStep, Environment, JobStep, SwapStep, TrialStep

-----------------------------------------------------------------------------
(* The theorems                                                            *)

\* The update implements FallbackPromise: a slot on trial has a whole system to
\* go back to, and a started trial is not replaced before its verdict.
THEOREM PromiseKept == Spec => KeepsThePromise
  <1>1. Init => P!PromiseInit
    BY DEF Init, P!PromiseInit, OfferOfTrial, StartsOfTrial
  <1>2. IInv /\ [Next]_vars => [P!PromiseNext]_(P!pvars)
    BY PromiseStep DEF IInv
  <1> QED BY <1>1, <1>2, Invariant, PTL DEF Spec, KeepsThePromise, P!PromiseSpec

LEMMA Written == Spec => [](IInv /\ WrittenInv)
  <1>1. Init => WrittenInv BY DEF Init, WrittenInv, NoJob, NoReq
  <1>2. IInv /\ WrittenInv /\ [Next]_vars => WrittenInv'
    <2> SUFFICES ASSUME IInv, WrittenInv, [Next]_vars PROVE WrittenInv' OBVIOUS
    <2>1. TypeOK' BY TypeStep DEF IInv, CoreInv
    <2> QED BY <2>1, WrittenStep DEF IInv
  <1> QED BY <1>1, <1>2, Invariant, PTL DEF Spec

\* An install selects only a slot that was written to the end and verified.
THEOREM InstallWhole == Spec => InstallSelectsWhole
  <1>1. WrittenInv => (JobSwap => Whole(target)) BY DEF WrittenInv, JobSwap, JobAt
  <1> QED BY <1>1, Written, PTL DEF InstallSelectsWhole

\* An install or a switch that selects an unconfirmed NebulaOS slot leaves a
\* TRIAL for it that leads back to the running one - unless S99 was about to
\* remove an older TRIAL and took the new one (it holds no lock).
THEOREM SwitchTried == Spec => SwitchIsOnTrial
  <1> DEFINE A == (JobSwap \/ SwapArm) /\ marker' # running
                    => \/ slot[marker'].img \in Creality
                       \/ SlotConfirmed(marker')
                       \/ trial # NoTrial /\ trial.from = running /\ trial.to = marker'
                       \/ tpc = "took" /\ trial = NoTrial
  <1>1. IInv /\ WrittenInv => A
    <2> SUFFICES ASSUME IInv, WrittenInv, JobSwap \/ SwapArm, marker' # running
                 PROVE  \/ slot[marker'].img \in Creality
                        \/ SlotConfirmed(marker')
                        \/ trial # NoTrial /\ trial.from = running /\ trial.to = marker'
                        \/ tpc = "took" /\ trial = NoTrial
      OBVIOUS
    <2>a. TypeOK BY DEF IInv, CoreInv
    <2>1. marker' = target
      BY <2>a, Targets, SlotWrites DEF JobSwap, SwapArm, SwapOk, SwapFails, TypeOK
    <2>2. CASE JobSwap BY <2>1, <2>2 DEF JobSwap, JobAt, WrittenInv, Backed
    <2>3. CASE SwapArm BY <2>1, <2>3 DEF SwapArm, SwapAt, WrittenInv, Backed
    <2> QED BY <2>2, <2>3
  <1> QED BY <1>1, Written, PTL DEF SwitchIsOnTrial

\* An install that a print stops leaves the running system selected, no TRIAL of
\* its own and the written slot blank, as long as nothing but power cuts, freezes
\* and uncounted starts happens.
THEOREM StoppedUndone ==
  ASSUME Faults \subseteq {"cut", "freeze", "count"}
  PROVE  Spec => StoppedInstallIsUndone
  <1>1. Init => MarkInv /\ StaleInv BY DEF Init, MarkInv, StaleInv, NoReq
  <1>2. IInv /\ MarkInv /\ StaleInv /\ [Next]_vars => MarkInv' /\ StaleInv'
    <2> SUFFICES ASSUME IInv, MarkInv, StaleInv, [Next]_vars PROVE MarkInv' /\ StaleInv' OBVIOUS
    <2>1. TypeOK' BY TypeStep DEF IInv, CoreInv
    <2> QED BY <2>1, MarkStep, StaleStep DEF IInv
  <1>3. IInv /\ MarkInv /\ StaleInv /\ [Next]_vars
          => (status' = "stopped" /\ status # "stopped" /\ tpc # "reboot" => Undone')
    <2> SUFFICES ASSUME IInv, MarkInv, StaleInv, [Next]_vars,
                        status' = "stopped", status # "stopped", tpc # "reboot"
                 PROVE  Undone'
      OBVIOUS
    <2>a. TypeOK /\ LockInv BY DEF IInv, CoreInv
    <2>b. JobStop1 \/ JobClear BY <2>a, Stops
    <2>c. JobEnds("stopped") BY <2>a, Stops
    <2>1. job.pc \in {"stop1", "clear"} /\ power = "up"
          /\ running' = running /\ marker' = marker /\ trial' = trial /\ tpc' = tpc
      BY <2>b DEF JobStop1, JobClear, JobAt, JobFrame
    <2>2. req.pc \notin {"arm", "reboot"} /\ ~OnTrial
      BY <2>a, <2>1 DEF LockInv, SwapHoldsLock, MarkInv
    <2>3. marker = running BY <2>1, <2>2 DEF MarkInv
    <2>4. trial = NoTrial \/ tpc \in Unread BY <2>1, <2>2 DEF StaleInv, Open
    <2>5. Blank(target)
      <3>1. CASE JobClear BY <3>1 DEF JobClear
      <3>2. CASE JobStop1
        <4>1. ~JobTo("trial") BY <2>c, <2>a, JobMoves
        <4> QED BY <3>2, <4>1 DEF JobStop1
      <3> QED BY <2>b, <3>1, <3>2
    <2>6. slot'[target] = Blanked
      <3>1. ~Fault("io") BY DEF Fault
      <3> QED BY <2>a, <2>5, <3>1, SlotWrites DEF Blank
    <2> QED BY <2>1, <2>3, <2>4, <2>6 DEF Undone, Bootable, Blanked, target, Unread
  <1> QED BY <1>1, <1>2, <1>3, Invariant, PTL DEF Spec, StoppedInstallIsUndone

=============================================================================
