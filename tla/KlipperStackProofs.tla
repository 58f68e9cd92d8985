------------------------ MODULE KlipperStackProofs ------------------------
(***************************************************************************)
(* The record and the lock of the Klipper stack keep what they promise for *)
(* any commits, any images and any number of faults.                       *)
(***************************************************************************)
EXTENDS KlipperStackRefines, TLAPS

\* The program reads the record only where there is one.
HasRecord ==
    pc \in {"settle", "unlock"} \cup Judging \cup Undoing \cup Falling => rec # NoRecord

LEMMA Written ==
  ASSUME TypeOK
  PROVE  \A known, seen \in Pairs, state \in States : Write(known, seen, state) =>
           /\ rec' \in Records /\ rec' # NoRecord
           /\ rec'.kg = known /\ rec'.seen = seen /\ rec'.state = state /\ rec'.gen = gen
  <1> SUFFICES ASSUME NEW known \in Pairs, NEW seen \in Pairs, NEW state \in States,
                      Write(known, seen, state)
               PROVE  /\ rec' \in Records /\ rec' # NoRecord
                      /\ rec'.kg = known /\ rec'.seen = seen
                      /\ rec'.state = state /\ rec'.gen = gen
    OBVIOUS
  <1>1. rec' \in Records BY DEF TypeOK, WorldOK, Records, Write
  <1> QED BY <1>1, ConstantsAssumption DEF Write

LEMMA RecordTypes ==
  ASSUME TypeOK, rec # NoRecord
  PROVE  rec.kg \in Pairs /\ rec.seen \in Pairs /\ rec.state \in States /\ rec.gen \in Images
  BY DEF TypeOK, Records

LEMMA HeadTypes ==
  ASSUME TypeOK
  PROVE  /\ \A k \in Klippers : [heads EXCEPT !.k = k] \in Pairs
         /\ \A e \in Extensions : [heads EXCEPT !.e = e] \in Pairs
         /\ heads \in Pairs /\ heads.k \in Klippers /\ heads.e \in Extensions
         /\ \A i \in Images :
              Seed[i] \in Pairs /\ Seed[i].k \in Klippers /\ Seed[i].e \in Extensions
         /\ rec # NoRecord => rec.kg.k \in Klippers /\ rec.kg.e \in Extensions
         /\ OnDisk \in Pairs \cup {Immutable}
  BY RecordTypes, ConstantsAssumption DEF TypeOK, WorldOK, Pairs, OnDisk

\* The budget.

LEMMA SpentMore ==
  ASSUME SpentOK
  PROVE  /\ \A kind \in Kinds : Spend(kind) => SpentOK'
         /\ \A kind \in Kinds : \A ok : Maybe(kind, ok) => SpentOK'
         /\ UNCHANGED spent => SpentOK'
  <1>1. ASSUME NEW kind \in Kinds, Spend(kind) PROVE SpentOK'
    <2>1. spent \in [Kinds -> Nat] /\ Budget \in [Kinds -> Nat]
      BY ConstantsAssumption DEF SpentOK
    <2>2. spent' = [spent EXCEPT ![kind] = spent[kind] + 1] /\ spent[kind] < Budget[kind]
      BY <1>1 DEF Spend
    <2>3. spent' \in [Kinds -> Nat] BY <2>1, <2>2
    <2>4. \A x \in Kinds : spent'[x] <= Budget[x] BY <2>1, <2>2 DEF SpentOK
    <2> QED BY <2>3, <2>4 DEF SpentOK
  <1>2. UNCHANGED spent => SpentOK' BY DEF SpentOK
  <1> QED BY <1>1, <1>2 DEF Maybe

LEMMA SpentStep == ASSUME SpentOK, [Next]_vars PROVE SpentOK'
  <1> USE SpentMore
  <1>0. {"cut", "update", "image", "swap", "env", "refuse", "reset", "print"} = Kinds BY DEF Kinds
  <1>1. CASE PowerOn BY <1>0, <1>1 DEF PowerOn
  <1>2. CASE PowerCut BY <1>0, <1>2 DEF PowerCut
  <1>3. CASE PrintStart BY <1>0, <1>3 DEF PrintStart
  <1>4. CASE PrintEnd BY <1>0, <1>4 DEF PrintEnd
  <1>5. CASE MoonrakerUpdate BY <1>0, <1>5 DEF MoonrakerUpdate
  <1>6. CASE MoonrakerRestart BY <1>0, <1>6 DEF MoonrakerRestart
  <1>7. CASE Gate BY <1>0, <1>7 DEF Gate
  <1>8. CASE SeedKlipper BY <1>0, <1>8 DEF SeedKlipper
  <1>9. CASE SeedExtensions BY <1>0, <1>9 DEF SeedExtensions
  <1>10. CASE RecordGeneration BY <1>0, <1>10 DEF RecordGeneration
  <1>11. CASE Activate BY <1>0, <1>11 DEF Activate
  <1>12. CASE Reconcile BY <1>0, <1>12 DEF Reconcile
  <1>13. CASE Unlock BY <1>0, <1>13 DEF Unlock
  <1>14. CASE Bootstrap BY <1>0, <1>14 DEF Bootstrap
  <1>15. CASE PollNothing BY <1>0, <1>15 DEF PollNothing
  <1>16. CASE PollPending BY <1>0, <1>16 DEF PollPending
  <1>17. CASE PollChange BY <1>0, <1>17 DEF PollChange
  <1>18. CASE Settle BY <1>0, <1>18 DEF Settle
  <1>19. CASE Wake BY <1>0, <1>19 DEF Wake
  <1>20. CASE TakeLock BY <1>0, <1>20 DEF TakeLock
  <1>21. CASE MarkValidating BY <1>0, <1>21 DEF MarkValidating
  <1>22. CASE PreCheck BY <1>0, <1>22 DEF PreCheck
  <1>23. CASE RestartRefused("restart", "defer") BY <1>0, <1>23 DEF RestartRefused
  <1>24. CASE RestartAllowed("restart", "stop") BY <1>0, <1>24 DEF RestartAllowed
  <1>25. CASE Restart("stop", "judge") BY <1>0, <1>25 DEF Restart
  <1>26. CASE JudgeHealthy BY <1>0, <1>26 DEF JudgeHealthy
  <1>27. CASE JudgeFailed BY <1>0, <1>27 DEF JudgeFailed
  <1>28. CASE JudgePrint BY <1>0, <1>28 DEF JudgePrint
  <1>29. CASE DeferValidation BY <1>0, <1>29 DEF DeferValidation
  <1>30. CASE RollBack BY <1>0, <1>30 DEF RollBack
  <1>31. CASE ResetKlipper BY <1>0, <1>31 DEF ResetKlipper
  <1>32. CASE ResetExtensions BY <1>0, <1>32 DEF ResetExtensions
  <1>33. CASE Recompose BY <1>0, <1>33 DEF Recompose
  <1>34. CASE RestartRefused("again", "pend") BY <1>0, <1>34 DEF RestartRefused
  <1>35. CASE RestartAllowed("again", "restop") BY <1>0, <1>35 DEF RestartAllowed
  <1>36. CASE Restart("restop", "rejudge") BY <1>0, <1>36 DEF Restart
  <1>37. CASE RejudgeHealthy BY <1>0, <1>37 DEF RejudgeHealthy
  <1>38. CASE RejudgeFailed BY <1>0, <1>38 DEF RejudgeFailed
  <1>39. CASE RejudgePrint BY <1>0, <1>39 DEF RejudgePrint
  <1>40. CASE RollbackPending BY <1>0, <1>40 DEF RollbackPending
  <1>41. CASE FallBack BY <1>0, <1>41 DEF FallBack
  <1>42. CASE Unmount BY <1>0, <1>42 DEF Unmount
  <1>43. CASE FallenBack BY <1>0, <1>43 DEF FallenBack
  <1>44. CASE UNCHANGED vars BY <1>44 DEF vars, disk
  <1> QED
    BY <1>1, <1>2, <1>3, <1>4, <1>5, <1>6, <1>7, <1>8, <1>9, <1>10, <1>11, <1>12, <1>13,
       <1>14, <1>15, <1>16, <1>17, <1>18, <1>19, <1>20, <1>21, <1>22, <1>23, <1>24, <1>25,
       <1>26, <1>27, <1>28, <1>29, <1>30, <1>31, <1>32, <1>33, <1>34, <1>35, <1>36, <1>37,
       <1>38, <1>39, <1>40, <1>41, <1>42, <1>43, <1>44
       DEF Next, Outside, Boot, Poll, Validate, Undo
\* The flags.

LEMMA FlagsStep == ASSUME FlagsOK, [Next]_vars PROVE FlagsOK'
  <1> USE DEF FlagsOK, disk
  <1>1. CASE PowerOn BY Zenon, <1>1 DEF PowerOn
  <1>2. CASE PowerCut BY Zenon, <1>2 DEF PowerCut
  <1>3. CASE PrintStart BY Zenon, <1>3 DEF PrintStart
  <1>4. CASE PrintEnd BY Zenon, <1>4 DEF PrintEnd
  <1>5. CASE MoonrakerUpdate BY Zenon, <1>5 DEF MoonrakerUpdate
  <1>6. CASE MoonrakerRestart BY Zenon, <1>6 DEF MoonrakerRestart
  <1>7. CASE Gate BY Zenon, <1>7 DEF Gate
  <1>8. CASE SeedKlipper BY Zenon, <1>8 DEF SeedKlipper
  <1>9. CASE SeedExtensions BY Zenon, <1>9 DEF SeedExtensions
  <1>10. CASE RecordGeneration BY Zenon, <1>10 DEF RecordGeneration
  <1>11. CASE Activate BY Zenon, <1>11 DEF Activate
  <1>12. CASE Reconcile BY Zenon, <1>12 DEF Reconcile
  <1>13. CASE Unlock BY Zenon, <1>13 DEF Unlock
  <1>14. CASE Bootstrap BY Zenon, <1>14 DEF Bootstrap
  <1>15. CASE PollNothing BY Zenon, <1>15 DEF PollNothing
  <1>16. CASE PollPending BY Zenon, <1>16 DEF PollPending
  <1>17. CASE PollChange BY Zenon, <1>17 DEF PollChange
  <1>18. CASE Settle BY Zenon, <1>18 DEF Settle
  <1>19. CASE Wake BY Zenon, <1>19 DEF Wake
  <1>20. CASE TakeLock BY Zenon, <1>20 DEF TakeLock
  <1>21. CASE MarkValidating BY Zenon, <1>21 DEF MarkValidating
  <1>22. CASE PreCheck BY Zenon, <1>22 DEF PreCheck
  <1>23. CASE RestartRefused("restart", "defer") BY Zenon, <1>23 DEF RestartRefused
  <1>24. CASE RestartAllowed("restart", "stop") BY Zenon, <1>24 DEF RestartAllowed
  <1>25. CASE Restart("stop", "judge") BY Zenon, <1>25 DEF Restart
  <1>26. CASE JudgeHealthy BY Zenon, <1>26 DEF JudgeHealthy
  <1>27. CASE JudgeFailed BY Zenon, <1>27 DEF JudgeFailed
  <1>28. CASE JudgePrint BY Zenon, <1>28 DEF JudgePrint
  <1>29. CASE DeferValidation BY Zenon, <1>29 DEF DeferValidation
  <1>30. CASE RollBack BY Zenon, <1>30 DEF RollBack
  <1>31. CASE ResetKlipper BY Zenon, <1>31 DEF ResetKlipper
  <1>32. CASE ResetExtensions BY Zenon, <1>32 DEF ResetExtensions
  <1>33. CASE Recompose BY Zenon, <1>33 DEF Recompose
  <1>34. CASE RestartRefused("again", "pend") BY Zenon, <1>34 DEF RestartRefused
  <1>35. CASE RestartAllowed("again", "restop") BY Zenon, <1>35 DEF RestartAllowed
  <1>36. CASE Restart("restop", "rejudge") BY Zenon, <1>36 DEF Restart
  <1>37. CASE RejudgeHealthy BY Zenon, <1>37 DEF RejudgeHealthy
  <1>38. CASE RejudgeFailed BY Zenon, <1>38 DEF RejudgeFailed
  <1>39. CASE RejudgePrint BY Zenon, <1>39 DEF RejudgePrint
  <1>40. CASE RollbackPending BY Zenon, <1>40 DEF RollbackPending
  <1>41. CASE FallBack BY Zenon, <1>41 DEF FallBack
  <1>42. CASE Unmount BY Zenon, <1>42 DEF Unmount
  <1>43. CASE FallenBack BY Zenon, <1>43 DEF FallenBack
  <1>44. CASE UNCHANGED vars BY Zenon, <1>44 DEF vars, disk
  <1> QED
    BY <1>1, <1>2, <1>3, <1>4, <1>5, <1>6, <1>7, <1>8, <1>9, <1>10, <1>11, <1>12, <1>13,
       <1>14, <1>15, <1>16, <1>17, <1>18, <1>19, <1>20, <1>21, <1>22, <1>23, <1>24, <1>25,
       <1>26, <1>27, <1>28, <1>29, <1>30, <1>31, <1>32, <1>33, <1>34, <1>35, <1>36, <1>37,
       <1>38, <1>39, <1>40, <1>41, <1>42, <1>43, <1>44
       DEF Next, Outside, Boot, Poll, Validate, Undo
\* The line the program is at.

LEMMA PcStep == ASSUME pc \in PCs, [Next]_vars PROVE pc' \in PCs
  <1> USE DEF PCs, Booting, Migrating, Looping, Judging, Undoing, Falling, Goto
  <1>1. CASE PowerOn BY <1>1 DEF PowerOn
  <1>2. CASE PowerCut BY <1>2 DEF PowerCut
  <1>3. CASE PrintStart BY <1>3 DEF PrintStart
  <1>4. CASE PrintEnd BY <1>4 DEF PrintEnd
  <1>5. CASE MoonrakerUpdate BY <1>5 DEF MoonrakerUpdate
  <1>6. CASE MoonrakerRestart BY <1>6 DEF MoonrakerRestart
  <1>7. CASE Gate BY <1>7 DEF Gate
  <1>8. CASE SeedKlipper BY <1>8 DEF SeedKlipper
  <1>9. CASE SeedExtensions BY <1>9 DEF SeedExtensions
  <1>10. CASE RecordGeneration BY <1>10 DEF RecordGeneration
  <1>11. CASE Activate BY <1>11 DEF Activate
  <1>12. CASE Reconcile BY <1>12 DEF Reconcile
  <1>13. CASE Unlock BY <1>13 DEF Unlock
  <1>14. CASE Bootstrap BY <1>14 DEF Bootstrap
  <1>15. CASE PollNothing BY <1>15 DEF PollNothing
  <1>16. CASE PollPending BY <1>16 DEF PollPending
  <1>17. CASE PollChange BY <1>17 DEF PollChange
  <1>18. CASE Settle BY <1>18 DEF Settle
  <1>19. CASE Wake BY <1>19 DEF Wake
  <1>20. CASE TakeLock BY <1>20 DEF TakeLock
  <1>21. CASE MarkValidating BY <1>21 DEF MarkValidating
  <1>22. CASE PreCheck BY <1>22 DEF PreCheck
  <1>23. CASE RestartRefused("restart", "defer") BY <1>23 DEF RestartRefused
  <1>24. CASE RestartAllowed("restart", "stop") BY <1>24 DEF RestartAllowed
  <1>25. CASE Restart("stop", "judge") BY <1>25 DEF Restart
  <1>26. CASE JudgeHealthy BY <1>26 DEF JudgeHealthy
  <1>27. CASE JudgeFailed BY <1>27 DEF JudgeFailed
  <1>28. CASE JudgePrint BY <1>28 DEF JudgePrint
  <1>29. CASE DeferValidation BY <1>29 DEF DeferValidation
  <1>30. CASE RollBack BY <1>30 DEF RollBack
  <1>31. CASE ResetKlipper BY <1>31 DEF ResetKlipper
  <1>32. CASE ResetExtensions BY <1>32 DEF ResetExtensions
  <1>33. CASE Recompose BY <1>33 DEF Recompose
  <1>34. CASE RestartRefused("again", "pend") BY <1>34 DEF RestartRefused
  <1>35. CASE RestartAllowed("again", "restop") BY <1>35 DEF RestartAllowed
  <1>36. CASE Restart("restop", "rejudge") BY <1>36 DEF Restart
  <1>37. CASE RejudgeHealthy BY <1>37 DEF RejudgeHealthy
  <1>38. CASE RejudgeFailed BY <1>38 DEF RejudgeFailed
  <1>39. CASE RejudgePrint BY <1>39 DEF RejudgePrint
  <1>40. CASE RollbackPending BY <1>40 DEF RollbackPending
  <1>41. CASE FallBack BY <1>41 DEF FallBack
  <1>42. CASE Unmount BY <1>42 DEF Unmount
  <1>43. CASE FallenBack BY <1>43 DEF FallenBack
  <1>44. CASE UNCHANGED vars BY <1>44 DEF vars, disk
  <1> QED
    BY <1>1, <1>2, <1>3, <1>4, <1>5, <1>6, <1>7, <1>8, <1>9, <1>10, <1>11, <1>12, <1>13,
       <1>14, <1>15, <1>16, <1>17, <1>18, <1>19, <1>20, <1>21, <1>22, <1>23, <1>24, <1>25,
       <1>26, <1>27, <1>28, <1>29, <1>30, <1>31, <1>32, <1>33, <1>34, <1>35, <1>36, <1>37,
       <1>38, <1>39, <1>40, <1>41, <1>42, <1>43, <1>44
       DEF Next, Outside, Boot, Poll, Validate, Undo
\* What is on disk and what runs.

LEMMA WorldStep == ASSUME TypeOK, HasRecord, [Next]_vars PROVE WorldOK'
  <1>0. WorldOK BY DEF TypeOK
  <1> USE <1>0, HeadTypes DEF WorldOK, disk
  <1>1. CASE PowerOn BY <1>1 DEF PowerOn
  <1>2. CASE PowerCut BY <1>2 DEF PowerCut
  <1>3. CASE PrintStart BY <1>3 DEF PrintStart
  <1>4. CASE PrintEnd BY <1>4 DEF PrintEnd
  <1>5. CASE MoonrakerUpdate BY <1>5 DEF MoonrakerUpdate
  <1>6. CASE MoonrakerRestart BY <1>6 DEF MoonrakerRestart
  <1>7. CASE Gate BY <1>7 DEF Gate
  <1>8. CASE SeedKlipper BY <1>8 DEF SeedKlipper
  <1>9. CASE SeedExtensions BY <1>9 DEF SeedExtensions
  <1>10. CASE RecordGeneration BY <1>10 DEF RecordGeneration
  <1>11. CASE Activate BY <1>11 DEF Activate
  <1>12. CASE Reconcile BY <1>12 DEF Reconcile
  <1>13. CASE Unlock BY <1>13 DEF Unlock
  <1>14. CASE Bootstrap BY <1>14 DEF Bootstrap
  <1>15. CASE PollNothing BY <1>15 DEF PollNothing
  <1>16. CASE PollPending BY <1>16 DEF PollPending
  <1>17. CASE PollChange BY <1>17 DEF PollChange
  <1>18. CASE Settle BY <1>18 DEF Settle
  <1>19. CASE Wake BY <1>19 DEF Wake
  <1>20. CASE TakeLock BY <1>20 DEF TakeLock
  <1>21. CASE MarkValidating BY <1>21 DEF MarkValidating
  <1>22. CASE PreCheck BY <1>22 DEF PreCheck
  <1>23. CASE RestartRefused("restart", "defer") BY <1>23 DEF RestartRefused
  <1>24. CASE RestartAllowed("restart", "stop") BY <1>24 DEF RestartAllowed
  <1>25. CASE Restart("stop", "judge") BY <1>25 DEF Restart
  <1>26. CASE JudgeHealthy BY <1>26 DEF JudgeHealthy
  <1>27. CASE JudgeFailed BY <1>27 DEF JudgeFailed
  <1>28. CASE JudgePrint BY <1>28 DEF JudgePrint
  <1>29. CASE DeferValidation BY <1>29 DEF DeferValidation
  <1>30. CASE RollBack BY <1>30 DEF RollBack
  <1>31. CASE ResetKlipper BY <1>31 DEF ResetKlipper, HasRecord, Undoing
  <1>32. CASE ResetExtensions BY <1>32 DEF ResetExtensions, HasRecord, Undoing
  <1>33. CASE Recompose BY <1>33 DEF Recompose
  <1>34. CASE RestartRefused("again", "pend") BY <1>34 DEF RestartRefused
  <1>35. CASE RestartAllowed("again", "restop") BY <1>35 DEF RestartAllowed
  <1>36. CASE Restart("restop", "rejudge") BY <1>36 DEF Restart
  <1>37. CASE RejudgeHealthy BY <1>37 DEF RejudgeHealthy
  <1>38. CASE RejudgeFailed BY <1>38 DEF RejudgeFailed
  <1>39. CASE RejudgePrint BY <1>39 DEF RejudgePrint
  <1>40. CASE RollbackPending BY <1>40 DEF RollbackPending
  <1>41. CASE FallBack BY <1>41 DEF FallBack
  <1>42. CASE Unmount BY <1>42 DEF Unmount
  <1>43. CASE FallenBack BY <1>43 DEF FallenBack
  <1>44. CASE UNCHANGED vars BY <1>44 DEF vars, disk
  <1> QED
    BY <1>1, <1>2, <1>3, <1>4, <1>5, <1>6, <1>7, <1>8, <1>9, <1>10, <1>11, <1>12, <1>13,
       <1>14, <1>15, <1>16, <1>17, <1>18, <1>19, <1>20, <1>21, <1>22, <1>23, <1>24, <1>25,
       <1>26, <1>27, <1>28, <1>29, <1>30, <1>31, <1>32, <1>33, <1>34, <1>35, <1>36, <1>37,
       <1>38, <1>39, <1>40, <1>41, <1>42, <1>43, <1>44
       DEF Next, Outside, Boot, Poll, Validate, Undo
\* The record.

LEMMA RecordStep == ASSUME TypeOK, HasRecord, [Next]_vars PROVE rec' \in Records \cup {NoRecord}
  <1>0. rec \in Records \cup {NoRecord} BY DEF TypeOK
  <1> USE <1>0, Written, RecordTypes, HeadTypes DEF disk
  <1>1. CASE PowerOn BY <1>1 DEF PowerOn
  <1>2. CASE PowerCut BY <1>2 DEF PowerCut
  <1>3. CASE PrintStart BY <1>3 DEF PrintStart
  <1>4. CASE PrintEnd BY <1>4 DEF PrintEnd
  <1>5. CASE MoonrakerUpdate BY <1>5 DEF MoonrakerUpdate
  <1>6. CASE MoonrakerRestart BY <1>6 DEF MoonrakerRestart
  <1>7. CASE Gate BY <1>7 DEF Gate
  <1>8. CASE SeedKlipper BY <1>8 DEF SeedKlipper
  <1>9. CASE SeedExtensions BY <1>9 DEF SeedExtensions
  <1>10. CASE RecordGeneration BY <1>10 DEF RecordGeneration
  <1>11. CASE Activate BY <1>11 DEF Activate
  <1>12. CASE Reconcile BY <1>12 DEF Reconcile, States, HasRecord, Judging, Undoing, Falling, TypeOK, WorldOK
  <1>13. CASE Unlock BY <1>13 DEF Unlock
  <1>14. CASE Bootstrap BY <1>14 DEF Bootstrap, States, HasRecord, Judging, Undoing, Falling, TypeOK, WorldOK
  <1>15. CASE PollNothing BY <1>15 DEF PollNothing
  <1>16. CASE PollPending BY <1>16 DEF PollPending
  <1>17. CASE PollChange BY <1>17 DEF PollChange
  <1>18. CASE Settle BY <1>18 DEF Settle
  <1>19. CASE Wake BY <1>19 DEF Wake
  <1>20. CASE TakeLock BY <1>20 DEF TakeLock
  <1>21. CASE MarkValidating BY <1>21 DEF MarkValidating, States, HasRecord, Judging, Undoing, Falling, TypeOK, WorldOK
  <1>22. CASE PreCheck BY <1>22 DEF PreCheck
  <1>23. CASE RestartRefused("restart", "defer") BY <1>23 DEF RestartRefused
  <1>24. CASE RestartAllowed("restart", "stop") BY <1>24 DEF RestartAllowed
  <1>25. CASE Restart("stop", "judge") BY <1>25 DEF Restart
  <1>26. CASE JudgeHealthy BY <1>26 DEF JudgeHealthy, States, HasRecord, Judging, Undoing, Falling, TypeOK, WorldOK
  <1>27. CASE JudgeFailed BY <1>27 DEF JudgeFailed
  <1>28. CASE JudgePrint BY <1>28 DEF JudgePrint
  <1>29. CASE DeferValidation BY <1>29 DEF DeferValidation, States, HasRecord, Judging, Undoing, Falling, TypeOK, WorldOK
  <1>30. CASE RollBack BY <1>30 DEF RollBack
  <1>31. CASE ResetKlipper BY <1>31 DEF ResetKlipper
  <1>32. CASE ResetExtensions BY <1>32 DEF ResetExtensions
  <1>33. CASE Recompose BY <1>33 DEF Recompose
  <1>34. CASE RestartRefused("again", "pend") BY <1>34 DEF RestartRefused
  <1>35. CASE RestartAllowed("again", "restop") BY <1>35 DEF RestartAllowed
  <1>36. CASE Restart("restop", "rejudge") BY <1>36 DEF Restart
  <1>37. CASE RejudgeHealthy BY <1>37 DEF RejudgeHealthy, States, HasRecord, Judging, Undoing, Falling, TypeOK, WorldOK
  <1>38. CASE RejudgeFailed BY <1>38 DEF RejudgeFailed
  <1>39. CASE RejudgePrint BY <1>39 DEF RejudgePrint
  <1>40. CASE RollbackPending BY <1>40 DEF RollbackPending, States, HasRecord, Judging, Undoing, Falling, TypeOK, WorldOK
  <1>41. CASE FallBack BY <1>41 DEF FallBack
  <1>42. CASE Unmount BY <1>42 DEF Unmount
  <1>43. CASE FallenBack BY <1>43 DEF FallenBack, States, HasRecord, Judging, Undoing, Falling, TypeOK, WorldOK
  <1>44. CASE UNCHANGED vars BY <1>44 DEF vars, disk
  <1> QED
    BY <1>1, <1>2, <1>3, <1>4, <1>5, <1>6, <1>7, <1>8, <1>9, <1>10, <1>11, <1>12, <1>13,
       <1>14, <1>15, <1>16, <1>17, <1>18, <1>19, <1>20, <1>21, <1>22, <1>23, <1>24, <1>25,
       <1>26, <1>27, <1>28, <1>29, <1>30, <1>31, <1>32, <1>33, <1>34, <1>35, <1>36, <1>37,
       <1>38, <1>39, <1>40, <1>41, <1>42, <1>43, <1>44
       DEF Next, Outside, Boot, Poll, Validate, Undo
\* Klippy runs.

LEMMA RunsStep == ASSUME TypeOK, [Next]_vars PROVE Up' => running' # Nothing
  <1>0. Up => running # Nothing BY DEF TypeOK
  <1> USE <1>0, HeadTypes, ConstantsAssumption
      DEF Up, Goto, disk, PCs, Booting, Migrating, Looping, Judging, Undoing, Falling
  <1>1. CASE PowerOn BY <1>1 DEF PowerOn
  <1>2. CASE PowerCut BY <1>2 DEF PowerCut
  <1>3. CASE PrintStart BY <1>3 DEF PrintStart
  <1>4. CASE PrintEnd BY <1>4 DEF PrintEnd
  <1>5. CASE MoonrakerUpdate BY <1>5 DEF MoonrakerUpdate
  <1>6. CASE MoonrakerRestart BY <1>6 DEF MoonrakerRestart
  <1>7. CASE Gate BY <1>7 DEF Gate
  <1>8. CASE SeedKlipper BY <1>8 DEF SeedKlipper
  <1>9. CASE SeedExtensions BY <1>9 DEF SeedExtensions
  <1>10. CASE RecordGeneration BY <1>10 DEF RecordGeneration
  <1>11. CASE Activate BY <1>11 DEF Activate
  <1>12. CASE Reconcile BY <1>12 DEF Reconcile
  <1>13. CASE Unlock BY <1>13 DEF Unlock
  <1>14. CASE Bootstrap BY <1>14 DEF Bootstrap
  <1>15. CASE PollNothing BY <1>15 DEF PollNothing
  <1>16. CASE PollPending BY <1>16 DEF PollPending
  <1>17. CASE PollChange BY <1>17 DEF PollChange
  <1>18. CASE Settle BY <1>18 DEF Settle
  <1>19. CASE Wake BY <1>19 DEF Wake
  <1>20. CASE TakeLock BY <1>20 DEF TakeLock
  <1>21. CASE MarkValidating BY <1>21 DEF MarkValidating
  <1>22. CASE PreCheck BY <1>22 DEF PreCheck
  <1>23. CASE RestartRefused("restart", "defer") BY <1>23 DEF RestartRefused
  <1>24. CASE RestartAllowed("restart", "stop") BY <1>24 DEF RestartAllowed
  <1>25. CASE Restart("stop", "judge") BY <1>25 DEF Restart
  <1>26. CASE JudgeHealthy BY <1>26 DEF JudgeHealthy
  <1>27. CASE JudgeFailed BY <1>27 DEF JudgeFailed
  <1>28. CASE JudgePrint BY <1>28 DEF JudgePrint
  <1>29. CASE DeferValidation BY <1>29 DEF DeferValidation
  <1>30. CASE RollBack BY <1>30 DEF RollBack
  <1>31. CASE ResetKlipper BY <1>31 DEF ResetKlipper
  <1>32. CASE ResetExtensions BY <1>32 DEF ResetExtensions
  <1>33. CASE Recompose BY <1>33 DEF Recompose
  <1>34. CASE RestartRefused("again", "pend") BY <1>34 DEF RestartRefused
  <1>35. CASE RestartAllowed("again", "restop") BY <1>35 DEF RestartAllowed
  <1>36. CASE Restart("restop", "rejudge") BY <1>36 DEF Restart
  <1>37. CASE RejudgeHealthy BY <1>37 DEF RejudgeHealthy
  <1>38. CASE RejudgeFailed BY <1>38 DEF RejudgeFailed
  <1>39. CASE RejudgePrint BY <1>39 DEF RejudgePrint
  <1>40. CASE RollbackPending BY <1>40 DEF RollbackPending
  <1>41. CASE FallBack BY <1>41 DEF FallBack
  <1>42. CASE Unmount BY <1>42 DEF Unmount
  <1>43. CASE FallenBack BY <1>43 DEF FallenBack
  <1>44. CASE UNCHANGED vars BY <1>44 DEF vars, disk
  <1> QED
    BY <1>1, <1>2, <1>3, <1>4, <1>5, <1>6, <1>7, <1>8, <1>9, <1>10, <1>11, <1>12, <1>13,
       <1>14, <1>15, <1>16, <1>17, <1>18, <1>19, <1>20, <1>21, <1>22, <1>23, <1>24, <1>25,
       <1>26, <1>27, <1>28, <1>29, <1>30, <1>31, <1>32, <1>33, <1>34, <1>35, <1>36, <1>37,
       <1>38, <1>39, <1>40, <1>41, <1>42, <1>43, <1>44
       DEF Next, Outside, Boot, Poll, Validate, Undo
LEMMA TypeStep == ASSUME TypeOK, HasRecord, [Next]_vars PROVE TypeOK'
  BY FlagsStep, SpentStep, PcStep, WorldStep, RecordStep, RunsStep DEF TypeOK

-----------------------------------------------------------------------------
\* What each line of the program knows about the record.

Trying == {"check", "restart", "stop", "judge", "defer"}
Unfinished == {"validating", "rollback-pending"}

Steps ==
    /\ pc \in {"settle", "lock", "mark", "unlock"} =>
         rec # NoRecord /\ rec.state \notin Unfinished
    /\ pc \in Trying => rec # NoRecord /\ rec.state = "validating" /\ rec.seen = new
    /\ pc \in Undoing \cup Falling => rec # NoRecord /\ rec.state \in Unfinished

LEMMA StepsHaveRecord == Steps => HasRecord
  BY DEF Steps, HasRecord, Judging, Trying

LEMMA StepsStep == ASSUME TypeOK, Steps, [Next]_vars PROVE Steps'
  <1>0. HasRecord BY StepsHaveRecord
  <1> USE <1>0, Written, RecordTypes, HeadTypes
      DEF Steps, Goto, disk, Trying, Unfinished, Booting, Migrating, Undoing, Falling
  <1>1. CASE PowerOn BY <1>1 DEF PowerOn
  <1>2. CASE PowerCut BY <1>2 DEF PowerCut
  <1>3. CASE PrintStart BY <1>3 DEF PrintStart
  <1>4. CASE PrintEnd BY <1>4 DEF PrintEnd
  <1>5. CASE MoonrakerUpdate BY <1>5 DEF MoonrakerUpdate
  <1>6. CASE MoonrakerRestart BY <1>6 DEF MoonrakerRestart
  <1>7. CASE Gate BY <1>7 DEF Gate
  <1>8. CASE SeedKlipper BY <1>8 DEF SeedKlipper
  <1>9. CASE SeedExtensions BY <1>9 DEF SeedExtensions
  <1>10. CASE RecordGeneration BY <1>10 DEF RecordGeneration
  <1>11. CASE Activate BY <1>11 DEF Activate
  <1>12. CASE Reconcile BY <1>12 DEF Reconcile, States, HasRecord, Judging, TypeOK, WorldOK
  <1>13. CASE Unlock BY <1>13 DEF Unlock
  <1>14. CASE Bootstrap BY <1>14 DEF Bootstrap, States, HasRecord, Judging, TypeOK, WorldOK
  <1>15. CASE PollNothing BY <1>15 DEF PollNothing
  <1>16. CASE PollPending BY <1>16 DEF PollPending, Known
  <1>17. CASE PollChange BY <1>17 DEF PollChange, Known, Parked
  <1>18. CASE Settle BY <1>18 DEF Settle
  <1>19. CASE Wake BY <1>19 DEF Wake
  <1>20. CASE TakeLock BY <1>20 DEF TakeLock
  <1>21. CASE MarkValidating BY <1>21 DEF MarkValidating, States, HasRecord, Judging, TypeOK, WorldOK
  <1>22. CASE PreCheck BY <1>22 DEF PreCheck
  <1>23. CASE RestartRefused("restart", "defer") BY <1>23 DEF RestartRefused
  <1>24. CASE RestartAllowed("restart", "stop") BY <1>24 DEF RestartAllowed
  <1>25. CASE Restart("stop", "judge") BY <1>25 DEF Restart
  <1>26. CASE JudgeHealthy BY <1>26 DEF JudgeHealthy, States, HasRecord, Judging, TypeOK, WorldOK
  <1>27. CASE JudgeFailed BY <1>27 DEF JudgeFailed
  <1>28. CASE JudgePrint BY <1>28 DEF JudgePrint
  <1>29. CASE DeferValidation BY <1>29 DEF DeferValidation, States, HasRecord, Judging, TypeOK, WorldOK
  <1>30. CASE RollBack BY <1>30 DEF RollBack
  <1>31. CASE ResetKlipper BY <1>31 DEF ResetKlipper
  <1>32. CASE ResetExtensions BY <1>32 DEF ResetExtensions
  <1>33. CASE Recompose BY <1>33 DEF Recompose
  <1>34. CASE RestartRefused("again", "pend") BY <1>34 DEF RestartRefused
  <1>35. CASE RestartAllowed("again", "restop") BY <1>35 DEF RestartAllowed
  <1>36. CASE Restart("restop", "rejudge") BY <1>36 DEF Restart
  <1>37. CASE RejudgeHealthy BY <1>37 DEF RejudgeHealthy, States, HasRecord, Judging, TypeOK, WorldOK
  <1>38. CASE RejudgeFailed BY <1>38 DEF RejudgeFailed
  <1>39. CASE RejudgePrint BY <1>39 DEF RejudgePrint
  <1>40. CASE RollbackPending BY <1>40 DEF RollbackPending, States, HasRecord, Judging, TypeOK, WorldOK
  <1>41. CASE FallBack BY <1>41 DEF FallBack
  <1>42. CASE Unmount BY <1>42 DEF Unmount
  <1>43. CASE FallenBack BY <1>43 DEF FallenBack, States, HasRecord, Judging, TypeOK, WorldOK
  <1>44. CASE UNCHANGED vars BY <1>44 DEF vars, disk
  <1> QED
    BY <1>1, <1>2, <1>3, <1>4, <1>5, <1>6, <1>7, <1>8, <1>9, <1>10, <1>11, <1>12, <1>13,
       <1>14, <1>15, <1>16, <1>17, <1>18, <1>19, <1>20, <1>21, <1>22, <1>23, <1>24, <1>25,
       <1>26, <1>27, <1>28, <1>29, <1>30, <1>31, <1>32, <1>33, <1>34, <1>35, <1>36, <1>37,
       <1>38, <1>39, <1>40, <1>41, <1>42, <1>43, <1>44
       DEF Next, Outside, Boot, Poll, Validate, Undo
-----------------------------------------------------------------------------
\* The single invariants, each with what it needs of the others.

LEMMA SeenStep == ASSUME TypeOK, HasRecord, SeenIsJudged, [Next]_vars PROVE SeenIsJudged'
  <1> USE Written, RecordTypes, HeadTypes DEF SeenIsJudged, disk
  <1>1. CASE PowerOn BY <1>1 DEF PowerOn
  <1>2. CASE PowerCut BY <1>2 DEF PowerCut
  <1>3. CASE PrintStart BY <1>3 DEF PrintStart
  <1>4. CASE PrintEnd BY <1>4 DEF PrintEnd
  <1>5. CASE MoonrakerUpdate BY <1>5 DEF MoonrakerUpdate
  <1>6. CASE MoonrakerRestart BY <1>6 DEF MoonrakerRestart
  <1>7. CASE Gate BY <1>7 DEF Gate
  <1>8. CASE SeedKlipper BY <1>8 DEF SeedKlipper
  <1>9. CASE SeedExtensions BY <1>9 DEF SeedExtensions
  <1>10. CASE RecordGeneration BY <1>10 DEF RecordGeneration
  <1>11. CASE Activate BY <1>11 DEF Activate
  <1>12. CASE Reconcile BY <1>12 DEF Reconcile, States, HasRecord, Judging, Undoing, Falling, TypeOK, WorldOK
  <1>13. CASE Unlock BY <1>13 DEF Unlock
  <1>14. CASE Bootstrap BY <1>14 DEF Bootstrap, States, HasRecord, Judging, Undoing, Falling, TypeOK, WorldOK
  <1>15. CASE PollNothing BY <1>15 DEF PollNothing
  <1>16. CASE PollPending BY <1>16 DEF PollPending
  <1>17. CASE PollChange BY <1>17 DEF PollChange
  <1>18. CASE Settle BY <1>18 DEF Settle
  <1>19. CASE Wake BY <1>19 DEF Wake
  <1>20. CASE TakeLock BY <1>20 DEF TakeLock
  <1>21. CASE MarkValidating BY <1>21 DEF MarkValidating, States, HasRecord, Judging, Undoing, Falling, TypeOK, WorldOK
  <1>22. CASE PreCheck BY <1>22 DEF PreCheck
  <1>23. CASE RestartRefused("restart", "defer") BY <1>23 DEF RestartRefused
  <1>24. CASE RestartAllowed("restart", "stop") BY <1>24 DEF RestartAllowed
  <1>25. CASE Restart("stop", "judge") BY <1>25 DEF Restart
  <1>26. CASE JudgeHealthy BY <1>26 DEF JudgeHealthy, States, HasRecord, Judging, Undoing, Falling, TypeOK, WorldOK
  <1>27. CASE JudgeFailed BY <1>27 DEF JudgeFailed
  <1>28. CASE JudgePrint BY <1>28 DEF JudgePrint
  <1>29. CASE DeferValidation BY <1>29 DEF DeferValidation, States, HasRecord, Judging, Undoing, Falling, TypeOK, WorldOK
  <1>30. CASE RollBack BY <1>30 DEF RollBack
  <1>31. CASE ResetKlipper BY <1>31 DEF ResetKlipper
  <1>32. CASE ResetExtensions BY <1>32 DEF ResetExtensions
  <1>33. CASE Recompose BY <1>33 DEF Recompose
  <1>34. CASE RestartRefused("again", "pend") BY <1>34 DEF RestartRefused
  <1>35. CASE RestartAllowed("again", "restop") BY <1>35 DEF RestartAllowed
  <1>36. CASE Restart("restop", "rejudge") BY <1>36 DEF Restart
  <1>37. CASE RejudgeHealthy BY <1>37 DEF RejudgeHealthy, States, HasRecord, Judging, Undoing, Falling, TypeOK, WorldOK
  <1>38. CASE RejudgeFailed BY <1>38 DEF RejudgeFailed
  <1>39. CASE RejudgePrint BY <1>39 DEF RejudgePrint
  <1>40. CASE RollbackPending BY <1>40 DEF RollbackPending, States, HasRecord, Judging, Undoing, Falling, TypeOK, WorldOK
  <1>41. CASE FallBack BY <1>41 DEF FallBack
  <1>42. CASE Unmount BY <1>42 DEF Unmount
  <1>43. CASE FallenBack BY <1>43 DEF FallenBack, States, HasRecord, Judging, Undoing, Falling, TypeOK, WorldOK
  <1>44. CASE UNCHANGED vars BY <1>44 DEF vars, disk
  <1> QED
    BY <1>1, <1>2, <1>3, <1>4, <1>5, <1>6, <1>7, <1>8, <1>9, <1>10, <1>11, <1>12, <1>13,
       <1>14, <1>15, <1>16, <1>17, <1>18, <1>19, <1>20, <1>21, <1>22, <1>23, <1>24, <1>25,
       <1>26, <1>27, <1>28, <1>29, <1>30, <1>31, <1>32, <1>33, <1>34, <1>35, <1>36, <1>37,
       <1>38, <1>39, <1>40, <1>41, <1>42, <1>43, <1>44
       DEF Next, Outside, Boot, Poll, Validate, Undo
LEMMA LoopStep == ASSUME TypeOK, Steps, NeverStuck, [Next]_vars PROVE NeverStuck'
  <1>0. HasRecord BY StepsHaveRecord
  <1> USE <1>0, Written, RecordTypes, HeadTypes
      DEF NeverStuck, Looping, Goto, disk, Booting, Migrating
  <1>1. CASE PowerOn BY <1>1 DEF PowerOn
  <1>2. CASE PowerCut BY <1>2 DEF PowerCut
  <1>3. CASE PrintStart BY <1>3 DEF PrintStart
  <1>4. CASE PrintEnd BY <1>4 DEF PrintEnd
  <1>5. CASE MoonrakerUpdate BY <1>5 DEF MoonrakerUpdate
  <1>6. CASE MoonrakerRestart BY <1>6 DEF MoonrakerRestart
  <1>7. CASE Gate BY <1>7 DEF Gate
  <1>8. CASE SeedKlipper BY <1>8 DEF SeedKlipper
  <1>9. CASE SeedExtensions BY <1>9 DEF SeedExtensions
  <1>10. CASE RecordGeneration BY <1>10 DEF RecordGeneration
  <1>11. CASE Activate BY <1>11 DEF Activate
  <1>12. CASE Reconcile BY <1>12 DEF Reconcile, States, HasRecord, Judging, Undoing, Falling, TypeOK, WorldOK
  <1>13. CASE Unlock BY <1>13 DEF Unlock, Steps, Unfinished
  <1>14. CASE Bootstrap BY <1>14 DEF Bootstrap, States, HasRecord, Judging, Undoing, Falling, TypeOK, WorldOK
  <1>15. CASE PollNothing BY <1>15 DEF PollNothing
  <1>16. CASE PollPending BY <1>16 DEF PollPending
  <1>17. CASE PollChange BY <1>17 DEF PollChange
  <1>18. CASE Settle BY <1>18 DEF Settle
  <1>19. CASE Wake BY <1>19 DEF Wake
  <1>20. CASE TakeLock BY <1>20 DEF TakeLock
  <1>21. CASE MarkValidating BY <1>21 DEF MarkValidating, States, HasRecord, Judging, Undoing, Falling, TypeOK, WorldOK
  <1>22. CASE PreCheck BY <1>22 DEF PreCheck
  <1>23. CASE RestartRefused("restart", "defer") BY <1>23 DEF RestartRefused
  <1>24. CASE RestartAllowed("restart", "stop") BY <1>24 DEF RestartAllowed
  <1>25. CASE Restart("stop", "judge") BY <1>25 DEF Restart
  <1>26. CASE JudgeHealthy BY <1>26 DEF JudgeHealthy, States, HasRecord, Judging, Undoing, Falling, TypeOK, WorldOK
  <1>27. CASE JudgeFailed BY <1>27 DEF JudgeFailed
  <1>28. CASE JudgePrint BY <1>28 DEF JudgePrint
  <1>29. CASE DeferValidation BY <1>29 DEF DeferValidation, States, HasRecord, Judging, Undoing, Falling, TypeOK, WorldOK
  <1>30. CASE RollBack BY <1>30 DEF RollBack
  <1>31. CASE ResetKlipper BY <1>31 DEF ResetKlipper
  <1>32. CASE ResetExtensions BY <1>32 DEF ResetExtensions
  <1>33. CASE Recompose BY <1>33 DEF Recompose
  <1>34. CASE RestartRefused("again", "pend") BY <1>34 DEF RestartRefused
  <1>35. CASE RestartAllowed("again", "restop") BY <1>35 DEF RestartAllowed
  <1>36. CASE Restart("restop", "rejudge") BY <1>36 DEF Restart
  <1>37. CASE RejudgeHealthy BY <1>37 DEF RejudgeHealthy, States, HasRecord, Judging, Undoing, Falling, TypeOK, WorldOK
  <1>38. CASE RejudgeFailed BY <1>38 DEF RejudgeFailed
  <1>39. CASE RejudgePrint BY <1>39 DEF RejudgePrint
  <1>40. CASE RollbackPending BY <1>40 DEF RollbackPending, States, HasRecord, Judging, Undoing, Falling, TypeOK, WorldOK
  <1>41. CASE FallBack BY <1>41 DEF FallBack
  <1>42. CASE Unmount BY <1>42 DEF Unmount
  <1>43. CASE FallenBack BY <1>43 DEF FallenBack, States, HasRecord, Judging, Undoing, Falling, TypeOK, WorldOK
  <1>44. CASE UNCHANGED vars BY <1>44 DEF vars, disk
  <1> QED
    BY <1>1, <1>2, <1>3, <1>4, <1>5, <1>6, <1>7, <1>8, <1>9, <1>10, <1>11, <1>12, <1>13,
       <1>14, <1>15, <1>16, <1>17, <1>18, <1>19, <1>20, <1>21, <1>22, <1>23, <1>24, <1>25,
       <1>26, <1>27, <1>28, <1>29, <1>30, <1>31, <1>32, <1>33, <1>34, <1>35, <1>36, <1>37,
       <1>38, <1>39, <1>40, <1>41, <1>42, <1>43, <1>44
       DEF Next, Outside, Boot, Poll, Validate, Undo
\* The gate replaces the checkouts only when there is no lock.
SeedingUnlocked ==
    pc \in {"seedK", "seedE", "seedEOnly", "record"} => ~lock

LEMMA SeedingStep == ASSUME SeedingUnlocked, [Next]_vars PROVE SeedingUnlocked'
  <1> USE DEF SeedingUnlocked, Goto, disk, Booting, Migrating
  <1>1. CASE PowerOn BY <1>1 DEF PowerOn
  <1>2. CASE PowerCut BY <1>2 DEF PowerCut
  <1>3. CASE PrintStart BY <1>3 DEF PrintStart
  <1>4. CASE PrintEnd BY <1>4 DEF PrintEnd
  <1>5. CASE MoonrakerUpdate BY <1>5 DEF MoonrakerUpdate
  <1>6. CASE MoonrakerRestart BY <1>6 DEF MoonrakerRestart
  <1>7. CASE Gate BY <1>7 DEF Gate
  <1>8. CASE SeedKlipper BY <1>8 DEF SeedKlipper
  <1>9. CASE SeedExtensions BY <1>9 DEF SeedExtensions
  <1>10. CASE RecordGeneration BY <1>10 DEF RecordGeneration
  <1>11. CASE Activate BY <1>11 DEF Activate
  <1>12. CASE Reconcile BY <1>12 DEF Reconcile
  <1>13. CASE Unlock BY <1>13 DEF Unlock
  <1>14. CASE Bootstrap BY <1>14 DEF Bootstrap
  <1>15. CASE PollNothing BY <1>15 DEF PollNothing
  <1>16. CASE PollPending BY <1>16 DEF PollPending
  <1>17. CASE PollChange BY <1>17 DEF PollChange
  <1>18. CASE Settle BY <1>18 DEF Settle
  <1>19. CASE Wake BY <1>19 DEF Wake
  <1>20. CASE TakeLock BY <1>20 DEF TakeLock
  <1>21. CASE MarkValidating BY <1>21 DEF MarkValidating
  <1>22. CASE PreCheck BY <1>22 DEF PreCheck
  <1>23. CASE RestartRefused("restart", "defer") BY <1>23 DEF RestartRefused
  <1>24. CASE RestartAllowed("restart", "stop") BY <1>24 DEF RestartAllowed
  <1>25. CASE Restart("stop", "judge") BY <1>25 DEF Restart
  <1>26. CASE JudgeHealthy BY <1>26 DEF JudgeHealthy
  <1>27. CASE JudgeFailed BY <1>27 DEF JudgeFailed
  <1>28. CASE JudgePrint BY <1>28 DEF JudgePrint
  <1>29. CASE DeferValidation BY <1>29 DEF DeferValidation
  <1>30. CASE RollBack BY <1>30 DEF RollBack
  <1>31. CASE ResetKlipper BY <1>31 DEF ResetKlipper
  <1>32. CASE ResetExtensions BY <1>32 DEF ResetExtensions
  <1>33. CASE Recompose BY <1>33 DEF Recompose
  <1>34. CASE RestartRefused("again", "pend") BY <1>34 DEF RestartRefused
  <1>35. CASE RestartAllowed("again", "restop") BY <1>35 DEF RestartAllowed
  <1>36. CASE Restart("restop", "rejudge") BY <1>36 DEF Restart
  <1>37. CASE RejudgeHealthy BY <1>37 DEF RejudgeHealthy
  <1>38. CASE RejudgeFailed BY <1>38 DEF RejudgeFailed
  <1>39. CASE RejudgePrint BY <1>39 DEF RejudgePrint
  <1>40. CASE RollbackPending BY <1>40 DEF RollbackPending
  <1>41. CASE FallBack BY <1>41 DEF FallBack
  <1>42. CASE Unmount BY <1>42 DEF Unmount
  <1>43. CASE FallenBack BY <1>43 DEF FallenBack
  <1>44. CASE UNCHANGED vars BY <1>44 DEF vars, disk
  <1> QED
    BY <1>1, <1>2, <1>3, <1>4, <1>5, <1>6, <1>7, <1>8, <1>9, <1>10, <1>11, <1>12, <1>13,
       <1>14, <1>15, <1>16, <1>17, <1>18, <1>19, <1>20, <1>21, <1>22, <1>23, <1>24, <1>25,
       <1>26, <1>27, <1>28, <1>29, <1>30, <1>31, <1>32, <1>33, <1>34, <1>35, <1>36, <1>37,
       <1>38, <1>39, <1>40, <1>41, <1>42, <1>43, <1>44
       DEF Next, Outside, Boot, Poll, Validate, Undo
\* What waits for the end of a print waits under its lock, in its own generation.
PendingStays ==
    rec # NoRecord /\ rec.state = "rollback-pending" => lock /\ rec.gen = gen

LEMMA PendingStep ==
  ASSUME TypeOK, Steps, SeedingUnlocked, PendingStays, [Next]_vars PROVE PendingStays'
  <1>0. HasRecord BY StepsHaveRecord
  <1> USE <1>0, Written, RecordTypes, HeadTypes DEF PendingStays, disk
  <1>1. CASE PowerOn BY <1>1 DEF PowerOn
  <1>2. CASE PowerCut BY <1>2 DEF PowerCut
  <1>3. CASE PrintStart BY <1>3 DEF PrintStart
  <1>4. CASE PrintEnd BY <1>4 DEF PrintEnd
  <1>5. CASE MoonrakerUpdate BY <1>5 DEF MoonrakerUpdate
  <1>6. CASE MoonrakerRestart BY <1>6 DEF MoonrakerRestart
  <1>7. CASE Gate BY <1>7 DEF Gate, Stale
  <1>8. CASE SeedKlipper BY <1>8 DEF SeedKlipper
  <1>9. CASE SeedExtensions BY <1>9 DEF SeedExtensions
  <1>10. CASE RecordGeneration BY <1>10 DEF RecordGeneration, SeedingUnlocked
  <1>11. CASE Activate BY <1>11 DEF Activate
  <1>12. CASE Reconcile BY <1>12 DEF Reconcile, States, HasRecord, Judging, Undoing, Falling, TypeOK, WorldOK
  <1>13. CASE Unlock BY <1>13 DEF Unlock, Steps, Unfinished
  <1>14. CASE Bootstrap BY <1>14 DEF Bootstrap, States, HasRecord, Judging, Undoing, Falling, TypeOK, WorldOK
  <1>15. CASE PollNothing BY <1>15 DEF PollNothing
  <1>16. CASE PollPending BY <1>16 DEF PollPending
  <1>17. CASE PollChange BY <1>17 DEF PollChange
  <1>18. CASE Settle BY <1>18 DEF Settle
  <1>19. CASE Wake BY <1>19 DEF Wake
  <1>20. CASE TakeLock BY <1>20 DEF TakeLock
  <1>21. CASE MarkValidating BY <1>21 DEF MarkValidating, States, HasRecord, Judging, Undoing, Falling, TypeOK, WorldOK
  <1>22. CASE PreCheck BY <1>22 DEF PreCheck
  <1>23. CASE RestartRefused("restart", "defer") BY <1>23 DEF RestartRefused
  <1>24. CASE RestartAllowed("restart", "stop") BY <1>24 DEF RestartAllowed
  <1>25. CASE Restart("stop", "judge") BY <1>25 DEF Restart
  <1>26. CASE JudgeHealthy BY <1>26 DEF JudgeHealthy, States, HasRecord, Judging, Undoing, Falling, TypeOK, WorldOK
  <1>27. CASE JudgeFailed BY <1>27 DEF JudgeFailed
  <1>28. CASE JudgePrint BY <1>28 DEF JudgePrint
  <1>29. CASE DeferValidation BY <1>29 DEF DeferValidation, States, HasRecord, Judging, Undoing, Falling, TypeOK, WorldOK
  <1>30. CASE RollBack BY <1>30 DEF RollBack
  <1>31. CASE ResetKlipper BY <1>31 DEF ResetKlipper
  <1>32. CASE ResetExtensions BY <1>32 DEF ResetExtensions
  <1>33. CASE Recompose BY <1>33 DEF Recompose
  <1>34. CASE RestartRefused("again", "pend") BY <1>34 DEF RestartRefused
  <1>35. CASE RestartAllowed("again", "restop") BY <1>35 DEF RestartAllowed
  <1>36. CASE Restart("restop", "rejudge") BY <1>36 DEF Restart
  <1>37. CASE RejudgeHealthy BY <1>37 DEF RejudgeHealthy, States, HasRecord, Judging, Undoing, Falling, TypeOK, WorldOK
  <1>38. CASE RejudgeFailed BY <1>38 DEF RejudgeFailed
  <1>39. CASE RejudgePrint BY <1>39 DEF RejudgePrint
  <1>40. CASE RollbackPending BY <1>40 DEF RollbackPending, States, HasRecord, Judging, Undoing, Falling, TypeOK, WorldOK
  <1>41. CASE FallBack BY <1>41 DEF FallBack
  <1>42. CASE Unmount BY <1>42 DEF Unmount
  <1>43. CASE FallenBack BY <1>43 DEF FallenBack, States, HasRecord, Judging, Undoing, Falling, TypeOK, WorldOK
  <1>44. CASE UNCHANGED vars BY <1>44 DEF vars, disk
  <1> QED
    BY <1>1, <1>2, <1>3, <1>4, <1>5, <1>6, <1>7, <1>8, <1>9, <1>10, <1>11, <1>12, <1>13,
       <1>14, <1>15, <1>16, <1>17, <1>18, <1>19, <1>20, <1>21, <1>22, <1>23, <1>24, <1>25,
       <1>26, <1>27, <1>28, <1>29, <1>30, <1>31, <1>32, <1>33, <1>34, <1>35, <1>36, <1>37,
       <1>38, <1>39, <1>40, <1>41, <1>42, <1>43, <1>44
       DEF Next, Outside, Boot, Poll, Validate, Undo
LEMMA LockStep ==
  ASSUME PendingStays, WorkIsLocked, [Next]_vars PROVE WorkIsLocked'
  <1> USE DEF WorkIsLocked, Goto, disk, Booting, Migrating, Judging, Undoing, Falling
  <1>1. CASE PowerOn BY <1>1 DEF PowerOn
  <1>2. CASE PowerCut BY <1>2 DEF PowerCut
  <1>3. CASE PrintStart BY <1>3 DEF PrintStart
  <1>4. CASE PrintEnd BY <1>4 DEF PrintEnd
  <1>5. CASE MoonrakerUpdate BY <1>5 DEF MoonrakerUpdate
  <1>6. CASE MoonrakerRestart BY <1>6 DEF MoonrakerRestart
  <1>7. CASE Gate BY <1>7 DEF Gate
  <1>8. CASE SeedKlipper BY <1>8 DEF SeedKlipper
  <1>9. CASE SeedExtensions BY <1>9 DEF SeedExtensions
  <1>10. CASE RecordGeneration BY <1>10 DEF RecordGeneration
  <1>11. CASE Activate BY <1>11 DEF Activate
  <1>12. CASE Reconcile BY <1>12 DEF Reconcile
  <1>13. CASE Unlock BY <1>13 DEF Unlock
  <1>14. CASE Bootstrap BY <1>14 DEF Bootstrap
  <1>15. CASE PollNothing BY <1>15 DEF PollNothing
  <1>16. CASE PollPending BY <1>16 DEF PollPending, PendingStays, Known
  <1>17. CASE PollChange BY <1>17 DEF PollChange
  <1>18. CASE Settle BY <1>18 DEF Settle
  <1>19. CASE Wake BY <1>19 DEF Wake
  <1>20. CASE TakeLock BY <1>20 DEF TakeLock
  <1>21. CASE MarkValidating BY <1>21 DEF MarkValidating
  <1>22. CASE PreCheck BY <1>22 DEF PreCheck
  <1>23. CASE RestartRefused("restart", "defer") BY <1>23 DEF RestartRefused
  <1>24. CASE RestartAllowed("restart", "stop") BY <1>24 DEF RestartAllowed
  <1>25. CASE Restart("stop", "judge") BY <1>25 DEF Restart
  <1>26. CASE JudgeHealthy BY <1>26 DEF JudgeHealthy
  <1>27. CASE JudgeFailed BY <1>27 DEF JudgeFailed
  <1>28. CASE JudgePrint BY <1>28 DEF JudgePrint
  <1>29. CASE DeferValidation BY <1>29 DEF DeferValidation
  <1>30. CASE RollBack BY <1>30 DEF RollBack
  <1>31. CASE ResetKlipper BY <1>31 DEF ResetKlipper
  <1>32. CASE ResetExtensions BY <1>32 DEF ResetExtensions
  <1>33. CASE Recompose BY <1>33 DEF Recompose
  <1>34. CASE RestartRefused("again", "pend") BY <1>34 DEF RestartRefused
  <1>35. CASE RestartAllowed("again", "restop") BY <1>35 DEF RestartAllowed
  <1>36. CASE Restart("restop", "rejudge") BY <1>36 DEF Restart
  <1>37. CASE RejudgeHealthy BY <1>37 DEF RejudgeHealthy
  <1>38. CASE RejudgeFailed BY <1>38 DEF RejudgeFailed
  <1>39. CASE RejudgePrint BY <1>39 DEF RejudgePrint
  <1>40. CASE RollbackPending BY <1>40 DEF RollbackPending
  <1>41. CASE FallBack BY <1>41 DEF FallBack
  <1>42. CASE Unmount BY <1>42 DEF Unmount
  <1>43. CASE FallenBack BY <1>43 DEF FallenBack
  <1>44. CASE UNCHANGED vars BY <1>44 DEF vars, disk
  <1> QED
    BY <1>1, <1>2, <1>3, <1>4, <1>5, <1>6, <1>7, <1>8, <1>9, <1>10, <1>11, <1>12, <1>13,
       <1>14, <1>15, <1>16, <1>17, <1>18, <1>19, <1>20, <1>21, <1>22, <1>23, <1>24, <1>25,
       <1>26, <1>27, <1>28, <1>29, <1>30, <1>31, <1>32, <1>33, <1>34, <1>35, <1>36, <1>37,
       <1>38, <1>39, <1>40, <1>41, <1>42, <1>43, <1>44
       DEF Next, Outside, Boot, Poll, Validate, Undo
\* The fallback stands from the boot that meets it on.
FallbackHolds ==
    /\ rec # NoRecord /\ rec.state = "factory-fallback" /\ lock
         /\ pc \in Looping \cup {"reconcile"} => ~bound
    /\ pc = "fallen" => ~bound

LEMMA FallbackStep == ASSUME TypeOK, HasRecord, FallbackHolds, [Next]_vars PROVE FallbackHolds'
  <1> USE Written, RecordTypes, HeadTypes
      DEF FallbackHolds, Looping, Goto, disk, Booting, Migrating
  <1>1. CASE PowerOn BY <1>1 DEF PowerOn
  <1>2. CASE PowerCut BY <1>2 DEF PowerCut
  <1>3. CASE PrintStart BY <1>3 DEF PrintStart
  <1>4. CASE PrintEnd BY <1>4 DEF PrintEnd
  <1>5. CASE MoonrakerUpdate BY <1>5 DEF MoonrakerUpdate
  <1>6. CASE MoonrakerRestart BY <1>6 DEF MoonrakerRestart
  <1>7. CASE Gate BY <1>7 DEF Gate
  <1>8. CASE SeedKlipper BY <1>8 DEF SeedKlipper
  <1>9. CASE SeedExtensions BY <1>9 DEF SeedExtensions
  <1>10. CASE RecordGeneration BY <1>10 DEF RecordGeneration
  <1>11. CASE Activate BY <1>11 DEF Activate
  <1>12. CASE Reconcile BY <1>12 DEF Reconcile, States, HasRecord, Judging, Undoing, Falling, TypeOK, WorldOK
  <1>13. CASE Unlock BY <1>13 DEF Unlock
  <1>14. CASE Bootstrap BY <1>14 DEF Bootstrap, States, HasRecord, Judging, Undoing, Falling, TypeOK, WorldOK
  <1>15. CASE PollNothing BY <1>15 DEF PollNothing
  <1>16. CASE PollPending BY <1>16 DEF PollPending
  <1>17. CASE PollChange BY <1>17 DEF PollChange
  <1>18. CASE Settle BY <1>18 DEF Settle
  <1>19. CASE Wake BY <1>19 DEF Wake
  <1>20. CASE TakeLock BY <1>20 DEF TakeLock
  <1>21. CASE MarkValidating BY <1>21 DEF MarkValidating, States, HasRecord, Judging, Undoing, Falling, TypeOK, WorldOK
  <1>22. CASE PreCheck BY <1>22 DEF PreCheck
  <1>23. CASE RestartRefused("restart", "defer") BY <1>23 DEF RestartRefused
  <1>24. CASE RestartAllowed("restart", "stop") BY <1>24 DEF RestartAllowed
  <1>25. CASE Restart("stop", "judge") BY <1>25 DEF Restart
  <1>26. CASE JudgeHealthy BY <1>26 DEF JudgeHealthy, States, HasRecord, Judging, Undoing, Falling, TypeOK, WorldOK
  <1>27. CASE JudgeFailed BY <1>27 DEF JudgeFailed
  <1>28. CASE JudgePrint BY <1>28 DEF JudgePrint
  <1>29. CASE DeferValidation BY <1>29 DEF DeferValidation, States, HasRecord, Judging, Undoing, Falling, TypeOK, WorldOK
  <1>30. CASE RollBack BY <1>30 DEF RollBack
  <1>31. CASE ResetKlipper BY <1>31 DEF ResetKlipper
  <1>32. CASE ResetExtensions BY <1>32 DEF ResetExtensions
  <1>33. CASE Recompose BY <1>33 DEF Recompose
  <1>34. CASE RestartRefused("again", "pend") BY <1>34 DEF RestartRefused
  <1>35. CASE RestartAllowed("again", "restop") BY <1>35 DEF RestartAllowed
  <1>36. CASE Restart("restop", "rejudge") BY <1>36 DEF Restart
  <1>37. CASE RejudgeHealthy BY <1>37 DEF RejudgeHealthy, States, HasRecord, Judging, Undoing, Falling, TypeOK, WorldOK
  <1>38. CASE RejudgeFailed BY <1>38 DEF RejudgeFailed
  <1>39. CASE RejudgePrint BY <1>39 DEF RejudgePrint
  <1>40. CASE RollbackPending BY <1>40 DEF RollbackPending, States, HasRecord, Judging, Undoing, Falling, TypeOK, WorldOK
  <1>41. CASE FallBack BY <1>41 DEF FallBack
  <1>42. CASE Unmount BY <1>42 DEF Unmount
  <1>43. CASE FallenBack BY <1>43 DEF FallenBack, States, HasRecord, Judging, Undoing, Falling, TypeOK, WorldOK
  <1>44. CASE UNCHANGED vars BY <1>44 DEF vars, disk
  <1> QED
    BY <1>1, <1>2, <1>3, <1>4, <1>5, <1>6, <1>7, <1>8, <1>9, <1>10, <1>11, <1>12, <1>13,
       <1>14, <1>15, <1>16, <1>17, <1>18, <1>19, <1>20, <1>21, <1>22, <1>23, <1>24, <1>25,
       <1>26, <1>27, <1>28, <1>29, <1>30, <1>31, <1>32, <1>33, <1>34, <1>35, <1>36, <1>37,
       <1>38, <1>39, <1>40, <1>41, <1>42, <1>43, <1>44
       DEF Next, Outside, Boot, Poll, Validate, Undo
-----------------------------------------------------------------------------
IInv ==
    /\ TypeOK
    /\ Steps
    /\ SeenIsJudged
    /\ NeverStuck
    /\ SeedingUnlocked
    /\ PendingStays
    /\ WorkIsLocked
    /\ FallbackHolds

LEMMA InitInv == Init => IInv
  <1> SUFFICES ASSUME Init PROVE IInv OBVIOUS
  <1>1. TypeOK
    <2>1. heads \in Pairs BY ConstantsAssumption DEF Init
    <2>2. WorldOK BY <2>1 DEF Init, WorldOK
    <2>3. FlagsOK BY DEF Init, FlagsOK
    <2>4. SpentOK BY ConstantsAssumption DEF Init, SpentOK
    <2> QED BY <2>2, <2>3, <2>4 DEF Init, TypeOK, PCs, Up
  <1> QED
    BY <1>1 DEF Init, IInv, Steps, Trying, Undoing, Falling, SeenIsJudged, NeverStuck,
       SeedingUnlocked, PendingStays, WorkIsLocked, Judging, FallbackHolds, Looping

LEMMA StepInv == IInv /\ [Next]_vars => IInv'
  BY StepsHaveRecord, TypeStep, StepsStep, SeenStep, LoopStep, SeedingStep, PendingStep,
     LockStep, FallbackStep DEF IInv

THEOREM Invariant == Spec => []IInv
  BY InitInv, StepInv, PTL DEF Spec

\* Every state of the boot scripts and of the supervisor is of the types the
\* code can hold, and Klippy runs something from the end of a boot on.
THEOREM TypeCorrect == Spec => []TypeOK
  <1>1. IInv => TypeOK BY DEF IInv
  <1> QED BY <1>1, Invariant, PTL

\* No pair is taken for the current one unless it was judged (last_seen in
\* write_stack_state), whatever is cut, refused or updated meanwhile.
THEOREM NoneSlipsThrough == Spec => []SeenIsJudged
  <1>1. IInv => SeenIsJudged BY DEF IInv
  <1> QED BY <1>1, Invariant, PTL

\* poll_klipper_stack_once never meets a record in state "validating", which it
\* would leave alone for ever.
THEOREM LoopGoesOn == Spec => []NeverStuck
  <1>1. IInv => NeverStuck BY DEF IInv
  <1> QED BY <1>1, Invariant, PTL

\* A rollback that waits keeps its lock over boots, gates and migrations.
THEOREM PendingSafe == Spec => []PendingKeepsLock
  <1>1. IInv => PendingKeepsLock BY DEF IInv, PendingStays, PendingKeepsLock
  <1> QED BY <1>1, Invariant, PTL

\* The pair of a factory fallback is not bound while its lock stands.
THEOREM FallbackSafe == Spec => []FallbackStands
  <1>1. IInv => FallbackStands BY DEF IInv, FallbackHolds, FallbackStands
  <1> QED BY <1>1, Invariant, PTL

\* The checkouts are reset and Klippy is moved only under the lock.
THEOREM WorkSafe == Spec => []WorkIsLocked
  <1>1. IInv => WorkIsLocked BY DEF IInv
  <1> QED BY <1>1, Invariant, PTL

-----------------------------------------------------------------------------
\* The record implements PairJudgement.

LEMMA Phases ==
  /\ PhaseOf("validating") = "trial"
  /\ PhaseOf("rollback-pending") = "undoing"
  /\ PhaseOf("factory-fallback") = "parked"
  /\ \A state \in States \ {"validating", "rollback-pending", "factory-fallback"} :
       PhaseOf(state) = "settled"
  BY DEF PhaseOf, States

LEMMA Same == rec' = rec => UNCHANGED J!jvars
  BY DEF J!jvars

LEMMA Settled ==
  ASSUME TypeOK, rec # NoRecord => rec.state \notin Unfinished
  PROVE  J!Settled
  BY RecordTypes, Phases DEF J!Settled, Unfinished

\* A trial or a rollback ends with the known pair as the one that is seen.
LEMMA Ended ==
  ASSUME TypeOK, rec # NoRecord, rec.state \in Unfinished,
         NEW state \in States \ Unfinished, Write(rec.kg, rec.kg, state)
  PROVE  J!Drop
  <1>1. rec' # NoRecord /\ rec'.kg = rec.kg /\ rec'.seen = rec.kg /\ rec'.state = state
    BY Written, RecordTypes
  <1>2. PhaseOf(rec.state) \in {"trial", "undoing"} BY Phases DEF Unfinished
  <1>3. PhaseOf(state) \in {"settled", "parked"} BY Phases DEF Unfinished
  <1> QED BY <1>1, <1>2, <1>3 DEF J!Drop

LEMMA Simulation == ASSUME IInv, [Next]_vars PROVE [J!JudgementNext]_(J!jvars)
  <1>0. TypeOK /\ Steps /\ HasRecord BY StepsHaveRecord DEF IInv
  <1> USE <1>0
  <1> USE Same DEF disk
  <1>1. CASE PowerOn BY <1>1 DEF PowerOn
  <1>2. CASE PowerCut BY <1>2 DEF PowerCut
  <1>3. CASE PrintStart BY <1>3 DEF PrintStart
  <1>4. CASE PrintEnd BY <1>4 DEF PrintEnd
  <1>5. CASE MoonrakerUpdate BY <1>5 DEF MoonrakerUpdate
  <1>6. CASE MoonrakerRestart BY <1>6 DEF MoonrakerRestart
  <1>7. CASE Gate BY <1>7 DEF Gate
  <1>8. CASE SeedKlipper BY <1>8 DEF SeedKlipper
  <1>9. CASE SeedExtensions BY <1>9 DEF SeedExtensions
  <1>10. CASE RecordGeneration BY <1>10 DEF RecordGeneration
  <1>11. CASE Activate BY <1>11 DEF Activate
  <1>12. CASE Reconcile
    <2>1. CASE rec # NoRecord /\ rec.state = "validating"
      <3>1. J!Drop BY <2>1, <1>12, Ended DEF Reconcile, Unfinished, States
      <3> QED BY <3>1 DEF J!JudgementNext
    <2> QED BY <2>1, <1>12 DEF Reconcile
  <1>13. CASE Unlock BY <1>13 DEF Unlock
  <1>14. CASE Bootstrap
    <2>1. rec # NoRecord => rec.state \notin Unfinished
      BY <1>14 DEF Bootstrap, Known, IInv, NeverStuck, Looping, PendingStays, Unfinished
    <2>2. rec' # NoRecord /\ rec'.kg = heads /\ rec'.seen = heads /\ rec'.state = "healthy"
      BY <1>14, Written, HeadTypes DEF Bootstrap, States
    <2>3. J!Adopt BY <2>1, <2>2, Settled, Phases, HeadTypes DEF J!Adopt, States
    <2> QED BY <2>3 DEF J!JudgementNext
  <1>15. CASE PollNothing BY <1>15 DEF PollNothing
  <1>16. CASE PollPending BY <1>16 DEF PollPending
  <1>17. CASE PollChange BY <1>17 DEF PollChange
  <1>18. CASE Settle BY <1>18 DEF Settle
  <1>19. CASE Wake BY <1>19 DEF Wake
  <1>20. CASE TakeLock BY <1>20 DEF TakeLock
  <1>21. CASE MarkValidating
    <2>1. rec # NoRecord /\ rec.state \notin Unfinished BY <1>21 DEF MarkValidating, Steps
    <2>2. rec' # NoRecord /\ rec'.kg = rec.kg /\ rec'.seen = new /\ rec'.state = "validating"
      BY <2>1, <1>21, Written, RecordTypes DEF MarkValidating, States, TypeOK, WorldOK
    <2>3. new \in Pairs /\ rec.kg # NoRecord
      BY <2>1, RecordTypes, ConstantsAssumption DEF TypeOK, WorldOK
    <2>4. J!Offer BY <2>1, <2>2, <2>3, Settled, Phases DEF J!Offer
    <2> QED BY <2>4 DEF J!JudgementNext
  <1>22. CASE PreCheck BY <1>22 DEF PreCheck
  <1>23. CASE RestartRefused("restart", "defer") BY <1>23 DEF RestartRefused
  <1>24. CASE RestartAllowed("restart", "stop") BY <1>24 DEF RestartAllowed
  <1>25. CASE Restart("stop", "judge") BY <1>25 DEF Restart
  <1>26. CASE JudgeHealthy
    <2>1. rec # NoRecord /\ rec.state = "validating" /\ rec.seen = new
      BY <1>26 DEF JudgeHealthy, Steps, Trying
    <2>2. rec' # NoRecord /\ rec'.kg = new /\ rec'.seen = new /\ rec'.state = "healthy"
      BY <1>26, Written DEF JudgeHealthy, States, TypeOK, WorldOK
    <2>3. J!Keep BY <2>1, <2>2, Phases DEF J!Keep, States
    <2> QED BY <2>3 DEF J!JudgementNext
  <1>27. CASE JudgeFailed BY <1>27 DEF JudgeFailed
  <1>28. CASE JudgePrint BY <1>28 DEF JudgePrint
  <1>29. CASE DeferValidation
    <2>1. rec # NoRecord /\ rec.state \in Unfinished
      BY <1>29 DEF DeferValidation, Steps, Trying, Unfinished
    <2>2. J!Drop BY <2>1, <1>29, Ended DEF DeferValidation, States, Unfinished
    <2> QED BY <2>2 DEF J!JudgementNext
  <1>30. CASE RollBack BY <1>30 DEF RollBack
  <1>31. CASE ResetKlipper BY <1>31 DEF ResetKlipper
  <1>32. CASE ResetExtensions BY <1>32 DEF ResetExtensions
  <1>33. CASE Recompose BY <1>33 DEF Recompose
  <1>34. CASE RestartRefused("again", "pend") BY <1>34 DEF RestartRefused
  <1>35. CASE RestartAllowed("again", "restop") BY <1>35 DEF RestartAllowed
  <1>36. CASE Restart("restop", "rejudge") BY <1>36 DEF Restart
  <1>37. CASE RejudgeHealthy
    <2>1. rec # NoRecord /\ rec.state \in Unfinished BY <1>37 DEF RejudgeHealthy, Steps, Undoing
    <2>2. J!Drop BY <2>1, <1>37, Ended DEF RejudgeHealthy, States, Unfinished
    <2> QED BY <2>2 DEF J!JudgementNext
  <1>38. CASE RejudgeFailed BY <1>38 DEF RejudgeFailed
  <1>39. CASE RejudgePrint BY <1>39 DEF RejudgePrint
  <1>40. CASE RollbackPending
    <2>1. rec # NoRecord /\ rec.state \in Unfinished BY <1>40 DEF RollbackPending, Steps, Undoing
    <2>2. /\ rec' # NoRecord /\ rec'.kg = rec.kg /\ rec'.seen = heads
          /\ rec'.state = "rollback-pending"
      BY <2>1, <1>40, Written, RecordTypes, HeadTypes DEF RollbackPending, States
    <2>3. J!Linger BY <2>1, <2>2, Phases, HeadTypes DEF J!Linger, Unfinished
    <2> QED BY <2>3 DEF J!JudgementNext
  <1>41. CASE FallBack BY <1>41 DEF FallBack
  <1>42. CASE Unmount BY <1>42 DEF Unmount
  <1>43. CASE FallenBack
    <2>1. rec # NoRecord /\ rec.state \in Unfinished BY <1>43 DEF FallenBack, Steps, Falling
    <2>2. J!Drop BY <2>1, <1>43, Ended DEF FallenBack, States, Unfinished
    <2> QED BY <2>2 DEF J!JudgementNext
  <1>44. CASE UNCHANGED vars BY <1>44 DEF vars, disk
  <1> QED
    BY <1>1, <1>2, <1>3, <1>4, <1>5, <1>6, <1>7, <1>8, <1>9, <1>10, <1>11, <1>12, <1>13,
       <1>14, <1>15, <1>16, <1>17, <1>18, <1>19, <1>20, <1>21, <1>22, <1>23, <1>24, <1>25,
       <1>26, <1>27, <1>28, <1>29, <1>30, <1>31, <1>32, <1>33, <1>34, <1>35, <1>36, <1>37,
       <1>38, <1>39, <1>40, <1>41, <1>42, <1>43, <1>44
       DEF Next, Outside, Boot, Poll, Validate, Undo
\* The supervisor keeps the judgement of PairJudgement, under every fault.
THEOREM JudgementKept == Spec => KeepsTheJudgement
  <1>1. Init => J!JudgementInit BY DEF Init, J!JudgementInit
  <1>2. IInv /\ [Next]_vars => [J!JudgementNext]_(J!jvars) BY Simulation
  <1> QED BY <1>1, <1>2, Invariant, PTL DEF Spec, KeepsTheJudgement, J!JudgementSpec

-----------------------------------------------------------------------------
\* When the comments on the known-good pair hold: the power stays on with one
\* image, S05 can bind the pair, and Moonraker updates only between two polls.

Quiet ==
    /\ ~MidUpdates
    /\ Budget["cut"] = 0 /\ Budget["image"] = 0 /\ Budget["refuse"] = 0

QuietInv ==
    /\ gen = image
    /\ rec # NoRecord => rec.gen = gen /\ rec.kg \in Good
    /\ rec = NoRecord => heads = Seed[image] /\ ~lock
    /\ pc \in {"off", "reconcile"} \cup Migrating \cup {"activate"} => rec = NoRecord
    /\ pc \notin {"seedK", "seedE", "seedEOnly", "record"}
    /\ pc \in {"sleep", "settle"} \cup Judging \cup Undoing => rec # NoRecord
    /\ pc \in {"reconcile", "poll", "sleep"} =>
         bound \/ (rec # NoRecord /\ rec.state = "factory-fallback" /\ lock)
    /\ pc \in {"settle", "unlock", "fall", "umount"} \cup Judging \cup Undoing => bound
    /\ pc \in {"settle", "mark", "check", "restart", "stop", "judge"} => heads = new
    /\ pc = "judge" => running = new

LEMMA Never ==
  ASSUME TypeOK, NEW kind \in Kinds, Budget[kind] = 0
  PROVE  ~Spend(kind) /\ \A ok \in BOOLEAN : Maybe(kind, ok) => ok
  BY DEF TypeOK, SpentOK, Spend, Maybe

LEMMA QuietStep == ASSUME Quiet, IInv, QuietInv, [Next]_vars PROVE QuietInv'
  <1>0. TypeOK /\ Steps /\ HasRecord BY StepsHaveRecord DEF IInv
  <1>a. ~Spend("cut") /\ ~Spend("image") /\ \A ok \in BOOLEAN : Maybe("refuse", ok) => ok
    <2>1. "cut" \in Kinds /\ "image" \in Kinds /\ "refuse" \in Kinds BY DEF Kinds
    <2> QED BY <1>0, <2>1, Never DEF Quiet
  <1>b. pc' \in PCs /\ pc \in PCs BY PcStep, <1>0 DEF TypeOK
  <1> USE <1>0, <1>a, Written, RecordTypes, HeadTypes
      DEF QuietInv, Goto, disk, Migrating, Judging, Undoing
  <1>1. CASE PowerOn BY <1>1 DEF PowerOn
  <1>2. CASE PowerCut BY <1>2 DEF PowerCut
  <1>3. CASE PrintStart BY <1>3 DEF PrintStart
  <1>4. CASE PrintEnd BY <1>4 DEF PrintEnd
  <1>5. CASE MoonrakerUpdate BY <1>5 DEF MoonrakerUpdate, Quiet, Booting
  <1>6. CASE MoonrakerRestart BY <1>6 DEF MoonrakerRestart, Quiet, Booting
  <1>7. CASE Gate BY <1>7 DEF Gate
  <1>8. CASE SeedKlipper BY <1>8 DEF SeedKlipper
  <1>9. CASE SeedExtensions BY <1>9 DEF SeedExtensions
  <1>10. CASE RecordGeneration BY <1>10 DEF RecordGeneration
  <1>11. CASE Activate BY <1>11, ConstantsAssumption DEF Activate, TypeOK, WorldOK
  <1>12. CASE Reconcile BY <1>12 DEF Reconcile, States, HasRecord, Judging, Undoing, Falling, TypeOK, WorldOK
  <1>13. CASE Unlock BY <1>13 DEF Unlock
  <1>14. CASE Bootstrap BY <1>14, ConstantsAssumption DEF Bootstrap, Known, States, TypeOK, WorldOK
  <1>15. CASE PollNothing BY <1>15 DEF PollNothing, Known
  <1>16. CASE PollPending BY <1>16 DEF PollPending, Known
  <1>17. CASE PollChange BY <1>17 DEF PollChange, Known, Parked
  <1>18. CASE Settle BY <1>18 DEF Settle
  <1>19. CASE Wake BY <1>19 DEF Wake
  <1>20. CASE TakeLock BY <1>20 DEF TakeLock
  <1>21. CASE MarkValidating BY <1>21 DEF MarkValidating, States, HasRecord, Judging, Undoing, Falling, TypeOK, WorldOK
  <1>22. CASE PreCheck BY <1>22 DEF PreCheck
  <1>23. CASE RestartRefused("restart", "defer") BY <1>23 DEF RestartRefused
  <1>24. CASE RestartAllowed("restart", "stop") BY <1>24 DEF RestartAllowed
  <1>25. CASE Restart("stop", "judge") BY <1>25 DEF Restart, OnDisk
  <1>26. CASE JudgeHealthy
    <2>1. new \in Good
      BY <1>26, ConstantsAssumption DEF JudgeHealthy, Stage2, Runs, TypeOK, WorldOK
    <2> QED BY <2>1, <1>26 DEF JudgeHealthy, States, TypeOK, WorldOK
  <1>27. CASE JudgeFailed BY <1>27 DEF JudgeFailed
  <1>28. CASE JudgePrint BY <1>28 DEF JudgePrint
  <1>29. CASE DeferValidation BY <1>29 DEF DeferValidation, States, HasRecord, Judging, Undoing, Falling, TypeOK, WorldOK
  <1>30. CASE RollBack BY <1>30 DEF RollBack
  <1>31. CASE ResetKlipper BY <1>31 DEF ResetKlipper
  <1>32. CASE ResetExtensions BY <1>32 DEF ResetExtensions
  <1>33. CASE Recompose BY <1>33 DEF Recompose
  <1>34. CASE RestartRefused("again", "pend") BY <1>34 DEF RestartRefused
  <1>35. CASE RestartAllowed("again", "restop") BY <1>35 DEF RestartAllowed
  <1>36. CASE Restart("restop", "rejudge") BY <1>36 DEF Restart
  <1>37. CASE RejudgeHealthy BY <1>37 DEF RejudgeHealthy, States, HasRecord, Judging, Undoing, Falling, TypeOK, WorldOK
  <1>38. CASE RejudgeFailed BY <1>38 DEF RejudgeFailed
  <1>39. CASE RejudgePrint BY <1>39 DEF RejudgePrint
  <1>40. CASE RollbackPending BY <1>40 DEF RollbackPending, States, HasRecord, Judging, Undoing, Falling, TypeOK, WorldOK
  <1>41. CASE FallBack BY <1>41 DEF FallBack, HasRecord, Falling
  <1>42. CASE Unmount BY <1>42 DEF Unmount
  <1>43. CASE FallenBack BY <1>43 DEF FallenBack, States, HasRecord, Falling, IInv, WorkIsLocked
  <1>44. CASE UNCHANGED vars BY <1>44 DEF vars, disk
  <1> QED
    BY <1>1, <1>2, <1>3, <1>4, <1>5, <1>6, <1>7, <1>8, <1>9, <1>10, <1>11, <1>12, <1>13,
       <1>14, <1>15, <1>16, <1>17, <1>18, <1>19, <1>20, <1>21, <1>22, <1>23, <1>24, <1>25,
       <1>26, <1>27, <1>28, <1>29, <1>30, <1>31, <1>32, <1>33, <1>34, <1>35, <1>36, <1>37,
       <1>38, <1>39, <1>40, <1>41, <1>42, <1>43, <1>44
       DEF Next, Outside, Boot, Poll, Validate, Undo
LEMMA QuietInit == Init => QuietInv
  BY DEF Init, QuietInv, Migrating, Judging, Undoing

LEMMA QuietAlways == ASSUME Quiet PROVE Spec => []QuietInv
  <1>1. IInv /\ QuietInv /\ [Next]_vars => QuietInv' BY QuietStep
  <1> QED BY <1>1, QuietInit, Invariant, PTL DEF Spec

\* A quiet printer's known-good pair is one that runs (comment above
\* write_stack_state); after a power cut it need not be.
THEOREM KnownGoodHolds == ASSUME Quiet PROVE Spec => []KnownGoodRuns
  <1>1. QuietInv => KnownGoodRuns BY DEF QuietInv, KnownGoodRuns
  <1> QED BY <1>1, QuietAlways, PTL

\* And it was recorded by the one who has just seen that very pair running.
THEOREM SeenRunning == ASSUME Quiet PROVE Spec => JudgedIsRunning
  <1>1. QuietInv => [JudgeHealthy => new = running]_vars BY DEF QuietInv, JudgeHealthy
  <1> QED BY <1>1, QuietAlways, PTL DEF Spec, JudgedIsRunning

=============================================================================
