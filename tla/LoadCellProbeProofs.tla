------------------------ MODULE LoadCellProbeProofs -------------------------
(***************************************************************************)
(* For any lengths of way and record, any beds, lost blocks and false      *)
(* triggers: the nozzle stops within a step of the trigger, the record of  *)
(* steps is whole when it is used, what is measured is the height of the   *)
(* trigger, and a probe that ends well ends where it began.                *)
(*                                                                         *)
(* IInv: the pin that stops the motors is up only on a way down, and the   *)
(* motors are still whenever the host goes on.  Inv2 stands on it and      *)
(* relates the nozzle's true height to the record, to what a short lift    *)
(* left out and to the height of the trigger.  HitInv: no block of the     *)
(* cell's record without a trigger.                                        *)
(***************************************************************************)
EXTENDS LoadCellProbe, SequenceTheorems, WellFoundedInduction, TLAPS

\* Seen through everywhere.
USE DEF StepArrives, PresArrives, Locals

\* The fields these proofs look at.
Shape ==
    /\ {"on", "dir", "now", "need_stop", "send_active", "fifo"} \subseteq DOMAIN step
    /\ {"pc", "step_res"} \subseteq DOMAIN host
    /\ {"acq", "send_active"} \subseteq DOMAIN pres
    /\ "sunk" \in DOMAIN seen
    /\ step.on \in BOOLEAN /\ step.send_active \in Nat
    /\ pres.acq \in BOOLEAN /\ seen.sunk \in Nat /\ swap \in {0, 1}

\* The host waits for motors that it started.
Moving == {"wait", "lifting", "raising"}
StillInv == host.pc \notin Moving => ~step.on /\ step.send_active = 0

\* No block of an earlier movement is left when the host waits for this one's.
RecordInv ==
    /\ host.pc \in {"avgs", "pres", "down"} => host.step_res = <<>>
    /\ host.pc \in Moving =>
         /\ \E S : host.step_res \in Seq(S)
         /\ Len(host.step_res) + step.send_active <= Blocks
         /\ step.on => host.step_res = <<>> /\ step.send_active = 0

\* The cell samples and the pin is up on a way down only.
ArmedInv == pres.acq \/ swap = 1 => host.pc \in {"down", "wait", "disarm"}

\* Half steps since the trigger, and whether the next one is a whole step.
SunkInv ==
    /\ StopsWithinAStep
    /\ swap = 1 /\ host.pc = "down" => seen.sunk = 0
    /\ host.pc = "wait" => step.now \in Int
    /\ swap = 1 /\ host.pc = "wait" /\ step.on =>
         IF step.now % 2 = 0 THEN seen.sunk = 0 ELSE seen.sunk <= 1

IInv == Shape /\ StillInv /\ RecordInv /\ ArmedInv /\ SunkInv
-----------------------------------------------------------------------------
\* A record that grows by one block.
LEMMA Grows ==
  ASSUME NEW S, NEW s \in Seq(S), NEW e
  PROVE  /\ \E T : Append(s, e) \in Seq(T)
         /\ Len(Append(s, e)) = Len(s) + 1 /\ Len(s) \in Nat
  <1>1. s \in Seq(S \cup {e}) /\ e \in S \cup {e} OBVIOUS
  <1>2. Append(s, e) \in Seq(S \cup {e}) BY <1>1
  <1>3. Len(Append(s, e)) = Len(s) + 1 /\ Len(s) \in Nat BY <1>1
  <1> QED BY <1>2, <1>3

LEMMA None == (\E S : <<>> \in Seq(S)) /\ Len(<<>>) = 0
  <1>1. <<>> \in Seq({}) OBVIOUS
  <1> QED BY <1>1

LEMMA BlocksAreSome == Blocks \in Nat \ {0} /\ Travel \in Nat BY SizesAssumption

\* Steps of the host alone, between movements.
LEMMA QuietStep ==
  ASSUME IInv, UNCHANGED <<step, pres, swap, seen>>,
         {"pc", "step_res"} \subseteq DOMAIN host',
         host.pc \notin Moving \cup {"down", "disarm"},
         host'.pc \notin Moving \cup {"down", "pres"},
         host'.pc = "avgs" => host'.step_res = <<>>
  PROVE  IInv'
  BY DEF IInv, Shape, StillInv, RecordInv, ArmedInv, SunkInv, StopsWithinAStep, Moving

\* The motors start.
LEMMA StartStep ==
  ASSUME IInv, NEW dir, NEW cnt, step' = StepsStarted(dir, cnt), UNCHANGED <<pres, swap, seen>>,
         {"pc", "step_res"} \subseteq DOMAIN host', host'.step_res = <<>>,
         \/ host.pc = "down" /\ host'.pc = "wait" /\ cnt \in Nat
         \/ host.pc \notin {"down", "wait", "disarm"} /\ host'.pc \in {"lifting", "raising"}
  PROVE  IInv'
  <1>1. /\ step'.on = TRUE /\ step'.now = 2 * cnt /\ step'.send_active = 0
        /\ DOMAIN step' = DOMAIN step
    BY DEF IInv, Shape, StepsStarted
  <1>2. cnt \in Nat => step'.now \in Int /\ step'.now % 2 = 0 BY <1>1
  <1>3. step'.on \in BOOLEAN BY <1>1
  <1>4. Shape' BY <1>1, <1>3 DEF IInv, Shape
  <1>5. host'.pc \in Moving \ {"wait"} \/ (host'.pc = "wait" /\ host.pc = "down") BY DEF Moving
  <1>6. StillInv' BY <1>5 DEF StillInv, Moving
  <1>7. RecordInv' BY <1>1, None, BlocksAreSome DEF RecordInv, Moving
  <1>8. ArmedInv' BY DEF IInv, ArmedInv
  <1>9. SunkInv' BY <1>1, <1>2 DEF IInv, ArmedInv, SunkInv, StopsWithinAStep
  <1> QED BY <1>4, <1>6, <1>7, <1>8, <1>9 DEF IInv

\* The wait for a movement ends, because all its blocks are there or none is left.
LEMMA WaitStep ==
  ASSUME IInv, host.pc \in Moving, Len(host.step_res) = Blocks \/ TooLong, StopSteps,
         UNCHANGED <<pres, swap, seen>>, {"pc", "step_res"} \subseteq DOMAIN host',
         IF host.pc = "wait" THEN host'.pc = "disarm" ELSE host'.pc \in {"done", "clear", "raised"}
  PROVE  IInv'
  <1>1. step'.on = step.on /\ step'.send_active = step.send_active /\ DOMAIN step' = DOMAIN step
    BY DEF IInv, Shape, StopSteps
  <1>2. ~step.on /\ step.send_active = 0
    <2>1. CASE TooLong BY <2>1 DEF TooLong
    <2>2. CASE Len(host.step_res) = Blocks
      BY <2>2, None, BlocksAreSome DEF IInv, Shape, RecordInv
    <2> QED BY <2>1, <2>2
  <1>3. Shape' BY <1>1 DEF IInv, Shape
  <1>4. StillInv' BY <1>1, <1>2 DEF StillInv
  <1>5. host'.pc \notin Moving \cup {"avgs", "pres", "down"} BY DEF Moving
  <1>6. RecordInv' /\ SunkInv' BY <1>5 DEF IInv, RecordInv, SunkInv, StopsWithinAStep, Moving
  <1>7. ArmedInv' BY DEF IInv, ArmedInv, Moving
  <1> QED BY <1>3, <1>4, <1>6, <1>7 DEF IInv

-----------------------------------------------------------------------------
(* The controller.                                                         *)

LEMMA EdgeStep == ASSUME IInv, PrtouchEvent PROVE IInv'
  <1> DEFINE now == step.now - 1
             ends == MayStop(now)
  <1>1. step.on /\ host.pc \in Moving BY DEF IInv, StillInv, PrtouchEvent
  <1>2. /\ UNCHANGED <<pres, swap, host>>
        /\ DOMAIN step' = DOMAIN step
        /\ ~ends => step'.on = TRUE /\ step'.now = now /\ step'.send_active = 0
        /\ ends => step'.on = FALSE /\ step'.now = 0 /\ step'.send_active = Blocks
    BY <1>1 DEF IInv, Shape, RecordInv, PrtouchEvent
  <1>3. /\ DOMAIN seen' = DOMAIN seen
        /\ seen'.sunk = IF swap = 1 THEN seen.sunk + 1 ELSE seen.sunk
    BY DEF IInv, Shape, PrtouchEvent
  <1>4. step'.on \in BOOLEAN BY <1>2
  <1>5. Shape' BY <1>2, <1>3, <1>4, BlocksAreSome DEF IInv, Shape
  <1>6. StillInv' /\ ArmedInv' BY <1>1, <1>2 DEF IInv, StillInv, ArmedInv
  <1>7. RecordInv'
    <2>1. host.step_res = <<>> BY <1>1 DEF IInv, RecordInv
    <2>2. host'.pc \in Moving /\ host'.step_res = <<>> BY <1>1, <1>2, <2>1
    <2>3. step'.send_active \in 0 .. Blocks /\ (step'.on => step'.send_active = 0)
      BY <1>2, BlocksAreSome
    <2> QED BY <2>2, <2>3, None, BlocksAreSome DEF RecordInv, Moving
  <1>8. SunkInv'
    <2>1. CASE swap # 1
      BY <1>1, <1>2, <1>3, <2>1 DEF IInv, SunkInv, StopsWithinAStep, Moving
    <2>2. CASE swap = 1
      <3>1. host.pc = "wait" BY <1>1, <2>2 DEF IInv, ArmedInv, Moving
      <3>2. /\ step.now \in Int /\ seen.sunk \in Nat
            /\ IF step.now % 2 = 0 THEN seen.sunk = 0 ELSE seen.sunk <= 1
        BY <1>1, <2>2, <3>1 DEF IInv, Shape, SunkInv
      <3>3. CASE step.now % 2 = 0
        <4>1. now \in Int /\ now % 2 # 0 BY <3>2, <3>3
        <4>2. ~ends BY <4>1 DEF MayStop
        <4> QED BY <1>2, <1>3, <2>2, <3>1, <3>2, <3>3, <4>1, <4>2 DEF SunkInv, StopsWithinAStep
      <3>4. CASE step.now % 2 # 0
        <4>1. now \in Int /\ now % 2 = 0 BY <3>2, <3>4
        <4>2. ends BY <2>2, <4>1 DEF MayStop
        <4>3. seen'.sunk <= 2 BY <1>3, <2>2, <3>2, <3>4
        <4> QED BY <1>2, <3>1, <4>2, <4>3 DEF SunkInv, StopsWithinAStep
      <3> QED BY <3>3, <3>4
    <2> QED BY <2>1, <2>2
  <1> QED BY <1>5, <1>6, <1>7, <1>8 DEF IInv

LEMMA TriggerStep == ASSUME IInv, PresTask PROVE IInv'
  <1>1. /\ seen'.sunk = 0 /\ "sunk" \in DOMAIN seen' /\ swap' = 1
        /\ pres'.acq = FALSE /\ {"acq", "send_active"} \subseteq DOMAIN pres'
        /\ pres.acq /\ UNCHANGED <<step, host>>
    BY DEF PresTask, IInv, Shape
  <1>2. pres'.acq \in BOOLEAN BY <1>1
  <1>3. Shape' /\ StillInv' /\ RecordInv' BY <1>1, <1>2 DEF IInv, Shape, StillInv, RecordInv
  <1>4. ArmedInv' /\ SunkInv'
    BY <1>1 DEF IInv, ArmedInv, SunkInv, StopsWithinAStep
  <1> QED BY <1>3, <1>4 DEF IInv

LEMMA BlockStep == ASSUME IInv, StepTask PROVE IInv'
  <1>1. /\ UNCHANGED <<pres, swap, seen>> /\ DOMAIN step' = DOMAIN step
        /\ step'.on = step.on /\ step'.now = step.now
        /\ step'.send_active = step.send_active - 1 /\ step.send_active > 0
    BY DEF IInv, Shape, StepTask
  <1>2. step.send_active \in Nat /\ step'.send_active \in Nat /\ host.pc \in Moving /\ ~step.on
    BY <1>1 DEF IInv, Shape, StillInv, RecordInv
  <1>3. /\ host'.pc = host.pc /\ DOMAIN host' = DOMAIN host
        /\ \/ host'.step_res = host.step_res
           \/ \E e : host'.step_res = Append(host.step_res, e)
    BY DEF IInv, Shape, StepTask
  <1>4. Shape' /\ StillInv' /\ ArmedInv' /\ SunkInv'
    BY <1>1, <1>2, <1>3 DEF IInv, Shape, StillInv, ArmedInv, SunkInv, StopsWithinAStep
  <1>5. (\E S : host'.step_res \in Seq(S)) /\ Len(host'.step_res) + step'.send_active <= Blocks
    <2>1. PICK S : host.step_res \in Seq(S) BY <1>2 DEF IInv, RecordInv
    <2>2. Len(host.step_res) \in Nat /\ Len(host.step_res) + step.send_active <= Blocks
      BY <1>2, <2>1 DEF IInv, RecordInv
    <2>3. CASE host'.step_res = host.step_res
      BY <1>1, <1>2, <2>1, <2>2, <2>3, BlocksAreSome
    <2>4. ASSUME NEW e, host'.step_res = Append(host.step_res, e)
          PROVE  /\ \E T : host'.step_res \in Seq(T)
                 /\ Len(host'.step_res) + step'.send_active <= Blocks
      <3>1. /\ \E T : Append(host.step_res, e) \in Seq(T)
            /\ Len(Append(host.step_res, e)) = Len(host.step_res) + 1
        BY <2>1, Grows
      <3> QED BY SMTT(30), <1>1, <1>2, <2>2, <2>4, <3>1, BlocksAreSome
    <2> QED BY <1>3, <2>3, <2>4
  <1>6. RecordInv' BY <1>1, <1>2, <1>3, <1>5 DEF RecordInv, Moving
  <1> QED BY <1>4, <1>6 DEF IInv

LEMMA ControllerStep == ASSUME IInv, Controller PROVE IInv'
  <1>1. CASE SysTimeEvent
    <2>1. UNCHANGED <<step, pres, swap, host, seen>> BY <1>1 DEF SysTimeEvent
    <2> QED BY <2>1 DEF IInv, Shape, StillInv, RecordInv, ArmedInv, SunkInv, StopsWithinAStep
  <1>2. CASE PresSend
    <2>1. /\ UNCHANGED <<step, swap, seen>> /\ DOMAIN pres' = DOMAIN pres /\ pres'.acq = pres.acq
          /\ host'.pc = host.pc /\ host'.step_res = host.step_res /\ DOMAIN host' = DOMAIN host
      BY <1>2 DEF IInv, Shape, PresSend
    <2> QED BY <2>1 DEF IInv, Shape, StillInv, RecordInv, ArmedInv, SunkInv, StopsWithinAStep
  <1> QED BY <1>1, <1>2, EdgeStep, BlockStep DEF Controller

-----------------------------------------------------------------------------
(* The host.                                                               *)

LEMMA ArmStep == ASSUME IInv, DealAvgs \/ SendStartPres \/ SendStopPres PROVE IInv'
  <1>1. /\ UNCHANGED step /\ DOMAIN host' = DOMAIN host /\ host'.step_res = host.step_res
        /\ \/ host.pc = "avgs" /\ host'.pc = "pres"
           \/ host.pc = "pres" /\ host'.pc = "down"
           \/ host.pc = "disarm" /\ host'.pc = "judge"
    BY DEF IInv, Shape, DealAvgs, SendStartPres, SendStopPres, Goto
  <1>2. Shape'
    <2>1. CASE DealAvgs BY <1>1, <2>1 DEF IInv, Shape, DealAvgs
    <2>2. CASE SendStartPres
      <3>1. /\ pres'.acq = TRUE /\ {"acq", "send_active"} \subseteq DOMAIN pres'
            /\ swap' = 0 /\ seen'.sunk = 0 /\ "sunk" \in DOMAIN seen'
        BY <2>2 DEF SendStartPres, StartPres, NoHit
      <3>2. pres'.acq \in BOOLEAN BY <3>1
      <3> QED BY <1>1, <3>1, <3>2 DEF IInv, Shape
    <2>3. CASE SendStopPres BY <1>1, <2>3 DEF IInv, Shape, SendStopPres, StopPres
    <2> QED BY <2>1, <2>2, <2>3
  <1>3. StillInv' /\ RecordInv' BY <1>1 DEF IInv, StillInv, RecordInv, Moving
  <1>4. ArmedInv' /\ SunkInv'
    <2>1. CASE DealAvgs
      BY <1>1, <2>1 DEF IInv, ArmedInv, SunkInv, StopsWithinAStep, DealAvgs
    <2>2. CASE SendStartPres
      BY <1>1, <2>2 DEF IInv, ArmedInv, SunkInv, StopsWithinAStep, SendStartPres, StartPres, NoHit
    <2>3. CASE SendStopPres
      BY <1>1, <2>3 DEF IInv, Shape, ArmedInv, SunkInv, StopsWithinAStep, SendStopPres, StopPres
    <2> QED BY <2>1, <2>2, <2>3
  <1> QED BY <1>2, <1>3, <1>4 DEF IInv

LEMMA JudgeStep ==
  ASSUME IInv, Clear \/ NoTrigger \/ GetSteps \/ GetPres \/ RefreshZ \/ Measure PROVE IInv'
  <1>1. UNCHANGED <<step, pres, swap, seen>>
    BY ZenonT(60) DEF Clear, NoTrigger, GetSteps, GetPres, RefreshZ, Measure
  <1>2. host.pc \in {"clear", "judge", "getpres", "use"}
    BY DEF Clear, NoTrigger, GetSteps, GetPres, RefreshZ, Measure
  <1>3. /\ DOMAIN host' = DOMAIN host
        /\ host'.pc \in {"avgs", "clear", "raise", "getpres", "use", "lift"}
        /\ host'.pc = "avgs" => host'.step_res = <<>>
    <2>1. CASE Clear BY <2>1 DEF IInv, Shape, Clear
    <2>2. CASE NoTrigger BY <2>2 DEF IInv, Shape, NoTrigger, ZeroHere, Goto
    <2>3. CASE GetSteps BY <2>3 DEF IInv, Shape, GetSteps
    <2>4. CASE GetPres BY <2>4 DEF IInv, Shape, GetPres
    <2>5. CASE RefreshZ BY <2>5 DEF IInv, Shape, RefreshZ, ZeroHere
    <2>6. CASE Measure BY <2>6 DEF IInv, Shape, Measure
    <2> QED BY <2>1, <2>2, <2>3, <2>4, <2>5, <2>6
  <1> QED BY SMTT(30), <1>1, <1>2, <1>3, QuietStep DEF IInv, Shape, Moving

LEMMA HostStep == ASSUME IInv, Host PROVE IInv'
  <1>1. CASE SendDown
    <2>1. /\ host.pc = "down" /\ host'.pc = "wait" /\ DOMAIN host' = DOMAIN host
          /\ host'.step_res = host.step_res /\ host.step_res = <<>>
      BY <1>1 DEF IInv, Shape, RecordInv, SendDown, Goto
    <2> QED BY <1>1, <2>1, StartStep, BlocksAreSome DEF SendDown, IInv, Shape
  <1>2. CASE SendLift \/ RaiseLift
    <2>1. /\ host.pc \in {"lift", "raise"} /\ host'.pc \in {"lifting", "raising"}
          /\ DOMAIN host' = DOMAIN host /\ host'.step_res = <<>>
      BY <1>2 DEF IInv, Shape, SendLift, RaiseLift
    <2> QED BY <1>2, <2>1, StartStep DEF SendLift, RaiseLift, IInv, Shape
  <1>3. CASE Waited \/ Lifted \/ Raise
    <2>1. /\ DOMAIN host' = DOMAIN host
          /\ host.pc \in Moving
          /\ IF host.pc = "wait" THEN host'.pc = "disarm"
             ELSE host'.pc \in {"done", "clear", "raised"}
      BY <1>3 DEF IInv, Shape, Waited, Lifted, Raise, WaitEnds, Goto, Moving
    <2> QED BY <1>3, <2>1, WaitStep DEF Waited, Lifted, Raise, WaitEnds, IInv, Shape
  <1> QED BY <1>1, <1>2, <1>3, ArmStep, JudgeStep DEF Host

LEMMA Invariant == Spec => []IInv
  <1>1. Init => IInv
    BY DEF Init, NoHit, IInv, Shape, StillInv, RecordInv, ArmedInv, SunkInv, StopsWithinAStep,
           Moving
  <1>2. IInv /\ [Next]_vars => IInv'
    <2> SUFFICES ASSUME IInv, [Next]_vars PROVE IInv' OBVIOUS
    <2>1. CASE UNCHANGED vars
      BY <2>1 DEF vars, IInv, Shape, StillInv, RecordInv, ArmedInv, SunkInv, StopsWithinAStep
    <2> QED BY <2>1, ControllerStep, TriggerStep, HostStep DEF Next
  <1> QED BY <1>1, <1>2, PTL DEF Spec

\* The motors stop within a whole step of the trigger, whatever the lengths of
\* the way and of the records, wherever the bed is, however often the cell
\* triggers in the air and however many blocks are lost.
THEOREM StopsSoon == Spec => []StopsWithinAStep
  <1>1. IInv => StopsWithinAStep BY DEF IInv, SunkInv
  <1> QED BY <1>1, Invariant, PTL

-----------------------------------------------------------------------------
(* The repair of a record *)

LEMMA Least ==
  ASSUME NEW T, T \subseteq Nat, T # {}
  PROVE  \E m \in T : \A k \in T : m <= k
  <1>1. IsWellFoundedOn(OpToRel(<, Nat), Nat) BY NatLessThanWellFounded
  <1>2. PICK m \in T : \A k \in T : ~(<<k, m>> \in OpToRel(<, Nat)) BY <1>1, WFMin
  <1>3. \A k \in T : ~ (k < m) BY <1>2 DEF OpToRel
  <1>4. \A k \in T : m \in Int /\ k \in Int OBVIOUS
  <1>5. \A k \in T : m <= k BY <1>3, <1>4
  <1> QED BY <1>5

LEMMA Inductive ==
  ASSUME NEW S, 0 \in S, \A n \in Nat : n \in S => n + 1 \in S
  PROVE  Nat \subseteq S
  <1>1. SUFFICES ASSUME Nat \ S # {} PROVE FALSE OBVIOUS
  <1>2. PICK m \in Nat \ S : \A k \in Nat \ S : m <= k BY <1>1, Least
  <1>3. m # 0 /\ m - 1 \in Nat /\ m - 1 \in S BY <1>2
  <1> QED BY <1>2, <1>3

\* The repair of a record, from its first block on.
RepairOf(g, res, entry, size) ==
    g = [i \in 0 .. size |-> IF i = 0 THEN res ELSE Placed(g[i - 1], entry, i)]

LEMMA RepairExists ==
  ASSUME NEW res, NEW entry, NEW size \in Nat
  PROVE  \E g : RepairOf(g, res, entry, size)
  <1> DEFINE S == {n \in Nat : \E g : RepairOf(g, res, entry, n)}
  <1>1. 0 \in S
    <2>1. RepairOf([i \in 0 .. 0 |-> res], res, entry, 0) BY DEF RepairOf
    <2> QED BY <2>1
  <1>2. ASSUME NEW n \in Nat, n \in S PROVE n + 1 \in S
    <2>1. PICK g : RepairOf(g, res, entry, n) BY <1>2
    <2> DEFINE h == [i \in 0 .. n + 1 |-> IF i = n + 1 THEN Placed(g[n], entry, n + 1) ELSE g[i]]
    <2>2. RepairOf(h, res, entry, n + 1)
      <3>0. h = [i \in 0 .. n + 1 |-> IF i = n + 1 THEN Placed(g[n], entry, n + 1) ELSE g[i]]
        OBVIOUS
      <3> HIDE DEF h
      <3>1. \A i \in 0 .. n : h[i] = g[i] BY <3>0
      <3>2. ASSUME NEW i \in 0 .. n + 1
            PROVE  h[i] = IF i = 0 THEN res ELSE Placed(h[i - 1], entry, i)
        <4>1. CASE i = n + 1
          <5>1. h[i] = Placed(g[n], entry, n + 1) /\ h[i - 1] = g[n] BY <3>0, <3>1, <4>1
          <5> QED BY <4>1, <5>1
        <4>2. CASE i \in 0 .. n
          <5>1. h[i] = IF i = 0 THEN res ELSE Placed(g[i - 1], entry, i)
            BY <2>1, <3>1, <4>2 DEF RepairOf
          <5> QED BY <5>1, <4>2, <3>1
        <4> QED BY <4>1, <4>2
      <3> DEFINE k == [i \in 0 .. n + 1 |-> IF i = 0 THEN res ELSE Placed(h[i - 1], entry, i)]
      <3>3. h = k BY <3>0, <3>2
      <3> QED BY <3>3 DEF RepairOf
    <2> QED BY <2>2
  <1> HIDE DEF S
  <1>3. Nat \subseteq S BY <1>1, <1>2, Inductive
  <1> QED BY <1>3 DEF S

LEMMA RefetchedIs ==
  ASSUME NEW res, NEW entry, NEW size \in Nat
  PROVE  \E g : RepairOf(g, res, entry, size) /\ Refetched(res, entry, size) = g[size]
  <1> DEFINE f == CHOOSE g :
                    g = [i \in 0 .. size |-> IF i = 0 THEN res ELSE Placed(g[i - 1], entry, i)]
  <1>1. \E g : g = [i \in 0 .. size |-> IF i = 0 THEN res ELSE Placed(g[i - 1], entry, i)]
    <2>1. PICK g : RepairOf(g, res, entry, size) BY RepairExists
    <2>2. g = [i \in 0 .. size |-> IF i = 0 THEN res ELSE Placed(g[i - 1], entry, i)]
      BY <2>1 DEF RepairOf
    <2> QED BY <2>2
  <1>2. f = [i \in 0 .. size |-> IF i = 0 THEN res ELSE Placed(f[i - 1], entry, i)]
    BY <1>1
  <1>3. Refetched(res, entry, size) = f[size] BY DEF Refetched
  <1> QED BY <1>2, <1>3 DEF RepairOf

LEMMA InsertIs ==
  ASSUME NEW S, NEW seq \in Seq(S), NEW i \in 1 .. Len(seq) + 1, NEW e \in S
  PROVE  /\ InsertAt(seq, i, e) \in Seq(S)
         /\ Len(InsertAt(seq, i, e)) = Len(seq) + 1
         /\ \A j \in 1 .. Len(seq) + 1 :
              InsertAt(seq, i, e)[j] = IF j < i THEN seq[j] ELSE IF j = i THEN e ELSE seq[j - 1]
  <1> DEFINE a == SubSeq(seq, 1, i - 1)
             b == SubSeq(seq, i, Len(seq))
  <1>1. /\ Len(seq) \in Nat /\ i \in Int /\ i - 1 \in Int
        /\ \A k \in 1 .. Len(seq) : seq[k] \in S
    BY LenProperties, ElementOfSeq
  <1>2. /\ a \in Seq(S) /\ Len(a) = i - 1 /\ \A k \in 1 .. i - 1 : a[k] = seq[k]
    <2>1. \A k \in 1 .. i - 1 : seq[k] \in S BY <1>1
    <2> QED BY <1>1, <2>1, SubSeqProperties
  <1>3. /\ b \in Seq(S) /\ Len(b) = Len(seq) - i + 1
        /\ \A k \in 1 .. Len(seq) - i + 1 : b[k] = seq[i + k - 1]
    <2>1. \A k \in i .. Len(seq) : seq[k] \in S BY <1>1
    <2> QED BY <1>1, <2>1, SubSeqProperties
  <1>4. <<e>> \in Seq(S) /\ Len(<<e>>) = 1 /\ <<e>>[1] = e OBVIOUS
  <1> HIDE DEF a, b
  <1>5. /\ a \o <<e>> \in Seq(S) /\ Len(a \o <<e>>) = i
        /\ \A k \in 1 .. i : (a \o <<e>>)[k] = IF k <= i - 1 THEN a[k] ELSE <<e>>[k - (i - 1)]
    BY <1>1, <1>2, <1>4, ConcatProperties
  <1>6. \A k \in 1 .. i : (a \o <<e>>)[k] = IF k < i THEN seq[k] ELSE e
    BY <1>1, <1>2, <1>4, <1>5
  <1> DEFINE c == a \o <<e>>
  <1>7. /\ c \in Seq(S) /\ Len(c) = i /\ \A k \in 1 .. i : c[k] = IF k < i THEN seq[k] ELSE e
    BY <1>5, <1>6
  <1> HIDE DEF c
  <1>8. /\ c \o b \in Seq(S) /\ Len(c \o b) = Len(seq) + 1
        /\ \A k \in 1 .. Len(seq) + 1 : (c \o b)[k] = IF k <= i THEN c[k] ELSE b[k - i]
    <2>1. i + (Len(seq) - i + 1) = Len(seq) + 1 /\ Len(c) + Len(b) = Len(seq) + 1
      BY <1>1, <1>3, <1>7
    <2>2. /\ c \o b \in Seq(S) /\ Len(c \o b) = Len(c) + Len(b)
          /\ \A k \in 1 .. Len(c) + Len(b) :
               (c \o b)[k] = IF k <= Len(c) THEN c[k] ELSE b[k - Len(c)]
      BY <1>3, <1>7, ConcatProperties
    <2> QED BY <1>7, <2>1, <2>2
  <1>9. ASSUME NEW j \in 1 .. Len(seq) + 1
        PROVE  (c \o b)[j] = IF j < i THEN seq[j] ELSE IF j = i THEN e ELSE seq[j - 1]
    <2>1. CASE j <= i BY <1>1, <1>7, <1>8, <2>1
    <2>2. CASE j > i
      <3>1. j - i \in 1 .. Len(seq) - i + 1 /\ i + (j - i) - 1 = j - 1 BY <1>1, <2>2
      <3>2. b[j - i] = seq[j - 1] BY <1>3, <3>1
      <3> QED BY SMTT(30), <1>1, <1>8, <2>2, <3>2
    <2>3. j <= i \/ j > i BY <1>1
    <2> QED BY <2>1, <2>2, <2>3
  <1>10. InsertAt(seq, i, e) = c \o b BY DEF InsertAt, a, b, c
  <1> QED BY <1>8, <1>9, <1>10

LEMMA SmallerOfTwo == \A i, n \in Int : Min({i, n}) = IF i <= n THEN i ELSE n
  <1> SUFFICES ASSUME NEW i \in Int, NEW n \in Int
               PROVE  Min({i, n}) = IF i <= n THEN i ELSE n
    OBVIOUS
  <1>1. \E x \in {i, n} : \A y \in {i, n} : x =< y OBVIOUS
  <1>2. Min({i, n}) \in {i, n} /\ \A y \in {i, n} : Min({i, n}) =< y BY <1>1 DEF Min
  <1> QED BY <1>2

\* One block more is there, and none is lost.
LEMMA PlacedIs ==
  ASSUME NEW S, NEW r \in Seq(S), NEW entry, NEW i \in Nat \ {0}, entry[i - 1] \in S,
         Len(r) >= i - 1
  PROVE  LET p == Placed(r, entry, i)
         IN  /\ p \in Seq(S) /\ Len(p) >= i
             /\ \/ p = r /\ r[i].index = i - 1
                \/ /\ Len(r) < i \/ r[i].index # i - 1
                   /\ Len(p) = Len(r) + 1
                   /\ \A j \in 1 .. Len(p) :
                        p[j] = IF j < i THEN r[j] ELSE IF j = i THEN entry[i - 1] ELSE r[j - 1]
  <1>1. Len(r) \in Nat BY LenProperties
  <1>2. CASE Len(r) >= i /\ r[i].index = i - 1 BY <1>2 DEF Placed
  <1>3. CASE ~(Len(r) >= i /\ r[i].index = i - 1)
    <2>1. Min({i, Len(r) + 1}) = i /\ i \in 1 .. Len(r) + 1 BY <1>1, SmallerOfTwo
    <2>2. Placed(r, entry, i) = InsertAt(r, i, entry[i - 1]) BY <1>3, <2>1 DEF Placed
    <2> DEFINE e == entry[i - 1]
               p == InsertAt(r, i, e)
    <2>5. e \in S /\ i \in 1 .. Len(r) + 1 BY <2>1
    <2> HIDE DEF e
    <2>3. /\ p \in Seq(S) /\ Len(p) = Len(r) + 1
          /\ \A j \in 1 .. Len(r) + 1 :
               p[j] = IF j < i THEN r[j] ELSE IF j = i THEN e ELSE r[j - 1]
      BY <2>5, InsertIs
    <2> HIDE DEF p
    <2>4. Len(p) >= i /\ (Len(r) < i \/ r[i].index # i - 1) BY <1>1, <1>3, <2>3
    <2> QED BY <2>2, <2>3, <2>4 DEF p, e
  <1> QED BY <1>2, <1>3

\* A repaired record has at least one block at every place.
LEMMA RefetchedIsLong ==
  ASSUME NEW S, NEW res \in Seq(S), NEW size \in Nat, NEW entry,
         \A i \in 0 .. size - 1 : entry[i] \in S
  PROVE  Refetched(res, entry, size) \in Seq(S) /\ Len(Refetched(res, entry, size)) >= size
  <1>1. PICK g : RepairOf(g, res, entry, size) /\ Refetched(res, entry, size) = g[size]
    BY RefetchedIs
  <1> DEFINE T == {n \in Nat : n <= size => g[n] \in Seq(S) /\ Len(g[n]) >= n}
  <1>2. 0 \in T
    <2>1. g[0] = res BY <1>1 DEF RepairOf
    <2>2. Len(res) \in Nat BY LenProperties
    <2> QED BY <2>1, <2>2
  <1>3. ASSUME NEW n \in Nat, n \in T PROVE n + 1 \in T
    <2> SUFFICES ASSUME n + 1 <= size PROVE g[n + 1] \in Seq(S) /\ Len(g[n + 1]) >= n + 1
      OBVIOUS
    <2>1. g[n] \in Seq(S) /\ Len(g[n]) >= n BY <1>3
    <2>2. g[n + 1] = Placed(g[n], entry, n + 1) BY <1>1 DEF RepairOf
    <2>3. entry[(n + 1) - 1] \in S /\ Len(g[n]) >= (n + 1) - 1 /\ n + 1 \in Nat \ {0} BY <2>1
    <2> QED BY <2>1, <2>2, <2>3, PlacedIs
  <1> HIDE DEF T
  <1>4. size \in T BY <1>2, <1>3, Inductive
  <1> QED BY <1>1, <1>4 DEF T

\* Blocks of a record in their order, from place i on those not yet repaired.
InOrder(r, entry, size, i) ==
    /\ \A k \in 1 .. i : r[k] = entry[k - 1]
    /\ \A k \in i + 1 .. Len(r) : r[k].index \in i .. size - 1 /\ r[k] = entry[r[k].index]
    /\ \A k, l \in i + 1 .. Len(r) : k < l => r[k].index < r[l].index

LEMMA RefetchedIsWhole ==
  ASSUME NEW S, NEW res \in Seq(S), NEW size \in Nat, NEW entry,
         \A i \in 0 .. size - 1 : entry[i] \in S,
         InOrder(res, entry, size, 0)
  PROVE  /\ Refetched(res, entry, size) \in Seq(S)
         /\ Refetched(res, entry, size) = [k \in 1 .. size |-> entry[k - 1]]
  <1>1. PICK g : RepairOf(g, res, entry, size) /\ Refetched(res, entry, size) = g[size]
    BY RefetchedIs
  <1> DEFINE T == {n \in Nat : n <= size =>
                     g[n] \in Seq(S) /\ Len(g[n]) >= n /\ InOrder(g[n], entry, size, n)}
  <1>2. 0 \in T
    <2>1. g[0] = res BY <1>1 DEF RepairOf
    <2>2. Len(res) \in Nat BY LenProperties
    <2> QED BY <2>1, <2>2
  <1>3. ASSUME NEW n \in Nat, n \in T PROVE n + 1 \in T
    <2> SUFFICES ASSUME n + 1 <= size
                 PROVE  /\ g[n + 1] \in Seq(S) /\ Len(g[n + 1]) >= n + 1
                        /\ InOrder(g[n + 1], entry, size, n + 1)
      OBVIOUS
    <2> DEFINE r == g[n]
               p == g[n + 1]
    <2>1. r \in Seq(S) /\ Len(r) >= n /\ InOrder(r, entry, size, n) BY <1>3
    <2>2. p = Placed(r, entry, n + 1) BY <1>1 DEF RepairOf
    <2>3. entry[(n + 1) - 1] \in S /\ Len(r) >= (n + 1) - 1 /\ n + 1 \in Nat \ {0} BY <2>1
    <2> HIDE DEF r, p
    <2>4. /\ p \in Seq(S) /\ Len(p) >= n + 1
          /\ \/ p = r /\ r[n + 1].index = n
             \/ /\ Len(r) < n + 1 \/ r[n + 1].index # n
                /\ Len(p) = Len(r) + 1
                /\ \A j \in 1 .. Len(p) :
                     p[j] = IF j < n + 1 THEN r[j]
                            ELSE IF j = n + 1 THEN entry[n] ELSE r[j - 1]
      BY <2>1, <2>2, <2>3, PlacedIs
    <2>5. Len(r) \in Nat /\ Len(p) \in Nat BY <2>1, <2>4, LenProperties
    <2>6. InOrder(p, entry, size, n + 1)
      <3>1. CASE p = r /\ r[n + 1].index = n
        <4>1. r[n + 1] = entry[n] BY <2>1, <2>4, <2>5, <3>1 DEF InOrder
        <4>2. \A k \in n + 2 .. Len(r) : r[k].index \in n + 1 .. size - 1
          BY <2>1, <2>4, <2>5, <3>1 DEF InOrder
        <4>3. \A k \in 1 .. n + 1 : r[k] = entry[k - 1]
          <5>1. \A k \in 1 .. n + 1 : k \in 1 .. n \/ k = n + 1 OBVIOUS
          <5>2. (n + 1) - 1 = n OBVIOUS
          <5> QED BY <2>1, <4>1, <5>1, <5>2 DEF InOrder
        <4>4. \A k \in n + 2 .. Len(r) : r[k] = entry[r[k].index]
          BY <2>1, <2>5 DEF InOrder
        <4>5. \A k, l \in n + 2 .. Len(r) : k < l => r[k].index < r[l].index
          BY <2>1, <2>5 DEF InOrder
        <4>6. (n + 1) + 1 = n + 2 OBVIOUS
        <4> QED BY <3>1, <4>2, <4>3, <4>4, <4>5, <4>6 DEF InOrder
      <3>2. CASE /\ Len(r) < n + 1 \/ r[n + 1].index # n
                 /\ Len(p) = Len(r) + 1
                 /\ \A j \in 1 .. Len(p) :
                      p[j] = IF j < n + 1 THEN r[j]
                             ELSE IF j = n + 1 THEN entry[n] ELSE r[j - 1]
        <4>1. \A k \in 1 .. n + 1 : p[k] = entry[k - 1]
          <5>1. \A k \in 1 .. n + 1 : k \in 1 .. Len(p) /\ (k \in 1 .. n \/ k = n + 1)
            BY <2>4, <2>5
          <5>2. \A k \in 1 .. n : p[k] = r[k] BY <3>2, <5>1
          <5>3. p[n + 1] = entry[n] /\ (n + 1) - 1 = n BY <3>2, <5>1
          <5> QED BY <2>1, <5>1, <5>2, <5>3 DEF InOrder
        <4>2. \A k \in n + 2 .. Len(p) : p[k] = r[k - 1] /\ k - 1 \in n + 1 .. Len(r)
          BY <2>5, <3>2
        <4>3. \A k \in n + 1 .. Len(r) :
                r[k].index \in n + 1 .. size - 1 /\ r[k] = entry[r[k].index]
          <5> SUFFICES ASSUME NEW k \in n + 1 .. Len(r)
                       PROVE  r[k].index \in n + 1 .. size - 1 /\ r[k] = entry[r[k].index]
            OBVIOUS
          <5>1. n + 1 \in n + 1 .. Len(r) /\ r[n + 1].index # n BY <2>5, <3>2
          <5>2. r[n + 1].index \in n .. size - 1 /\ r[k].index \in n .. size - 1
            BY <2>1, <5>1 DEF InOrder
          <5>3. n + 1 < k => r[n + 1].index < r[k].index BY <2>1, <5>1 DEF InOrder
          <5>4. r[k] = entry[r[k].index] BY <2>1 DEF InOrder
          <5> QED BY <2>5, <5>1, <5>2, <5>3, <5>4
        <4>4. \A k \in n + 2 .. Len(p) :
                p[k].index \in n + 1 .. size - 1 /\ p[k] = entry[p[k].index]
          BY <4>2, <4>3
        <4>5. \A k, l \in n + 2 .. Len(p) : k < l => p[k].index < p[l].index
          <5>1. \A k, l \in n + 2 .. Len(p) : k < l => k - 1 < l - 1 BY <2>5
          <5> QED BY <2>1, <4>2, <5>1 DEF InOrder
        <4>6. (n + 1) + 1 = n + 2 OBVIOUS
        <4> QED BY <4>1, <4>4, <4>5, <4>6 DEF InOrder
      <3> QED BY <2>4, <3>1, <3>2
    <2> QED BY <2>4, <2>6 DEF p
  <1> HIDE DEF T
  <1>4. size \in T BY <1>2, <1>3, Inductive
  <1>5. g[size] \in Seq(S) /\ Len(g[size]) >= size /\ InOrder(g[size], entry, size, size)
    BY <1>4 DEF T
  <1>6. Len(g[size]) = size
    <2>1. Len(g[size]) \in Nat BY <1>5, LenProperties
    <2>2. size + 1 \notin size + 1 .. Len(g[size]) BY <1>5 DEF InOrder
    <2> QED BY <1>5, <2>1, <2>2
  <1>7. DOMAIN g[size] = 1 .. size /\ \A k \in 1 .. size : g[size][k] = entry[k - 1]
    BY <1>5, <1>6, LenProperties DEF InOrder
  <1>8. g[size] = [k \in 1 .. size |-> g[size][k]] BY <1>5, <1>6, LenProperties
  <1> QED BY <1>1, <1>5, <1>7, <1>8

-----------------------------------------------------------------------------
(* The nozzle's height and the record.                                     *)

\* Where a step of the host's loop and a movement stand.
Pcs == {"clear", "avgs", "pres", "down", "wait", "disarm", "judge", "getpres", "use",
        "lift", "lifting", "raise", "raising", "done", "raised"}
Entry == [index : 0 .. Blocks - 1, step : Int]
PresEntry == [index : 0 .. PresBlocks - 1]

StepType ==
    /\ step \in [on : BOOLEAN, dir : {Down, Up}, now : Int, need_stop : BOOLEAN,
                 send_active : 0 .. Blocks, fifo : Seq(Int)]
    /\ Len(step.fifo) = Blocks
PresType == pres \in [acq : BOOLEAN, send_active : 0 .. PresBlocks]
HostType ==
    host \in [pc : Pcs, step_res : Seq(Entry), pres_res : Seq(PresEntry), base : Int,
              lost : Nat, stale : BOOLEAN, res_z : Seq(Int), refresh : BOOLEAN,
              bad : [step : Nat, pres : Nat], up : Int, last : BOOLEAN]
SeenType == seen \in [at : Int, sunk : Nat, hit : BOOLEAN, old : BOOLEAN] /\ swap \in {0, 1} /\ z \in Int
TypeInv == StepType /\ PresType /\ HostType /\ SeenType

\* What the nozzle still stands too low at rest.
Debt == IF host.stale THEN 0 ELSE host.lost
LastEntry == step.fifo[Blocks]

\* A short lift is only given back by a measurement that has one before it.
DebtInv ==
    /\ ProCnt <= 2 => host.lost = 0
    /\ host.lost # 0 /\ ~host.stale => host.res_z # <<>>

\* On the way down every whole step is recorded once it is done.
Recorded ==
    IF step.now \in {2 * Travel, 2 * Travel - 1} THEN LastEntry = 0
    ELSE LastEntry = (step.now + 1) \div 2
GoingDown == host.pc = "wait" /\ step.on
WentDown == host.pc \in {"wait", "disarm", "judge", "getpres", "use"} /\ ~step.on
DownInv ==
    /\ GoingDown =>
         /\ step.dir = Down /\ step.now \in 1 .. 2 * Travel /\ Recorded
         /\ z = host.base - 2 * Debt - (2 * Travel - step.now)
    /\ WentDown =>
         /\ LastEntry \in 0 .. Travel - 1
         /\ z = host.base - 2 * Debt - 2 * (Travel - LastEntry)
         /\ Blocks > 1 => step.fifo[Blocks - 1] \in {0, LastEntry + 1}

\* The height at rest, and where a lift leads.
Target == IF host.last THEN host.base ELSE host.base - 2 * Debt
Owes == host.last /\ host.stale
HeightInv ==
    /\ host.pc \in {"clear", "avgs", "pres", "down"} => z = host.base - 2 * Debt
    /\ host.pc = "lift" =>
         /\ host.up \in Nat \ {0}
         /\ ~Owes => z + 2 * host.up = Target
    /\ host.pc = "lifting" /\ step.on =>
         /\ step.dir = Up /\ ~step.need_stop /\ step.now \in Nat \ {0}
         /\ ~Owes => z + step.now = Target
    /\ host.pc = "lifting" /\ ~step.on /\ ~Owes => z = Target
    /\ host.pc = "done" => host.last /\ (~host.stale => z = host.base)

\* The record of steps as it arrives, and once it is repaired.
RecInv ==
    /\ host.pc \in {"wait", "disarm", "judge"} =>
         /\ InOrder(host.step_res, StepEntries, Blocks, 0)
         /\ \A k \in DOMAIN host.step_res : host.step_res[k].index < Blocks - step.send_active
    /\ RepairedIsWhole
    /\ host.pc = "use" => Len(host.pres_res) >= PresBlocks

\* The height of the trigger and the way since.
SeenInv ==
    /\ host.pc \in {"down", "wait", "disarm"} => (seen.hit <=> swap = 1)
    /\ host.pc \in {"down", "wait", "disarm", "judge", "getpres", "use"} /\ seen.hit =>
         z = seen.at - seen.sunk

Inv2 == TypeInv /\ DebtInv /\ DownInv /\ HeightInv /\ RecInv /\ SeenInv

LEMMA Sizes ==
  /\ Travel \in Nat \ {0} /\ Short \in Nat \ {0} /\ ErrorLift \in Nat \ {0}
  /\ Blocks \in Nat \ {0} /\ PresBlocks \in Nat \ {0} /\ ProCnt \in Nat \ {0}
  /\ Refresh \in Nat
  BY SizesAssumption

LEMMA Entries ==
  ASSUME TypeInv
  PROVE  /\ \A i \in 0 .. Blocks - 1 :
              /\ StepEntries[i] \in Entry /\ StepEntries[i].index = i
              /\ StepEntries[i].step = step.fifo[i + 1]
         /\ \A i \in 0 .. PresBlocks - 1 : PresEntries[i] \in PresEntry
  <1>1. ASSUME NEW i \in 0 .. Blocks - 1
        PROVE  /\ StepEntries[i] \in Entry /\ StepEntries[i].index = i
               /\ StepEntries[i].step = step.fifo[i + 1]
    <2>1. i + 1 \in 1 .. Len(step.fifo) /\ step.fifo \in Seq(Int) BY Sizes DEF TypeInv, StepType
    <2>2. step.fifo[i + 1] \in Int BY <2>1, ElementOfSeq
    <2> QED BY <2>2 DEF StepEntries, Entry
  <1>2. \A i \in 0 .. PresBlocks - 1 : PresEntries[i] \in PresEntry BY DEF PresEntries, PresEntry
  <1> QED BY <1>1, <1>2

\* The record moves up by one entry.
LEMMA Shifted ==
  ASSUME NEW f \in Seq(Int), Len(f) = Blocks, NEW e \in Int
  PROVE  LET g == Append(Tail(f), e)
         IN  /\ g \in Seq(Int) /\ Len(g) = Blocks /\ g[Blocks] = e
             /\ Blocks > 1 => g[Blocks - 1] = f[Blocks]
  <1>1. f # <<>> BY Sizes, EmptySeq
  <1>2. /\ Tail(f) \in Seq(Int) /\ Len(Tail(f)) = Blocks - 1
        /\ \A i \in 1 .. Blocks - 1 : Tail(f)[i] = f[i + 1]
    BY <1>1, HeadTailProperties
  <1>3. Blocks \in Nat \ {0} BY Sizes
  <1>4. /\ Append(Tail(f), e) \in Seq(Int) /\ Len(Append(Tail(f), e)) = Blocks
        /\ Append(Tail(f), e)[Blocks] = e
        /\ \A i \in 1 .. Blocks - 1 : Append(Tail(f), e)[i] = Tail(f)[i]
    BY <1>2, <1>3, AppendProperties
  <1>5. Blocks > 1 => Blocks - 1 \in 1 .. Blocks - 1 /\ (Blocks - 1) + 1 = Blocks BY <1>3
  <1> QED BY <1>2, <1>4, <1>5

LEMMA NoEntries ==
  ASSUME NEW E, NEW n
  PROVE  <<>> \in Seq(E) /\ Len(<<>>) = 0 /\ InOrder(<<>>, n, Blocks, 0)
  BY Sizes DEF InOrder

\* An even number of half steps.
LEMMA Halves ==
  ASSUME NEW n \in Nat, NEW m \in Nat, n \in 0 .. 2 * m - 1, n = 0 \/ n % 2 = 0
  PROVE  /\ 2 * (n \div 2) = n /\ n \div 2 \in 0 .. m - 1
         /\ (n + 1 + 1) \div 2 = (n \div 2) + 1
  <1>1. n % 2 = 0 OBVIOUS
  <1>2. PICK k \in Int : n = 2 * k BY <1>1
  <1>3. n \div 2 = k /\ (n + 1 + 1) \div 2 = k + 1 BY <1>2
  <1>4. k \in 0 .. m - 1 BY <1>2
  <1> QED BY <1>2, <1>3, <1>4

LEMMA StillIs == ASSUME IInv, host.pc \notin Moving PROVE ~step.on /\ step.send_active = 0
  BY DEF IInv, StillInv

-----------------------------------------------------------------------------
LEMMA EdgeInv2 == ASSUME IInv, Inv2, PrtouchEvent PROVE Inv2'
  <1> DEFINE now == step.now - 1
             ends == MayStop(now)
             shifts == ends \/ now % 2 = 0
  <1>1. step.on /\ host.pc \in Moving /\ TypeInv BY DEF IInv, StillInv, PrtouchEvent, Inv2
  <1>2. now \in Int /\ now \div 2 \in Int /\ z \in Int BY <1>1 DEF TypeInv, StepType, SeenType
  <1>3. /\ UNCHANGED <<pres, swap, host>>
        /\ step'.dir = step.dir
        /\ step'.fifo = IF shifts THEN Append(Tail(step.fifo), now \div 2) ELSE step.fifo
        /\ ends => step'.on = FALSE /\ step'.now = 0 /\ step'.need_stop = FALSE
                   /\ step'.send_active = Blocks
        /\ ~ends => step'.on = TRUE /\ step'.now = now /\ step'.need_stop = step.need_stop
                    /\ step'.send_active = step.send_active
        /\ z' = IF step.dir = Down THEN z - 1 ELSE z + 1
        /\ seen' = IF swap = 1 THEN [seen EXCEPT !.sunk = @ + 1] ELSE seen
    BY <1>1 DEF PrtouchEvent, TypeInv, StepType
  <1>4. /\ step'.fifo \in Seq(Int) /\ Len(step'.fifo) = Blocks
        /\ shifts => /\ step'.fifo[Blocks] = now \div 2
                     /\ Blocks > 1 => step'.fifo[Blocks - 1] = step.fifo[Blocks]
        /\ ~shifts => step'.fifo = step.fifo
    <2>1. step.fifo \in Seq(Int) /\ Len(step.fifo) = Blocks BY <1>1 DEF TypeInv, StepType
    <2> DEFINE f == Append(Tail(step.fifo), now \div 2)
    <2>2. /\ f \in Seq(Int) /\ Len(f) = Blocks /\ f[Blocks] = now \div 2
          /\ Blocks > 1 => f[Blocks - 1] = step.fifo[Blocks]
      BY <1>2, <2>1, Shifted
    <2> HIDE DEF f
    <2>3. CASE shifts
      <3>1. step'.fifo = f BY <1>3, <2>3 DEF f
      <3> QED BY <2>2, <2>3, <3>1
    <2>4. CASE ~shifts
      <3>1. step'.fifo = step.fifo BY <1>3, <2>4
      <3> QED BY <2>1, <2>4, <3>1
    <2> QED BY <2>3, <2>4
  <1>5. step' \in [on : BOOLEAN, dir : {Down, Up}, now : Int, need_stop : BOOLEAN,
                  send_active : 0 .. Blocks, fifo : Seq(Int)]
    <2> DEFINE f == step'.fifo
    <2>1. step' = IF ends
                  THEN [step EXCEPT !.on = FALSE, !.now = 0, !.fifo = f,
                                    !.need_stop = FALSE, !.send_active = Blocks]
                  ELSE [step EXCEPT !.now = now, !.fifo = f]
      BY <1>1, <1>3 DEF PrtouchEvent, TypeInv, StepType
    <2>2. f \in Seq(Int) BY <1>4
    <2> HIDE DEF f
    <2>3. Blocks \in 0 .. Blocks /\ 0 \in Int /\ now \in Int BY <1>2, Sizes
    <2> HIDE DEF now, ends
    <2>4. CASE ends BY <1>1, <2>1, <2>2, <2>3, <2>4 DEF TypeInv, StepType
    <2>5. CASE ~ends BY <1>1, <2>1, <2>2, <2>3, <2>5 DEF TypeInv, StepType
    <2> QED BY <2>4, <2>5
  <1>6. TypeInv'
    <2>1. StepType' BY <1>4, <1>5 DEF StepType
    <2>2. PresType' /\ HostType' BY <1>1, <1>3 DEF TypeInv, PresType, HostType
    <2>3. SeenType' BY <1>1, <1>3 DEF TypeInv, SeenType
    <2> QED BY <2>1, <2>2, <2>3 DEF TypeInv, StepType, PresType, HostType, SeenType
  <1>7. DebtInv' BY <1>3 DEF Inv2, DebtInv
  <1>8. CASE host.pc = "wait"
    <2>1. /\ step.dir = Down /\ step.now \in 1 .. 2 * Travel /\ Recorded
          /\ z = host.base - 2 * Debt - (2 * Travel - step.now)
          /\ z' = z - 1 /\ Travel \in Nat /\ host.base \in Int /\ Debt \in Int
      BY <1>1, <1>3, <1>8, Sizes
      DEF Inv2, DownInv, GoingDown, TypeInv, StepType, HostType, SeenType, Debt
    <2>2. Debt' = Debt /\ host'.base = host.base BY <1>3 DEF Debt
    <2>3. ASSUME ends PROVE DownInv'
      <3>1. now = 0 \/ now % 2 = 0 BY <2>3 DEF MayStop
      <3>0. now \in 0 .. 2 * Travel - 1 BY <2>1
      <3>2. /\ 2 * (now \div 2) = now /\ now \div 2 \in 0 .. Travel - 1
        BY <2>1, <3>0, <3>1, Halves
      <3>3. LastEntry' = now \div 2 BY <1>4, <2>3 DEF LastEntry
      <3>4. z' = host.base - 2 * Debt - 2 * (Travel - now \div 2)
        <4>1. z' = host.base - 2 * Debt - (2 * Travel - now) BY <1>2, <2>1
        <4> DEFINE h == now \div 2
        <4>2. h \in Int /\ now = 2 * h BY <3>2
        <4> HIDE DEF h
        <4>3. z' = host.base - 2 * Debt - 2 * (Travel - h) BY <2>1, <4>1, <4>2
        <4> QED BY <4>3 DEF h
      <3>5. LastEntry \in {0, (now \div 2) + 1}
        <4>1. step.now = now + 1 /\ (step.now + 1) \div 2 = (now \div 2) + 1
          BY <2>1, <3>0, <3>1, Halves
        <4> QED BY <2>1, <4>1 DEF Recorded
      <3>6. Blocks > 1 => step'.fifo[Blocks - 1] \in {0, (now \div 2) + 1}
        BY <1>4, <2>3, <3>5 DEF LastEntry
      <3>7. ~GoingDown' BY <1>3, <2>3 DEF GoingDown
      <3>8. /\ LastEntry' \in 0 .. Travel - 1
            /\ z' = host'.base - 2 * Debt' - 2 * (Travel - LastEntry')
            /\ Blocks > 1 => step'.fifo[Blocks - 1] \in {0, LastEntry' + 1}
        BY <2>2, <3>2, <3>3, <3>4, <3>6
      <3> QED BY <3>7, <3>8 DEF DownInv
    <2>4. ASSUME ~ends PROVE DownInv'
      <3>1. now # 0 /\ now \in 1 .. 2 * Travel - 1 BY <1>2, <2>1, <2>4 DEF MayStop
      <3>2. ~WentDown' BY <1>3, <2>4 DEF WentDown
      <3>3. Recorded'
        <4>1. CASE now % 2 = 0
          <5>1. LastEntry' = now \div 2 /\ step'.now = now
            BY <1>3, <1>4, <2>4, <4>1 DEF LastEntry
          <5>2. now \div 2 = (now + 1) \div 2 /\ now \notin {2 * Travel, 2 * Travel - 1}
            BY <1>2, <2>1, <3>1, <4>1
          <5> QED BY <5>1, <5>2 DEF Recorded
        <4>2. CASE now % 2 # 0
          <5>1. LastEntry' = LastEntry /\ step'.now = now
            BY <1>3, <1>4, <2>4, <4>2 DEF LastEntry
          <5>2. step.now = now + 1 BY <1>1 DEF TypeInv, StepType
          <5>3. /\ now # 2 * Travel - 1 => step.now \notin {2 * Travel, 2 * Travel - 1}
                /\ (step.now + 1) \div 2 = (now + 1) \div 2
            BY <1>2, <2>1, <3>1, <4>2, <5>2
          <5> QED BY <2>1, <3>1, <5>1, <5>2, <5>3 DEF Recorded
        <4> QED BY <4>1, <4>2
      <3>4. z' = host.base - 2 * Debt - (2 * Travel - now) BY <1>2, <2>1
      <3>5. step'.dir = Down /\ step'.now = now /\ now \in 1 .. 2 * Travel
        BY <1>3, <2>1, <2>4, <3>1
      <3>6. z' = host'.base - 2 * Debt' - (2 * Travel - step'.now) BY <2>2, <3>4, <3>5
      <3> QED BY <3>2, <3>3, <3>5, <3>6 DEF DownInv
    <2>5. DownInv' BY <2>3, <2>4
    <2>6. HeightInv' BY <1>3, <1>8 DEF HeightInv
    <2>7. RecInv'
      <3>1. host'.step_res = <<>> BY <1>1, <1>3 DEF IInv, RecordInv
      <3> QED BY <1>3, <1>8, <3>1, NoEntries DEF RecInv, RepairedIsWhole
    <2>8. SeenInv' BY <1>1, <1>3, <1>8, <2>1 DEF Inv2, SeenInv, TypeInv, SeenType
    <2> QED BY <1>6, <1>7, <2>5, <2>6, <2>7, <2>8 DEF Inv2
  <1>9. CASE host.pc # "wait"
    <2>1. host'.pc \in {"lifting", "raising"} /\ swap = 0
      BY <1>1, <1>3, <1>9 DEF IInv, Shape, ArmedInv, Moving
    <2>2. DownInv' /\ RecInv' /\ SeenInv'
      BY <2>1 DEF DownInv, GoingDown, WentDown, RecInv, RepairedIsWhole, SeenInv
    <2>3. HeightInv'
      <3>1. CASE host.pc = "lifting"
        <4>1. /\ step.dir = Up /\ ~step.need_stop /\ step.now \in Nat \ {0}
              /\ ~Owes => z + step.now = Target
          BY <1>1, <3>1 DEF Inv2, HeightInv
        <4>2. ends <=> now = 0 BY <2>1, <4>1 DEF MayStop
        <4>3. z' = z + 1 BY <1>3, <4>1 DEF Up, Down
        <4>4. Owes' = Owes /\ Target' = Target BY <1>3 DEF Owes, Target, Debt
        <4>5. ~Owes => z' + now = Target BY <1>2, <4>1, <4>3
        <4>6. z' \in Int /\ (~ends => now \in Nat \ {0})
          BY <1>2, <4>1, <4>2, <4>3
        <4>7. ~Owes /\ ends => z' = Target BY <4>2, <4>5, <4>6
        <4> QED BY <1>3, <3>1, <4>1, <4>4, <4>5, <4>6, <4>7 DEF HeightInv
      <3>2. CASE host.pc # "lifting" BY <1>3, <2>1, <3>2 DEF HeightInv
      <3> QED BY <3>1, <3>2
    <2> QED BY <1>6, <1>7, <2>2, <2>3 DEF Inv2
  <1> QED BY <1>8, <1>9

LEMMA TriggerInv2 == ASSUME IInv, Inv2, PresTask PROVE Inv2'
  <1>1. /\ seen' = [at |-> z, sunk |-> 0, hit |-> TRUE, old |-> seen.old] /\ swap' = 1
        /\ pres' = [acq |-> FALSE, send_active |-> PresBlocks]
        /\ pres.acq /\ UNCHANGED <<step, host, z>>
    BY DEF PresTask, Inv2, TypeInv, SeenType
  <1>2. host.pc \in {"down", "wait", "disarm"} BY <1>1 DEF IInv, ArmedInv
  <1>3. TypeInv' BY <1>1, Sizes DEF Inv2, TypeInv, StepType, PresType, HostType, SeenType
  <1>4. DebtInv' /\ DownInv' /\ HeightInv'
    BY <1>1 DEF Inv2, DebtInv, DownInv, GoingDown, WentDown, Recorded, LastEntry, Debt,
                HeightInv, Target, Owes
  <1>5. RecInv' BY <1>1 DEF Inv2, RecInv, RepairedIsWhole, StepEntries
  <1>6. SeenInv' BY <1>1, <1>3 DEF SeenInv, TypeInv, SeenType
  <1> QED BY <1>3, <1>4, <1>5, <1>6 DEF Inv2

LEMMA BlockInv2 == ASSUME IInv, Inv2, StepTask PROVE Inv2'
  <1> DEFINE at == Blocks - step.send_active
             e == StepEntries[at]
  <1>1. TypeInv /\ step.send_active \in 1 .. Blocks /\ at \in 0 .. Blocks - 1
    BY SMTT(30), Sizes DEF Inv2, TypeInv, StepType, StepTask
  <1>2. host.pc \in Moving /\ ~step.on BY <1>1 DEF IInv, StillInv, RecordInv
  <1>3. e \in Entry /\ e.index = at BY <1>1, Entries
  <1>4. /\ step' = [step EXCEPT !.send_active = @ - 1] /\ UNCHANGED <<pres, swap, z, seen>>
        /\ host' = host \/ host' = [host EXCEPT !.step_res = Append(@, e)]
    BY DEF StepTask
  <1> HIDE DEF e
  <1>5. /\ step'.on = step.on /\ step'.fifo = step.fifo /\ step'.now = step.now
        /\ step'.dir = step.dir /\ step'.need_stop = step.need_stop
        /\ step'.send_active = step.send_active - 1
    BY <1>1, <1>4 DEF TypeInv, StepType, PresType, HostType, SeenType
  <1>6. /\ host'.pc = host.pc /\ host'.base = host.base /\ host'.lost = host.lost
        /\ host'.stale = host.stale /\ host'.res_z = host.res_z /\ host'.up = host.up
        /\ host'.last = host.last /\ host'.pres_res = host.pres_res
        /\ host'.step_res = host.step_res \/ host'.step_res = Append(host.step_res, e)
    BY <1>1, <1>4 DEF TypeInv, StepType, PresType, HostType, SeenType
  <1>7. TypeInv'
    <2>1. step' \in [on : BOOLEAN, dir : {Down, Up}, now : Int, need_stop : BOOLEAN,
                    send_active : 0 .. Blocks, fifo : Seq(Int)]
      <3>1. step.send_active - 1 \in 0 .. Blocks BY <1>1, Sizes
      <3> QED BY <1>1, <1>4, <3>1 DEF TypeInv, StepType
    <2>2. Append(host.step_res, e) \in Seq(Entry) BY <1>1, <1>3 DEF TypeInv, HostType
    <2> QED
      BY ZenonT(60), <1>1, <1>4, <1>5, <2>1, <2>2
      DEF TypeInv, StepType, PresType, HostType, SeenType
  <1>8. DebtInv' /\ DownInv' /\ HeightInv'
    BY <1>2, <1>4, <1>5, <1>6
    DEF Inv2, DebtInv, DownInv, GoingDown, WentDown, Recorded, LastEntry, Debt,
        HeightInv, Target, Owes
  <1>9. RecInv'
    <2>1. StepEntries' = StepEntries BY <1>5 DEF StepEntries
    <2> SUFFICES ASSUME host.pc = "wait"
                 PROVE  /\ InOrder(host'.step_res, StepEntries, Blocks, 0)
                        /\ \A k \in DOMAIN host'.step_res :
                             host'.step_res[k].index < Blocks - step'.send_active
      BY <1>2, <1>6, <2>1 DEF RecInv, RepairedIsWhole, Moving
    <2> DEFINE r == host.step_res
    <2>2. /\ InOrder(r, StepEntries, Blocks, 0) /\ r \in Seq(Entry)
          /\ \A k \in DOMAIN r : r[k].index < at
      BY <1>1 DEF Inv2, RecInv, TypeInv, HostType
    <2>3. DOMAIN r = 1 .. Len(r) /\ Len(r) \in Nat /\ (0 + 1) = 1 BY <2>2, LenProperties
    <2> HIDE DEF r
    <2>4. CASE host'.step_res = r
      <3>0. \A k \in 1 .. Len(r) : r[k] \in Entry BY <2>2, ElementOfSeq
      <3>1. \A k \in DOMAIN r : r[k].index \in Int BY <2>3, <3>0, Sizes DEF Entry
      <3>2. \A k \in DOMAIN r : r[k].index < Blocks - step'.send_active
        <4>1. Blocks - step'.send_active = at + 1 /\ at \in Int BY <1>1, <1>5, Sizes
        <4> HIDE DEF at
        <4> QED BY <2>2, <3>1, <4>1
      <3> QED BY <2>2, <2>4, <3>2
    <2>5. CASE host'.step_res = Append(r, e)
      <3> DEFINE p == Append(r, e)
      <3>1. /\ p \in Seq(Entry) /\ Len(p) = Len(r) + 1 /\ DOMAIN p = 1 .. Len(r) + 1
            /\ \A k \in 1 .. Len(r) : p[k] = r[k]
            /\ p[Len(r) + 1] = e
        BY <1>3, <2>2, AppendProperties, LenProperties
      <3> HIDE DEF p
      <3>2. \A k \in 1 .. Len(p) : k \in 1 .. Len(r) \/ k = Len(r) + 1 BY <2>3, <3>1
      <3>3. \A k \in 1 .. Len(p) :
              p[k].index \in 0 .. Blocks - 1 /\ p[k] = StepEntries[p[k].index]
        BY <1>1, <1>3, <2>2, <2>3, <3>1, <3>2 DEF InOrder, e
      <3>4. \A k, l \in 1 .. Len(p) : k < l => p[k].index < p[l].index
        <4> SUFFICES ASSUME NEW k \in 1 .. Len(p), NEW l \in 1 .. Len(p), k < l
                     PROVE  p[k].index < p[l].index
          OBVIOUS
        <4>1. k \in 1 .. Len(r) BY <2>3, <3>1
        <4>2. CASE l \in 1 .. Len(r) BY <2>2, <2>3, <3>1, <4>1, <4>2 DEF InOrder
        <4>3. CASE l = Len(r) + 1 BY <1>3, <2>2, <2>3, <3>1, <4>1, <4>3
        <4> QED BY <3>2, <4>2, <4>3
      <3>5. \A k \in 1 .. Len(p) : p[k].index < Blocks - step'.send_active
        <4>1. Blocks - step'.send_active = at + 1 /\ at \in Int BY <1>1, <1>5, Sizes
        <4> HIDE DEF at
        <4>2. \A k \in 1 .. Len(r) : p[k].index < at BY <2>2, <2>3, <3>1
        <4>3. \A k \in 1 .. Len(p) : p[k].index \in Int BY <3>3
        <4> QED BY <1>3, <3>1, <3>2, <4>1, <4>2, <4>3
      <3>6. InOrder(p, StepEntries, Blocks, 0) BY <2>3, <3>3, <3>4 DEF InOrder
      <3> QED BY <2>5, <3>1, <3>5, <3>6 DEF p
    <2> QED BY <1>6, <2>4, <2>5 DEF r
  <1>10. SeenInv' BY <1>4, <1>6 DEF Inv2, SeenInv
  <1> QED BY <1>7, <1>8, <1>9, <1>10 DEF Inv2

LEMMA PresSendInv2 == ASSUME IInv, Inv2, PresSend PROVE Inv2'
  <1> DEFINE e == PresEntries[PresBlocks - pres.send_active]
  <1>1. TypeInv /\ pres.send_active \in 1 .. PresBlocks
    BY Sizes DEF Inv2, TypeInv, PresType, PresSend
  <1>2. e \in PresEntry
    <2>1. PresBlocks - pres.send_active \in 0 .. PresBlocks - 1 BY <1>1, Sizes
    <2> QED BY <1>1, <2>1, Entries
  <1>3. /\ pres' = [pres EXCEPT !.send_active = @ - 1] /\ UNCHANGED <<step, swap, z, seen>>
        /\ host' = host \/ host' = [host EXCEPT !.pres_res = Append(@, e)]
    BY DEF PresSend
  <1> HIDE DEF e
  <1>4. /\ host'.pc = host.pc /\ host'.base = host.base /\ host'.lost = host.lost
        /\ host'.stale = host.stale /\ host'.res_z = host.res_z /\ host'.up = host.up
        /\ host'.last = host.last /\ host'.step_res = host.step_res
        /\ host'.pres_res = host.pres_res \/ host'.pres_res = Append(host.pres_res, e)
    BY <1>1, <1>3 DEF TypeInv, StepType, PresType, HostType, SeenType
  <1>5. /\ Append(host.pres_res, e) \in Seq(PresEntry)
        /\ Len(Append(host.pres_res, e)) = Len(host.pres_res) + 1 /\ Len(host.pres_res) \in Nat
    BY <1>1, <1>2 DEF TypeInv, StepType, PresType, HostType, SeenType
  <1>6. TypeInv'
    <2>1. StepType' /\ SeenType' BY <1>1, <1>3 DEF TypeInv, StepType, SeenType
    <2>2. pres.send_active - 1 \in 0 .. PresBlocks BY <1>1, Sizes
    <2>3. PresType' BY <1>1, <1>3, <2>2 DEF TypeInv, PresType
    <2>4. HostType' BY <1>1, <1>3, <1>5 DEF TypeInv, HostType
    <2> QED BY <2>1, <2>3, <2>4 DEF TypeInv
  <1>7. DebtInv' /\ DownInv' /\ HeightInv'
    BY <1>3, <1>4
    DEF Inv2, DebtInv, DownInv, GoingDown, WentDown, Recorded, LastEntry, Debt,
        HeightInv, Target, Owes
  <1>8. RecInv' BY SMTT(30), <1>3, <1>4, <1>5, Sizes DEF Inv2, RecInv, RepairedIsWhole, StepEntries
  <1>9. SeenInv' BY <1>3, <1>4 DEF Inv2, SeenInv
  <1> QED BY <1>6, <1>7, <1>8, <1>9 DEF Inv2
-----------------------------------------------------------------------------
(* The host's steps.                                                       *)

\* Nothing is said of the way down elsewhere.
LEMMA AwayFromDown ==
  ASSUME host'.pc \notin {"down", "wait", "disarm", "judge", "getpres", "use"}
  PROVE  DownInv' /\ RecInv' /\ SeenInv'
  BY DEF DownInv, GoingDown, WentDown, RecInv, RepairedIsWhole, SeenInv

LEMMA StutterInv2 ==
  ASSUME Inv2, UNCHANGED <<step, pres, swap, z, host, seen>>
  PROVE  Inv2'
  <1>1. TypeInv' BY DEF Inv2, TypeInv, StepType, PresType, HostType, SeenType
  <1>2. DebtInv' /\ DownInv' /\ HeightInv'
    BY DEF Inv2, DebtInv, DownInv, GoingDown, WentDown, Recorded, LastEntry, Debt, HeightInv,
           Target, Owes
  <1>3. RecInv' /\ SeenInv' BY DEF Inv2, RecInv, RepairedIsWhole, StepEntries, SeenInv
  <1> QED BY <1>1, <1>2, <1>3 DEF Inv2

\* A step that changes the place in the loop and the records at most.
LEMMA ClearInv2 == ASSUME IInv, Inv2, Clear \/ DealAvgs PROVE Inv2'
  <1>1. TypeInv /\ UNCHANGED <<step, pres, swap, z, seen>> BY DEF Inv2, Clear, DealAvgs
  <1>2. /\ host.pc \in {"clear", "avgs"} /\ host'.pc \in {"avgs", "pres"}
        /\ host'.base = host.base /\ host'.lost = host.lost
        /\ host'.stale = host.stale /\ host'.res_z = host.res_z
    BY ZenonT(60), <1>1 DEF Clear, DealAvgs, Goto, TypeInv, HostType
  <1>3. HostType'
    <2>1. CASE Clear BY <1>1, <2>1, NoEntries DEF Clear, TypeInv, HostType, Pcs
    <2>2. CASE DealAvgs BY <1>1, <2>2 DEF DealAvgs, Goto, TypeInv, HostType, Pcs
    <2> QED BY <2>1, <2>2
  <1>4. TypeInv' BY <1>1, <1>3 DEF TypeInv, StepType, PresType, SeenType
  <1>5. DebtInv' BY <1>2 DEF Inv2, DebtInv
  <1>6. HeightInv' BY <1>1, <1>2 DEF Inv2, HeightInv, Debt
  <1> QED BY <1>2, <1>4, <1>5, <1>6, AwayFromDown DEF Inv2

LEMMA StartPresInv2 == ASSUME IInv, Inv2, SendStartPres PROVE Inv2'
  <1>1. /\ TypeInv /\ UNCHANGED <<step, z>> /\ host.pc = "pres"
        /\ host' = [host EXCEPT !.pc = "down"]
        /\ swap' = 0 /\ pres' = [acq |-> TRUE, send_active |-> 0]
        /\ seen' = [at |-> 0, sunk |-> 0, hit |-> FALSE, old |-> host.pres_res # <<>>]
    BY DEF Inv2, SendStartPres, StartPres, NoHit, Goto
  <1>2. /\ host'.pc = "down" /\ host'.base = host.base /\ host'.lost = host.lost
        /\ host'.stale = host.stale /\ host'.res_z = host.res_z
    BY <1>1 DEF TypeInv, HostType
  <1>3. TypeInv'
    <2>1. HostType' BY <1>1 DEF TypeInv, HostType, Pcs
    <2>2. StepType' BY <1>1 DEF TypeInv, StepType
    <2>3. PresType' BY <1>1, Sizes DEF PresType
    <2>4. SeenType' BY <1>1 DEF TypeInv, SeenType
    <2> QED BY <2>1, <2>2, <2>3, <2>4 DEF TypeInv
  <1>4. DebtInv' BY <1>2 DEF Inv2, DebtInv
  <1>5. HeightInv' BY <1>1, <1>2 DEF Inv2, HeightInv, Debt
  <1>6. DownInv' /\ RecInv' BY <1>2 DEF DownInv, GoingDown, WentDown, RecInv, RepairedIsWhole
  <1>7. SeenInv' BY <1>1, <1>2 DEF SeenInv
  <1> QED BY <1>3, <1>4, <1>5, <1>6, <1>7 DEF Inv2

LEMMA ZerosAre == Zeros \in Seq(Int) /\ Len(Zeros) = Blocks /\ Zeros[Blocks] = 0
  <1>1. Blocks \in Nat \ {0} BY Sizes
  <1>2. Zeros \in [1 .. Blocks -> Int] BY DEF Zeros
  <1>3. Zeros \in Seq(Int) BY <1>1, <1>2, SeqDef
  <1>4. Len(Zeros) = Blocks BY <1>1, <1>2, <1>3, LenProperties
  <1> QED BY <1>1, <1>3, <1>4 DEF Zeros

\* What the motors' start makes of step_cfg.
LEMMA Started ==
  ASSUME TypeInv, NEW dir \in {Down, Up}, NEW cnt \in Nat, step' = StepsStarted(dir, cnt)
  PROVE  /\ StepType' /\ step'.on /\ step'.dir = dir /\ step'.now = 2 * cnt
         /\ ~step'.need_stop /\ step'.send_active = 0 /\ step'.fifo[Blocks] = 0
  <1>1. Zeros \in Seq(Int) /\ Len(Zeros) = Blocks /\ Zeros[Blocks] = 0 BY ZerosAre
  <1>2. /\ step'.on = TRUE /\ step'.dir = dir /\ step'.now = 2 * cnt
        /\ step'.need_stop = FALSE /\ step'.send_active = 0 /\ step'.fifo = Zeros
    BY DEF TypeInv, StepType, StepsStarted
  <1>3. 2 * cnt \in Int /\ 0 \in 0 .. Blocks BY Sizes
  <1>4. StepType' BY <1>1, <1>2, <1>3 DEF TypeInv, StepType, StepsStarted
  <1> QED BY <1>1, <1>2, <1>4

LEMMA SendDownInv2 == ASSUME IInv, Inv2, SendDown PROVE Inv2'
  <1>1. /\ TypeInv /\ UNCHANGED <<pres, swap, z, seen>> /\ host.pc = "down"
        /\ host' = [host EXCEPT !.pc = "wait"] /\ step' = StepsStarted(Down, Travel)
    BY DEF Inv2, SendDown, Goto
  <1>2. /\ host'.pc = "wait" /\ host'.base = host.base /\ host'.lost = host.lost
        /\ host'.stale = host.stale /\ host'.res_z = host.res_z
        /\ host'.step_res = host.step_res
    BY <1>1 DEF TypeInv, HostType
  <1>3. /\ StepType' /\ step'.on /\ step'.dir = Down /\ step'.now = 2 * Travel
        /\ ~step'.need_stop /\ step'.send_active = 0 /\ step'.fifo[Blocks] = 0
    BY <1>1, Sizes, Started DEF Down, Up
  <1>4. TypeInv' BY <1>1, <1>3 DEF TypeInv, PresType, HostType, SeenType, Pcs
  <1>5. DebtInv' BY <1>2 DEF Inv2, DebtInv
  <1>6. HeightInv' BY <1>2 DEF HeightInv
  <1>7. DownInv'
    <2>1. ~WentDown' BY <1>3 DEF WentDown
    <2>2. Recorded' BY <1>3 DEF Recorded, LastEntry
    <2>3. Debt' = Debt /\ z = host.base - 2 * Debt /\ Debt \in Int /\ host.base \in Int
      BY <1>1, <1>2 DEF Inv2, HeightInv, Debt, TypeInv, HostType
    <2>4. z' = host'.base - 2 * Debt' - (2 * Travel - step'.now)
      BY <1>1, <1>2, <1>3, <2>3, Sizes
    <2>5. step'.now \in 1 .. 2 * Travel BY <1>3, Sizes
    <2> QED BY <1>3, <2>1, <2>2, <2>4, <2>5 DEF DownInv
  <1>8. RecInv'
    <2>1. host'.step_res = <<>> BY <1>1, <1>2 DEF IInv, RecordInv
    <2> QED BY <1>2, <2>1, NoEntries DEF RecInv, RepairedIsWhole
  <1>9. SeenInv' BY <1>1, <1>2 DEF Inv2, SeenInv
  <1> QED BY <1>4, <1>5, <1>6, <1>7, <1>8, <1>9 DEF Inv2

\* The wait for a movement ends when nothing moves and nothing is sent any more.
LEMMA WaitedIsStill ==
  ASSUME IInv, host.pc \in Moving, Len(host.step_res) = Blocks \/ TooLong
  PROVE  ~step.on /\ step.send_active = 0
  <1>1. CASE TooLong BY <1>1 DEF TooLong
  <1>2. CASE Len(host.step_res) = Blocks
    BY <1>2, None, BlocksAreSome DEF IInv, Shape, RecordInv
  <1> QED BY <1>1, <1>2

LEMMA Stopped ==
  ASSUME TypeInv, StopSteps
  PROVE  /\ StepType' /\ step'.on = step.on /\ step'.send_active = step.send_active
         /\ step'.fifo = step.fifo
  BY DEF StopSteps, TypeInv, StepType

LEMMA WaitedInv2 == ASSUME IInv, Inv2, Waited PROVE Inv2'
  <1>1. /\ TypeInv /\ UNCHANGED <<pres, swap, z, seen>> /\ host.pc = "wait"
        /\ host' = [host EXCEPT !.pc = "disarm"] /\ StopSteps
    BY DEF Inv2, Waited, WaitEnds, Goto
  <1>2. /\ host'.pc = "disarm" /\ host'.base = host.base /\ host'.lost = host.lost
        /\ host'.stale = host.stale /\ host'.res_z = host.res_z
        /\ host'.step_res = host.step_res
    BY <1>1 DEF TypeInv, HostType
  <1>3. ~step.on /\ step.send_active = 0 BY <1>1, WaitedIsStill DEF Waited, WaitEnds, Moving
  <1>4. /\ StepType' /\ step'.on = step.on /\ step'.send_active = step.send_active
        /\ step'.fifo = step.fifo
    BY <1>1, Stopped
  <1>5. TypeInv' BY <1>1, <1>4 DEF TypeInv, PresType, HostType, SeenType, Pcs
  <1>6. DebtInv' BY <1>2 DEF Inv2, DebtInv
  <1>7. HeightInv' BY <1>2 DEF HeightInv
  <1>8. DownInv' BY <1>1, <1>2, <1>3, <1>4 DEF Inv2, DownInv, GoingDown, WentDown, LastEntry, Debt
  <1>9. RecInv' BY <1>1, <1>2, <1>4 DEF Inv2, RecInv, RepairedIsWhole, StepEntries
  <1>10. SeenInv' BY <1>1, <1>2 DEF Inv2, SeenInv
  <1> QED BY <1>5, <1>6, <1>7, <1>8, <1>9, <1>10 DEF Inv2

LEMMA StopPresInv2 == ASSUME IInv, Inv2, SendStopPres PROVE Inv2'
  <1>1. /\ TypeInv /\ UNCHANGED <<step, z, seen>> /\ host.pc = "disarm"
        /\ host' = [host EXCEPT !.pc = "judge"]
        /\ swap' = 0 /\ pres' = [pres EXCEPT !.acq = FALSE]
    BY DEF Inv2, SendStopPres, StopPres, Goto
  <1>2. /\ host'.pc = "judge" /\ host'.base = host.base /\ host'.lost = host.lost
        /\ host'.stale = host.stale /\ host'.res_z = host.res_z
        /\ host'.step_res = host.step_res
    BY <1>1 DEF TypeInv, HostType
  <1>3. TypeInv' BY <1>1 DEF TypeInv, StepType, PresType, HostType, SeenType, Pcs
  <1>4. DebtInv' BY <1>2 DEF Inv2, DebtInv
  <1>5. HeightInv' BY <1>2 DEF HeightInv
  <1>6. DownInv' BY <1>1, <1>2 DEF Inv2, DownInv, GoingDown, WentDown, LastEntry, Debt
  <1>7. RecInv' BY <1>1, <1>2 DEF Inv2, RecInv, RepairedIsWhole, StepEntries
  <1>8. SeenInv' BY <1>1, <1>2 DEF Inv2, SeenInv
  <1> QED BY <1>3, <1>4, <1>5, <1>6, <1>7, <1>8 DEF Inv2

\* The zero is set where the nozzle stands.
LEMMA ZeroInv2 ==
  ASSUME Inv2, NEW flag \in BOOLEAN, NEW heights \in Seq(Int),
         z' = z + Refresh, UNCHANGED <<step, pres, swap, seen>>,
         host' = [host EXCEPT !.pc = "clear", !.base = z + Refresh, !.stale = (host.lost # 0),
                              !.refresh = flag, !.res_z = heights]
  PROVE  Inv2'
  <1>1. TypeInv /\ z \in Int /\ Refresh \in Nat BY Sizes DEF Inv2, TypeInv, SeenType
  <1>2. /\ host'.pc = "clear" /\ host'.base = z + Refresh /\ host'.lost = host.lost
        /\ host'.stale = (host.lost # 0)
    BY <1>1 DEF TypeInv, HostType
  <1>3. TypeInv'
    <2>1. z + Refresh \in Int /\ (host.lost # 0) \in BOOLEAN BY <1>1
    <2>2. HostType' BY ZenonT(60), <1>1, <2>1 DEF TypeInv, HostType, Pcs
    <2> QED BY <1>1, <2>1, <2>2 DEF TypeInv, StepType, PresType, SeenType
  <1>4. DebtInv' BY <1>2 DEF Inv2, DebtInv
  <1>5. Debt' = 0 BY <1>1, <1>2 DEF Debt
  <1>6. HeightInv' BY <1>1, <1>2, <1>5 DEF HeightInv
  <1> QED BY <1>2, <1>3, <1>4, <1>6, AwayFromDown DEF Inv2

LEMMA NoTriggerInv2 == ASSUME IInv, Inv2, NoTrigger PROVE Inv2'
  <1>1. TypeInv /\ UNCHANGED <<step, pres, swap, seen>> BY DEF Inv2, NoTrigger
  <1>2. CASE world.z_set
    <2>1. /\ z' = z + Refresh
          /\ host' = [host EXCEPT !.pc = "clear", !.base = z + Refresh, !.stale = (host.lost # 0),
                                  !.refresh = TRUE, !.res_z = host.res_z]
      BY ZenonT(60), <1>1, <1>2 DEF NoTrigger, ZeroHere, TypeInv, HostType
    <2>2. TRUE \in BOOLEAN /\ host.res_z \in Seq(Int) BY <1>1 DEF TypeInv, HostType
    <2> QED BY <1>1, <2>1, <2>2, ZeroInv2
  <1>3. CASE ~world.z_set
    <2>1. host' = [host EXCEPT !.pc = "raise"] /\ UNCHANGED z BY <1>3 DEF NoTrigger, Goto
    <2>2. /\ host'.pc = "raise" /\ host'.lost = host.lost
          /\ host'.stale = host.stale /\ host'.res_z = host.res_z
      BY <1>1, <2>1 DEF TypeInv, HostType
    <2>3. TypeInv' BY <1>1, <2>1 DEF TypeInv, StepType, PresType, HostType, SeenType, Pcs
    <2>4. DebtInv' /\ HeightInv' BY <2>2 DEF Inv2, DebtInv, HeightInv
    <2> QED BY <2>2, <2>3, <2>4, AwayFromDown DEF Inv2
  <1> QED BY <1>2, <1>3

LEMMA RefreshInv2 == ASSUME IInv, Inv2, RefreshZ PROVE Inv2'
  <1>1. TypeInv /\ UNCHANGED <<step, pres, swap, seen>> BY DEF Inv2, RefreshZ
  <1>2. /\ z' = z + Refresh
        /\ host' = [host EXCEPT !.pc = "clear", !.base = z + Refresh, !.stale = (host.lost # 0),
                                !.refresh = FALSE, !.res_z = <<>>]
    BY <1>1 DEF RefreshZ, ZeroHere, TypeInv, HostType
  <1>3. FALSE \in BOOLEAN /\ <<>> \in Seq(Int) OBVIOUS
  <1> QED BY <1>1, <1>2, <1>3, ZeroInv2

\* A record in order that has all its blocks is whole.
LEMMA FullIsWhole ==
  ASSUME NEW S, NEW res \in Seq(S), NEW size \in Nat, NEW entry,
         InOrder(res, entry, size, 0), Len(res) = size
  PROVE  res = [k \in 1 .. size |-> entry[k - 1]]
  <1> DEFINE at(k) == res[k].index
  <1>1. /\ \A k \in 1 .. size : at(k) \in 0 .. size - 1 /\ res[k] = entry[at(k)]
        /\ \A k, l \in 1 .. size : k < l => at(k) < at(l)
    <2>1. 0 + 1 = 1 OBVIOUS
    <2> QED BY <2>1 DEF InOrder
  <1> HIDE DEF at
  <1> DEFINE T == {n \in Nat : n + 1 <= size => at(n + 1) >= n}
             U == {n \in Nat : n + 1 <= size => at(size - n) <= size - 1 - n}
  <1>2. 0 \in T
    <2>1. 1 <= size => at(1) >= 0 BY <1>1
    <2> QED BY <2>1
  <1>3. ASSUME NEW n \in Nat, n \in T PROVE n + 1 \in T
    <2> SUFFICES ASSUME (n + 1) + 1 <= size PROVE at((n + 1) + 1) >= n + 1 OBVIOUS
    <2>1. at(n + 1) >= n BY <1>3
    <2>2. n + 1 \in 1 .. size /\ (n + 1) + 1 \in 1 .. size /\ n + 1 < (n + 1) + 1 OBVIOUS
    <2>3. at(n + 1) < at((n + 1) + 1) BY <1>1, <2>2
    <2>4. at(n + 1) \in Int /\ at((n + 1) + 1) \in Int BY <1>1, <2>2
    <2> QED BY <2>1, <2>3, <2>4
  <1>4. 0 \in U
    <2>1. 1 <= size => at(size) <= size - 1 BY <1>1
    <2>2. size - 0 = size /\ size - 1 - 0 = size - 1 OBVIOUS
    <2> QED BY <2>1, <2>2
  <1>5. ASSUME NEW n \in Nat, n \in U PROVE n + 1 \in U
    <2> SUFFICES ASSUME (n + 1) + 1 <= size PROVE at(size - (n + 1)) <= size - 1 - (n + 1) OBVIOUS
    <2>1. at(size - n) <= size - 1 - n BY <1>5
    <2>2. size - n \in 1 .. size /\ size - (n + 1) \in 1 .. size /\ size - (n + 1) < size - n
      OBVIOUS
    <2>3. at(size - (n + 1)) < at(size - n) BY <1>1, <2>2
    <2>4. at(size - n) \in Int /\ at(size - (n + 1)) \in Int BY <1>1, <2>2
    <2> QED BY <2>1, <2>3, <2>4
  <1>6. ASSUME NEW k \in 1 .. size PROVE res[k] = entry[k - 1]
    <2>1. k - 1 \in Nat /\ size - k \in Nat BY <1>6
    <2>2. k - 1 \in T /\ size - k \in U
      <3> HIDE DEF T, U
      <3>1. Nat \subseteq T BY <1>2, <1>3, Inductive
      <3>2. Nat \subseteq U BY <1>4, <1>5, Inductive
      <3> QED BY <2>1, <3>1, <3>2
    <2>3. at((k - 1) + 1) >= k - 1 /\ at(size - (size - k)) <= size - 1 - (size - k)
      BY <2>1, <2>2
    <2>4. (k - 1) + 1 = k /\ size - (size - k) = k /\ size - 1 - (size - k) = k - 1 OBVIOUS
    <2>5. at(k) \in Int BY <1>1
    <2>6. at(k) = k - 1 BY <2>3, <2>4, <2>5
    <2> QED BY <1>1, <2>6
  <1>7. res = [k \in 1 .. size |-> res[k]] BY LenProperties
  <1> QED BY <1>6, <1>7

LEMMA GetStepsInv2 == ASSUME IInv, Inv2, GetSteps PROVE Inv2'
  <1> DEFINE res == Whole(host.step_res, StepEntries, Blocks)
             bad == IF Len(res) = Blocks THEN 0 ELSE host.bad.step + 1
  <1>1. /\ TypeInv /\ UNCHANGED <<step, pres, swap, z, seen>> /\ host.pc = "judge"
        /\ host' = [host EXCEPT !.step_res = res, !.bad.step = bad,
                                !.pc = IF bad > 2 THEN "raise" ELSE "getpres"]
    BY DEF Inv2, GetSteps
  <1>2. host.step_res \in Seq(Entry) /\ InOrder(host.step_res, StepEntries, Blocks, 0)
    BY <1>1 DEF Inv2, RecInv, TypeInv, HostType
  <1>3. \A i \in 0 .. Blocks - 1 : StepEntries[i] \in Entry BY <1>1, Entries
  <1>4. Blocks \in Nat BY Sizes
  <1>5. res \in Seq(Entry) /\ res = [k \in 1 .. Blocks |-> StepEntries[k - 1]]
    <2>1. CASE Len(host.step_res) = Blocks
      <3>1. res = host.step_res BY <2>1 DEF Whole
      <3> QED BY ZenonT(60), <1>2, <1>4, <2>1, <3>1, FullIsWhole
    <2>2. CASE Len(host.step_res) # Blocks
      <3>1. res = Refetched(host.step_res, StepEntries, Blocks) BY <2>2 DEF Whole
      <3> QED BY <1>2, <1>3, <1>4, <3>1, RefetchedIsWhole
    <2> QED BY <2>1, <2>2
  <1> HIDE DEF res
  <1>6. Len(res) = Blocks BY <1>4, <1>5, LenProperties
  <1>7. bad = 0 BY <1>6
  <1> HIDE DEF bad
  <1>8. host' = [host EXCEPT !.step_res = res, !.bad.step = 0, !.pc = "getpres"]
    BY <1>1, <1>7
  <1>9. /\ host'.pc = "getpres" /\ host'.base = host.base /\ host'.lost = host.lost
        /\ host'.stale = host.stale /\ host'.res_z = host.res_z /\ host'.step_res = res
    BY <1>1, <1>8 DEF TypeInv, HostType
  <1>10. TypeInv'
    <2>0. res \in Seq(Entry) BY <1>5
    <2> DEFINE b == [host.bad EXCEPT !.step = 0]
    <2>1. b \in [step : Nat, pres : Nat] BY <1>1 DEF TypeInv, HostType
    <2>2. host' = [host EXCEPT !.step_res = res, !.bad = b, !.pc = "getpres"] BY <1>8
    <2> HIDE DEF b
    <2>3. HostType' BY ZenonT(60), <1>1, <2>0, <2>1, <2>2 DEF TypeInv, HostType, Pcs
    <2> QED BY <1>1, <2>3 DEF TypeInv, StepType, PresType, SeenType
  <1>11. DebtInv' /\ HeightInv' BY <1>9 DEF Inv2, DebtInv, HeightInv
  <1>12. DownInv' BY <1>1, <1>9 DEF Inv2, DownInv, GoingDown, WentDown, LastEntry, Debt
  <1>13. RecInv' BY <1>1, <1>5, <1>9 DEF RecInv, RepairedIsWhole, StepEntries
  <1>14. SeenInv' BY <1>1, <1>9 DEF Inv2, SeenInv
  <1> QED BY <1>10, <1>11, <1>12, <1>13, <1>14 DEF Inv2

LEMMA GetPresInv2 == ASSUME IInv, Inv2, GetPres PROVE Inv2'
  <1> DEFINE res == Whole(host.pres_res, PresEntries, PresBlocks)
             bad == IF Len(res) = PresBlocks THEN 0 ELSE host.bad.pres + 1
             to == IF bad > 2 THEN "raise" ELSE "use"
  <1>1. /\ TypeInv /\ UNCHANGED <<step, pres, swap, z, seen>> /\ host.pc = "getpres"
        /\ host' = [host EXCEPT !.pres_res = res, !.bad.pres = bad, !.pc = to]
    BY DEF Inv2, GetPres
  <1>2. host.pres_res \in Seq(PresEntry) /\ host.bad.pres \in Nat BY <1>1 DEF TypeInv, HostType
  <1>3. \A i \in 0 .. PresBlocks - 1 : PresEntries[i] \in PresEntry BY <1>1, Entries
  <1>4. PresBlocks \in Nat BY Sizes
  <1>5. res \in Seq(PresEntry) /\ Len(res) >= PresBlocks
    <2>1. CASE Len(host.pres_res) = PresBlocks
      <3>1. res = host.pres_res BY <2>1 DEF Whole
      <3> QED BY <1>2, <1>4, <2>1, <3>1
    <2>2. CASE Len(host.pres_res) # PresBlocks
      <3>1. res = Refetched(host.pres_res, PresEntries, PresBlocks) BY <2>2 DEF Whole
      <3> QED BY <1>2, <1>3, <1>4, <3>1, RefetchedIsLong
    <2> QED BY <2>1, <2>2
  <1> HIDE DEF res
  <1>6. bad \in Nat /\ to \in {"raise", "use"} BY <1>2
  <1> HIDE DEF bad, to
  <1>7. /\ host'.pc = to /\ host'.base = host.base /\ host'.lost = host.lost
        /\ host'.stale = host.stale /\ host'.res_z = host.res_z
        /\ host'.step_res = host.step_res /\ host'.pres_res = res
    BY <1>1 DEF TypeInv, HostType
  <1>8. TypeInv'
    <2>1. to \in Pcs BY <1>6 DEF Pcs
    <2>2. HostType' BY <1>1, <1>5, <1>6, <2>1 DEF TypeInv, HostType
    <2> QED BY <1>1, <2>2 DEF TypeInv, StepType, PresType, SeenType
  <1>9. DebtInv' /\ HeightInv' BY <1>6, <1>7 DEF Inv2, DebtInv, HeightInv
  <1>10. DownInv' BY <1>1, <1>6, <1>7 DEF Inv2, DownInv, GoingDown, WentDown, LastEntry, Debt
  <1>11. RecInv' BY <1>1, <1>5, <1>6, <1>7 DEF Inv2, RecInv, RepairedIsWhole, StepEntries
  <1>12. SeenInv' BY <1>1, <1>6, <1>7 DEF Inv2, SeenInv
  <1> QED BY <1>8, <1>9, <1>10, <1>11, <1>12 DEF Inv2

\* What a measurement reads from the repaired record.
LEMMA Read ==
  ASSUME IInv, Inv2, Measure
  PROVE  /\ TypeInv /\ UNCHANGED <<step, pres, swap, z, seen>> /\ host.pc = "use"
         /\ LastStep(host) = LastEntry /\ LastEntry \in 0 .. Travel - 1
         /\ z = host.base - 2 * Debt - 2 * (Travel - LastEntry)
         /\ \A out \in TriSteps(host) : out \in {LastEntry, LastEntry + 1}
         /\ Len(host.pres_res) >= PresBlocks
  <1>1. TypeInv /\ UNCHANGED <<step, pres, swap, z, seen>> /\ host.pc = "use"
    BY DEF Inv2, Measure
  <1>2. ~step.on BY <1>1, StillIs DEF Moving
  <1>3. /\ LastEntry \in 0 .. Travel - 1
        /\ z = host.base - 2 * Debt - 2 * (Travel - LastEntry)
        /\ Blocks > 1 => step.fifo[Blocks - 1] \in {0, LastEntry + 1}
    BY <1>1, <1>2 DEF Inv2, DownInv, WentDown
  <1>4. /\ host.step_res = [k \in 1 .. Blocks |-> StepEntries[k - 1]]
        /\ Len(host.pres_res) >= PresBlocks
    BY <1>1 DEF Inv2, RecInv, RepairedIsWhole
  <1>5. /\ \A k \in 1 .. Blocks : host.step_res[k].step = step.fifo[k]
        /\ Len(host.step_res) = Blocks /\ DOMAIN host.step_res = 1 .. Blocks
    <2>1. \A k \in 1 .. Blocks : host.step_res[k].step = step.fifo[k]
      <3> SUFFICES ASSUME NEW k \in 1 .. Blocks PROVE host.step_res[k].step = step.fifo[k]
        OBVIOUS
      <3>1. k - 1 \in 0 .. Blocks - 1 /\ (k - 1) + 1 = k BY Sizes
      <3> QED BY <1>1, <1>4, <3>1, Entries
    <2>2. host.step_res \in Seq(Entry) BY <1>1 DEF TypeInv, HostType
    <2>3. DOMAIN host.step_res = 1 .. Blocks BY <1>4
    <2>4. Len(host.step_res) = Blocks BY <2>2, <2>3, Sizes, LenProperties
    <2> QED BY <2>1, <2>3, <2>4
  <1>6. LastStep(host) = LastEntry BY <1>5, Sizes DEF LastStep, LastEntry
  <1>7. ASSUME NEW out \in TriSteps(host) PROVE out \in {LastEntry, LastEntry + 1}
    <2>1. \/ out = LastStep(host)
          \/ \E k \in {Blocks - 1} \cap (1 .. Blocks) : out = host.step_res[k].step /\ out # 0
      BY <1>5, <1>7 DEF TriSteps
    <2>2. CASE out = LastStep(host) BY <1>6, <2>2
    <2>3. ASSUME NEW k \in {Blocks - 1} \cap (1 .. Blocks), out = host.step_res[k].step, out # 0
          PROVE  out = LastEntry + 1
      <3>1. k = Blocks - 1 /\ Blocks > 1 BY Sizes
      <3> QED BY SMTT(30), <1>3, <1>5, <2>3, <3>1
    <2> QED BY <2>1, <2>2, <2>3
  <1> QED BY <1>1, <1>3, <1>4, <1>6, <1>7

LEMMA MeasureInv2 == ASSUME IInv, Inv2, Measure PROVE Inv2'
  <1>1. PICK out \in TriSteps(host), agree \in BOOLEAN :
          LET full == Len(host.pres_res) >= PresBlocks
              res == IF full THEN Append(host.res_z, Measured(host, out)) ELSE host.res_z
              rt == full /\ agree /\ Len(res) >= 2
              lift == Lift(host, res, rt)
          IN host' = [host EXCEPT !.res_z = res, !.up = lift.up, !.lost = lift.lost,
                        !.stale = @ /\ ~lift.short,
                        !.last = Len(res) >= ProCnt \/ rt, !.pc = "lift"]
    BY DEF Measure
  <1> DEFINE res == Append(host.res_z, Measured(host, out))
             rt == agree /\ Len(res) >= 2
             lift == Lift(host, res, rt)
             up == Travel - LastEntry
  <1>2. /\ TypeInv /\ UNCHANGED <<step, pres, swap, z, seen>> /\ host.pc = "use"
        /\ LastStep(host) = LastEntry /\ LastEntry \in 0 .. Travel - 1
        /\ z = host.base - 2 * Debt - 2 * up
        /\ out \in {LastEntry, LastEntry + 1}
        /\ Len(host.pres_res) >= PresBlocks
    BY Read
  <1>3. host' = [host EXCEPT !.res_z = res, !.up = lift.up, !.lost = lift.lost,
                   !.stale = @ /\ ~lift.short,
                   !.last = Len(res) >= ProCnt \/ rt, !.pc = "lift"]
    BY <1>1, <1>2
  <1>4. /\ host.res_z \in Seq(Int) /\ host.lost \in Nat /\ host.base \in Int
        /\ host.stale \in BOOLEAN /\ Debt \in {0, host.lost}
        /\ host.stale => Debt = 0
        /\ ~host.stale => Debt = host.lost
    BY <1>2 DEF TypeInv, HostType, Debt
  <1>5. up \in 1 .. Travel /\ Measured(host, out) \in Int
    BY SMTT(30), <1>2, <1>4, Sizes DEF Measured
  <1>6. /\ res \in Seq(Int) /\ Len(res) = Len(host.res_z) + 1 /\ Len(host.res_z) \in Nat
        /\ res # <<>>
    <2>1. res \in Seq(Int) /\ Len(res) = Len(host.res_z) + 1 /\ Len(host.res_z) \in Nat
      BY <1>4, <1>5, AppendProperties, LenProperties
    <2> QED BY SMTT(30), <2>1, EmptySeq
  <1>7. Len(res) = 1 => host.res_z = <<>>
    <2>1. Len(res) = 1 => Len(host.res_z) = 0 BY <1>6
    <2> QED BY <1>4, <2>1, EmptySeq
  <1>8. /\ ProCnt <= 2 => host.lost = 0
        /\ host.lost # 0 /\ ~host.stale => host.res_z # <<>>
    BY DEF Inv2, DebtInv
  <1> DEFINE lastly == Len(res) >= ProCnt \/ rt
  <1>9. rt => Len(res) >= 2 OBVIOUS
  <1>10. \/ /\ lift = [up |-> Short, lost |-> up - Short, short |-> TRUE]
            /\ Len(res) = 1 /\ ProCnt > 2 /\ up > Short
         \/ /\ lift = [up |-> up + host.lost, lost |-> host.lost, short |-> FALSE]
            /\ ProCnt > 2 /\ lastly
         \/ /\ lift = [up |-> up, lost |-> host.lost, short |-> FALSE]
            /\ ProCnt <= 2 \/ ~lastly
    <2>1. Len(res) > 0 /\ ProCnt \in Int BY <1>6, Sizes
    <2> HIDE DEF res, rt
    <2> QED BY <1>2, <2>1 DEF Lift
  <1> HIDE DEF res, rt, lift
  <1>11. /\ lift.up \in Nat \ {0} /\ lift.lost \in Nat /\ lift.short \in BOOLEAN
    <2>1. up \in Nat \ {0} /\ Short \in Nat \ {0} /\ up + host.lost \in Nat \ {0}
      BY <1>4, <1>5, Sizes
    <2>2. up > Short => up - Short \in Nat BY <2>1
    <2> HIDE DEF up
    <2>3. CASE lift = [up |-> Short, lost |-> up - Short, short |-> TRUE] /\ up > Short
      BY <2>1, <2>2, <2>3
    <2>4. CASE lift = [up |-> up + host.lost, lost |-> host.lost, short |-> FALSE]
      BY <1>4, <2>1, <2>4
    <2>5. CASE lift = [up |-> up, lost |-> host.lost, short |-> FALSE]
      BY <1>4, <2>1, <2>5
    <2> QED BY <1>10, <2>3, <2>4, <2>5
  <1>12. lastly \in BOOLEAN BY <1>9 DEF rt
  <1> HIDE DEF lastly
  <1>13. /\ host'.pc = "lift" /\ host'.base = host.base /\ host'.res_z = res
         /\ host'.up = lift.up /\ host'.lost = lift.lost
         /\ host'.stale = (host.stale /\ ~lift.short) /\ host'.last = lastly
    BY <1>2, <1>3 DEF TypeInv, HostType, lastly
  <1>14. TypeInv'
    <2>1. HostType'
      <3>1. "lift" \in Pcs /\ lift.up \in Int /\ (host.stale /\ ~lift.short) \in BOOLEAN
        BY <1>4, <1>11 DEF Pcs
      <3> QED BY ZenonT(60), <1>2, <1>3, <1>6, <1>11, <1>12, <3>1 DEF TypeInv, HostType, lastly
    <2> QED BY <1>2, <2>1 DEF TypeInv, StepType, PresType, SeenType
  <1>15. DebtInv'
    <2>1. host'.res_z # <<>> BY <1>6, <1>13
    <2>2. ASSUME ProCnt <= 2 PROVE host'.lost = 0
      <3>1. host.lost = 0 /\ ~(ProCnt > 2) BY <1>8, <2>2, Sizes
      <3>2. lift.lost = host.lost BY <1>10, <3>1
      <3> QED BY <1>13, <3>1, <3>2
    <2> QED BY <2>1, <2>2 DEF DebtInv
  <1>16. HeightInv'
    <2> SUFFICES ASSUME ~Owes' PROVE z' + 2 * host'.up = Target'
      BY <1>11, <1>13 DEF HeightInv
    <2>1. CASE /\ lift = [up |-> Short, lost |-> up - Short, short |-> TRUE]
               /\ Len(res) = 1 /\ ProCnt > 2 /\ up > Short
      <3>1. Debt = 0 BY <1>4, <1>7, <1>8, <2>1
      <3>2. ~lastly BY <1>9, <2>1, Sizes DEF lastly
      <3>3. Target' = host.base - 2 * (up - Short) BY <1>13, <2>1, <3>2 DEF Target, Debt
      <3>4. host'.up = Short /\ z' = host.base - 2 * up BY <1>2, <1>4, <1>5, <1>13, <2>1, <3>1
      <3>5. up \in Int /\ Short \in Int BY <1>5, Sizes
      <3> HIDE DEF up
      <3> QED BY <1>4, <3>3, <3>4, <3>5
    <2>2. CASE /\ lift = [up |-> up + host.lost, lost |-> host.lost, short |-> FALSE]
               /\ ProCnt > 2 /\ lastly
      <3>1. host'.stale = host.stale /\ host'.last BY <1>4, <1>13, <2>2
      <3>2. Target' = host.base /\ Debt = host.lost BY <1>4, <1>13, <3>1 DEF Target, Owes
      <3>3. host'.up = up + host.lost /\ z' = host.base - 2 * host.lost - 2 * up
        BY <1>2, <1>13, <2>2, <3>2
      <3>4. up \in Int BY <1>5
      <3> HIDE DEF up
      <3> QED BY SMTT(30), <1>4, <3>2, <3>3, <3>4
    <2>3. CASE /\ lift = [up |-> up, lost |-> host.lost, short |-> FALSE]
               /\ ProCnt <= 2 \/ ~lastly
      <3>1. host'.stale = host.stale /\ host'.lost = host.lost /\ host'.last = lastly
        BY <1>4, <1>13, <2>3
      <3>2. Debt' = Debt BY <3>1 DEF Debt
      <3>3. Target' = host.base - 2 * Debt
        <4>1. CASE ProCnt <= 2
          <5>1. Debt = 0 BY <1>4, <1>8, <4>1
          <5> QED BY <1>4, <1>13, <3>2, <5>1 DEF Target
        <4>2. CASE ~lastly BY <1>13, <3>1, <3>2, <4>2 DEF Target
        <4> QED BY <2>3, <4>1, <4>2
      <3>4. host'.up = up /\ z' = host.base - 2 * Debt - 2 * up BY <1>2, <1>13, <2>3
      <3>5. up \in Int /\ Debt \in Int BY <1>4, <1>5
      <3> HIDE DEF up
      <3> QED BY <1>4, <3>3, <3>4, <3>5
    <2> QED BY <1>10, <2>1, <2>2, <2>3
  <1> QED BY <1>13, <1>14, <1>15, <1>16, AwayFromDown DEF Inv2

LEMMA SendLiftInv2 == ASSUME IInv, Inv2, SendLift PROVE Inv2'
  <1>1. /\ TypeInv /\ UNCHANGED <<pres, swap, z, seen>> /\ host.pc = "lift"
        /\ host' = [host EXCEPT !.pc = "lifting", !.step_res = <<>>, !.pres_res = <<>>]
        /\ step' = StepsStarted(Up, host.up)
    BY DEF Inv2, SendLift
  <1>2. host.up \in Nat \ {0} /\ (~Owes => z + 2 * host.up = Target)
    BY <1>1 DEF Inv2, HeightInv
  <1>3. /\ host'.pc = "lifting" /\ host'.base = host.base /\ host'.lost = host.lost
        /\ host'.stale = host.stale /\ host'.res_z = host.res_z /\ host'.last = host.last
    BY <1>1 DEF TypeInv, HostType
  <1>4. /\ StepType' /\ step'.on /\ step'.dir = Up /\ step'.now = 2 * host.up /\ ~step'.need_stop
    BY <1>1, <1>2, Started DEF Up
  <1>5. TypeInv'
    <2>1. HostType' BY <1>1, NoEntries DEF TypeInv, HostType, Pcs
    <2> QED BY <1>1, <1>4, <2>1 DEF TypeInv, PresType, SeenType
  <1>6. DebtInv' BY <1>3 DEF Inv2, DebtInv
  <1>7. HeightInv'
    <2>1. Owes' = Owes /\ Target' = Target BY <1>3 DEF Owes, Target, Debt
    <2>2. step'.now \in Nat \ {0} BY <1>2, <1>4
    <2> QED BY <1>1, <1>2, <1>3, <1>4, <2>1, <2>2 DEF HeightInv
  <1> QED BY <1>3, <1>5, <1>6, <1>7, AwayFromDown DEF Inv2

LEMMA LiftedInv2 == ASSUME IInv, Inv2, Lifted PROVE Inv2'
  <1> DEFINE to == IF host.last THEN "done" ELSE "clear"
  <1>1. /\ TypeInv /\ UNCHANGED <<pres, swap, z, seen>> /\ host.pc = "lifting"
        /\ host' = [host EXCEPT !.pc = to] /\ StopSteps
    BY DEF Inv2, Lifted, WaitEnds, Goto
  <1>2. /\ host'.pc = to /\ host'.base = host.base /\ host'.lost = host.lost
        /\ host'.stale = host.stale /\ host'.res_z = host.res_z /\ host'.last = host.last
    BY <1>1 DEF TypeInv, HostType
  <1>3. ~step.on BY <1>1, WaitedIsStill DEF Lifted, WaitEnds, Moving
  <1>4. ~Owes => z = Target BY <1>1, <1>3 DEF Inv2, HeightInv
  <1>5. TypeInv'
    <2>1. to \in Pcs BY DEF Pcs
    <2> HIDE DEF to
    <2>2. HostType' BY <1>1, <2>1 DEF TypeInv, HostType
    <2> QED BY <1>1, <2>2, Stopped DEF TypeInv, PresType, SeenType
  <1>6. DebtInv' BY <1>2 DEF Inv2, DebtInv
  <1>7. HeightInv'
    <2>1. CASE host.last
      BY <1>1, <1>2, <1>4, <2>1 DEF HeightInv, Owes, Target
    <2>2. CASE ~host.last
      <3>1. z = host.base - 2 * Debt /\ Debt' = Debt BY <1>2, <1>4, <2>2 DEF Owes, Target, Debt
      <3> QED BY <1>1, <1>2, <2>2, <3>1 DEF HeightInv
    <2> QED BY <2>1, <2>2
  <1> QED BY <1>2, <1>5, <1>6, <1>7, AwayFromDown DEF Inv2

LEMMA RaiseInv2 == ASSUME IInv, Inv2, RaiseLift \/ Raise PROVE Inv2'
  <1>1. TypeInv /\ UNCHANGED <<pres, swap, z, seen>> BY DEF Inv2, RaiseLift, Raise, WaitEnds
  <1>2. /\ host'.pc \in {"raising", "raised"} /\ host'.lost = host.lost
        /\ host'.stale = host.stale /\ host'.res_z = host.res_z
    BY ZenonT(60), <1>1 DEF RaiseLift, Raise, WaitEnds, Goto, TypeInv, HostType
  <1>3. StepType'
    <2>1. CASE RaiseLift
      <3>1. ErrorLift \in Nat /\ Up \in {Down, Up} BY Sizes DEF Up
      <3> QED BY <1>1, <2>1, <3>1, Started DEF RaiseLift
    <2>2. CASE Raise BY <1>1, <2>2, Stopped DEF Raise, WaitEnds
    <2> QED BY <2>1, <2>2
  <1>4. HostType'
    <2>1. CASE RaiseLift BY <1>1, <2>1, NoEntries DEF RaiseLift, TypeInv, HostType, Pcs
    <2>2. CASE Raise BY <1>1, <2>2 DEF Raise, WaitEnds, Goto, TypeInv, HostType, Pcs
    <2> QED BY <2>1, <2>2
  <1>5. TypeInv' BY <1>1, <1>3, <1>4 DEF TypeInv, PresType, SeenType
  <1>6. DebtInv' /\ HeightInv' BY <1>2 DEF Inv2, DebtInv, HeightInv
  <1> QED BY <1>2, <1>5, <1>6, AwayFromDown DEF Inv2

LEMMA NextInv2 == ASSUME IInv, Inv2, Next PROVE Inv2'
  <1>1. CASE SysTimeEvent
    <2>1. UNCHANGED <<step, pres, swap, z, host, seen>> BY <1>1 DEF SysTimeEvent
    <2> QED BY <2>1, StutterInv2
  <1>2. CASE Controller
    BY <1>1, <1>2, EdgeInv2, BlockInv2, PresSendInv2 DEF Controller
  <1>3. CASE Host
    BY <1>3, ClearInv2, StartPresInv2, SendDownInv2, WaitedInv2, StopPresInv2, NoTriggerInv2,
       GetStepsInv2, GetPresInv2, RefreshInv2, MeasureInv2, SendLiftInv2, LiftedInv2, RaiseInv2
    DEF Host
  <1> QED BY <1>2, <1>3, TriggerInv2 DEF Next

LEMMA InitInv2 == Init => Inv2
  <1> SUFFICES ASSUME Init PROVE Inv2 OBVIOUS
  <1>1. /\ step = [on |-> FALSE, dir |-> Down, now |-> 0, need_stop |-> FALSE,
                   send_active |-> 0, fifo |-> Zeros]
        /\ pres = [acq |-> FALSE, send_active |-> 0] /\ swap = 0 /\ z = 0 /\ seen = NoHit
        /\ \E flag \in BOOLEAN :
             host = [pc |-> "clear", step_res |-> <<>>, pres_res |-> <<>>, base |-> 0,
                     lost |-> 0, stale |-> FALSE, res_z |-> <<>>, refresh |-> flag,
                     bad |-> [step |-> 0, pres |-> 0], up |-> 0, last |-> FALSE]
    BY DEF Init
  <1>2. /\ host.pc = "clear" /\ host.base = 0 /\ host.lost = 0 /\ host.stale = FALSE
    BY <1>1
  <1>3. StepType
    <2>1. Zeros \in Seq(Int) /\ Len(Zeros) = Blocks BY ZerosAre
    <2> QED BY <1>1, <2>1, Sizes DEF StepType
  <1>4. HostType BY <1>1, NoEntries DEF HostType, Pcs
  <1>5. TypeInv BY <1>1, <1>3, <1>4, Sizes DEF TypeInv, PresType, SeenType, NoHit
  <1>6. DebtInv BY <1>2 DEF DebtInv
  <1>7. HeightInv BY <1>1, <1>2 DEF HeightInv, Debt
  <1>8. DownInv /\ RecInv /\ SeenInv
    BY <1>2 DEF DownInv, GoingDown, WentDown, RecInv, RepairedIsWhole, SeenInv
  <1> QED BY <1>5, <1>6, <1>7, <1>8 DEF Inv2

LEMMA Invariant2 == Spec => [](IInv /\ Inv2)
  <1>1. Init => Inv2 BY InitInv2
  <1>2. IInv /\ Inv2 /\ [Next]_vars => Inv2'
    <2>1. ASSUME IInv, Inv2, UNCHANGED vars PROVE Inv2'
      <3>1. UNCHANGED <<step, pres, swap, z, host, seen>> BY <2>1 DEF vars
      <3> QED BY <2>1, <3>1, StutterInv2
    <2> QED BY <2>1, NextInv2
  <1> QED BY <1>1, <1>2, Invariant, PTL DEF Spec

\* When the host goes on to use the record of steps, it is the controller's,
\* whole and in order, whichever blocks were lost and fetched again.
THEOREM RecordIsWhole == Spec => []RepairedIsWhole
  <1>1. Inv2 => RepairedIsWhole BY DEF Inv2, RecInv
  <1> QED BY <1>1, Invariant2, PTL

\* A probe that ends well leaves the nozzle where the planner believes it,
\* unless the zero was set anew with a short lift still owed.
THEOREM ReturnsThere == Spec => []ReturnsToStart
  <1>1. Inv2 => ReturnsToStart BY DEF Inv2, HeightInv, ReturnsToStart
  <1> QED BY <1>1, Invariant2, PTL

\* The cell has triggered on this way once a block of its record is to be sent
\* or was received, unless the host still held blocks when the way began.
HitInv ==
    /\ host.pc \in {"down", "wait", "disarm", "judge"} /\ ~seen.old
         /\ (host.pres_res # <<>> \/ pres.send_active > 0) => seen.hit
    /\ host.pc \in {"getpres", "use"} => seen.hit \/ seen.old

LEMMA HitController == ASSUME TypeInv, HitInv, Controller \/ PresTask PROVE HitInv'
  <1>1. CASE SysTimeEvent BY <1>1 DEF SysTimeEvent, HitInv
  <1>2. CASE PrtouchEvent
    <2>1. UNCHANGED <<pres, host>> /\ seen'.hit = seen.hit /\ seen'.old = seen.old
      BY <1>2 DEF PrtouchEvent, TypeInv, SeenType
    <2> QED BY <2>1 DEF HitInv
  <1>3. CASE PresTask
    <2>1. UNCHANGED host /\ seen'.hit BY <1>3 DEF PresTask, TypeInv, SeenType
    <2> QED BY <2>1 DEF HitInv
  <1>4. CASE StepTask
    <2>1. UNCHANGED <<pres, seen>> /\ host'.pc = host.pc /\ host'.pres_res = host.pres_res
      BY <1>4 DEF StepTask, TypeInv, HostType
    <2> QED BY <2>1 DEF HitInv
  <1>5. CASE PresSend
    <2>1. UNCHANGED seen /\ host'.pc = host.pc /\ pres.send_active > 0
      BY <1>5 DEF PresSend, TypeInv, HostType
    <2> QED BY <2>1 DEF HitInv
  <1> QED BY <1>1, <1>2, <1>3, <1>4, <1>5 DEF Controller

LEMMA HitHost == ASSUME TypeInv, HitInv, Host PROVE HitInv'
  <1>1. CASE SendStartPres
    <2>1. /\ host'.pc = "down" /\ host'.pres_res = host.pres_res
          /\ pres'.send_active = 0 /\ seen'.old = (host.pres_res # <<>>)
      BY <1>1 DEF SendStartPres, StartPres, NoHit, Goto, TypeInv, HostType
    <2>2. ~(pres'.send_active > 0) BY <2>1
    <2>3. ~seen'.old => host'.pres_res = <<>> BY Zenon, <2>1
    <2> QED BY Zenon, <2>1, <2>2, <2>3 DEF HitInv
  <1>2. CASE SendDown \/ Waited \/ SendStopPres
    <2>1. /\ UNCHANGED seen /\ host'.pres_res = host.pres_res
          /\ pres'.send_active = pres.send_active
          /\ host.pc \in {"down", "wait", "disarm"}
          /\ host'.pc \in {"down", "wait", "disarm", "judge"}
      BY <1>2 DEF SendDown, Waited, WaitEnds, SendStopPres, StopPres, Goto, TypeInv, HostType,
                  PresType
    <2> QED BY <2>1 DEF HitInv
  <1>3. CASE GetSteps \/ GetPres
    <2>1. /\ UNCHANGED <<pres, seen>>
          /\ (host.pc = "judge" /\ host.pres_res # <<>>) \/ host.pc = "getpres"
          /\ host'.pc \in {"raise", "getpres", "use"}
      BY ZenonT(30), <1>3 DEF GetSteps, GetPres, TypeInv, HostType
    <2> QED BY <2>1 DEF HitInv
  <1>4. CASE Clear \/ DealAvgs \/ NoTrigger \/ RefreshZ \/ Measure
    <2>1. host'.pc \in {"avgs", "pres", "clear", "raise", "lift"}
      BY ZenonT(30), <1>4 DEF Clear, DealAvgs, NoTrigger, RefreshZ, ZeroHere, Measure, Goto,
                              TypeInv, HostType
    <2> QED BY <2>1 DEF HitInv
  <1>5. CASE SendLift \/ Lifted \/ RaiseLift \/ Raise
    <2>1. host'.pc \in {"lifting", "done", "clear", "raising", "raised"}
      BY ZenonT(30), <1>5 DEF SendLift, Lifted, RaiseLift, Raise, WaitEnds, Goto, TypeInv, HostType
    <2> QED BY <2>1 DEF HitInv
  <1> QED BY <1>1, <1>2, <1>3, <1>4, <1>5 DEF Host

LEMMA Invariant3 == Spec => []HitInv
  <1>1. Init => HitInv BY DEF Init, HitInv
  <1>2. Inv2 /\ HitInv /\ [Next]_vars => HitInv'
    <2>1. ASSUME HitInv, UNCHANGED vars PROVE HitInv' BY <2>1 DEF vars, HitInv
    <2> QED BY <2>1, HitController, HitHost DEF Next, Inv2
  <1> QED BY <1>1, <1>2, Invariant2, PTL DEF Spec

LEMMA Difference ==
  ASSUME NEW out \in Int, NEW m, m = -2 * (Travel - out) - 2 * host.lost,
         LastEntry \in Int, Travel \in Int, host.lost \in Int, host.base \in Int,
         seen.at \in Int, seen.sunk \in Int,
         seen.at - seen.sunk = host.base - 2 * host.lost - 2 * (Travel - LastEntry)
  PROVE  m - (seen.at - host.base) = 2 * (out - LastEntry) - seen.sunk
  OBVIOUS

\* No height is measured on a way without a trigger, unless blocks of the way
\* before came late, and it is the height of the trigger, to a whole step,
\* unless the debt of a short lift outlived a refresh.
THEOREM MeasuresTruly == Spec => MeasuredIsTrue
  <1> DEFINE Measures ==
               host.pc = "use" /\ Len(host'.res_z) > Len(host.res_z) =>
                 /\ seen.hit \/ seen.old
                 /\ seen.hit /\ ~host.stale =>
                      host'.res_z[Len(host'.res_z)] - (seen.at - host.base) \in -2 .. 2
  <1>1. IInv /\ Inv2 /\ HitInv /\ [Next]_vars => [Measures]_vars
    <2>0. HitInv /\ host.pc = "use" => seen.hit \/ seen.old BY DEF HitInv
    <2> SUFFICES ASSUME IInv, Inv2, Next, host.pc = "use", Len(host'.res_z) > Len(host.res_z),
                        ~host.stale, seen.hit
                 PROVE  host'.res_z[Len(host'.res_z)] - (seen.at - host.base) \in -2 .. 2
      BY <2>0
    <2>1. host.res_z \in Seq(Int) /\ TypeInv BY DEF Inv2, TypeInv, HostType
    <2>2. Measure
      <3>1. CASE Controller \/ PresTask
        <4>1. host.pc = "use" => ~step.on /\ step.send_active = 0 BY StillIs DEF Moving
        <4>2. host'.res_z = host.res_z
          BY <2>1, <3>1 DEF Controller, SysTimeEvent, PrtouchEvent, StepTask, PresSend, PresTask,
             TypeInv, HostType
        <4> QED BY <2>1, <4>2, LenProperties
      <3>2. CASE RefreshZ
        <4>1. host'.res_z = <<>>
          BY <2>1, <3>2 DEF RefreshZ, ZeroHere, TypeInv, HostType
        <4>2. Len(host'.res_z) = 0 BY SMTT(30), <4>1
        <4> QED BY <2>1, <4>2, LenProperties
      <3> QED BY <3>1, <3>2 DEF Next, Host, Clear, DealAvgs, SendStartPres, SendDown, Waited,
            SendStopPres, NoTrigger, GetSteps, GetPres, SendLift, Lifted, RaiseLift, Raise, WaitEnds
    <2>3. PICK out \in TriSteps(host) : host'.res_z = Append(host.res_z, Measured(host, out))
      BY <2>1, <2>2, Read DEF Measure, TypeInv, HostType
    <2>4. /\ out \in {LastEntry, LastEntry + 1} /\ LastEntry \in 0 .. Travel - 1
          /\ z = host.base - 2 * Debt - 2 * (Travel - LastEntry)
      BY <2>2, Read
    <2>5. Debt = host.lost /\ host.lost \in Nat /\ host.base \in Int /\ Travel \in Int
      BY <2>1, Sizes DEF Debt, TypeInv, HostType
    <2>6. z = seen.at - seen.sunk BY DEF Inv2, SeenInv
    <2>7. seen.sunk \in 0 .. 2 /\ seen.at \in Int
      BY <2>1 DEF IInv, SunkInv, StopsWithinAStep, TypeInv, SeenType
    <2> DEFINE m == Measured(host, out)
    <2>8. m = -2 * (Travel - out) - 2 * host.lost BY DEF Measured
    <2>9. m \in Int BY <2>4, <2>5, <2>8
    <2> HIDE DEF m
    <2>10. host'.res_z[Len(host'.res_z)] = m
      BY <2>1, <2>3, <2>9, AppendProperties DEF m
    <2>11. m - (seen.at - host.base) = 2 * (out - LastEntry) - seen.sunk
      <3>1. out \in Int /\ LastEntry \in Int BY <2>4
      <3>2. seen.at - seen.sunk = host.base - 2 * host.lost - 2 * (Travel - LastEntry)
        BY <2>4, <2>5, <2>6
      <3>3. host.lost \in Int /\ host.base \in Int /\ seen.at \in Int /\ seen.sunk \in Int
        BY <2>5, <2>7
      <3> QED BY <2>5, <2>8, <3>1, <3>2, <3>3, Difference
    <2> QED BY SMTT(30), <2>4, <2>7, <2>10, <2>11
  <1>2. [][Measures]_vars => MeasuredIsTrue BY PTL DEF MeasuredIsTrue
  <1> QED BY <1>1, <1>2, Invariant2, Invariant3, PTL DEF Spec
=============================================================================
