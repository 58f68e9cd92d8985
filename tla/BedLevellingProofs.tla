------------------------- MODULE BedLevellingProofs -------------------------
(***************************************************************************)
(* LimitsSurvive, AcceptedMeshIsTrue and HomeGivesMesh, for any number of  *)
(* points, silent probes and slips.                                        *)
(*                                                                         *)
(* set_step_par puts back what it kept last, so it must not run before it  *)
(* has kept something.  A command that is past its set_step_par, running   *)
(* or waiting for one it called, is the witness that it has.               *)
(*                                                                         *)
(* What is true of a scan or of a home is known from how far its command   *)
(* is.  Only a home is ever called by another command, so all of it is     *)
(* about the running command, and about the one that waits for a home.     *)
(***************************************************************************)
EXTENDS BedLevelling, SequenceTheorems, TLAPS

Meshes == {"none", "old", "new"}
Labels == {"home", "selfcheck", "shake", "touch", "coarse", "precise", "confirm",
           "wipe", "wipeready", "pad", "wiped", "check", "corners", "compare", "scan", "point",
           "measure", "measured", "again", "remeasure", "post", "correct", "next",
           "trig", "bedtest", "bedpoint", "bedend", "checked"}
Frames == [at : Labels, accurate : BOOLEAN, mesh : Meshes, tries : {0, 1}, deaf : Deaf,
           wrong : BOOLEAN, checked : {"coarse", "checked"}]

Speeds == {"user", "run", "shake"}
LimitsOK ==
    /\ limits \in [now : Speeds, kept : BOOLEAN, sys : Speeds \cup {"unset"}, shaken : BOOLEAN]
    /\ limits.kept => limits.sys # "unset"
MeshOK == mesh \in [now : Meshes, saved : Meshes]
Shapes == LimitsOK /\ MeshOK /\ stack \in Seq(Frames)

\* A frame that is past its set_step_par.
Past(f) ==
    \/ f.at \in {"coarse", "precise", "confirm", "pad", "wiped", "measure", "measured", "again",
                 "remeasure", "post", "correct", "next"}
    \/ f.at \in {"selfcheck", "shake", "touch"} /\ f.checked = "coarse"
AnyPast(s) == \E i \in 1 .. Len(s) : Past(s[i])

\* It has something to put back, unless a shake has replaced it before.
Sure == limits.sys = "user" \/ (limits.shaken /\ limits.sys # "unset")
KeptInv == AnyPast(stack) => Sure

IInv == Shapes /\ LimitsSurvive /\ KeptInv

-----------------------------------------------------------------------------
(* The stack.                                                              *)

LEMMA Tops ==
  ASSUME stack \in Seq(Frames), stack # <<>>
  PROVE  /\ Top \in Frames
         /\ Tail(stack) \in Seq(Frames)
         /\ Past(Top) => AnyPast(stack)
         /\ AnyPast(Tail(stack)) => AnyPast(stack)
  <1>1. Top \in Frames /\ Tail(stack) \in Seq(Frames) BY DEF Top
  <1>2. Top = stack[1] /\ 1 \in 1 .. Len(stack) BY DEF Top
  <1>3. \A i \in 1 .. Len(Tail(stack)) : i + 1 \in 1 .. Len(stack) /\ Tail(stack)[i] = stack[i + 1]
    OBVIOUS
  <1> QED BY <1>1, <1>2, <1>3 DEF AnyPast

LEMMA Pushed ==
  ASSUME NEW f \in Frames, NEW s \in Seq(Frames)
  PROVE  /\ <<f>> \o s \in Seq(Frames)
         /\ AnyPast(<<f>> \o s) => Past(f) \/ AnyPast(s)
  <1>1. <<f>> \o s \in Seq(Frames) OBVIOUS
  <1>2. \A i \in 1 .. Len(<<f>> \o s) :
          (<<f>> \o s)[i] = f \/ (i - 1 \in 1 .. Len(s) /\ (<<f>> \o s)[i] = s[i - 1])
    OBVIOUS
  <1> QED BY <1>1, <1>2 DEF AnyPast

\* The running command goes on to another label.
LEMMA Moved ==
  ASSUME stack \in Seq(Frames), stack # <<>>, NEW f \in Frames, NEW label \in Labels
  PROVE  /\ To(f, label) \in Seq(Frames)
         /\ AnyPast(To(f, label)) => Past([f EXCEPT !.at = label]) \/ AnyPast(stack)
  <1>1. [f EXCEPT !.at = label] \in Frames BY DEF Frames
  <1> QED BY <1>1, Tops, Pushed DEF To

\* It calls another one, at its beginning.
LEMMA Called ==
  ASSUME stack \in Seq(Frames), stack # <<>>, NEW label \in Labels, NEW accurate \in BOOLEAN
  PROVE  LET s == <<Homing(accurate)>> \o To(Top, label)
         IN  /\ s \in Seq(Frames)
             /\ AnyPast(s) => Past([Top EXCEPT !.at = label]) \/ AnyPast(stack)
  <1>1. Homing(accurate) \in Frames /\ ~Past(Homing(accurate))
    BY DEF Homing, Frame, Frames, Labels, Meshes, Deaf, Past
  <1> QED BY <1>1, Tops, Moved, Pushed

LEMMA Empty == <<>> \in Seq(Frames) /\ ~AnyPast(<<>>)
  BY DEF AnyPast

LEMMA One ==
  ASSUME NEW f \in Frames
  PROVE  <<f>> \in Seq(Frames) /\ (AnyPast(<<f>>) => Past(f))
  <1>1. <<f>> \in Seq(Frames) /\ \A i \in 1 .. Len(<<f>>) : <<f>>[i] = f OBVIOUS
  <1> QED BY <1>1 DEF AnyPast

-----------------------------------------------------------------------------
(* The limits.                                                             *)

LEMMA Reduces ==
  ASSUME LimitsOK, LimitsSurvive, limits' = Reduced(limits)
  PROVE  LimitsOK' /\ LimitsSurvive' /\ Sure'
  BY DEF LimitsOK, Speeds, LimitsSurvive, Reduced, Sure

LEMMA Restores ==
  ASSUME LimitsOK, Sure, limits' = Restored(limits)
  PROVE  LimitsOK' /\ LimitsSurvive' /\ Sure'
  BY DEF LimitsOK, Speeds, LimitsSurvive, Restored, Sure

\* Without a change of the limits no command may come past its set_step_par.
LEMMA Keeps ==
  ASSUME IInv, UNCHANGED limits, MeshOK', stack' \in Seq(Frames), AnyPast(stack') => AnyPast(stack)
  PROVE  IInv'
  BY DEF IInv, Shapes, LimitsOK, LimitsSurvive, KeptInv, Sure

LEMMA ShutsDown == ASSUME IInv, ShutDown PROVE IInv'
  <1>1. MeshOK' BY DEF IInv, Shapes, MeshOK, ShutDown
  <1>2. LimitsOK' /\ LimitsSurvive' BY DEF ShutDown, FreshLimits, LimitsOK, Speeds, LimitsSurvive
  <1> QED BY <1>1, <1>2, Empty DEF ShutDown, IInv, Shapes, KeptInv
-----------------------------------------------------------------------------
(* The steps that leave the limits alone.                                  *)

\* What the running command may become.
LEMMA Goes ==
  ASSUME Shapes, stack # <<>>, NEW f \in Frames, NEW label \in Labels, stack' = To(f, label),
         Past([f EXCEPT !.at = label]) => Past(Top)
  PROVE  stack' \in Seq(Frames) /\ (AnyPast(stack') => AnyPast(stack))
  BY Moved, Tops DEF Shapes

LEMMA Calls ==
  ASSUME Shapes, stack # <<>>, NEW label \in Labels, NEW accurate \in BOOLEAN,
         Call(Homing(accurate), label), Past([Top EXCEPT !.at = label]) => Past(Top)
  PROVE  stack' \in Seq(Frames) /\ (AnyPast(stack') => AnyPast(stack))
  BY Called, Tops DEF Shapes, Call

LEMMA Leaves ==
  ASSUME Shapes, stack # <<>>, stack' \in {<<>>, Tail(stack)}
  PROVE  stack' \in Seq(Frames) /\ (AnyPast(stack') => AnyPast(stack))
  BY Tops, Empty DEF Shapes

\* Changes of the mesh and of the stack, which is all these steps are here.
Calm == MeshOK' /\ stack' \in Seq(Frames) /\ (AnyPast(stack') => AnyPast(stack))

LEMMA HomeCalm ==
  ASSUME Shapes, SelfCheck \/ Shake \/ Touch \/ Coarse \/ Precise
  PROVE  Calm
  <1>1. stack # <<>> /\ Top \in Frames
    BY Tops DEF Shapes, SelfCheck, Shake, Touch, Coarse, Precise, At
  <1>2. MeshOK' BY DEF Shapes, MeshOK, SelfCheck, Shake, Touch, Coarse, Precise
  <1> USE <1>1, <1>2 DEF Calm
  <1>3. CASE SelfCheck
    <2>1. CASE \E label \in {Top.checked, "shake"} : Go(label)
      <3>1. PICK label \in {Top.checked, "shake"} : Go(label) BY <2>1
      <3>2. label \in Labels /\ (Past([Top EXCEPT !.at = label]) => Past(Top))
        BY <1>3 DEF Frames, Labels, SelfCheck, At, Past
      <3> QED BY <3>1, <3>2, Goes DEF Go
    <2>2. CASE stack' \in {<<>>, Tail(stack)} BY <2>2, Leaves
    <2> QED BY <1>3, <2>1, <2>2 DEF SelfCheck, Return, Raise
  <1>4. CASE Shake
    <2>1. CASE Go(Top.checked)
      <3>1. Top.checked \in Labels /\ (Past([Top EXCEPT !.at = Top.checked]) => Past(Top))
        BY <1>4 DEF Frames, Labels, Shake, At, Past
      <3> QED BY <2>1, <3>1, Goes DEF Go
    <2>2. CASE \E deaf \in Deaf, label \in {"shake", "touch"}, n \in {0, 1} :
                 \/ stack' = To([Top EXCEPT !.tries = n], label)
                 \/ stack' = To([Top EXCEPT !.tries = n, !.deaf = deaf], label)
      <3>1. PICK deaf \in Deaf, label \in {"shake", "touch"}, n \in {0, 1} :
                 \/ stack' = To([Top EXCEPT !.tries = n], label)
                 \/ stack' = To([Top EXCEPT !.tries = n, !.deaf = deaf], label)
        BY <2>2
      <3>2. /\ label \in Labels
            /\ [Top EXCEPT !.tries = n] \in Frames
            /\ [Top EXCEPT !.tries = n, !.deaf = deaf] \in Frames
        BY DEF Frames, Labels
      <3>3. /\ Past([[Top EXCEPT !.tries = n] EXCEPT !.at = label]) => Past(Top)
            /\ Past([[Top EXCEPT !.tries = n, !.deaf = deaf] EXCEPT !.at = label]) => Past(Top)
        BY <1>4 DEF Frames, Shake, At, Past
      <3>4. CASE stack' = To([Top EXCEPT !.tries = n], label) BY <3>2, <3>3, <3>4, Goes
      <3>5. CASE stack' = To([Top EXCEPT !.tries = n, !.deaf = deaf], label)
        BY <3>2, <3>3, <3>5, Goes
      <3> QED BY <3>1, <3>4, <3>5
    <2>3. CASE stack' = <<>> BY <2>3, Leaves
    <2> QED BY <1>4, <2>1, <2>2, <2>3 DEF Shake, Deaf
  <1>5. CASE Touch
    <2>1. CASE stack' = To([Top EXCEPT !.tries = 0, !.deaf = "none"], Top.checked)
      <3>1. [Top EXCEPT !.tries = 0, !.deaf = "none"] \in Frames BY DEF Frames, Deaf
      <3>2. Top.checked \in Labels BY DEF Frames, Labels
      <3>3. Past([[Top EXCEPT !.tries = 0, !.deaf = "none"] EXCEPT !.at = Top.checked]) => Past(Top)
        BY <1>5 DEF Frames, Touch, At, Past
      <3> QED BY <2>1, <3>1, <3>2, <3>3, Goes
    <2>2. CASE stack' = To([Top EXCEPT !.tries = 0], Top.checked)
      <3>1. [Top EXCEPT !.tries = 0] \in Frames BY DEF Frames
      <3>2. Top.checked \in Labels BY DEF Frames, Labels
      <3>3. Past([[Top EXCEPT !.tries = 0] EXCEPT !.at = Top.checked]) => Past(Top)
        BY <1>5 DEF Frames, Touch, At, Past
      <3> QED BY <2>2, <3>1, <3>2, <3>3, Goes
    <2>3. ASSUME NEW w \in BOOLEAN, stack' = To([Top EXCEPT !.tries = 1, !.wrong = w], "touch")
          PROVE  Calm
      <3>1. [Top EXCEPT !.tries = 1, !.wrong = w] \in Frames BY DEF Frames
      <3>2. "touch" \in Labels BY DEF Labels
      <3>3. Past([[Top EXCEPT !.tries = 1, !.wrong = w] EXCEPT !.at = "touch"]) => Past(Top)
        BY <1>5 DEF Frames, Touch, At, Past
      <3> QED BY <2>3, <3>1, <3>2, <3>3, Goes
    <2>4. CASE stack' = <<>> BY <2>4, Leaves
    <2>5. Top.wrong \in BOOLEAN BY DEF Frames
    <2> QED BY <1>5, <2>1, <2>2, <2>3, <2>4, <2>5 DEF Touch
  <1>6. CASE Coarse \/ Precise
    <2>1. ASSUME NEW label \in {"precise", "confirm"}, Go(label) PROVE Calm
      <3>1. label \in Labels /\ Past(Top) BY <1>6 DEF Labels, Coarse, Precise, At, Past
      <3> QED BY <2>1, <3>1, Goes DEF Go
    <2>2. CASE stack' \in {<<>>, Tail(stack)} BY <2>2, Leaves
    <2> QED BY <1>6, <2>1, <2>2 DEF Coarse, Precise, Unheard, Raise, Return
  <1> QED BY <1>3, <1>4, <1>5, <1>6
LEMMA WipeAndCheckCalm ==
  ASSUME Shapes, WipeHomes \/ WipeProbe \/ CheckHomes \/ CheckProbes \/ Compare
  PROVE  Calm
  <1>1. stack # <<>> /\ Top \in Frames /\ "home" \in Labels
    BY Tops DEF Shapes, WipeHomes, WipeProbe, CheckHomes, CheckProbes, Compare, HomesFirst, At, Labels
  <1> USE <1>1 DEF Calm
  <1>2. ASSUME NEW begin, NEW label \in {"wipeready", "corners"}, HomesFirst(begin, label)
        PROVE  Calm
    <2>1. MeshOK' BY <1>2 DEF Shapes, MeshOK, HomesFirst
    <2>2. label \in Labels /\ ~Past([Top EXCEPT !.at = label]) BY DEF Labels, Frames, Past
    <2>3. CASE Go(label) BY <2>1, <2>2, <2>3, Goes DEF Go
    <2>4. CASE \E accurate \in BOOLEAN : Call(Homing(accurate), label)
      BY <2>1, <2>2, <2>4, Calls
    <2> QED BY <1>2, <2>3, <2>4 DEF HomesFirst
  <1>3. CASE WipeHomes \/ CheckHomes BY <1>2, <1>3 DEF WipeHomes, CheckHomes
  <1>4. CASE WipeProbe
    <2>1. MeshOK' BY <1>4 DEF Shapes, MeshOK, WipeProbe
    <2>2. "wiped" \in Labels /\ Past(Top) BY <1>4 DEF Labels, WipeProbe, At, Past
    <2>3. CASE Go("wiped") BY <2>1, <2>2, <2>3, Goes DEF Go
    <2>4. CASE stack' = <<>> BY <2>1, <2>4, Leaves
    <2> QED BY <1>4, <2>3, <2>4 DEF WipeProbe, Unheard, Raise
  <1>5. CASE CheckProbes
    <2>1. MeshOK' BY <1>5 DEF Shapes, MeshOK, Meshes, CheckProbes
    <2>2. [Top EXCEPT !.mesh = mesh.now] \in Frames BY DEF Frames, Shapes, MeshOK
    <2>3. /\ "compare" \in Labels
          /\ ~Past([[Top EXCEPT !.mesh = mesh.now] EXCEPT !.at = "compare"])
      BY DEF Labels, Frames, Past
    <2>4. CASE stack' = To([Top EXCEPT !.mesh = mesh.now], "compare")
      BY <2>1, <2>2, <2>3, <2>4, Goes
    <2>5. CASE stack' = <<>> BY <2>1, <2>5, Leaves
    <2> QED BY <1>5, <2>4, <2>5 DEF CheckProbes, Unheard, Raise
  <1>6. CASE Compare
    <2>1. MeshOK' BY <1>6 DEF Shapes, MeshOK, Frames, Compare
    <2>2. Frame("scan") \in Frames /\ "scan" \in Labels /\ ~Past([Frame("scan") EXCEPT !.at = "scan"])
      BY DEF Frame, Frames, Labels, Meshes, Deaf, Past
    <2>3. CASE stack' = To(Frame("scan"), "scan") BY <2>1, <2>2, <2>3, Goes
    <2>4. CASE Return BY <2>1, <2>4, Leaves DEF Return
    <2> QED BY <1>6, <2>3, <2>4 DEF Compare
  <1> QED BY <1>3, <1>4, <1>5, <1>6

LEMMA ScanCalm ==
  ASSUME Shapes,
         \/ ScanBegin \/ Measure \/ Again \/ Remeasure \/ LastPoint \/ PostProcess \/ Correct
         \/ OtherPoint
  PROVE  Calm
  <1>1. stack # <<>> /\ Top \in Frames
    BY Tops DEF Shapes, ScanBegin, Measure, Again, Remeasure, LastPoint, PostProcess, Correct,
                OtherPoint, At
  <1>2. MeshOK'
    BY DEF Shapes, MeshOK, Meshes, ScanBegin, Measure, Again, Remeasure, LastPoint, PostProcess,
           Correct, OtherPoint
  <1> USE <1>1, <1>2 DEF Calm
  <1>3. CASE ScanBegin
    <2>1. "point" \in Labels /\ ~Past([Top EXCEPT !.at = "point"]) BY DEF Labels, Frames, Past
    <2> QED BY <1>3, <2>1, Goes DEF ScanBegin, Go
  <1>4. CASE Measure \/ Again \/ Remeasure \/ LastPoint \/ PostProcess \/ Correct \/ OtherPoint
    <2>1. Past(Top)
      BY <1>4 DEF Measure, Again, Remeasure, LastPoint, PostProcess, Correct, OtherPoint, At, Past
    <2>2. ASSUME NEW label \in {"measured", "remeasure", "post", "next", "correct"}, Go(label)
          PROVE  Calm
      <3>1. label \in Labels BY DEF Labels
      <3> QED BY <2>1, <2>2, <3>1, Goes DEF Go
    <2>3. CASE Call(Homing(TRUE), "again")
      <3>1. "again" \in Labels BY DEF Labels
      <3> QED BY <2>1, <2>3, <3>1, Calls
    <2>4. CASE stack' = <<>> BY <2>4, Leaves
    <2>5. CASE Measure \/ Remeasure
      BY <2>2, <2>3, <2>4, <2>5 DEF Measure, Remeasure, MeasureWith, Unheard, Raise
    <2>6. CASE Again BY <2>2, <2>4, <2>6 DEF Again, ProbeReady, Unheard, Raise
    <2>7. CASE LastPoint BY <2>2, <2>4, <2>7 DEF LastPoint, Unheard, Raise
    <2>8. CASE PostProcess \/ Correct \/ OtherPoint
      BY <2>2, <2>4, <2>8 DEF PostProcess, Correct, OtherPoint, Unheard, Raise
    <2> QED BY <1>4, <2>5, <2>6, <2>7, <2>8
  <1> QED BY <1>3, <1>4

LEMMA TestCalm ==
  ASSUME Shapes, TrigTest \/ BedTestBegin \/ (BedTestPoint /\ ~ShutDown) \/ BedTestEnd \/ CheckEnds
  PROVE  Calm
  <1>1. stack # <<>> /\ Top \in Frames
    BY Tops DEF Shapes, TrigTest, BedTestBegin, BedTestPoint, BedTestEnd, CheckEnds, At
  <1>2. MeshOK'
    BY <1>1 DEF Shapes, MeshOK, Meshes, Frames, TrigTest, BedTestBegin, BedTestPoint, BedTestEnd,
                CheckEnds
  <1> USE <1>1, <1>2 DEF Calm
  <1>3. CASE BedTestBegin
    <2>1. [Top EXCEPT !.mesh = Taken(mesh)] \in Frames BY DEF Frames, Shapes, MeshOK, Taken
    <2>2. /\ "bedpoint" \in Labels
          /\ ~Past([[Top EXCEPT !.mesh = Taken(mesh)] EXCEPT !.at = "bedpoint"])
      BY DEF Labels, Frames, Past
    <2>3. CASE stack' = To([Top EXCEPT !.mesh = Taken(mesh)], "bedpoint")
      BY <2>1, <2>2, <2>3, Goes
    <2>4. CASE stack' = <<>> BY <2>4, Leaves
    <2> QED BY <1>3, <2>3, <2>4 DEF BedTestBegin
  <1>4. CASE BedTestPoint /\ ~ShutDown
    <2>1. ASSUME NEW label \in {"bedpoint", "bedend"}, Go(label) PROVE Calm
      <3>1. label \in Labels /\ ~Past([Top EXCEPT !.at = label]) BY DEF Labels, Frames, Past
      <3> QED BY <2>1, <3>1, Goes DEF Go
    <2>2. CASE stack' = <<>> BY <2>2, Leaves
    <2> QED BY <1>4, <2>1, <2>2 DEF BedTestPoint, Unheard, Raise
  <1>5. CASE TrigTest \/ BedTestEnd \/ CheckEnds
    <2>1. stack' \in {<<>>, Tail(stack)}
      BY <1>5 DEF TrigTest, BedTestEnd, CheckEnds, Return, Unheard, Raise
    <2> QED BY <2>1, Leaves
  <1> QED BY <1>3, <1>4, <1>5

\* A command of the owner's begins before its set_step_par.
LEMMA CommandCalm == ASSUME Shapes, Command, ~ShutDown PROVE Calm
  <1>1. MeshOK' BY DEF Shapes, MeshOK, Command, StartStep, SafeMoveZ, SafeDownZ, Steps
  <1>2. ASSUME NEW f \in Frames, ~Past(f), stack' = <<f>> PROVE Calm
    BY <1>1, <1>2, One DEF Calm
  <1>3. ASSUME NEW accurate \in BOOLEAN
        PROVE  Homing(accurate) \in Frames /\ ~Past(Homing(accurate))
    BY DEF Homing, Frame, Frames, Labels, Meshes, Deaf, Past
  <1>4. ASSUME NEW at \in {"wipe", "check", "scan", "trig", "bedtest"}
        PROVE  Frame(at) \in Frames /\ ~Past(Frame(at))
    BY DEF Frame, Frames, Labels, Meshes, Deaf, Past
  <1>5. LET f == [Frame("selfcheck") EXCEPT !.checked = "checked"] IN f \in Frames /\ ~Past(f)
    BY DEF Frame, Frames, Labels, Meshes, Deaf, Past
  <1>6. CASE StartStep \/ SafeMoveZ
    <2>1. stack' = stack BY <1>6 DEF StartStep, SafeMoveZ, Steps
    <2> QED BY <1>1, <2>1 DEF Calm, Shapes
  <1>7. CASE ~(StartStep \/ SafeMoveZ)
    <2>1. \/ \E accurate \in BOOLEAN : stack' = <<Homing(accurate)>>
          \/ \E at \in {"wipe", "check", "scan", "trig", "bedtest"} : stack' = <<Frame(at)>>
          \/ stack' = <<[Frame("selfcheck") EXCEPT !.checked = "checked"]>>
      BY <1>7 DEF Command, SafeDownZ
    <2> QED BY <2>1, <1>2, <1>3, <1>4, <1>5
  <1> QED BY <1>6, <1>7

-----------------------------------------------------------------------------
(* The steps that change the limits.                                       *)

\* After a set_step_par there is something to put back.
LEMMA Changes ==
  ASSUME LimitsOK', LimitsSurvive', Sure', MeshOK', stack' \in Seq(Frames)
  PROVE  IInv'
  BY DEF IInv, Shapes, KeptInv

LEMMA ReduceStep == ASSUME IInv, HomeBegin \/ WipeBegin \/ PointBegin PROVE IInv'
  <1>1. Shapes /\ stack # <<>> /\ Top \in Frames
    BY Tops DEF IInv, Shapes, HomeBegin, WipeBegin, PointBegin, At
  <1>2. LimitsOK' /\ LimitsSurvive' /\ Sure'
    BY Reduces DEF IInv, Shapes, HomeBegin, WipeBegin, PointBegin
  <1>3. MeshOK' BY <1>1 DEF Shapes, MeshOK, Meshes, HomeBegin, WipeBegin, PointBegin
  <1>4. stack' \in Seq(Frames)
    <2>1. ASSUME NEW f \in Frames, NEW label \in Labels, stack' = To(f, label)
          PROVE  stack' \in Seq(Frames)
      BY <1>1, <2>1, Moved DEF Shapes
    <2>2. {"selfcheck", "pad", "measure"} \subseteq Labels BY DEF Labels
    <2>3. ASSUME NEW m \in Meshes PROVE [Top EXCEPT !.mesh = m] \in Frames BY <1>1 DEF Frames
    <2>4. CASE HomeBegin
      <3>1. Taken(mesh) \in Meshes BY <1>1 DEF Shapes, MeshOK, Taken
      <3> QED BY <2>4, <3>1, <2>1, <2>2, <2>3 DEF HomeBegin
    <2>5. CASE WipeBegin
      <3>1. mesh.now \in Meshes BY <1>1 DEF Shapes, MeshOK
      <3> QED BY <2>5, <3>1, <2>1, <2>2, <2>3 DEF WipeBegin
    <2>6. CASE PointBegin
      <3>1. Go("measure") \/ stack' = <<>> BY <2>6 DEF PointBegin, ProbeReady, Unheard, Raise
      <3> QED BY <3>1, <1>1, <2>1, <2>2, Empty DEF Go
    <2> QED BY <2>4, <2>5, <2>6
  <1> QED BY <1>2, <1>3, <1>4, Changes

LEMMA RestoreStep == ASSUME IInv, Confirmed \/ Confirm \/ WipeEnd \/ PointEnd PROVE IInv'
  <1>1. Shapes /\ stack # <<>> /\ Top \in Frames
    BY Tops DEF IInv, Shapes, Confirmed, Confirm, WipeEnd, PointEnd, At
  <1>2. Past(Top) BY DEF Confirmed, Confirm, WipeEnd, PointEnd, At, Past
  <1>3. Sure BY <1>1, <1>2, Tops DEF IInv, Shapes, KeptInv
  <1>4. MeshOK' BY <1>1 DEF Shapes, MeshOK, Meshes, Frames, Confirmed, Confirm, WipeEnd, PointEnd
  <1>5. limits' = Restored(limits) \/ UNCHANGED limits BY DEF Confirmed, Confirm, WipeEnd, PointEnd
  <1>6. LimitsOK' /\ LimitsSurvive' /\ Sure'
    BY <1>1, <1>3, <1>5, Restores DEF IInv, Shapes, LimitsOK, LimitsSurvive, Sure
  <1>7. stack' \in Seq(Frames)
    <2>1. {"precise", "point"} \subseteq Labels BY DEF Labels
    <2>2. [Top EXCEPT !.tries = 1] \in Frames BY <1>1 DEF Frames
    <2>3. stack' \in {<<>>, Tail(stack), To(Top, "point"), To([Top EXCEPT !.tries = 1], "precise")}
      BY DEF Confirmed, Confirm, WipeEnd, PointEnd, Return, Raise, Go
    <2> QED BY <1>1, <2>1, <2>2, <2>3, Tops, Moved, Empty DEF Shapes
  <1> QED BY <1>4, <1>6, <1>7, Changes

\* A shake that fails leaves its own limits.
LEMMA ShakeFailsStep == ASSUME IInv, ShakeFails PROVE IInv'
  <1>1. LimitsOK' /\ LimitsSurvive'
    BY DEF IInv, Shapes, LimitsOK, Speeds, LimitsSurvive, ShakeFails, Shaken
  <1>2. MeshOK' BY DEF IInv, Shapes, MeshOK, ShakeFails
  <1> QED BY <1>1, <1>2, Empty DEF ShakeFails, IInv, Shapes, KeptInv

-----------------------------------------------------------------------------
LEMMA CalmStep ==
  ASSUME IInv,
         \/ SelfCheck \/ Shake \/ Touch \/ Coarse \/ Precise
         \/ WipeHomes \/ WipeProbe \/ CheckHomes \/ CheckProbes \/ Compare
         \/ ScanBegin \/ Measure \/ Again \/ Remeasure \/ LastPoint \/ PostProcess \/ Correct
         \/ OtherPoint
  PROVE  IInv'
  <1>1. Calm BY HomeCalm, WipeAndCheckCalm, ScanCalm DEF IInv
  <1>2. UNCHANGED limits
    BY DEF SelfCheck, Shake, Touch, Coarse, Precise, WipeHomes, WipeProbe, CheckHomes, HomesFirst,
           CheckProbes, Compare, ScanBegin, Measure, Again, Remeasure, LastPoint, PostProcess,
           Correct, OtherPoint
  <1> QED BY <1>1, <1>2, Keeps DEF Calm

LEMMA OtherStep ==
  ASSUME IInv, \/ Command \/ Slip
               \/ TrigTest \/ BedTestBegin \/ BedTestPoint \/ BedTestEnd \/ CheckEnds
  PROVE  IInv'
  <1>1. CASE ShutDown BY <1>1, ShutsDown
  <1>2. CASE Slip
    <2>1. UNCHANGED <<limits, mesh, stack>> BY <1>2 DEF Slip
    <2> QED BY <2>1, Keeps DEF IInv, Shapes, MeshOK
  <1>3. CASE ~ShutDown /\ ~Slip
    <2>1. Calm BY <1>3, CommandCalm, TestCalm DEF IInv
    <2>2. UNCHANGED limits
      BY <1>3 DEF Command, StartStep, SafeMoveZ, SafeDownZ, Steps, TrigTest, BedTestBegin,
                  BedTestPoint, BedTestEnd, CheckEnds
    <2> QED BY <2>1, <2>2, Keeps DEF Calm
  <1> QED BY <1>1, <1>2, <1>3

LEMMA Invariant == Spec => []IInv
  <1>1. Init => IInv
    <2> SUFFICES ASSUME Init PROVE IInv OBVIOUS
    <2>1. LimitsOK /\ LimitsSurvive BY DEF Init, FreshLimits, LimitsOK, Speeds, LimitsSurvive
    <2>2. MeshOK BY DEF Init, MeshOK, Meshes
    <2> QED BY <2>1, <2>2, Empty DEF Init, IInv, Shapes, KeptInv
  <1>2. IInv /\ [Next]_vars => IInv'
    <2> SUFFICES ASSUME IInv, [Next]_vars PROVE IInv' OBVIOUS
    <2>1. CASE UNCHANGED vars
      BY <2>1 DEF vars, IInv, Shapes, LimitsOK, MeshOK, LimitsSurvive, KeptInv, Sure, AnyPast
    <2>2. CASE PointFails BY <2>2, ShutsDown DEF PointFails
    <2>3. CASE HomeBegin \/ WipeBegin \/ PointBegin BY <2>3, ReduceStep
    <2>4. CASE Confirmed \/ Confirm \/ WipeEnd \/ PointEnd BY <2>4, RestoreStep
    <2>5. CASE ShakeFails BY <2>5, ShakeFailsStep
    <2> QED BY <2>1, <2>2, <2>3, <2>4, <2>5, CalmStep, OtherStep DEF Next
  <1> QED BY <1>1, <1>2, PTL DEF Spec

\* The owner's speed limits are in force or kept to be put back, for any number
\* of points, silent probes and slips, wherever an error ends a command, unless
\* it ends a shake outside any home.
THEOREM LimitsHold == Spec => []LimitsSurvive
  <1>1. IInv => LimitsSurvive BY DEF IInv
  <1> QED BY <1>1, Invariant, PTL

-----------------------------------------------------------------------------
(* The mesh *)

Homes == {"home", "selfcheck", "shake", "touch", "coarse", "precise", "confirm"}
Waiting == {"wipeready", "corners", "again"}
Scanning == {"point", "measure", "measured", "post", "correct", "next"}

Fields ==
    /\ DOMAIN self = {"z_set_status", "out_of_range", "jump", "g29_cnt"}
    /\ DOMAIN scan = {"res", "good", "again", "broken"} /\ scan.res \in Nat

\* A home that has put the mesh away has one to give back.
HomeFrame(f, m) ==
    /\ \/ f.at \in {"coarse", "precise", "confirm"}
       \/ f.at \in {"selfcheck", "shake", "touch"} /\ f.checked = "coarse"
    /\ m.saved # "none"
    => f.mesh # "none"

\* A point that is not true has left its mark: the zero is gone, and nothing
\* restores it before the last point looks for it.
Before(s, c, z) ==
    /\ s.g29_cnt = c.res
    /\ IF c.res = 0 THEN c.good ELSE ~s.out_of_range /\ (c.good \/ ~z)
After(s, c, z) == s.g29_cnt = c.res + 1 /\ ~s.out_of_range /\ (c.good \/ ~z)
Through(c, k) == c.res + 1 = Points /\ (k => c.good)

ScanFrame(f, s, c, z, k) ==
    f.at \in Scanning /\ ~c.broken /\ ~c.again =>
        /\ ~s.z_set_status
        /\ f.at \in {"point", "measure"} => Before(s, c, z)
        /\ f.at = "measured" => After(s, c, z)
        /\ f.at \in {"post", "correct"} => Through(c, k)
        /\ f.at = "next" => Through(c, k) \/ (After(s, c, z) /\ s.g29_cnt # Points)

FrameInv(f, m, s, c, z, k) ==
    /\ f.at \in {"again", "remeasure"} => c.broken
    /\ HomeFrame(f, m)
    /\ ScanFrame(f, s, c, z, k)

\* A scan that waits for a home is broken.
Nested ==
    /\ Len(stack) <= 2
    /\ Len(stack) = 2 =>
         /\ Top.at \in Homes /\ Top.checked = "coarse"
         /\ stack[2].at \in Waiting /\ (stack[2].at = "again" => scan.broken)

MeshInv ==
    /\ Fields /\ Nested
    /\ stack # <<>> => FrameInv(Top, mesh, self, scan, zero, world.check)

\* Nothing switches the search for lost steps on or off.
CheckStays == world'.check = world.check

-----------------------------------------------------------------------------
(* The stack.                                                              *)

LEMMA Depth ==
  ASSUME Shapes, Nested, stack # <<>>
  PROVE  /\ Len(stack) = 1 => Tail(stack) = <<>>
         /\ Len(stack) = 2 => stack[2] \in Frames /\ Tail(stack) = <<stack[2]>>
         /\ Len(stack) \in {1, 2}
  <1>1. stack \in Seq(Frames) /\ Len(stack) \in Nat \ {0} BY EmptySeq DEF Shapes
  <1>2. Len(stack) \in {1, 2}
    <2>1. Len(stack) <= 2 BY DEF Nested
    <2>2. Len(stack) \in Nat /\ Len(stack) # 0 BY <1>1
    <2>3. \A n \in Nat : n # 0 /\ n <= 2 => n \in {1, 2} OBVIOUS
    <2> QED BY <2>1, <2>2, <2>3
  <1>3. /\ Tail(stack) \in Seq(Frames) /\ Len(Tail(stack)) = Len(stack) - 1
        /\ \A i \in 1 .. Len(Tail(stack)) : Tail(stack)[i] = stack[i + 1]
    BY <1>1, HeadTailProperties
  <1>4. Len(stack) = 1 => Tail(stack) = <<>>
    <2>1. Len(stack) = 1 => Len(Tail(stack)) = 0 BY <1>3
    <2>2. Tail(stack) # <<>> => Len(Tail(stack)) \in Nat \ {0} BY <1>3, EmptySeq
    <2> QED BY <2>1, <2>2
  <1>5. ASSUME Len(stack) = 2 PROVE stack[2] \in Frames /\ Tail(stack) = <<stack[2]>>
    <2>1. stack[2] \in Frames BY <1>1, <1>5, ElementOfSeq
    <2>2. <<stack[2]>> \in Seq(Frames) /\ Len(<<stack[2]>>) = 1 BY <2>1
    <2>3. Len(Tail(stack)) = 1 BY <1>3, <1>5
    <2>4. Tail(stack)[1] = stack[2] BY <1>3, <2>3
    <2>5. \A i \in 1 .. Len(Tail(stack)) : Tail(stack)[i] = <<stack[2]>>[i]
      <3> TAKE i \in 1 .. Len(Tail(stack))
      <3>1. i = 1
        <4>1. \A j \in 1 .. 1 : j = 1 OBVIOUS
        <4> QED BY <2>3, <4>1, Zenon
      <3> QED BY <2>4, <3>1
    <2>6. Tail(stack) = <<stack[2]>> BY <1>3, <2>2, <2>3, <2>5, SeqEqual
    <2> QED BY <2>1, <2>6
  <1> QED BY <1>2, <1>4, <1>5

\* A command that is not a home was called by nobody.
LEMMA Alone ==
  ASSUME Shapes, Nested, stack # <<>>, Top.at \notin Homes
  PROVE  /\ Tail(stack) = <<>>
         /\ \A f \in Frames, label \in Labels : To(f, label) = <<[f EXCEPT !.at = label]>>
  <1>1. Len(stack) = 1 BY Depth DEF Nested
  <1>2. Tail(stack) = <<>> BY <1>1, Depth
  <1>3. ASSUME NEW f \in Frames, NEW label \in Labels
        PROVE  To(f, label) = <<[f EXCEPT !.at = label]>>
    <2>1. [f EXCEPT !.at = label] \in Frames BY DEF Frames
    <2>2. <<[f EXCEPT !.at = label]>> \in Seq(Frames) BY <2>1
    <2> QED BY <1>2, <2>2, ConcatEmptySeq DEF To
  <1> QED BY <1>2, <1>3

LEMMA Emptied ==
  ASSUME Fields', stack' = <<>>
  PROVE  MeshInv'
  BY DEF MeshInv, Nested

LEMMA Becomes ==
  ASSUME NEW g \in Frames, Fields', stack' = <<g>>,
         FrameInv(g, mesh', self', scan', zero', world'.check)
  PROVE  MeshInv'
  <1>1. Len(stack') = 1 /\ Top' = g BY DEF Top
  <1> QED BY <1>1 DEF MeshInv, Nested

\* It is nothing to these properties what such a command does.
Elsewhere == Labels \ (Scanning \cup Homes \cup {"again", "remeasure"})
LEMMA Else ==
  ASSUME NEW f, NEW m, NEW s, NEW c, NEW z, NEW k, f.at \in Elsewhere
  PROVE  FrameInv(f, m, s, c, z, k)
  BY DEF FrameInv, HomeFrame, ScanFrame, Scanning, Homes, Elsewhere

\* A command that is not a home goes on.
LEMMA GoesOn ==
  ASSUME Shapes, Nested, stack # <<>>, Top.at \notin Homes,
         NEW f \in Frames, NEW label \in Labels, stack' = To(f, label), Fields',
         FrameInv([f EXCEPT !.at = label], mesh', self', scan', zero', world'.check)
  PROVE  MeshInv'
  <1>1. [f EXCEPT !.at = label] \in Frames BY DEF Frames
  <1> QED BY <1>1, Alone, Becomes

LEMMA GoesElsewhere ==
  ASSUME Shapes, Nested, stack # <<>>, Top.at \notin Homes,
         NEW f \in Frames, NEW label \in Elsewhere, stack' = To(f, label), Fields'
  PROVE  MeshInv'
  <1>1. label \in Labels /\ [f EXCEPT !.at = label].at \in Elsewhere BY DEF Elsewhere, Frames
  <1>2. FrameInv([f EXCEPT !.at = label], mesh', self', scan', zero', world'.check) BY <1>1, Else
  <1> QED BY <1>1, <1>2, GoesOn

\* It calls a home, and waits.
LEMMA CallsHome ==
  ASSUME Shapes, Nested, stack # <<>>, Top.at \notin Homes, Fields',
         NEW accurate \in BOOLEAN, NEW label \in Waiting, Call(Homing(accurate), label),
         label = "again" => scan'.broken
  PROVE  MeshInv'
  <1> DEFINE h == Homing(accurate)
             w == [Top EXCEPT !.at = label]
  <1>1. label \in Labels /\ Top \in Frames BY Tops DEF Shapes, Waiting, Labels
  <1>2. h \in Frames /\ h.at = "home" /\ h.checked = "coarse"
    BY DEF Homing, Frame, Frames, Labels, Meshes, Deaf
  <1>3. w \in Frames /\ w.at = label BY <1>1 DEF Frames
  <1>4. stack' = <<h>> \o <<w>> BY <1>1, Alone DEF Call
  <1> HIDE DEF h, w
  <1>5. Len(stack') = 2 /\ Top' = h /\ stack'[2] = w BY <1>2, <1>3, <1>4 DEF Top
  <1>6. FrameInv(h, mesh', self', scan', zero', world'.check)
    BY <1>2 DEF FrameInv, HomeFrame, ScanFrame, Scanning
  <1> QED BY <1>2, <1>3, <1>5, <1>6 DEF MeshInv, Nested, Homes

\* A home goes on, or returns to the command that waits for it.
LEMMA HomeGoesOn ==
  ASSUME Shapes, Nested, stack # <<>>, NEW f \in Frames, NEW label \in Labels,
         stack' = To(f, label), Fields', scan' = scan,
         Len(stack) = 2 => label \in Homes /\ f.checked = "coarse",
         FrameInv([f EXCEPT !.at = label], mesh', self', scan', zero', world'.check)
  PROVE  MeshInv'
  <1> DEFINE g == [f EXCEPT !.at = label]
  <1>1. g \in Frames /\ g.at = label /\ g.checked = f.checked BY DEF Frames
  <1>2. stack \in Seq(Frames) /\ Tail(stack) \in Seq(Frames) BY Tops DEF Shapes
  <1>3. stack' = <<g>> \o Tail(stack) BY DEF To
  <1> HIDE DEF g
  <1>4. Len(stack') = Len(stack) /\ Top' = g /\ (Len(stack) = 2 => stack'[2] = stack[2])
    BY <1>1, <1>2, <1>3 DEF Top
  <1>5. FrameInv(g, mesh', self', scan', zero', world'.check) BY DEF g
  <1> QED BY <1>1, <1>4, <1>5 DEF MeshInv, Nested

LEMMA HomeReturns ==
  ASSUME Shapes, Nested, stack # <<>>, stack' = Tail(stack), Fields', scan' = scan
  PROVE  MeshInv'
  <1>1. Len(stack) \in {1, 2} BY Depth
  <1>2. CASE Len(stack) = 1
    <2>1. stack' = <<>> BY <1>2, Depth
    <2> QED BY <2>1, Emptied
  <1>3. CASE Len(stack) = 2
    <2>1. stack[2] \in Frames /\ stack' = <<stack[2]>> BY <1>3, Depth
    <2>2. stack[2].at \in Waiting /\ (stack[2].at = "again" => scan.broken) BY <1>3 DEF Nested
    <2>3. FrameInv(stack[2], mesh', self', scan', zero', world'.check)
      BY <2>2 DEF FrameInv, HomeFrame, ScanFrame, Scanning, Waiting
    <2> QED BY <2>1, <2>3, Becomes
  <1> QED BY <1>1, <1>2, <1>3

-----------------------------------------------------------------------------
(* Commands that are neither a home nor a scan.                            *)

LEMMA Leave ==
  ASSUME Shapes, Nested, stack # <<>>, Top.at \notin Homes, Fields', stack' \in {<<>>, Tail(stack)}
  PROVE  MeshInv'
  BY Alone, Emptied

LEMMA ShutDownStep == ASSUME MeshInv, ShutDown PROVE MeshInv'
  <1>1. Fields' BY DEF MeshInv, Fields, ShutDown, FreshSelf
  <1> QED BY <1>1, Emptied DEF ShutDown

LEMMA CommandStep == ASSUME MeshInv, Command PROVE MeshInv'
  <1>1. CASE StartStep \/ SafeMoveZ
    BY <1>1 DEF StartStep, SafeMoveZ, Steps, Command, MeshInv, Fields, Nested
  <1>2. CASE SafeDownZ BY <1>2, ShutDownStep DEF SafeDownZ
  <1>3. CASE ~(StartStep \/ SafeMoveZ \/ SafeDownZ)
    <2>1. Fields' BY <1>3 DEF Command, MeshInv, Fields
    <2>2. ASSUME NEW accurate \in BOOLEAN, stack' = <<Homing(accurate)>> PROVE MeshInv'
      <3>1. Homing(accurate) \in Frames /\ Homing(accurate).at = "home"
        BY DEF Homing, Frame, Frames, Labels, Meshes, Deaf
      <3>2. FrameInv(Homing(accurate), mesh', self', scan', zero', world'.check)
        BY <3>1 DEF FrameInv, HomeFrame, ScanFrame, Scanning
      <3> QED BY <2>1, <2>2, <3>1, <3>2, Becomes
    <2>3. ASSUME NEW at \in {"wipe", "check", "scan", "trig", "bedtest"}, stack' = <<Frame(at)>>
          PROVE  MeshInv'
      <3>1. Frame(at) \in Frames /\ Frame(at).at \in Elsewhere
        BY DEF Frame, Frames, Labels, Meshes, Deaf, Elsewhere, Scanning, Homes
      <3>2. FrameInv(Frame(at), mesh', self', scan', zero', world'.check) BY <3>1, Else
      <3> QED BY <2>1, <2>3, <3>1, <3>2, Becomes
    <2>4. ASSUME stack' = <<[Frame("selfcheck") EXCEPT !.checked = "checked"]>> PROVE MeshInv'
      <3> DEFINE f == [Frame("selfcheck") EXCEPT !.checked = "checked"]
      <3>1. f \in Frames /\ f.at = "selfcheck" /\ f.checked = "checked"
        BY DEF Frame, Frames, Labels, Meshes, Deaf
      <3>2. FrameInv(f, mesh', self', scan', zero', world'.check)
        BY <3>1 DEF FrameInv, HomeFrame, ScanFrame, Scanning
      <3> QED BY <2>1, <2>4, <3>1, <3>2, Becomes
    <2> QED BY <1>3, <2>2, <2>3, <2>4 DEF Command
  <1> QED BY <1>1, <1>2, <1>3

LEMMA HomesFirstStep == ASSUME Shapes, MeshInv, WipeHomes \/ CheckHomes PROVE MeshInv'
  <1>1. PICK label \in {"wipeready", "corners"} :
          \/ Go(label) \/ \E accurate \in BOOLEAN : Call(Homing(accurate), label)
    BY DEF WipeHomes, CheckHomes, HomesFirst
  <1>2. stack # <<>> /\ Top.at \notin Homes /\ Top \in Frames
    BY Tops DEF Shapes, WipeHomes, CheckHomes, HomesFirst, At, Homes
  <1>3. Fields' BY DEF MeshInv, Fields, WipeHomes, CheckHomes, HomesFirst
  <1>4. CASE Go(label)
    <2>1. label \in Elsewhere BY DEF Elsewhere, Labels, Scanning, Homes
    <2> QED BY <1>2, <1>3, <1>4, <2>1, GoesElsewhere DEF MeshInv, Go
  <1>5. CASE \E accurate \in BOOLEAN : Call(Homing(accurate), label)
    <2>1. label \in Waiting /\ label # "again" BY DEF Waiting
    <2> QED BY <1>2, <1>3, <1>5, <2>1, CallsHome DEF MeshInv
  <1> QED BY <1>1, <1>4, <1>5

LEMMA WipeAndCheckStep ==
  ASSUME Shapes, MeshInv, WipeBegin \/ WipeProbe \/ WipeEnd \/ CheckProbes \/ Compare
  PROVE  MeshInv'
  <1>1. stack # <<>> /\ Top.at \notin Homes /\ Top \in Frames
    BY Tops DEF Shapes, WipeBegin, WipeProbe, WipeEnd, CheckProbes, Compare, At, Homes
  <1>2. Fields'
    BY DEF MeshInv, Fields, Probed, WipeBegin, WipeProbe, WipeEnd, CheckProbes, Compare, Unheard
  <1>3. ASSUME NEW m \in Meshes PROVE [Top EXCEPT !.mesh = m] \in Frames BY <1>1 DEF Frames
  <1>4. mesh.now \in Meshes BY DEF Shapes, MeshOK
  <1>5. Frame("scan") \in Frames BY DEF Frame, Frames, Labels, Meshes, Deaf
  <1>6. {"pad", "wiped", "compare", "scan"} \subseteq Elsewhere
    BY DEF Elsewhere, Labels, Scanning, Homes
  <1>7. \/ \E f \in {Top, [Top EXCEPT !.mesh = mesh.now], Frame("scan")} :
             \E label \in {"pad", "wiped", "compare", "scan"} : stack' = To(f, label)
        \/ stack' \in {<<>>, Tail(stack)}
    BY DEF WipeBegin, WipeProbe, WipeEnd, CheckProbes, Compare, Unheard, Raise, Go, Return
  <1>8. CASE stack' \in {<<>>, Tail(stack)} BY <1>1, <1>2, <1>8, Leave DEF MeshInv
  <1>9. CASE \E f \in {Top, [Top EXCEPT !.mesh = mesh.now], Frame("scan")} :
               \E label \in {"pad", "wiped", "compare", "scan"} : stack' = To(f, label)
    BY <1>1, <1>2, <1>3, <1>4, <1>5, <1>6, <1>9, GoesElsewhere DEF MeshInv
  <1> QED BY <1>7, <1>8, <1>9

LEMMA TestStep ==
  ASSUME Shapes, MeshInv, TrigTest \/ BedTestBegin \/ BedTestPoint \/ BedTestEnd \/ CheckEnds
  PROVE  MeshInv'
  <1>1. CASE ShutDown BY <1>1, ShutDownStep
  <1>2. CASE ~ShutDown
    <2>1. stack # <<>> /\ Top.at \notin Homes /\ Top \in Frames
      BY Tops DEF Shapes, TrigTest, BedTestBegin, BedTestPoint, BedTestEnd, CheckEnds, At, Homes
    <2>2. Fields'
      BY <1>2 DEF MeshInv, Fields, Probed, TrigTest, BedTestBegin, BedTestPoint, BedTestEnd,
                  CheckEnds, Unheard
    <2>3. [Top EXCEPT !.mesh = Taken(mesh)] \in Frames
      BY <2>1 DEF Frames, Shapes, MeshOK, Taken
    <2>4. {"bedpoint", "bedend"} \subseteq Elsewhere BY DEF Elsewhere, Labels, Scanning, Homes
    <2>5. \/ \E f \in {Top, [Top EXCEPT !.mesh = Taken(mesh)]}, label \in {"bedpoint", "bedend"} :
               stack' = To(f, label)
          \/ stack' \in {<<>>, Tail(stack)}
      BY <1>2 DEF TrigTest, BedTestBegin, BedTestPoint, BedTestEnd, CheckEnds, Unheard, Raise, Go,
                  Return
    <2>6. CASE stack' \in {<<>>, Tail(stack)} BY <2>1, <2>2, <2>6, Leave DEF MeshInv
    <2>7. CASE \E f \in {Top, [Top EXCEPT !.mesh = Taken(mesh)]}, label \in {"bedpoint", "bedend"} :
                 stack' = To(f, label)
      BY <2>1, <2>2, <2>3, <2>4, <2>7, GoesElsewhere DEF MeshInv
    <2> QED BY <2>5, <2>6, <2>7
  <1> QED BY <1>1, <1>2

-----------------------------------------------------------------------------
(* A home.                                                                 *)

\* A home that goes on keeps the mesh it will give back.
LEMMA HomeKeeps ==
  ASSUME Shapes, MeshInv, stack # <<>>, NEW f \in Frames, NEW label,
         f.mesh = Top.mesh, f.checked = Top.checked, stack' = To(f, label),
         \/ Top.at \in {"selfcheck", "shake", "touch"} /\ label \in {"shake", "touch", Top.checked}
         \/ Top.at \in {"coarse", "precise", "confirm"} /\ label \in {"precise", "confirm"},
         Fields', mesh'.saved = mesh.saved, scan' = scan
  PROVE  MeshInv'
  <1> DEFINE g == [f EXCEPT !.at = label]
  <1>1. Top.checked \in {"coarse", "checked"} BY Tops DEF Shapes, Frames
  <1>2. label \in Labels BY <1>1 DEF Labels
  <1>3. g.at = label /\ g.mesh = Top.mesh /\ g.checked = Top.checked BY DEF Frames
  <1>4. Len(stack) = 2 => label \in Homes /\ f.checked = "coarse" BY <1>1 DEF MeshInv, Nested, Homes
  <1> HIDE DEF g
  <1>5. HomeFrame(Top, mesh) BY DEF MeshInv, FrameInv
  <1>6. HomeFrame(g, mesh') BY <1>1, <1>3, <1>5 DEF HomeFrame
  <1>7. g.at \notin Scanning \cup {"again", "remeasure"} BY <1>1, <1>3 DEF Scanning
  <1>8. FrameInv(g, mesh', self', scan', zero', world'.check) BY <1>6, <1>7 DEF FrameInv, ScanFrame
  <1> USE DEF g
  <1> QED BY <1>2, <1>4, <1>8, HomeGoesOn DEF MeshInv

LEMMA HomeBeginStep == ASSUME Shapes, MeshInv, HomeBegin PROVE MeshInv'
  <1> DEFINE f == [Top EXCEPT !.mesh = Taken(mesh)]
             g == [f EXCEPT !.at = "selfcheck"]
  <1>1. stack # <<>> /\ Top \in Frames BY Tops DEF Shapes, HomeBegin, At
  <1>2. Fields' BY DEF MeshInv, Fields, HomeBegin
  <1>3. Taken(mesh) \in Meshes /\ (mesh.saved # "none" => Taken(mesh) # "none")
    BY DEF Shapes, MeshOK, Taken
  <1>4. /\ f \in Frames /\ f.checked = Top.checked
        /\ g.at = "selfcheck" /\ g.mesh = Taken(mesh)
    BY <1>1, <1>3 DEF Frames
  <1>5. stack' = To(f, "selfcheck") /\ mesh'.saved = mesh.saved /\ scan' = scan
    BY DEF HomeBegin, Shapes, MeshOK
  <1>6. "selfcheck" \in Labels /\ "selfcheck" \in Homes BY DEF Labels, Homes
  <1>7. Len(stack) = 2 => f.checked = "coarse" BY <1>4 DEF MeshInv, Nested
  <1>8. FrameInv(g, mesh', self', scan', zero', world'.check)
    BY <1>3, <1>4, <1>5 DEF FrameInv, HomeFrame, ScanFrame, Scanning
  <1> HIDE DEF f
  <1> QED BY <1>1, <1>2, <1>4, <1>5, <1>6, <1>7, <1>8, HomeGoesOn DEF MeshInv

LEMMA SelfCheckStep ==
  ASSUME Shapes, MeshInv, SelfCheck \/ Shake \/ ShakeFails \/ Touch
  PROVE  MeshInv'
  <1>1. stack # <<>> /\ Top \in Frames /\ Top.at \in {"selfcheck", "shake", "touch"}
    BY Tops DEF Shapes, SelfCheck, Shake, ShakeFails, Touch, At
  <1>2. Fields' /\ mesh' = mesh /\ scan' = scan
    BY DEF MeshInv, Fields, SelfCheck, Shake, ShakeFails, Touch
  <1>3. CASE stack' = <<>> BY <1>2, <1>3, Emptied
  <1>4. CASE stack' = Tail(stack) BY <1>1, <1>2, <1>4, HomeReturns DEF MeshInv
  <1>5. CASE \E f \in Frames, label \in {"shake", "touch", Top.checked} :
               f.mesh = Top.mesh /\ f.checked = Top.checked /\ stack' = To(f, label)
    BY <1>1, <1>2, <1>5, HomeKeeps
  <1>6. \/ stack' \in {<<>>, Tail(stack)}
        \/ \E f \in Frames, label \in {"shake", "touch", Top.checked} :
             f.mesh = Top.mesh /\ f.checked = Top.checked /\ stack' = To(f, label)
    <2>1. CASE SelfCheck BY <1>1, <2>1 DEF SelfCheck, Go, Return, Raise
    <2>2. CASE Shake
      <3>1. PICK deaf \in Deaf :
              \/ Go(Top.checked)
              \/ stack' = To([Top EXCEPT !.tries = 1], "shake")
              \/ stack' = To([Top EXCEPT !.tries = 0, !.deaf = deaf], "touch")
              \/ stack' = <<>>
        BY <2>2 DEF Shake
      <3>2. /\ [Top EXCEPT !.tries = 1] \in Frames
            /\ [Top EXCEPT !.tries = 1].mesh = Top.mesh
            /\ [Top EXCEPT !.tries = 1].checked = Top.checked
        BY <1>1 DEF Frames
      <3>3. /\ [Top EXCEPT !.tries = 0, !.deaf = deaf] \in Frames
            /\ [Top EXCEPT !.tries = 0, !.deaf = deaf].mesh = Top.mesh
            /\ [Top EXCEPT !.tries = 0, !.deaf = deaf].checked = Top.checked
        BY <1>1 DEF Frames
      <3> QED BY <1>1, <3>1, <3>2, <3>3 DEF Go
    <2>3. CASE Touch
      <3>1. \/ stack' = To([Top EXCEPT !.tries = 0, !.deaf = "none"], Top.checked)
            \/ stack' = To([Top EXCEPT !.tries = 0], Top.checked)
            \/ \E wrong \in {TRUE, Top.wrong} :
                 stack' = To([Top EXCEPT !.tries = 1, !.wrong = wrong], "touch")
            \/ stack' = <<>>
        BY <2>3 DEF Touch
      <3>2. /\ [Top EXCEPT !.tries = 0, !.deaf = "none"] \in Frames
            /\ [Top EXCEPT !.tries = 0, !.deaf = "none"].mesh = Top.mesh
            /\ [Top EXCEPT !.tries = 0, !.deaf = "none"].checked = Top.checked
        BY <1>1 DEF Frames, Deaf
      <3>3. /\ [Top EXCEPT !.tries = 0] \in Frames
            /\ [Top EXCEPT !.tries = 0].mesh = Top.mesh
            /\ [Top EXCEPT !.tries = 0].checked = Top.checked
        BY <1>1 DEF Frames
      <3>4. ASSUME NEW wrong \in {TRUE, Top.wrong}
            PROVE  /\ [Top EXCEPT !.tries = 1, !.wrong = wrong] \in Frames
                   /\ [Top EXCEPT !.tries = 1, !.wrong = wrong].mesh = Top.mesh
                   /\ [Top EXCEPT !.tries = 1, !.wrong = wrong].checked = Top.checked
        BY <1>1 DEF Frames
      <3> QED BY <3>1, <3>2, <3>3, <3>4
    <2>4. CASE ShakeFails BY <2>4 DEF ShakeFails
    <2> QED BY <2>1, <2>2, <2>3, <2>4
  <1> QED BY <1>3, <1>4, <1>5, <1>6

LEMMA HomeEndStep ==
  ASSUME Shapes, MeshInv, Coarse \/ Precise \/ Confirmed \/ Confirm
  PROVE  MeshInv'
  <1>1. stack # <<>> /\ Top \in Frames /\ Top.at \in {"coarse", "precise", "confirm"}
    BY Tops DEF Shapes, Coarse, Precise, Confirmed, Confirm, At
  <1>2. Fields' /\ mesh'.saved = mesh.saved /\ scan' = scan
    BY DEF MeshInv, Fields, Probed, Shapes, MeshOK, Coarse, Precise, Confirmed, Confirm
  <1>3. /\ [Top EXCEPT !.tries = 1] \in Frames
        /\ [Top EXCEPT !.tries = 1].mesh = Top.mesh
        /\ [Top EXCEPT !.tries = 1].checked = Top.checked
    BY <1>1 DEF Frames
  <1>4. \/ stack' = <<>> \/ stack' = Tail(stack)
        \/ \E f \in {Top, [Top EXCEPT !.tries = 1]}, label \in {"precise", "confirm"} :
             stack' = To(f, label)
    BY DEF Coarse, Precise, Confirmed, Confirm, Unheard, Raise, Go, Return
  <1>5. CASE stack' = <<>> BY <1>2, <1>5, Emptied
  <1>6. CASE stack' = Tail(stack) BY <1>1, <1>2, <1>6, HomeReturns DEF MeshInv
  <1>7. CASE \E f \in {Top, [Top EXCEPT !.tries = 1]}, label \in {"precise", "confirm"} :
               stack' = To(f, label)
    BY <1>1, <1>2, <1>3, <1>7, HomeKeeps
  <1> QED BY <1>4, <1>5, <1>6, <1>7

\* A home that succeeds gives back the mesh its frame keeps.
LEMMA ConfirmGives ==
  ASSUME Shapes, MeshInv, Confirmed, mesh.saved # "none"
  PROVE  mesh'.now # "none"
  <1>1. Top.at = "confirm" /\ stack # <<>> BY DEF Confirmed, At
  <1>2. Top.mesh # "none" BY <1>1 DEF MeshInv, FrameInv, HomeFrame
  <1> QED BY <1>2 DEF Confirmed, Shapes, MeshOK

-----------------------------------------------------------------------------
(* A scan.                                                                 *)

LEMMA ScanGoes ==
  ASSUME Shapes, MeshInv, stack # <<>>, Top.at \notin Homes,
         NEW label \in Labels, Go(label), Fields',
         label \notin Homes, label \in {"again", "remeasure"} => scan'.broken,
         \A f : f.at = label => ScanFrame(f, self', scan', zero', world'.check)
  PROVE  MeshInv'
  <1> DEFINE g == [Top EXCEPT !.at = label]
  <1>1. Top \in Frames BY Tops DEF Shapes
  <1>2. g.at = label BY <1>1 DEF Frames
  <1> HIDE DEF g
  <1>3. HomeFrame(g, mesh') BY <1>2 DEF HomeFrame, Homes
  <1>4. FrameInv(g, mesh', self', scan', zero', world'.check) BY <1>2, <1>3 DEF FrameInv
  <1> USE DEF g
  <1> QED BY <1>1, <1>4, GoesOn DEF MeshInv, Go

LEMMA ScanBeginStep == ASSUME Shapes, MeshInv, ScanBegin PROVE MeshInv'
  <1>1. stack # <<>> /\ Top.at \notin Homes /\ "point" \in Labels /\ Go("point")
    BY DEF ScanBegin, At, Homes, Labels
  <1>2. /\ self' = self /\ scan'.res = 0 /\ scan'.good
        /\ ~scan'.broken => self.g29_cnt = 0 /\ ~self.z_set_status
    BY DEF ScanBegin, NoScan
  <1>3. Fields' BY <1>2 DEF MeshInv, Fields, ScanBegin, NoScan
  <1>4. \A f : f.at = "point" => ScanFrame(f, self', scan', zero', world'.check)
    BY <1>2 DEF ScanFrame, Before
  <1> QED BY <1>1, <1>3, <1>4, ScanGoes DEF Homes

\* The corners, probed first.
LEMMA ProbeReadyStep ==
  ASSUME Shapes, MeshInv, NEW label \in {"measure", "remeasure"}, ProbeReady(label), scan' = scan,
         IF label = "measure" THEN At("point") ELSE At("again")
  PROVE  MeshInv'
  <1>1. stack # <<>> /\ Top.at \in {"point", "again"} BY DEF At
  <1>2. Fields' BY DEF MeshInv, Fields, ProbeReady, Probed, Unheard
  <1>3. CASE Unheard /\ UNCHANGED self BY <1>2, <1>3, Emptied DEF Unheard, Raise
  <1>4. CASE ~(Unheard /\ UNCHANGED self)
    <2>1. /\ Go(label)
          /\ self'.g29_cnt = self.g29_cnt /\ self'.z_set_status = self.z_set_status
          /\ \/ zero' = zero /\ self'.out_of_range = self.out_of_range
             \/ Heard /\ ~self'.out_of_range
      BY <1>4 DEF ProbeReady, Probed, MeshInv, Fields
    <2>2. ~self.z_set_status /\ Heard => zero' = (zero \/ self.out_of_range) BY DEF Heard
    <2>3. CASE label = "measure"
      <3>1. Top.at = "point" BY <2>3 DEF At
      <3>2. ~scan.broken /\ ~scan.again => ~self.z_set_status /\ Before(self, scan, zero)
        BY <1>1, <3>1 DEF MeshInv, FrameInv, ScanFrame, Scanning
      <3>3. ~scan.broken /\ ~scan.again => ~self'.z_set_status /\ Before(self', scan', zero')
        <4>1. CASE zero' = zero /\ self'.out_of_range = self.out_of_range
          BY <2>1, <3>2, <4>1 DEF Before
        <4>2. CASE Heard /\ ~self'.out_of_range
          BY <2>1, <2>2, <3>2, <4>2 DEF Before
        <4> QED BY <2>1, <4>1, <4>2
      <3>4. \A f : f.at = "measure" => ScanFrame(f, self', scan', zero', world'.check)
        BY <3>3 DEF ScanFrame
      <3> QED BY <1>1, <1>2, <2>1, <2>3, <3>4, ScanGoes DEF Homes, Labels
    <2>4. CASE label = "remeasure"
      <3>1. scan'.broken BY <1>1, <2>4 DEF At, MeshInv, FrameInv
      <3>2. \A f : f.at = "remeasure" => ScanFrame(f, self', scan', zero', world'.check)
        BY DEF ScanFrame, Scanning
      <3> QED BY <1>1, <1>2, <2>1, <2>4, <3>1, <3>2, ScanGoes DEF Homes, Labels
    <2> QED BY <2>3, <2>4
  <1> QED BY <1>3, <1>4

LEMMA PointBeginStep == ASSUME Shapes, MeshInv, PointBegin \/ Again PROVE MeshInv'
  <1>1. CASE Again BY <1>1, ProbeReadyStep DEF Again
  <1>2. CASE PointBegin /\ self.g29_cnt = 0 BY <1>2, ProbeReadyStep DEF PointBegin
  <1>3. CASE PointBegin /\ self.g29_cnt # 0
    <2>1. /\ stack # <<>> /\ Top.at = "point" /\ "measure" \in Labels /\ Go("measure")
          /\ UNCHANGED <<self, zero, scan>>
      BY <1>3 DEF PointBegin, At, Labels
    <2>2. Fields' BY <2>1 DEF MeshInv, Fields
    <2>3. ScanFrame(Top, self, scan, zero, world.check) BY <2>1 DEF MeshInv, FrameInv
    <2>4. \A f : f.at = "measure" => ScanFrame(f, self', scan', zero', world'.check)
      BY <2>1, <2>3 DEF ScanFrame, Scanning
    <2> QED BY <2>1, <2>2, <2>4, ScanGoes DEF Homes
  <1> QED BY <1>1, <1>2, <1>3

\* A point measured without the zero spoils the scan, and the zero stays lost.
LEMMA MeasureStep == ASSUME Shapes, MeshInv, Measure \/ Remeasure PROVE MeshInv'
  <1>1. stack # <<>> /\ Top.at \in {"measure", "remeasure"} /\ Top.at \notin Homes
    BY DEF Measure, Remeasure, At, Homes
  <1>2. PICK cnt \in {self.g29_cnt, self.g29_cnt + 1} :
          MeasureWith(cnt) /\ (Top.at = "measure" => cnt = self.g29_cnt + 1)
    BY DEF Measure, Remeasure, At
  <1>3. Fields' BY <1>2 DEF MeasureWith, MeshInv, Fields, Probed
  <1>4. CASE Unheard BY <1>3, <1>4, Emptied DEF Unheard, Raise
  <1>5. CASE Call(Homing(TRUE), "again") /\ scan' = [scan EXCEPT !.broken = TRUE]
    <2>1. scan'.broken BY <1>5 DEF MeshInv, Fields
    <2> QED BY <1>1, <1>3, <1>5, <2>1, CallsHome DEF MeshInv, Waiting
  <1>6. CASE /\ zero' = (zero \/ self.out_of_range) /\ Go("measured")
             /\ self' = [Probed EXCEPT !.g29_cnt = cnt]
             /\ scan' = [scan EXCEPT !.good = @ /\ zero']
    <2>1. /\ self'.g29_cnt = cnt /\ ~self'.out_of_range
          /\ self'.z_set_status = self.z_set_status
      BY <1>6 DEF MeshInv, Fields, Probed
    <2>2. /\ scan'.res = scan.res /\ scan'.broken = scan.broken /\ scan'.again = scan.again
          /\ scan'.good <=> scan.good /\ zero'
      BY <1>6 DEF MeshInv, Fields
    <2>3. ~scan.broken /\ ~scan.again =>
            Top.at = "measure" /\ ~self.z_set_status /\ Before(self, scan, zero)
      BY <1>1 DEF MeshInv, FrameInv, ScanFrame, Scanning
    <2>4. ~scan.broken /\ ~scan.again => ~self'.z_set_status /\ After(self', scan', zero')
      BY <1>2, <1>6, <2>1, <2>2, <2>3 DEF Before, After
    <2>5. \A f : f.at = "measured" => ScanFrame(f, self', scan', zero', world'.check)
      BY <2>2, <2>4 DEF ScanFrame
    <2> QED BY <1>1, <1>3, <1>6, <2>5, ScanGoes DEF Homes, Labels
  <1> QED BY <1>2, <1>4, <1>5, <1>6 DEF MeasureWith

\* After the last point the lost zero is noticed.
LEMMA LastPointStep == ASSUME Shapes, MeshInv, CheckStays, LastPoint \/ OtherPoint PROVE MeshInv'
  <1>1. stack # <<>> /\ Top.at = "measured" /\ Top.at \notin Homes
    BY DEF LastPoint, OtherPoint, At, Homes
  <1>2. Fields' /\ scan' = scan BY DEF LastPoint, OtherPoint, MeshInv, Fields, Probed
  <1>3. ~scan.broken /\ ~scan.again => ~self.z_set_status /\ After(self, scan, zero)
    BY <1>1 DEF MeshInv, FrameInv, ScanFrame, Scanning
  <1>4. CASE stack' = <<>> BY <1>2, <1>4, Emptied
  <1>5. CASE OtherPoint
    <2>1. self' = self /\ zero' = zero /\ self.g29_cnt # Points /\ Go("next") BY <1>5 DEF OtherPoint
    <2>2. \A f : f.at = "next" => ScanFrame(f, self', scan', zero', world'.check)
      BY <1>2, <1>3, <2>1 DEF ScanFrame
    <2> QED BY <1>1, <1>2, <2>1, <2>2, ScanGoes DEF Homes, Labels
  <1>6. CASE LastPoint /\ stack' # <<>>
    <2>1. /\ Heard /\ (~StepsLost \/ world' # world) /\ Go("post")
          /\ self.g29_cnt = Points
      BY <1>6 DEF LastPoint, Raise, Unheard
    <2>2. self'.z_set_status = self.z_set_status BY <1>6 DEF LastPoint, MeshInv, Fields, Probed
    <2>3. ~scan.broken /\ ~scan.again => Through(scan, world.check)
      <3>1. ~self.z_set_status => ~StepsLost BY <2>1 DEF Heard, Hears
      <3> QED BY <1>3, <2>1, <3>1 DEF After, Through, StepsLost
    <2>4. \A f : f.at = "post" => ScanFrame(f, self', scan', zero', world'.check)
      BY <1>2, <1>3, <2>2, <2>3 DEF ScanFrame, CheckStays
    <2> QED BY <1>1, <1>2, <2>1, <2>4, ScanGoes DEF Homes, Labels
  <1> QED BY <1>4, <1>5, <1>6

LEMMA PostProcessStep == ASSUME Shapes, MeshInv, CheckStays, PostProcess \/ Correct PROVE MeshInv'
  <1>1. stack # <<>> /\ Top.at \in {"post", "correct"} /\ Top.at \notin Homes
    BY DEF PostProcess, Correct, At, Homes
  <1>2. Fields' BY DEF PostProcess, Correct, MeshInv, Fields, Probed
  <1>3. ~scan.broken /\ ~scan.again => ~self.z_set_status /\ Through(scan, world.check)
    BY <1>1 DEF MeshInv, FrameInv, ScanFrame, Scanning
  <1>4. CASE stack' = <<>> BY <1>2, <1>4, Emptied
  <1>5. ASSUME NEW label \in {"next", "correct"}, Go(label), UNCHANGED <<self, scan>> PROVE MeshInv'
    <2>1. \A f : f.at = label => ScanFrame(f, self', scan', zero', world'.check)
      BY <1>3, <1>5 DEF ScanFrame, CheckStays
    <2> QED BY <1>1, <1>2, <1>5, <2>1, ScanGoes DEF Homes, Labels
  <1>6. ASSUME Go("next"), scan'.again PROVE MeshInv'
    <2>1. \A f : f.at = "next" => ScanFrame(f, self', scan', zero', world'.check)
      BY <1>6 DEF ScanFrame
    <2> QED BY <1>1, <1>2, <1>6, <2>1, ScanGoes DEF Homes, Labels
  <1>7. CASE PostProcess
    <2>1. \/ \E label \in {"next", "correct"} : Go(label) /\ UNCHANGED <<self, scan>>
          \/ Go("next") /\ scan'.again
          \/ stack' = <<>>
      BY <1>7 DEF PostProcess, MeshInv, Fields, Unheard, Raise
    <2> QED BY <1>4, <1>5, <1>6, <2>1
  <1>8. CASE Correct
    <2>1. Go("next") /\ scan'.again BY <1>8 DEF Correct, MeshInv, Fields
    <2> QED BY <1>6, <2>1
  <1> QED BY <1>7, <1>8

LEMMA PointEndStep == ASSUME Shapes, MeshInv, PointEnd PROVE MeshInv'
  <1>1. stack # <<>> /\ Top.at = "next" /\ Top.at \notin Homes BY DEF PointEnd, At, Homes
  <1>2. Fields' BY DEF PointEnd, MeshInv, Fields
  <1>3. CASE stack' = Tail(stack) BY <1>1, <1>2, <1>3, Leave DEF MeshInv
  <1>4. CASE scan.res + 1 # Points
    <2>1. /\ Go("point") /\ self' = self /\ zero' = zero
          /\ scan'.res = scan.res + 1 /\ scan'.res # 0 /\ scan'.good = scan.good
          /\ scan'.broken = scan.broken /\ scan'.again = scan.again
      BY <1>4 DEF PointEnd, MeshInv, Fields
    <2>2. ~scan.broken /\ ~scan.again => ~self.z_set_status /\ After(self, scan, zero)
      BY <1>1, <1>4 DEF MeshInv, FrameInv, ScanFrame, Scanning, Through
    <2>3. \A f : f.at = "point" => ScanFrame(f, self', scan', zero', world'.check)
      BY <2>1, <2>2 DEF ScanFrame, After, Before
    <2> QED BY <1>1, <1>2, <2>1, <2>3, ScanGoes DEF Homes, Labels
  <1> QED BY <1>3, <1>4 DEF PointEnd, Return

\* A scan that is done, in one go and without a second look, is true.
LEMMA AcceptedIsTrue ==
  ASSUME MeshInv, [Next]_vars,
         scan'.res = Points, scan.res # Points, world.check, ~scan.broken, ~scan.again
  PROVE  scan.good
  <1>1. CASE PointEnd
    <2>1. Top.at = "next" /\ stack # <<>> BY <1>1 DEF PointEnd, At
    <2>2. scan'.res = scan.res + 1 BY <1>1 DEF PointEnd, MeshInv, Fields
    <2>3. Through(scan, world.check) \/ (After(self, scan, zero) /\ self.g29_cnt # Points)
      BY <2>1 DEF MeshInv, FrameInv, ScanFrame, Scanning
    <2> QED BY <2>2, <2>3 DEF After, Through
  <1>2. CASE ScanBegin
    <2>1. scan'.res = 0 BY <1>2 DEF ScanBegin, NoScan
    <2> QED BY <2>1, PointsAssumption
  <1>3. CASE Measure \/ Remeasure \/ PostProcess \/ Correct
    <2>1. scan'.res = scan.res
      BY <1>3 DEF Measure, Remeasure, MeasureWith, PostProcess, Correct, MeshInv, Fields
    <2> QED BY <2>1
  <1>4. CASE scan' = scan BY <1>4
  <1>5. \/ PointEnd \/ ScanBegin \/ Measure \/ Remeasure \/ PostProcess \/ Correct
        \/ scan' = scan
    BY DEF Next, vars, Command, StartStep, SafeMoveZ, SafeDownZ, Steps, ShutDown, Slip,
           TrigTest, BedTestBegin, BedTestPoint, BedTestEnd, CheckEnds,
           HomeBegin, SelfCheck, Shake, ShakeFails, Touch, Coarse, Precise, Confirmed, Confirm,
           WipeHomes, WipeBegin, WipeProbe, WipeEnd, CheckHomes, HomesFirst, CheckProbes, Compare,
           PointBegin, PointFails, Again, LastPoint, OtherPoint
  <1> QED BY <1>1, <1>2, <1>3, <1>4, <1>5

-----------------------------------------------------------------------------
WorldOK == DOMAIN world = {"silent", "slips", "check"}

LEMMA WorldStep == ASSUME WorldOK, [Next]_vars PROVE WorldOK' /\ CheckStays
  <1>1. \/ UNCHANGED world
        \/ \E n : world' = [world EXCEPT !.silent = n] \/ world' = [world EXCEPT !.slips = n]
    BY DEF Next, vars, Hears, Silent, Heard, Unheard, ProbeReady, MeasureWith,
           Command, StartStep, SafeMoveZ, SafeDownZ, Steps, ShutDown, Slip,
           TrigTest, BedTestBegin, BedTestPoint, BedTestEnd, CheckEnds,
           HomeBegin, SelfCheck, Shake, ShakeFails, Touch, Coarse, Precise, Confirmed, Confirm,
           WipeHomes, WipeBegin, WipeProbe, WipeEnd, CheckHomes, HomesFirst, CheckProbes, Compare,
           ScanBegin, PointBegin, PointFails, Measure, Again, Remeasure, LastPoint, PostProcess,
           Correct, OtherPoint, PointEnd
  <1> QED BY <1>1 DEF WorldOK, CheckStays

LEMMA MeshStep == ASSUME Shapes, MeshInv, WorldOK, [Next]_vars PROVE MeshInv'
  <1> CheckStays BY WorldStep
  <1>1. CASE UNCHANGED vars BY <1>1 DEF vars, MeshInv, Fields, Nested, Top
  <1>2. CASE Slip
    <2>1. UNCHANGED <<mesh, self, stack, scan>> /\ ~zero' BY <1>2 DEF Slip
    <2>2. ScanFrame(Top, self, scan, zero, world.check)
          => ScanFrame(Top, self, scan, zero', world'.check)
      BY <2>1 DEF ScanFrame, Before, After, CheckStays
    <2>3. UNCHANGED Top BY <2>1 DEF Top
    <2> QED BY <2>1, <2>2, <2>3 DEF MeshInv, Fields, Nested, FrameInv
  <1>3. CASE Command BY <1>3, CommandStep
  <1>4. CASE PointFails BY <1>4, ShutDownStep DEF PointFails
  <1>5. CASE TrigTest \/ BedTestBegin \/ BedTestPoint \/ BedTestEnd \/ CheckEnds BY <1>5, TestStep
  <1>6. CASE \/ HomeBegin \/ SelfCheck \/ Shake \/ ShakeFails \/ Touch
             \/ Coarse \/ Precise \/ Confirmed \/ Confirm
    BY <1>6, HomeBeginStep, SelfCheckStep, HomeEndStep
  <1>7. CASE WipeHomes \/ CheckHomes \/ WipeBegin \/ WipeProbe \/ WipeEnd \/ CheckProbes \/ Compare
    BY <1>7, HomesFirstStep, WipeAndCheckStep
  <1>8. CASE \/ ScanBegin \/ PointBegin \/ Measure \/ Again \/ Remeasure \/ LastPoint \/ PostProcess
             \/ Correct \/ OtherPoint \/ PointEnd
    BY <1>8, ScanBeginStep, PointBeginStep, MeasureStep, LastPointStep, PostProcessStep,
       PointEndStep
  <1> QED BY <1>1, <1>2, <1>3, <1>4, <1>5, <1>6, <1>7, <1>8 DEF Next

LEMMA MeshInvariant == Spec => [](Shapes /\ MeshInv)
  <1>1. Init => MeshInv /\ WorldOK
    BY DEF Init, FreshSelf, NoScan, MeshInv, Fields, Nested, WorldOK
  <1>2. IInv => Shapes BY DEF IInv
  <1>3. Shapes /\ MeshInv /\ WorldOK /\ [Next]_vars => MeshInv' /\ WorldOK'
    BY MeshStep, WorldStep
  <1> QED BY <1>1, <1>2, <1>3, Invariant, PTL DEF Spec

\* A mesh that one scan measured without a new home, without the count of an
\* aborted scan and without a second look at odd points, was measured on the
\* bed's zero at every point, for any number of points, silent probes and slips.
THEOREM AcceptedTrue == Spec => AcceptedMeshIsTrue
  <1> DEFINE A == scan'.res = Points /\ scan.res # Points /\ world.check
                      /\ ~scan.broken /\ ~scan.again
                    => scan.good
  <1>1. MeshInv /\ [Next]_vars => A BY AcceptedIsTrue
  <1> QED BY <1>1, MeshInvariant, PTL DEF Spec, AcceptedMeshIsTrue

\* An accurate home that succeeds leaves the owner's mesh in use, whatever an
\* earlier command took away.
THEOREM HomeGives == Spec => HomeGivesMesh
  <1> DEFINE A == Confirmed /\ mesh.saved # "none" => mesh'.now # "none"
  <1>1. Shapes /\ MeshInv => A BY ConfirmGives
  <1> QED BY <1>1, MeshInvariant, PTL DEF HomeGivesMesh

=============================================================================
