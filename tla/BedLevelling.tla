---------------------------- MODULE BedLevelling ----------------------------
(***************************************************************************)
(* The commands of prtouch_v2_wrapper.py that probe: homing Z, wiping the  *)
(* nozzle, checking the mesh and scanning a new one.  They call each other *)
(* and the printer's scripts, keep their progress in the object's fields,  *)
(* lower the printer's speed limits and take its mesh away while they      *)
(* work, and an error leaves all of this as it is at that moment.          *)
(*                                                                         *)
(* One probe (run_step_prtouch, module LoadCellProbe) is one step here: it *)
(* measures a height, or hears nothing of the controller.                  *)
(***************************************************************************)
EXTENDS Naturals, Sequences

CONSTANTS
    Points,      \* points of the mesh: x_count * y_count
    Holds,       \* entries of tri_min_hold_ALL: 36
    MaxSilent,   \* probes whose records are lost altogether
    MaxSlips     \* times the motors lose steps

ASSUME PointsAssumption == Points \in Nat \ {0} /\ Holds \in Nat /\ Holds >= Points

VARIABLES
    limits,   \* the speed limits, those set_step_par keeps, and whether the
              \* shake of a self check on its own has replaced the owner's
    mesh,     \* the mesh in use and the one saved as "default"
    self,     \* fields: z_set_status, jump_probe_ready, g29_cnt, ...
    homed,    \* does the planner hold a height for Z
    zero,     \* is the planner's zero at the bed, to lost_step_dis
    stack,    \* the running command and those that called it
    scan,     \* the running scan: its points, and what is true of it
    world     \* faults left; does the owner have lost steps looked for

vars == <<limits, mesh, self, homed, zero, stack, scan, world>>

NoScan == [res |-> 0, good |-> TRUE, again |-> FALSE, broken |-> FALSE]

(* What the objects hold when Klipper starts.                              *)
FreshLimits == [now |-> "user", kept |-> FALSE, sys |-> "unset", shaken |-> FALSE]
FreshSelf == [z_set_status |-> FALSE, out_of_range |-> FALSE,
              jump |-> FALSE, g29_cnt |-> 0]

Init ==
    /\ limits = FreshLimits
    /\ \E saved \in {"none", "old"} : mesh = [now |-> saved, saved |-> saved]
    /\ self = FreshSelf
    /\ homed = FALSE
    /\ zero = FALSE
    /\ stack = <<>>
    /\ scan = NoScan
    /\ \E check \in BOOLEAN :
         world = [silent |-> MaxSilent, slips |-> MaxSlips, check |-> check]

-----------------------------------------------------------------------------
(* Calls.                                                                  *)

\* Channels of the cell that feel nothing, of four.
Deaf == {"none", "some", "all"}
Frame(at) == [at |-> at, accurate |-> FALSE, mesh |-> "none", tries |-> 0,
              deaf |-> "none", wrong |-> FALSE, checked |-> "coarse"]
Homing(accurate) == [Frame("home") EXCEPT !.accurate = accurate]
Top == Head(stack)
At(label) == stack # <<>> /\ Top.at = label
To(frame, label) == <<[frame EXCEPT !.at = label]>> \o Tail(stack)
Go(label) == stack' = To(Top, label)
Call(frame, label) == stack' = <<frame>> \o To(Top, label)
Return == stack' = Tail(stack)

(* ck_and_raise_error moves the nozzle behind the planner's back, lets the *)
(* motors go and ends every command; no caller catches the error.          *)
Raise ==
    /\ stack' = <<>>
    /\ zero' = FALSE

(* Any other exception shuts Klipper down, and its owner restarts it.      *)
ShutDown ==
    /\ limits' = FreshLimits
    /\ mesh' = [mesh EXCEPT !.now = mesh.saved]
    /\ self' = FreshSelf
    /\ homed' = FALSE /\ zero' = FALSE
    /\ stack' = <<>>
    /\ UNCHANGED <<scan, world>>

\* Mutant: the limits are kept although they were already.
ReducedAgain(l) == [l EXCEPT !.now = "run", !.kept = TRUE, !.sys = l.now]
(* set_step_par: the limits for probing, and the user's again.             *)
Reduced(l) ==
    IF l.kept THEN l ELSE [l EXCEPT !.now = "run", !.kept = TRUE, !.sys = l.now]
Restored(l) == [l EXCEPT !.now = l.sys, !.kept = FALSE]
(* quick_shake_motor sets limits of its own, and an error ends it before   *)
(* it has put back those it found.                                         *)
Shaken(l) == [l EXCEPT !.now = "shake", !.shaken = @ \/ ~l.kept]

-----------------------------------------------------------------------------
(* One probe, as its caller sees it.                                       *)

Hears == UNCHANGED world
(* It never touches the bed, or its records stay incomplete.               *)
Silent ==
    /\ world.silent > 0
    /\ world' = [world EXCEPT !.silent = @ - 1]

(* A height comes back.  The zero is set anew on the way if the last wipe  *)
(* measured below the printer's range, or if nothing was touched at first  *)
(* and z_set_status allows it.                                             *)
Heard ==
    \/ Hears /\ zero' = (zero \/ self.out_of_range)
    \/ Silent /\ self.z_set_status /\ zero' = TRUE
Unheard == Silent /\ Raise
Probed == [self EXCEPT !.out_of_range = FALSE]

(* The motors lose steps.                                                  *)
Slip ==
    /\ stack # <<>> /\ world.slips > 0
    /\ world' = [world EXCEPT !.slips = @ - 1]
    /\ zero' = FALSE
    /\ UNCHANGED <<limits, mesh, self, homed, stack, scan>>

-----------------------------------------------------------------------------
(* run_G28_Z                                                               *)

\* Mutant: the saved mesh is not loaded when none is in use.
TakenInUse(m) == m.now
(* The mesh to give back: the one in use, or the saved one.                *)
Taken(m) == IF m.now = "none" THEN m.saved ELSE m.now

HomeBegin ==
    /\ At("home")
    /\ self' = [self EXCEPT !.g29_cnt = 0, !.jump = FALSE]
    /\ stack' = To([Top EXCEPT !.mesh = Taken(mesh)], "selfcheck")
    /\ mesh' = [mesh EXCEPT !.now = "none"]
    /\ limits' = Reduced(limits)
    /\ homed' = TRUE
    /\ zero' = FALSE
    /\ UNCHANGED <<scan, world>>

(* env_self_check: a swap pin that is dead in the last of ten rounds only   *)
(* makes it return False, and the home with it; readings that are late,    *)
(* constant or noisy raise.  The rest of it may be configured away.        *)
SelfCheck ==
    /\ At("selfcheck")
    /\ \/ \E label \in {Top.checked, "shake"} : Go(label) /\ UNCHANGED zero
       \/ Return /\ UNCHANGED zero
       \/ Raise
    /\ UNCHANGED <<limits, mesh, self, homed, scan, world>>

(* The bed is shaken, twice if some channel does not feel it.  All four    *)
(* deaf is an error, some of them a reason to touch the bed.  A move of    *)
(* the shake that Klipper refuses is an error in the middle of it.         *)
Shake ==
    /\ At("shake")
    /\ \E deaf \in Deaf :
        \/ deaf = "none" /\ Go(Top.checked)
        \/ /\ deaf # "none" /\ Top.tries = 0
           /\ stack' = To([Top EXCEPT !.tries = 1], "shake")
        \/ /\ deaf = "some" /\ Top.tries = 1
           /\ stack' = To([Top EXCEPT !.tries = 0, !.deaf = deaf], "touch")
        \/ deaf = "all" /\ Top.tries = 1 /\ stack' = <<>>
    /\ zero' = FALSE
    /\ UNCHANGED <<limits, mesh, self, homed, scan, world>>

ShakeFails ==
    /\ At("shake")
    /\ limits' = Shaken(limits)
    /\ stack' = <<>>
    /\ zero' = FALSE
    /\ UNCHANGED <<mesh, self, homed, scan, world>>

(* One of two touches of the bed: every channel feels it; some do not; or  *)
(* the bed was not found, and what is known of the channels stays.         *)
Touch ==
    /\ At("touch")
    /\ LET last == Top.tries = 1
           after(wrong) == IF last
                           THEN IF wrong THEN <<>> ELSE To([Top EXCEPT !.tries = 0], Top.checked)
                           ELSE To([Top EXCEPT !.tries = 1, !.wrong = wrong], "touch")
       IN \/ stack' = To([Top EXCEPT !.tries = 0, !.deaf = "none"], Top.checked)
          \/ stack' = after(TRUE)
          \/ stack' = after(Top.wrong)
    /\ zero' = FALSE
    /\ UNCHANGED <<limits, mesh, self, homed, scan, world>>

(* Three fast probes that agree set the zero; it fails after 19.  A home   *)
(* that need not be accurate ends here, with limits and mesh still away.   *)
Coarse ==
    /\ At("coarse")
    /\ \/ /\ zero' = TRUE
          /\ IF Top.accurate THEN Go("precise") ELSE Return
       \/ Raise
    /\ UNCHANGED <<limits, mesh, self, homed, scan, world>>

(* The precise probe may set the zero anew whenever it hears nothing.      *)
Precise ==
    /\ At("precise")
    /\ \/ /\ Hears \/ Silent
          /\ zero' = TRUE
          /\ self' = [Probed EXCEPT !.z_set_status = FALSE]
          /\ Go("confirm")
       \/ Unheard /\ self' = [self EXCEPT !.z_set_status = TRUE]
    /\ UNCHANGED <<limits, mesh, homed, scan>>

(* The probe that confirms it lets a whole millimetre pass, more than      *)
(* lost_step_dis: the zero may be off.                                     *)
Confirmed ==
    /\ At("confirm")
    /\ Hears
    /\ limits' = Restored(limits)
    /\ mesh' = [mesh EXCEPT !.now = Top.mesh]
    /\ Return
    /\ UNCHANGED <<self, homed, zero, scan>>

(* It is farther off, twice at most.                                       *)
Confirm ==
    /\ At("confirm")
    /\ \/ /\ Hears /\ ~zero /\ Top.tries = 0
          /\ stack' = To([Top EXCEPT !.tries = 1], "precise")
          /\ UNCHANGED zero
       \/ /\ \/ Hears /\ ~zero /\ Top.tries = 1
             \/ Silent
          /\ Raise
    /\ UNCHANGED <<limits, mesh, self, homed, scan>>

-----------------------------------------------------------------------------
(* ck_g28ed: a command homes first when Z has no height.                   *)
HomesFirst(begin, next) ==
    /\ At(begin)
    /\ IF homed THEN Go(next)
       ELSE \E accurate \in BOOLEAN : Call(Homing(accurate), next)
    /\ UNCHANGED <<limits, mesh, self, homed, zero, scan, world>>

(* clear_nozzle                                                            *)
WipeHomes == HomesFirst("wipe", "wipeready")

WipeBegin ==
    /\ At("wipeready")
    /\ stack' = To([Top EXCEPT !.mesh = mesh.now], "pad")
    /\ mesh' = [mesh EXCEPT !.now = "none"]
    /\ limits' = Reduced(limits)
    /\ self' = [self EXCEPT !.z_set_status = TRUE]
    /\ UNCHANGED <<homed, zero, scan, world>>

(* Both ends of the wipe are probed.  A height below the printer's range   *)
(* resets the zero at the next probe; after the third nothing probes.      *)
WipeProbe ==
    /\ At("pad")
    /\ \/ /\ Hears \/ Silent
          /\ \E reset, low \in BOOLEAN :
              /\ zero' = (zero \/ reset \/ self.out_of_range)
              /\ self' = [self EXCEPT !.z_set_status = FALSE, !.out_of_range = low]
          /\ Go("wiped")
       \/ Unheard /\ UNCHANGED self
    /\ UNCHANGED <<limits, mesh, homed, scan>>

WipeEnd ==
    /\ At("wiped")
    /\ limits' = Restored(limits)
    /\ mesh' = [mesh EXCEPT !.now = Top.mesh]
    /\ Return
    /\ UNCHANGED <<self, homed, zero, scan, world>>

-----------------------------------------------------------------------------
(* probe_ready: the four corners, unless a check has just probed them.     *)
ProbeReady(label) ==
    IF self.jump
    THEN /\ self' = [self EXCEPT !.jump = FALSE]
         /\ Go(label)
         /\ UNCHANGED <<zero, world>>
    ELSE \/ Heard /\ Go(label) /\ self' = Probed
         \/ Unheard /\ UNCHANGED self

(* check_bed_mesh                                                          *)
CheckHomes == HomesFirst("check", "corners")

CheckProbes ==
    /\ At("corners")
    /\ LET kept == [Top EXCEPT !.mesh = mesh.now]
       IN /\ mesh' = [mesh EXCEPT !.now = "none"]
          /\ IF self.jump
             THEN /\ self' = [self EXCEPT !.jump = FALSE]
                  /\ stack' = To(kept, "compare")
                  /\ UNCHANGED <<zero, world>>
             ELSE \/ Heard /\ stack' = To(kept, "compare") /\ self' = Probed
                  \/ Unheard /\ UNCHANGED self
    /\ UNCHANGED <<limits, homed, scan>>

(* The mesh still fits, or a new one is scanned.                           *)
Compare ==
    /\ At("compare")
    /\ self' = [self EXCEPT !.jump = TRUE]
    /\ mesh' = IF Top.mesh = "none" THEN mesh ELSE [mesh EXCEPT !.now = Top.mesh]
    /\ \/ Top.mesh # "none" /\ Return
       \/ stack' = To(Frame("scan"), "scan")
    /\ UNCHANGED <<limits, homed, zero, scan, world>>

-----------------------------------------------------------------------------
(* BED_MESH_CALIBRATE: Klipper forgets its mesh and calls run_G29_Z for    *)
(* every point.                                                            *)
ScanBegin ==
    /\ At("scan")
    /\ homed
    /\ mesh' = [mesh EXCEPT !.now = "none"]
    /\ scan' = [NoScan EXCEPT !.broken = (self.g29_cnt # 0 \/ self.z_set_status)]
    /\ Go("point")
    /\ UNCHANGED <<limits, self, homed, zero, world>>

PointBegin ==
    /\ At("point") /\ self.g29_cnt < Holds
    /\ limits' = Reduced(limits)
    /\ IF self.g29_cnt = 0
       THEN ProbeReady("measure")
       ELSE Go("measure") /\ UNCHANGED <<self, zero, world>>
    /\ UNCHANGED <<mesh, homed, scan>>

(* A count that aborted scans left runs past the table of thresholds.      *)
PointFails ==
    /\ At("point") /\ self.g29_cnt >= Holds
    /\ ShutDown

(* The point is measured; a silent probe homes anew and measures again.    *)
MeasureWith(cnt) ==
    \/ /\ Hears
       /\ zero' = (zero \/ self.out_of_range)
       /\ Go("measured")
       /\ self' = [Probed EXCEPT !.g29_cnt = cnt]
       /\ scan' = [scan EXCEPT !.good = @ /\ zero']
    \/ /\ Silent
       /\ Call(Homing(TRUE), "again")
       /\ self' = [self EXCEPT !.g29_cnt = cnt]
       /\ scan' = [scan EXCEPT !.broken = TRUE]
       /\ UNCHANGED zero
    \/ /\ Unheard
       /\ self' = [self EXCEPT !.g29_cnt = cnt]
       /\ UNCHANGED scan

Measure ==
    /\ At("measure")
    /\ MeasureWith(self.g29_cnt + 1)
    /\ UNCHANGED <<limits, mesh, homed>>

Again ==
    /\ At("again")
    /\ ProbeReady("remeasure")
    /\ UNCHANGED <<limits, mesh, homed, scan>>

Remeasure ==
    /\ At("remeasure")
    /\ MeasureWith(self.g29_cnt)
    /\ UNCHANGED <<limits, mesh, homed>>

(* After the last point the nozzle returns home: no height there, or steps *)
(* were lost, unless lost_step_dis 0 has switched the check off.           *)
\* Mutant: lost steps are not looked for.
NeverLost == FALSE
StepsLost == world.check /\ ~zero /\ ~self.out_of_range

LastPoint ==
    /\ At("measured") /\ self.g29_cnt = Points
    /\ self' = [Probed EXCEPT !.g29_cnt = 0]
    /\ \/ Hears /\ StepsLost /\ Raise
       \/ Heard /\ (~StepsLost \/ world' # world) /\ Go("post")
       \/ Unheard
    /\ UNCHANGED <<limits, mesh, homed, scan>>

(* bed_mesh_post_proc: points too far from their neighbours are measured   *)
(* again, and nothing is looked for afterwards.                            *)
PostProcess ==
    /\ At("post")
    /\ \/ Go("next") /\ UNCHANGED <<zero, self, scan, world>>
       \/ /\ Heard
          /\ Go("next")
          /\ self' = Probed
          /\ scan' = [scan EXCEPT !.good = @ /\ zero', !.again = TRUE]
       \/ Unheard /\ UNCHANGED <<self, scan>>
       \/ Go("correct") /\ UNCHANGED <<zero, self, scan, world>>
    /\ UNCHANGED <<limits, mesh, homed>>

(* correct_bed_mesh_data, with correct_tri_hold configured: the nozzle is  *)
(* lifted off at every point until the cell relaxes, and its height taken. *)
Correct ==
    /\ At("correct")
    /\ Go("next")
    /\ scan' = [scan EXCEPT !.good = @ /\ zero, !.again = TRUE]
    /\ UNCHANGED <<limits, mesh, self, homed, zero, world>>

OtherPoint ==
    /\ At("measured") /\ self.g29_cnt # Points
    /\ Go("next")
    /\ UNCHANGED <<limits, mesh, self, homed, zero, scan, world>>

(* The point is handed to Klipper, which after the last one takes and      *)
(* saves the mesh.                                                         *)
PointEnd ==
    /\ At("next")
    /\ limits' = Restored(limits)
    /\ scan' = [scan EXCEPT !.res = @ + 1]
    /\ IF scan.res + 1 = Points
       THEN mesh' = [now |-> "new", saved |-> "new"] /\ Return
       ELSE Go("point") /\ UNCHANGED mesh
    /\ UNCHANGED <<self, homed, zero, world>>

-----------------------------------------------------------------------------
(* Tests.                                                                  *)

(* TRIG_TEST: one probe where the nozzle stands.                           *)
TrigTest ==
    /\ At("trig")
    /\ \/ Heard /\ Return /\ self' = Probed
       \/ Unheard /\ UNCHANGED self
    /\ UNCHANGED <<limits, mesh, homed, scan>>

(* TRIG_BED_TEST: every point of the mesh, without it; points too close    *)
(* together are an error once it is gone.                                  *)
BedTestBegin ==
    /\ At("bedtest")
    /\ mesh' = [mesh EXCEPT !.now = "none"]
    /\ \/ stack' = To([Top EXCEPT !.mesh = Taken(mesh)], "bedpoint")
       \/ stack' = <<>>
    /\ UNCHANGED <<limits, self, homed, zero, scan, world>>

(* Without F=1 there is no file to write the first point to.               *)
BedTestPoint ==
    /\ At("bedpoint")
    /\ \/ /\ Heard
          /\ \E label \in {"bedpoint", "bedend"} : Go(label)
          /\ self' = Probed
          /\ UNCHANGED <<limits, mesh, homed, scan>>
       \/ Unheard /\ UNCHANGED <<limits, mesh, self, homed, scan>>
       \/ ShutDown

BedTestEnd ==
    /\ At("bedend")
    /\ mesh' = [mesh EXCEPT !.now = Top.mesh]
    /\ Return
    /\ UNCHANGED <<limits, self, homed, zero, scan, world>>

CheckEnds ==
    /\ At("checked")
    /\ Return
    /\ UNCHANGED <<limits, mesh, self, homed, zero, scan, world>>

(* Two commands move Z behind the planner's back.                          *)
Steps == zero' = FALSE /\ UNCHANGED <<limits, mesh, self, homed, stack, scan, world>>
StartStep == Steps
SafeMoveZ == Steps

(* SAFE_DOWN_Z divides by the list that tri_z_down_spd has become.         *)
SafeDownZ == ShutDown

(* The commands of a macro or the owner, one after the other.              *)
Command ==
    /\ stack = <<>>
    /\ \/ /\ \/ \E accurate \in BOOLEAN : stack' = <<Homing(accurate)>>
             \/ \E at \in {"wipe", "check"} : stack' = <<Frame(at)>>
             \/ \E at \in {"scan", "trig", "bedtest"} : homed /\ stack' = <<Frame(at)>>
             \/ stack' = <<[Frame("selfcheck") EXCEPT !.checked = "checked"]>>
          /\ UNCHANGED <<limits, mesh, self, homed, zero, scan, world>>
       \/ StartStep \/ SafeMoveZ \/ SafeDownZ

Next ==
    \/ Command \/ Slip
    \/ TrigTest \/ BedTestBegin \/ BedTestPoint \/ BedTestEnd \/ CheckEnds
    \/ HomeBegin \/ SelfCheck \/ Shake \/ ShakeFails \/ Touch
    \/ Coarse \/ Precise \/ Confirmed \/ Confirm
    \/ WipeHomes \/ WipeBegin \/ WipeProbe \/ WipeEnd
    \/ CheckHomes \/ CheckProbes \/ Compare
    \/ ScanBegin \/ PointBegin \/ PointFails \/ Measure \/ Again \/ Remeasure
    \/ LastPoint \/ PostProcess \/ Correct \/ OtherPoint \/ PointEnd

Spec == Init /\ [][Next]_vars

-----------------------------------------------------------------------------
(* The owner's speed limits are never lost: they are in force, or kept to  *)
(* be put back, however the commands nest and wherever an error ends them, *)
(* except by a shake outside any home that ends in an error between        *)
(* prtouch_v2_wrapper.py:595 and 606.  What the owner sets while limits    *)
(* are kept is not looked at: the next command that ends undoes it.        *)
LimitsSurvive ==
    limits.shaken \/ (IF limits.kept THEN limits.sys ELSE limits.now) = "user"

(* Where lost steps are looked for (lost_step_dis > 0), a mesh that is     *)
(* taken was measured on the bed's zero at every point: steps lost on the  *)
(* way are noticed at the end (run_G29_Z, "Step Lost Check").  Not so a    *)
(* scan with a new home in the middle, one that starts on the count of an  *)
(* aborted scan, one that starts with z_set_status still set, which lets   *)
(* any silent probe set the zero anew, and points measured again at the    *)
(* end (broken, again): for these the check comes at the wrong point or    *)
(* finds a zero that is younger than the mesh.                             *)
AcceptedMeshIsTrue ==
    [][scan'.res = Points /\ scan.res # Points /\ world.check
          /\ ~scan.broken /\ ~scan.again
          => scan.good]_vars

(* An accurate home that succeeds leaves the owner's mesh in use, even if  *)
(* an earlier command failed and left none.                                *)
HomeGivesMesh == [][Confirmed /\ mesh.saved # "none" => mesh'.now # "none"]_vars
=============================================================================
