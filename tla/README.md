# NebulaOS firmware: a TLA+ model of the parts that must not fail

NebulaOS replaces the vendor's system on a 3D printer with two system slots, a
data partition, one motion controller (MCU) and a bootloader that cannot go
back by itself. A wrong step leaves a printer that does not start, a print that
is cut, or a nozzle that drives into the bed, and most wrong steps need a power
cut, a lost message or two programs at the wrong moment, which the repository's
tests reach only one by one. This directory models those parts, checks them with
TLC and proves the invariants that matter most with TLAPS.

Paths below are relative to the repository; `overlay` is
`scripts/build/overlay`, `osconfig` is
`overlay/usr/lib/nebulaos/python/nebulaos_osconfig`, `hw` is `tools/hardware`.

## 1. Inventory

| Part | Where | State it keeps | Operations |
| --- | --- | --- | --- |
| System slots | `osconfig/image.py`, `system.py`, `etc/ota_marker.sh`, `nebulaos-slot-swap` | marker sector, two kernel and rootfs partitions, `slot-confirmed-<slot>`, `image-update-trial.json`, `image-update-last.json`, job state on tmpfs | install, switch, keep, trial, confirm, go back, ack |
| Watchdog at boot | `S02nebulaos-watchdog`, `S99nebulaos-image-trial` | the armed device; the start count in the trial file | count, arm, start the trial |
| Busy states and maintenance lock | `osconfig/common.py`, `etc/nebulaos-busy.sh` | one flock file, `reboot-pending`, what Klippy answers | `busy_state` by profile, acquire, release |
| Update supervisor | `etc/nebulaos-update-supervisor.sh`, `nebulaos-venv-lib.sh` | per-component lock and state files, factory, staged, previous and live trees | detect, defer, deploy, health check, roll back, fall back to factory, reconcile at boot |
| Maintenance gate, health check | `etc/nebulaos-maintenance-gate.sh`, `nebulaos-health-check.sh` | the supervisor's locks | wait, clear, judge |
| Screen releases | `etc/nebulascreen-lib.sh`, `S58nebulascreen` | approved, trial and previous release | offer, try, approve, go back |
| Boot activation | `S04nebulaos-factory-seed`, `S04nebulaos-migrate`, `S05nebulaos-activate`, `nebulaos-datafs.sh` | generation directories, pointers, journals, markers | seed, migrate, activate, check the file system |
| Tree composition | `nebulaos-klipper-compose.sh`, `nebulaos-moonraker-compose.sh`, `nebulaos-retention.sh` | staged and live trees | build beside, exchange, prune |
| MCU guard | `usr/bin/nebulaos-mcu`, `etc/nebulaos/mcu_lifecycle.py`, `mcu_restart.py`, `mcu_restore.py`, `S50nebulaos-mcu-guard`, `S95mcu-boot-recovery` | lifecycle record, lock, who has the serial line | identify, flash, restart, restore |
| Over-the-air download | `osconfig/ota.py` | part file, offer record, job state | check, download, resume, discard |
| Recovery | `usr/bin/nebulaos-recover`, `osconfig/snapshot.py` | armed request, snapshot directories | arm, cancel, apply at boot, restore |
| Memory guard | `usr/libexec/nebulaos-memguard` | levels with hysteresis | measure, shed, restart |
| Wi-Fi and network | `osconfig/wifi.py`, `network.py`, `S01wifi` | configured and last working network | connect with fallback, forget |
| Camera and display | idle and sleep controllers, `osconfig/camera.py`, `display.py` | idle timers, a sleep request | sleep, wake |
| Boot pictures, logs, cleanup, Spoolman | `osconfig` | one file or partition each | single requests |
| Moonraker component | `overlay/usr/lib/nebulaos/moonraker/nebulaos.py` | none of its own | runs `nebulaos-osconfig` for each request, `_reboot_or_undo` |
| Install over SSH | `hw/nebulaos_install.py`, `nebulaos_agent.py`, `nebulaos_journal.py`, `nebulaos_device.py`, `nebulaos_marker.py`, `nebulaos_slots.py`, `nebulaos_verify.py`, `nebulaos_profile.py` | the journal and the host lock on the computer; marker, slots and `flash.lock` on the printer | install by either of two paths, resume, disarm, verify, reboot, stage a vendor update |
| Power-on logo over SSH | `hw/nebulaos_rtos.py`, `rtos_logo.py`, `nebulaos_target.py` | backups on the computer; partition rtos2 and `flash.lock` | back up, write the logo, restore |
| Hardware exercises | `hw/nebulaos_capture.py`, `nebulaos_agent.py` | shell variables of a run; settings and processes of the printer | every profile, its undo, guards, traps |
| Captures, control commands | `hw/nebulaos_capture.py`, `nebulaos_host.py` and others | files of the run | read-only |
| Load-cell probe | `reference/prtouch_v2.c`, `prtouch_v2_wrapper.py` | controller: timer, swap pin, two records; host: fields of the wrapper | sample, trigger, step, send, refetch; home, wipe, check, scan, self check |
| Load-cell probe, first version | `reference/prtouch_v1_wrapper.py` | the same for an older probe | not used on the printers NebulaOS supports |
| Update package | `scripts/package/build-img.py`, `validate-img.py`; its reader in `osconfig/image.py` | chunks, lists, records, configuration | build, validate, check, install |
| Build, release, attestation | `scripts/build`, `tools/attest` | files on the build host | sequential scripts |

### How they interact

The screen and the web interface call Moonraker, whose component starts one
`nebulaos-osconfig` process per request. Requests, the install worker, the trial
and the supervisor are therefore separate processes. They meet in the
maintenance lock (`common.py`, an flock that a worker inherits), in Klippy's
printer state, in `reboot-pending`, in the marker and in the trial file. The
update supervisor is a shell loop of its own; it and the boot scripts meet in
component lock files that the maintenance gate reads. Boot scripts run in the
order of their numbers and hand over through files on the data partition.

A computer works on a printer over SSH, one call at a time. Its tools meet each
other in the host lock, and on the printer in `flash.lock`; what one process
leaves, the next finds in the journal and in the marker. The packager, the
validator and the installer on the printer meet only in the package.

The probe is two programs on two processors. Host and controller exchange
commands and blocks of records over a serial line; on the controller the timer
interrupt and the main loop meet in the swap pin.

### What is hard

- A power cut between any two durable writes; a bootloader that starts what the
  marker says and has no way back.
- Checks made before a lock, or long before the step they guard (the three
  seconds of grace before a reboot, minutes of writing).
- Two ways to reboot, one of which may be accepted and never come.
- A new system that freezes before it has counted its start.
- Prints, which may start between a check and the act it allows.
- SSH calls whose connection ends while the command goes on; a journal that says
  what was about to happen, not what did.
- Records that lose blocks while a motor runs; an interrupt between two
  statements of the main loop.
- Commands that call each other and raise anywhere, with fields of one object as
  their only memory.

### What makes each part correct

- Slots: there is always a whole system to go back to; a confirmation names a
  system that came up; resets of an unconfirmed system are bounded; an install
  that is stopped leaves nothing; a trial that started gets its verdict.
- Supervisor: Klipper and its extensions change together; a component that
  fails its health check goes back; nothing is deployed under a print; after a
  crash the live tree is the old one or the new one.
- Boot: a generation becomes active only when complete; a migration that is cut
  is repeated or undone.
- MCU guard: one program on the serial line; a flash never starts under a print;
  a flash that is cut is recovered at the next boot.
- OTA: only a file that verified is handed to the install job.
- Install over SSH: the slot the printer can start from is never given up; while
  a power cut is dangerous the journal says so; done means that it is done.
- Logo: a partition without which Linux does not start is never written without
  a copy of it, and by one writer at a time.
- Exercises: the printer is afterwards what it was before.
- Probe: the motor stops at the trigger, the nozzle returns to where the planner
  believes it is, an accepted mesh is true, the owner's limits come back.
- Package: what is published is what was built, what is installed is what was
  published.

## 2. Plan

Done:

1. `SlotUpdate`, with `FallbackPromise` (abstract) and `SlotUpdateRefines`; proofs
   in `SlotUpdateProofs`.
2. `KlipperStack`, with `PairJudgement` (abstract) and `KlipperStackRefines`: the
   supervisor's work on the pair, with the maintenance gate, S04 and S05 as far
   as they touch it; proofs in `KlipperStackProofs`.
3. `HostInstall`, with `TwoSlots` (abstract): the install over SSH; proofs, the
   refinement among them, in `HostInstallProofs`.
4. `RtosLogo`: the one-partition write by several agents; proofs in
   `RtosLogoProofs`.
5. `Exercises`: every profile with its undo; proofs in `ExercisesProofs`.
6. `LoadCellProbe`: one probe, host and controller; `BedLevelling`: the commands
   that probe; proofs in `LoadCellProbeProofs` and `BedLevellingProofs`.
7. `OtaPackage`: packager, validator and reader of an update package; proofs in
   `OtaPackageProofs`.

Left, in this order:

8. `Busy`: every profile of `busy_state` over every answer of Klippy, and the shell
   implementation against the Python one.
9. `ComponentUpdate`: Moonraker with its virtual environment and Mainsail through
   the supervisor, with the exchange of trees in two renames, crash and resume;
   `ScreenRelease`: the trial of a NebulaScreen release.
10. `BootGeneration`: seed, migrate and activate under power cuts.
11. `McuGuard`: lifecycle, guard, flash, restart and recovery.
12. `OtaDownload`, then its composition with the install job; `Recovery`.
13. `MemGuard`, `WifiConnect`, `IdleControllers`.

Abstract specifications: the promise of a way back, the judgement of a pair and
two slots of which one always starts are stated and refined; one version live
per component with at most one on trial, and a download that is absent, partial
or verified, are left. Theorem left: mutual exclusion on the serial line in
`McuGuard`.

Every module that can be proved about has its theorems in a module of its own.
An `MC` module gives the constants of an instance; a module without one takes all
its values from the configuration file. Budgets of faults are constants
(`Faults` and `MaxFaults`, `Budget`, `Budgets`), so that a run names what may go
wrong and the theorems hold for any budget.

## 3. The slot model

`SlotUpdate` has one action per step of the three programs that act on the
slots. Variables and code:

| Variable | Code |
| --- | --- |
| `marker` | the OTA sector written by `nebulaos-slot-swap` (`ota:kernel`, `ota:kernel2`) |
| `slot[s]` | kernel and rootfs partition: which image, and whether it is complete |
| `confirmed[s]` | `slot-confirmed-<s>`, the image it names |
| `trial`, `last` | `image-update-trial.json`, the result in `image-update-last.json` |
| `power`, `running`, `armed` | this boot: how far it is, from which slot, watchdog armed |
| `printing`, `pending` | a busy printer, `/run/nebulaos/reboot-pending` |
| `job`, `status` | the line `run_job` is at, `JOB_STATE` |
| `req` | the line `swap_slot`, `_arm_swap`, `_reboot_or_undo` or `keep_slot` is at |
| `tpc` | the line `trial()` is at |
| `faults`, `resets` | how many faults so far; watchdog resets since TRIAL was written |

`PowerOn` is the bootloader, `ForeignSwitch` the vendor's firmware; both are
external. `ArmWatchdog` is S02, `BootDone` the rest of the boot up to the point where
Moonraker and the command line answer, `TrialBegins` S99; `Install` and the `Job...` actions
are `install` and `run_job`, the `Swap...` actions the switch, the `Trial...`
actions `trial()`, which holds no lock: it reads the TRIAL file (`TrialStart`), and if
that is not of the running slot it records NOT_STARTED (`TrialStale`) and unlinks
whatever TRIAL is there by then (`TrialDiscard`). Everything that is not on flash is lost in `Halt`.

Faults, chosen by the constant `Faults` and bounded by `MaxFaults`: power cuts
(`cut`), frozen systems (`freeze`), killed programs (`kill`), failing marker writes
(`swap`), reboots that never come (`lost`), I/O errors (`io`), a start that could
not be counted (`count`).

Abstractions. An image is a value; a slot's content is an image and a flag. Time
is left out, so every wait may end at any moment; the 120 s of `reboot-pending`
end only after the reboot call has returned. The trial's start counter saturates one above the number it
is compared with. A marker write is one sector, so a failed one leaves the old
or the new value. The short window in which an orderly shutdown still runs
programs is not modelled.

### Runs

| Run | Question | Bounds |
| --- | --- | --- |
| `slots_any_fault` | do the safety properties and the refinement of `FallbackPromise` hold under any two faults | 1 good, 1 bad, 1 vendor image, 1 attempt, 2 faults, all kinds |
| `slots_progress` | bounded resets, the marker while writing, stopped installs, and that trials get a verdict | the same, power cuts and freezes, with fairness |
| `switch_half_written` | a switch selects only a whole system; violated, see below | one power cut |

One good and one bad image are enough because images are only compared, with
what a slot held before and with each other's kind; two slots are all there are.
One attempt shows both sides of every comparison with `TRIAL_ATTEMPTS`. Two
faults cover each pair (a cut after a failed write, a freeze after a lost
reboot); the theorems lift the bounds.

### Fairness

`WF` on the steps of programs: a process that runs keeps running, and a boot goes
on. `WF(PowerCycle)`: a printer that hangs is switched off and on some time.
`WF(PrintEnd)`: a print ends. `SF(TrialJudge)`: prints leave gaps, some of them
longer than the trial's poll interval. No fairness is assumed of requests, of
prints starting or of faults.

### What the runs found

- `switch_half_written`: a kernel header is taken for a system; after a power cut
  in the middle of an install a switch selects the half-written slot, against
  what `image.py:313-314` and `system.py:195` say.

- `SwitchIsOnTrial` holds with one exception. Requests are served before S99 has run:
  a Klippy that is not up yet is no reason to refuse (`common.py:343-356`). So an
  install or a switch may write its TRIAL after `trial()` has read an older one that
  never started, and before `trial()` unlinks it; the new one goes
  (`image.py:1007-1015`), and the marker then selects an unconfirmed slot without
  trial. `tpc = "took"` marks the states in which this has happened; without the
  exception TLC shows the run.

Four more things the model has and no property forbids: the same removal of a new
TRIAL right after the marker has moved; the switch looks at the
target's kernel before it takes the lock (`system.py:194`), so an install that is
stopped in between may blank what it then selects; the rollback does not look
for a print again before it reboots, seconds after its last look; and if counting
a start fails (fault `count`) the watchdog is armed all the same, and the three
resets are no bound any more.

### What is proved

`SlotUpdateProofs`, for any images, any number of attempts and any number and
kind of faults: `TypeCorrect`, `FallbackSafe`, `ConfirmedSafe`, `TrialSelected`, and,
if no start goes uncounted, `ResetsBounded`; and, if the faults are power cuts,
freezes and uncounted starts (the ones after which a program does not go on),
`WritingSafe`. The only assumption besides is
`ConstantsAssumption` (good images are NebulaOS images, vendor images are not,
`NoImage` and `NoTrial` are no values of their kinds).

None of the six is inductive alone. That the way back stays whole needs to know
that the job only writes the slot that is not running (`RunningInv`), and that no
trial names that slot as the way back while a job holds the lock (`LockInv`: a
job, a switch past its check, and a running trial exclude each other). That a
confirmation is true needs that the record goes before the first write
(`ConfirmedInv`). That a started trial stays selected needs that nothing moves the
marker of a system on trial: a job and a switch are refused while it is, and the
trial file is gone when the rollback moves it (`QuietInv`, `StartedInv`). The bound on resets needs that an
armed watchdog has counted its start (`WatchdogInv`). That the marker selects the
running system while a job writes needs to know where it points at every line of
a job and of a switch (`MarkInv`). The same parts were checked
as invariants by TLC first. Each step lemma has one case per action; the cases
that do not disturb the invariant cite one `...Kept` lemma.

The second half of `SlotUpdateProofs` is what needs those invariants and two more.
`PromiseKept` is the refinement of `FallbackPromise`, `InstallWhole` and
`SwitchTried` are the action properties `InstallSelectsWhole` and
`SwitchIsOnTrial`; all three hold under every fault. They need `WrittenInv`: past
its last check a job selects what it wrote whole, a switch what it looked at, either
with its TRIAL or with S99 past the line that took it, and a switch whose reboot is still to come keeps jobs out by `reboot-pending`. That the
abstract trial begins and ends when the concrete one does needs the order of the
writes in both programs, and the one thing assumed besides, `OfferAssumption` (an
offer is never `NoTrial`). `StoppedUndone` proves
`StoppedInstallIsUndone` under cuts, freezes and uncounted starts. It needs
`StaleInv`: while the system is up, a trial file either is of this boot's system,
or S99 has yet to remove it, or the job or the switch that wrote it is still at work;
so what is left after a stopped job is at most an older file that S99 removes.

Only model-checked: liveness (`TrialGetsVerdict`).

## 4. The model of the Klipper pair

Klipper and the NebulaOS extensions are two git checkouts that only fit in
pairs. Moonraker updates each of them when the user asks for it; the supervisor
notices, judges the pair, and puts both halves back if it fails. `KlipperStack`
has one action per step of the boot scripts and of the supervisor that something
else can come between.

| Variable | Code |
| --- | --- |
| `heads` | the commits of `apps/klipper` and `apps/nebulaos-klipper-extensions` |
| `rec` | `updates/klipper-stack/state.json`: known-good pair, pair last seen, state, generation |
| `lock` | `updates/locks/klipper-stack.lock` |
| `gen`, `image` | `app-generation.json`; the image that runs |
| `bound`, `running` | `/opt/klipper` is the persistent copy; what Klippy was started from |
| `printing` | what `klipper_busy_reason` answers |
| `pc`, `new` | the line the scripts are at; the commits read at the top of a function |
| `spent` | how much of `Budget` the faults and the outside have used |

`Gate`, `SeedKlipper`, `SeedExtensions` and `RecordGeneration` are S04 with the
maintenance gate, `Activate` is S05 followed by S55, `Reconcile` the start of the
supervisor. `Bootstrap` to `Wake` are `poll_klipper_stack_once` and its loop,
`TakeLock` to `DeferValidation` are `validate_klipper_stack`, `RollBack` to
`RollbackPending` are `stack_roll_back`, `FallBack` to `FallenBack` are
`factory_fallback` and the record after it. A restart is two steps, the look for a
print and the stop, because a print can start in between.

Outside: power cuts, prints, Moonraker's update of one half and its own restart
of Klipper after it. `MidUpdates` says whether Moonraker updates while the
supervisor is at work or only between two polls. Extensions move forward only;
Moonraker does not update under a print.

Abstractions. A pair runs or does not run (`Good`); a pair that runs may still
fail its checks (Moonraker may not answer, also under a print), a pair that does not
run may pass the checks that only look at files. `Contains` is the ancestor test of S05. The exchange of one tree by S04 is
one step (its two renames are planned with `BootGeneration`). A record without a
known-good pair is left out: `Bootstrap` writes both pairs, and no later write
drops them. Reading Klippy's state never fails; without an answer the code falls
back to memguard's marker, which is the same kind of answer. All scripts of a
boot run in one sequence, and the supervisor is a single process.

### Runs

| Run | Question | Bounds |
| --- | --- | --- |
| `stack_any_fault` | four invariants, the refinement of `PairJudgement`, that every pair that is not the known-good one is judged in the end, and that one that does not run is replaced | 2 commits of each half, 2 images; 2 power cuts, 1 each of update, image change, missing swap, broken environment, refused composition, failed reset, print |

Two commits of each half give four pairs: two that are shipped, one mixed pair
that runs and one that does not. That is every case the code tells apart: commits
are only compared for equality, and images by age. Two power cuts meet a
transaction and the boot that repairs it.

### Fairness

`WF` on the scripts and the supervisor, which run until they are cut, and on
`PowerOn`. `WF(PrintEnd)`: prints end, and `Budget` bounds their number, so the
printer is idle at last. `SF(RestartAllowed)`: memory pressure, for which
`restart_component` refuses, passes. `SF(MoonrakerRestart)`: an update ends with
Moonraker's restart of the service it manages, when no print is in its way.
Nothing is assumed of updates, prints starting, or faults.

### What the model shows besides

`BadIsReplaced` has an exception: a pair that does not run and that became the
known-good one stays. Behaviour of the code that this and the other properties leave
room for; the first, second, fifth and sixth are why no run checks that the
known-good pair was seen running (`KnownGoodRuns`, `JudgedIsRunning`), which is only
proved for the conditions below:

- A validation that a power cut interrupts leaves its lock, so the next boot runs
  the immutable copy; the supervisor clears the lock and validates again, restarts
  the immutable copy, finds it healthy, and records the pair on disk, which never
  ran, as known-good (`nebulaos-update-supervisor.sh:1391`).
- An update that lands while a validation waits is what Klippy is restarted into;
  the pair read before it is recorded.
- A power cut between the last record of a transaction and the removal of its
  lock (1393, 1515) leaves a lock nobody removes. The immutable copy runs from
  then on and every migration is refused, with the record saying healthy.
- The gate removes the lock of a factory fallback before it refuses for another
  reason (`nebulaos-maintenance-gate.sh:91`); the same boot activates the pair that
  failed.
- The reconciliation writes the old image's known-good pair under the new
  generation (1515), which defeats the cross-generation check; a rollback then
  puts the old image's pair over the new one.
- If S05 kept the immutable copy, `Bootstrap` still records the checkouts as
  known-good; and a print that starts between the look and the stop of a restart
  is cut.

### What is proved

`KlipperStackProofs`, for any commits, any set of good pairs, any images and any
number of faults and prints: `TypeCorrect` (the type invariant
needs no run), `NoneSlipsThrough`, `LoopGoesOn`,
`PendingSafe`, `FallbackSafe`, `WorkSafe`, and `JudgementKept`, the refinement of
`PairJudgement`. Two more, `KnownGoodHolds` and `SeenRunning`, say when the source's
comments on the known-good pair are true (`KnownGoodRuns`, `JudgedIsRunning`): when the power stays on with one image,
S05 binds the pair and Moonraker updates only between polls (`Quiet`). The only
assumption besides is `ConstantsAssumption` (what an image ships runs and contains
its own extensions; the names for nothing are no pairs).

The invariant `IInv` joins what each line of the program knows of the record
(`Steps`: a validation has its own record, a rollback an unfinished one, and the
lock is removed only after a finished one) with: no lock while S04 replaces the
checkouts (`SeedingUnlocked`), a pending rollback keeps lock and generation
(`PendingStays`), and the fallback holds from the boot that meets it
(`FallbackHolds`). `PendingStays` needs `SeedingUnlocked`, because the generation
changes only where there is no lock; the refinement needs `PendingStays`, because
the first observation of a generation must not end a rollback. `QuietInv` adds
that the persistent copy is bound wherever the supervisor judges, and that heads,
`new` and the running pair agree from the settle window to the verdict. All parts
were checked as invariants by TLC first; each step lemma has one case per action.

Only model-checked: `ChangeIsJudged` and `BadIsReplaced`, which are liveness.

## 5. The install over SSH

`HostInstall` is one installer process at a time, its journal, and the printer it
writes. There are two paths. From a running NebulaOS the slot that does not run
is written and selected. Where the owner keeps the vendor's system in slot 1,
the marker is armed for it, the printer reboots into it, and slot 2 is written
from there; in that window a power cut lets the vendor's updater overwrite the
motion controller.

| Variable | Code |
| --- | --- |
| `marker`, `holds`, `running` | the marker sector, what each slot holds, the slot of this boot |
| `lock`, `writer` | `flash.lock` on the printer, the helper that writes a slot |
| `data` | the data partition: sound, read-only after a power cut (`broken`), unmounted by a repair (`closed`), repaired |
| `mcu`, `going` | what the guard at boot found on the motion controller; a reboot that counts down |
| `journal`, `txn` | the journal file, the `Transaction` in memory |
| `pc` | the line of `Installer` |
| `want`, `os`, `home`, `target`, `rebooted` | the build, the system of the session, `_home_marker`, `plan.target_slot`, the boot id compared |
| `profile` | `INSTALL_OTHER_SLOT`, `INSTALL_MODE` |

`Begin` to `Ends` are `op_install`; `OpReboot`, `StageStockUpdate`, `OpRestart` and
`OpDatafsRepair` four more commands of the agent, which act only while no install
is open (`MayAct`). `OpRestart` takes `flash.lock` under a name of its own, which no
installer takes over (`StaleOwn`), so that what is left of one that was lost keeps
every install out; `OpDatafsRepair` reboots after a clean check, whatever the marker
selects then. `Arm`, `RecordArmed`, `LeaveForStock`, `StockReached` are the
armed window, `Disarm` and `DisarmMarker` the ways out of it; `StartWrite`, `Verify`,
`SelectTarget`, `PutHome`, `Go`, `Judge` the write and its end on either path. The
bootloader, the vendor's updater and the guard are external (`BootsInto`,
`McuAfter`).

Faults: a lost call or a failed check (`drop`), `cut`, a killed host process
(`kill`), a failed write of `journal`, `marker` or slot (`flash`), a reboot that never
comes (`lost`), a probe without an answer (`probe`), a helper that goes on after its
connection is gone (`outlive`).

Abstractions. A slot holds one image or is damaged. Identity, idleness, space
and the hashes of staged files are one kind of check. A marker write and its
read-back are one step, with a cut before or after it. A helper that outlives its
connection has ended before the next install has copied its own images, so two
helpers never overlap: copying takes minutes, and the model would otherwise show
two of them writing one slot. The journal's key has five fields in the code (device,
control commit, product head and two digests); the model has the build for all of
them, and another build stands for a change of any of the five.

| Run | Question | Bounds |
| --- | --- | --- |
| `install_any_fault` | within one record the journal keeps the danger until it is over; marker and slots refine `TwoSlots`; every exit of the armed window disarms | 2 builds, every command, any two faults; two million states |
| `install_progress` | a recorded end is true; installs end | any one fault, no staged vendor update |
| `install_other_build` | an install of another build forgets the danger (expected violation) | 2 builds, installs only, one killed process |

Two builds show a rerun with the other build. Two faults are one that leaves a
trace and one that meets the rerun. `StageStockUpdate` is left out of the second
run because it invites the vendor's updater to replace the motion controller's
firmware, after which a recorded end no longer holds: that is its purpose.

`EveryExitDisarms` names one exception besides the killed process and the reboot
that was seen to begin: the disarm itself could not write the marker, or the record
that precedes it. `_disarm` records `CLOSE_BACKWARD` before it touches the marker, and
that `_advance` stands outside its `try` (nebulaos_install.py:278): on a disk that
stays full it raises, and the marker stays on the vendor's system under a running
NebulaOS. Two failed journal writes, in the run, are that disk: the first sends the
install back, the second stops the disarm. The comment at nebulaos_install.py:925 and
tests/hardware-install-simulation-tests.py:1124-1180 are about a journal that fails
at one record; the property says what is left when it fails at the next one too.

`DangerKept` speaks of one record. `DangerSticky` has no such exception and says what
the comment of `DANGER_FIELD` (nebulaos_journal.py:101-106) says: the last window is
remembered until the device is proven safe. `install_other_build` refutes it: an
install through the vendor's system is killed, and an install of another build
begins a fresh record in the same file (nebulaos_agent.py:1017-1020,
nebulaos_journal.py:194-208) while the printer still runs the vendor's system.

Fairness: `WF(Installer)`, `WF(WriterEnds)`, `WF(Reboots)`: a process, a helper and a
reboot that counts down go on, the agent's waits being bounded by timeouts.
`WF(Begin)`: the operator runs the install again.

Proved in `HostInstallProofs`, for any builds and any number of faults of every
kind: `TypeCorrect`; `SlotsHold`, the refinement of `TwoSlots`, which says that a slot
is written only while it neither runs nor is selected (or, selected, only under
the vendor's system in the other one), and that only a whole slot is selected;
`DangerHolds` and `ExitsDisarm`, with the exceptions their properties name; and, unless
a vendor update is staged, `DoneStays`. The assumptions are `ConstantsAssumption` (images
are neither the vendor's system nor damage) and `JournalAssumption` (no journal is no
record).

The invariant has a slot half and a journal half. `SlotInv`: a helper writes a
damaged slot that does not run (`WriterInv`), the system an install came from stays
whole (`HomeInv`), through the vendor's system only slot 2 is written (`StockInv`),
and what was verified stays until it is selected (`TargetInv`). `JournalInv` says
how far memory may be ahead of the file: a dangerous file whose memory is safe
(`LagInv`) or which lost its mark (`StaleInv`) exists only where the danger is
provably over, which is what makes a crash between the two harmless. For
`ExitsDisarm`, `ArmedInv` says at which lines the marker may select the vendor's
system under NebulaOS: on the armed path, on the way back from it, and past the
reboot it saw begin. All parts were invariants of TLC runs first. Only
model-checked: `InstallEnds`.

## 6. The logo in rtos2

`RtosLogo` is any number of agents on one computer, the host lock with its text
written after its creation, and the printer with `flash.lock`, the partition rtos2
and every `dd` that writes it. Variables: `hostlock`, `backups` on the computer;
`flash`, `rtos2`, `dds`, `marker`, `running` on the printer; for each agent `pc`, `op`,
`image`, `payload`; and `stray`, a history. `CreateLock` to `Ends` are `HostLock`, `Guards`
and `Backup` the first half of each operation, `Choose` to `Confirm` the write. Partition
contents are a head, of which the pinned image is one, and a rest. The result that
an operation prints is read by nobody and left out.

A call that times out kills the local ssh, and a killed agent leaves its own: neither
ends the `dd` on the printer (nebulaos_device.py:608-617, 484), and the agent
releases the lock all the same (nebulaos_agent.py:888-889). `Abandoned` lets the `dd` end
with its connection or run on as one of the `Orphans`, beside whatever the next
owner of the lock does. `stray` is true when such an orphan ran since `flash.lock` was
last taken.

`rtos_any_fault`: two agents, both operations, one fault of lost call, killed
process, power cut, failed write and slot switch. `BackedUp`: no write touches a
whole rtos2 the computer has no copy of, except when `stray`: an orphan may end
between the next owner's copy and its write. `OwnerWrites`: only the owner of the
printer's lock changes it, or an orphan is there. The exceptions are what the code
does, and all of what it does: without an orphan both hold over every race on the
two locks, for which two agents are enough.

`RtosLogoProofs` proves `TypeCorrect`, `BackedUpHolds` and `OwnerWritesHolds` for any
agents, contents and faults, orphans included. `OwnInv` (an agent between acquiring
and releasing owns the lock) carries both; `WriteInv` says that a call has one write
at most, `QuietInv` that without a stray there is no orphan and what a write changes is
in the backups, and `BackupInv` that from the backup to the write the partition is
what the backup holds. There is no liveness: an agent ends or waits for a reply.

## 7. The exercises

A profile of `EXERCISE_PROFILES` is a shell script with an undo in a trap. In
`Exercises` each is a pair of sequences of commands that change state (`Put`, `Set`,
`Save`, `Restore`, `Spawn`, `Keep`, `Reap`, `Kill`, guards); `Step` runs the next one.
Variables: `cfg` and `own` are the printer's settings and the owner's, `jobs` what
runs, `counting` the watchdog without a feeder, and for each run its profile, line,
shell variables and result. `Interrupted` is a signal in the body, whose trap runs
the undo. The undo begins by taking its own traps away (`nebulaos_capture.py:1450`),
so `UndoInterrupted` ends the shell there, and `ConnectionLost` ends it anywhere
without a trap. `PowerCut` and `WatchdogFires` reset everything that is not on
flash; the files of the display's brightness are.

`exercise_any_end`: every profile, on a default and on a changed printer, with two
signals, or a signal and a print, a lost connection or a power cut. Of a run whose
undo came to its end: the settings that were saved are back (`SettingsReturn`) and
nothing the shell could name is left (`NoStray`). A stopped Klippy is started, or
the shell died without its undo (`KlippyReturns`, under `WF` of the shell).

The comment over the profiles (`nebulaos_capture.py:700-701`) says that the printer
"returns to its prior state even if the run is interrupted". What the properties
show is less, and all that the code does:

- A first signal, a refusal or a print at any command of the body is undone. A
  second signal, once the undo has begun, kills the shell: Klippy may stay stopped
  and a hog running. So does a lost connection, at any command, and the agent may
  still report the exercise complete. These runs are `"gone"`, and excepted.
- `storage-autosuspend` sets the variable its undo looks at before it reads the two
  settings (718-719): a signal between them makes the undo write defaults over what
  the owner had. The two settings are not in `SavedFirst`.
- An exercise takes no lock, and two at once would put each other's values back,
  which the agent does not promise to prevent: `SettingsReturn` is about one run at
  a time.

`ExercisesProofs` proves `WellTyped` and `NothingOutlives` (`NoStray`) for any
number of runs at once and any budget of interruptions, and `SettingsComeBack`
(`SettingsReturn`) under the hypothesis that there is one run, both with the
exceptions above. The hypothesis is
the code's gap and not the proof's: of two runs at once the second saves what the
first has set, and puts that back last. What every profile has in common is stated
of one script, `Safe`: whatever the body changes or starts, the undo knows how to
end; it saves a setting before it changes it and before it tells the undo to
restore it; and neither sets anything an owner may have set to its default.
`ProfilesAreSafe` proves it of each profile by expanding it, and `HeldInv` and
`SetInv` follow a run through any safe script, so a new profile costs one line.
`KlippyReturns` is liveness and stays with TLC.

## 8. The load-cell probe

`LoadCellProbe` is one call of `run_step_prtouch`. On the controller
`SysTimeEvent` and `PrtouchEvent` are the timer interrupt (`step`, `clock`, `z`),
`PresTask` and `PresSend`, `StepTask` the main loop (`pres`, `swap`); interrupts come
between any two statements that matter. `Host` is the host's loop: start, wait,
fetch missing blocks, measure, lift (`host`). The line loses blocks, the cell may
trigger in the air (`world`). `seen` remembers the true trigger and is no part of
the code.

`probe_any_loss`: travel of 4 steps, beds one and three steps down and out of
reach, two blocks in each record, two lost blocks, one false trigger. It checks
that the motor stops within a step of the trigger, that what the host uses is the
controller's record (`RepairedIsWhole`), that the measured height is the true one
and the nozzle comes back to where the planner believes it is, and that a probe
ends. Two blocks have a first and a last one, and two losses hit both, or one and
its refetched copy. Fairness is `WF` of interrupt, main loop and host, and that a
cell under pressure triggers.

A wait has a limit by the wall clock: the way at its speed and two (1183) or five
(1289) seconds more. `TooLong` takes that as long enough for the motors and the
blocks of their record, but not for those of the cell's, which may be pressed at the
end of the wait. Each wait that ends so is paid from the same budget as a lost block
(`MaxLost`), since nothing in the code bounds them. A host that stalls so long that
it finds the time up before it has read blocks of steps already sent is not
modelled: those blocks would join the next record.

`MeasuredIsTrue` and `ReturnsToStart` make one exception, named in the model: a
refresh of the zero while a short lift is still owed leaves that debt standing
(`prtouch_v2_wrapper.py:1245-1251`), so that the next lift counts from the wrong
height. `MeasuredIsTrue` makes another for a way on which the cell did not trigger:
when blocks of the way before come after the host forgot its records and before it
arms the cell again (1176-1180), the host has both records and takes the end of the
way for a contact (`seen.old`). Without that exception TLC finds the case in forty
steps: a trigger in the air, a slow cell, a way into nothing.

`LoadCellProbeProofs` proves the four safety properties for any lengths of way and
record, any beds, losses and false triggers: `StopsSoon` (`StopsWithinAStep`),
`RecordIsWhole` (`RepairedIsWhole`), `ReturnsThere` (`ReturnsToStart`) and `MeasuresTruly`
(`MeasuredIsTrue`). The pin and the motor know of each other only by the pin, so
the first invariant says when either may be on: the motors are still and the
record empty whenever the host starts a new movement (`StillInv`, `RecordInv`: a wait
ends with all blocks or with none to come), the pin is up on a way down only
(`ArmedInv`), and `SunkInv` counts the half steps since the trigger by the parity of
those to go. The second, `Inv2`, is about heights: the last entry of the record is
the number of steps left (`DownInv`), the true height follows from it and from the
steps a short lift left out (`HeightInv`, `DebtInv`), what has arrived is in order and
no block is there twice (`RecInv`), and the height of the trigger is the nozzle's plus
the way since (`SeenInv`). `HitInv` is about the cell's record: no block of it without
a trigger, but for those that came late. What `Refetched` makes of a record is an induction over
its blocks: the library's induction theorems cannot be instantiated, but the
least element of a set of naturals can (`WFMin`), and the lemmas `Smallest` and
`Inductive` state induction over a set. `ProbeEnds` stays with TLC.

`BedLevelling` is the commands above the probe. `stack` is the Python call stack,
one frame with its line and locals for each command, `limits`, `mesh`, `self`, `scan`
the printer and the fields they share, `homed` and `zero` what the planner believes
and whether it is so. An error (`Raise`) drops the stack and leaves everything else
as it is. `mesh_any_error`: any order and nesting the code allows, 3 points, hold
thresholds for 5, two silent probes, two losses of steps, the search for lost steps
on or off (`lost_step_dis` 0); `LimitsSurvive`,
`AcceptedMeshIsTrue`, `HomeGivesMesh`. Three points have a first, a middle and a last
one. `g29_cnt`, which indexes the 36 entries of `tri_min_hold_ALL`, is not reset by an
aborted scan; with two entries to spare the index runs past the end, where Klipper
shuts down (`PointFails`).

What the three do not say. The shake of the self check sets limits of its own
(`quick_shake_motor`, 589-606); inside a home the owner's are kept above it, but in
`SELF_CHECK_PRTOUCH` outside one an error between 595 and 606 loses them, the one
exception of `LimitsSurvive` (`limits.shaken`). What the owner sets while limits are
kept (after a home that need not be accurate, which ends with them lowered) is not an
action, and would be undone. An accurate home accepts a zero that is off by less than a
millimetre (1752), more than `lost_step_dis`: `Confirmed` does not make it true, and
`HomeGivesMesh` is about the mesh only. `AcceptedMeshIsTrue` leaves out scans that start
on an old `g29_cnt` or with `z_set_status` set, that have a home in the middle
(`scan.broken`), or whose points were measured again afterwards (`again`): there the
check is at the wrong point or finds a younger zero. The old count and the home in
the middle are the hazard at line 1842, which no property catches.

`BedLevellingProofs` proves `LimitsHold` (`LimitsSurvive`) for any number of points,
silences and slips. `set_step_par` puts back what it kept last; `KeptInv` says that a
frame past its own `set_step_par`, running or waiting under another, is a witness
that something was kept: the owner's limits, or those a failed shake had left
(`Sure`). `AcceptedTrue` and `HomeGives` are the other two properties, in
the same generality. `Nested` says that only a home is
ever called by another command, and that a scan that waits for one is broken. So it
is enough to know the running command's frame (`FrameInv`): a home that has put the
mesh away has one to give back if any is saved; a scan that measured a point off the
zero still has no zero (`Before`, `After`), because nothing sets it before the last
point looks for it, and is over (`Through`) only when none was, if it is looked for
(`CheckStays`: nothing switches that).

`ANALYSIS.md:190-197` notes that `G28_Z` and `G29_Z` of this wrapper are not invoked in
production on the KE; the model is of the code as it stands in `reference`.
Besides, the self check passes a cell that feels nothing: two touches without a
trigger only continue (`prtouch_v2_wrapper.py:1039-1041`), where its comment
(1021) says that two are reported.

## 9. The update package

`OtaPackage` is three programs and a format: `Build` (`build-img.py`), `Validate`
(`validate-img.py`) and the installer on the printer (`osconfig/image.py`). A payload
is a sequence of symbols, its first one the magic; a digest is the content. The
packager reads a payload to its end, as its loop does; the validator and the installer
round its length up. The installer looks at the file five times, each time by its
path: the check describes it (`CheckDescribes`) and hashes it (`CheckHashes`), the job
hashes it (`HashJob`), describes it (`DescribeJob`) and unpacks it (`UnpackJob`), and
the two parts are written from what was unpacked, with the records that were described
(`WriteKernel`, `WriteRootfs`). `Repack` changes one thing about a package (a chunk, a
name, a list, a record, a version), `Exchange` puts the package of another build in
its place; both may happen between any two of the looks. `Rename` gives the file
another name before it is on the printer. The several calls of 7-Zip in one `describe`
are one look; what the property tells apart of them is the records, which come from
one call.

`package_any_change`: chunks of two symbols; payloads of less than a chunk, one, one
and a half, two, and two and a half (three chunks in a chain); any two changes.
`InstalledIsValidated`: a package that was validated and that the job described puts
exactly the validated build into the slot, each part in its partition, whatever is
unpacked. What is described is what was checked with one exception: the job compares
the digest (`image.py:738`) and opens the path again to describe it (742), and a file
exchanged in between is installed without having been checked. If that other package
was validated as well, it is installed whole; the parts of two builds are never mixed,
since what is unpacked must have the digests that were described.
`BuiltIsAccepted`: what the packager makes passes both, unless it was
given what it does not look at itself (a vendor's configuration, no RTOS image).
Two changes matter because a change of a payload and of its list can agree.

`OtaPackageProofs` proves both for any builds, any size of a chunk and any number of
changes and exchanges: `OnlyTheValidated` (`InstalledIsValidated`) and `TheBuiltIsGood`
(`BuiltIsAccepted`). The first rests on `SlotInv`: whatever is changed, the records of
a package keep their names, each once, and each half of the slot is what a record
of the described package announces and begins as its kind must.
The second rests on `BuiltInv` (an untouched package is the packager's, for some set of
names, and the one that was checked, described and unpacked) and on the arithmetic of
chunks: reading to the end makes as many as the others count (`ReadsAre`),
each as long as the reader wants it, and joined they are the payload (`Arithmetic`,
`Places`, `ChunksAreThePayload`), by induction over the chunks as for the probe. The
assumptions are `OtaPackageAssumption`: payloads are sequences, a kernel and a root
file system begin with their magics, and these differ.

## 10. Summary of what is proved and what is not

| Module | Theorems | Assuming |
| --- | --- | --- |
| `SlotUpdateProofs` | `TypeCorrect`, `FallbackSafe`, `ConfirmedSafe`, `TrialSelected`, `ResetsBounded`, `WritingSafe`, `PromiseKept`, `InstallWhole`, `SwitchTried`, `StoppedUndone` | no uncounted starts for `ResetsBounded`; cuts, freezes and uncounted starts for `WritingSafe` and `StoppedUndone` |
| `KlipperStackProofs` | `TypeCorrect`, `NoneSlipsThrough`, `LoopGoesOn`, `PendingSafe`, `FallbackSafe`, `WorkSafe`, `JudgementKept`, `KnownGoodHolds`, `SeenRunning` | a quiet printer for the last two, which no run checks |
| `HostInstallProofs` | `TypeCorrect`, `SlotsHold`, `DangerHolds`, `DoneStays`, `ExitsDisarm` | no staged vendor update for `DoneStays` |
| `RtosLogoProofs` | `TypeCorrect`, `BackedUpHolds`, `OwnerWritesHolds` | none |
| `ExercisesProofs` | `WellTyped`, `NothingOutlives`, `SettingsComeBack` | one run at a time for `SettingsComeBack` |
| `LoadCellProbeProofs` | `StopsSoon`, `RecordIsWhole`, `ReturnsThere`, `MeasuresTruly` | |
| `BedLevellingProofs` | `LimitsHold`, `AcceptedTrue`, `HomeGives` | |
| `OtaPackageProofs` | `OnlyTheValidated`, `TheBuiltIsGood` | |

Each adds the named assumption on the constants of its module, which TLC
evaluates in every run. Every invariant and every action property of a passing
run is proved. Only model-checked are the liveness properties, which need
fairness and are beyond this prover: `TrialGetsVerdict`, `ChangeIsJudged`,
`BadIsReplaced`, `InstallEnds`, `KlippyReturns` and `ProbeEnds`.

## 11. Not modelled

Everything the plan still lists under "Left", each a later module.

Left out of the modelled parts: parsing and finding images, notices, wording of
reasons and logs, the cache of compiled libraries, preserved failure evidence, the
refresh of Moonraker's update list; host keys, passwords and the reading
operations of the agent; two flash helpers at once; heating, the shapes of the
filters and the arithmetic of the mesh correction; `run_re_g29s`, which nothing
calls; the 7z container and the byte layout of records.

For good: pictures, logs and cleanup, captures and control commands, and the
build, release and attestation scripts are single writes, read-only, or sequential
programs without a second actor; the first version of the probe wrapper belongs
to another board.
