# nixnas: models, checks and proofs

nixnas is a NixOS appliance that boots from an encrypted stick, with a terminal
tool (`nixnas`, Rust, `tui/`) that builds, flashes and verifies the stick, and a
set of NixOS modules (`modules/`) that make up the appliance, among them the
command that activates a new system on a running one (`nixnas-switch`).

This directory holds TLA+ models of its core, the TLC configurations that check
them, and theorems about them checked by TLAPS. Definitions carry the names of
the code; `PROJECT.json` maps each to the lines it models. Paths below are
relative to the repository.

## 1. Inventory

| Part | State it keeps | Operations | Interacts with |
|---|---|---|---|
| Live activation, `modules/appliance/switch.nix` | unit per mode, result file per mode, the lock file of switch-to-configuration | check units, probe and clean the lock, clear the result, `systemd-run`, follow, report | PID 1, flock, other switches (nixos-rebuild, auto-upgrade) |
| Flash screen, `tui/src/ui/flash.rs` | phase, listing and cursor, answers, passphrase | keys of nine phases, `drain_events` | worker, by a channel |
| Flash worker, `tui/src/flash.rs` | the devices, the backup file, a mapping | backup, write, header check, partition grow, f2fs grow | dd, sgdisk, cryptsetup, resize.f2fs |
| Build screens, `tui/src/ui/build.rs`, `ui/buildflash.rs` | stage, passphrase entries, picked disk, checklist | keys, `drain_events` | pipeline and flash worker, by channels |
| Build pipeline, `tui/src/build.rs` | three secrets in RAM, script link, image | six steps with guards | nix, mkpasswd, sops, tar, the image script |
| Verify screen, `tui/src/ui/verify.rs` | phase, checklist, skip flag | keys, `drain_events` | worker, by a channel and a shared flag |
| Verify worker, `tui/src/verify.rs` | issues, positions | GPT, ESP, UKIs, LUKS header, digest or compare | device handle |
| Device handle, `tui/src/sudo.rs` | position, one cached block | read, seek, clone, finish a write | `sudo dd` |
| Main loop, `tui/src/main.rs` | the open screens | drain, draw, key; Ctrl+C | everything above |
| Home menu and session logs, `ui/home.rs`, `logging.rs` | logs of this session, one open writer | begin, a line per event, flush, done, clean, keep and prune | the log directory of all sessions, main loop |
| Configure, `ui/configure.rs`, `config.rs` | field buffers, a file browser, settings in force, a TOML file | load, edit, pick, save | yazi, other writers of the file |
| Boot to the store, `modules/store/location.nix`, `modules/boot/disk.nix` | LUKS members, pools, mounts | open in series, import, mount | nixluks, systemd, operator |
| Data storage, `modules/storage/connect.nix` | members, pools, a target | `nixnas-unlock` | systemd |
| Recovery escrow, `modules/crypto/recovery-escrow.nix` | a key in clear, key slots, vault items, an optional file | enroll | cryptsetup, Vaultwarden |
| Stick layout, persistence, bootloader, options | none at run time | evaluation and assertions | disko, nixboot, lanzaboote |

What is hard in it, and what makes each part correct:

- **Activation.** Several steps look at the world (unit, lock, process list) and
  act on it later; lock and result are found by name; the unit unloads itself;
  the session may be lost anywhere. Correct: no two activations at once, what a
  caller is told is true of *its* activation, an accepted activation ends
  whatever becomes of the caller, a stale lock costs nothing.
- **Flash.** It overwrites a disk irrevocably, after a long dialogue in which
  listing, cursor and answers can go out of date; every command can fail; a
  killed run leaves a mapping behind. Correct: only the disk whose name was
  typed is written, after its backup is durable; success is proved; the grow
  works on its own store; a passphrase is used for the disk it was asked for; it
  ends.
- **Build.** Secrets exist as files while many steps may return early; link and
  image are shared by processes and by commands that outlive them. Correct: the
  secrets are gone when the end is reported; the image is the one asked for, never
  one of two builds, and goes to the stick that was measured.
- **Verify.** Reads are cut into chunks and go through a cache and a shared
  position; the operator may waive one check at any time. Correct: a pass is
  earned, a sound disk is not rejected, a waiver waives only the compare.

- **Storage.** Units wait for disks and for a person, with and without limits;
  the terminal with the question may go away; what came up stays, the rest is
  tried again. Correct: no delay ends in the emergency shell, a dead archive holds
  nothing up, data is sealed until asked for, a pool is imported after its
  members, the report is final.
- **Session logs.** Log and pane are two tellings of one run, cut off at any
  moment; several sessions write to, and remove from, one directory. Correct: a log has
  what was seen and is its run's own; a clean removes one's own logs, a keep leaves the
  newest of all, and what cannot be listed or removed changes nothing else.
- **Configure.** A save is four calls on a file others write too; options that are
  cleared, blank or not numbers take different ways through form and file.
  Correct: what was reported saved is what is read next and what is in force, the
  rest of the file survives, the form says what is unsaved.
- **Escrow.** Key, slot, file and vault item are made one after another and each
  can fail. Correct: done means the key can be found and opens the store; the vault
  never gets a key that was not enrolled first; no key is left in clear.

`PROJECT.json` lists the individual hazards at their lines.

## 2. Modules

| Module | Models | Built on |
|---|---|---|
| `Activation` | the promise of a live activation: one at a time, told what happened | |
| `Switch` | `nixnas-switch`, its units, the lock, foreign switches | instantiates `Activation` |
| `SwitchProofs` | theorems about `Switch` | `Switch` |
| `Flash` | flash screen, worker and devices | |
| `Build` | both build screens, pipeline, shared files, orphaned commands | |
| `DevReader` | the device handle and the ESP window, as operators | |
| `Verify` | verify screen, worker, targets | `DevReader` |
| `VerifyProofs` | theorems about `DevReader` and `Verify` | `Verify` |
| `Storage` | one boot: initrd, members, pools, `nixnas-unlock`, in both modes | |
| `StorageProofs` | theorems about `Storage` | `Storage` |
| `FlashProofs` | theorems about `Flash` | `Flash` |
| `BuildProofs` | theorems about `Build` | `Build` |
| `Session` | session logs, the tee of events in the main loop, the exit prompt, several sessions | |
| `SessionProofs` | theorems about `Session` | `Session` |
| `Configure` | form, file browser, settings file and its other writers | |
| `ConfigureProofs` | theorems about `Configure` | `Configure` |
| `Escrow` | the enrolment script, its retries, header and vault | |
| `EscrowProofs` | theorems about `Escrow` | `Escrow` |
| `MCSwitch`, `MCFlash`, `MCBuild`, `MCVerify`, `MCStorage`, `MCSession`, `MCConfigure`, `MCEscrow` | values of the constants | the module of the name |

A definition whose name has an underscore (`MergeInto_KeepsCleared`) is a mutant: a
plausible bug in the definition of that name. For every property one of them is
known to break it under the same configuration; no specification uses them.

### Switch

A wrapper is one invocation. `pc` is the next command of the script: three unit
checks (`CheckUnits`), `flock --nonblock` (`ProbeLock`, which holds the lock
until `ReleaseProbe`), `Pgrep`, `RemoveLock`, `ClearResult`, `StartUnit`, and the
loop `TestResult`, `QueryLoadState`, `Recheck`, `Report`. `LoseSession` may come
anywhere. Every command is a step of its own, which is where the races are.

The unit of an invocation runs `Exec`, `OpenLock`, `TakeLock`, `EndSwitch`, the
hook `HookOpen` and `HookWrite` (a redirection empties the file before `printf`
fills it) and `Collect`. `OpenLock` and `TakeLock` are two steps because
switch-to-configuration opens the file by name and locks the inode: the lock is
modelled on inodes, so that deleting the file has the effect it has. A foreign
switch may be running, start, be killed and leave an orphan with its descriptor.

Initially there was no activation since boot, or there were some: then results
and the lock file exist. `severed` remembers that a wrapper deleted the lock
file under a live switch.

`Spec` lets everything interleave. `SerialSpec` is one operator with one shell,
who starts the next invocation after the last one returned or was cut off (its
unit may still run), and no foreign switch starts. The comments of the script
describe that use; the promises hold there and fail, in two ways, without it
(section 4).

Fairness: weak, per wrapper for its commands, per unit for PID 1 and the switch
process. Losing a session and foreign switches have none.

### Flash

One screen, one worker, a set of disks. The screen's phases are the code's; a
keystroke that only edits a text field is left out, the entry is its outcome.
`Arm` reads the facts from the screen state again, as `arm` does. `RefreshDisks`
takes any listing of a given set: sizes right, unknown, or with one disk gone and
another in its place, so that the cursor, which is an index, may change disk.

The worker has one step per command: the backup is `OpenBackup` (which empties
the old one), `CopyBackup`, `SyncBackup`; the write has three chunks, so that it
can stop within the header (`"stub"`) or after it (`"torn"`); `DropWrites` is a
worn-out device that accepts and forgets; the grow is measured, moved, recreated,
re-read, settled, opened, resized and closed, and every command can fail.
`kernel` is what the kernel thinks of the partition, which may lag behind
`table`. `CtrlC` kills the process anywhere; the next one starts with the disks
and mappings as they were left.

Fairness: weak on the worker thread and on the drain; none on keys.

### Build

Several processes share the script link, the image and the sticks; the secret
files of each carry its pid. Each error branch of the pipeline returns through
the guards created so far (`Return`). Two places have none yet: the write of a
secret, and the permissions of the key directory. `Quit` is Ctrl+C or the menu;
a `nix build` or an image script that was running goes on as a ghost and ends
when it likes. An image is what a user can tell of it: which passphrase opens it,
which one logs in, its size, whether it is whole. `contended` remembers that
something else wrote link, image or stick during a build.

"Build & flash" keeps of its target what the code keeps: a name (`picked`) and the
size measured when it was picked (`ask`). Which disk is behind a name is `plugged`,
and `Plug` pulls one or gives its name to another at any time. `Flash` writes to
whatever is under the name then. `meant` is history: the disk that was measured,
while it has stayed where it was.

### DevReader and Verify

`DevReader` is the arithmetic of `SudoReader`: position, block-aligned cache,
direct reads from one block on, short reads. A device is a function from offsets.
`Verify` runs the worker over it: a target has a cell for its partition table,
one for its ESP, one for its store header, then data. `ReadDevice` and
`ReadImage` are the two `read_exact`s of a chunk. Disks are pulled (`Pull`) and
the image is rebuilt (`Rebuild`) between any two steps; `disturbed` remembers it,
as it remembers an I/O error. Fairness as for `Flash`.

### Storage

The modules of nixnas are declarations: which unit wants which, which is after
which, and which wait has a limit. Each of those is a definition of its own here
(`Chain` and `MayStart`, `Limited`, `MountLimited`, `ImportMayStart`,
`UnlockUnits`, `RaisedAtBoot`, `ImportAfter`), and the actions are what systemd,
zpool and the operator do under them. `mode` is usb, hot on a device, or hot on a
zfs dataset. `unit` is the cryptsetup unit of each member: `"off"`, `"queued"` (it
has a job that waits for its disk or its turn), `"asking"`, `"open"`, `"failed"`. A
wait with a limit is an action that may fire at any time (`DeviceTimesOut`,
`PollGivesUp`), a disk appears at any time or never, so no property depends on
how 45 s compares with a human.

`after` binds a member only to the one before it and only while that has a job,
as in systemd. A data member that is dropped for its disk goes back to `"off"`, not
to `"failed"`. At `SwitchRoot` whatever the initrd was still opening is dropped.
`nixnas-unlock` is `RunUnlock` (`Raised`: what is up or has a job keeps it),
questions and answers while it runs, and `ReportUnlock` when it sees no job;
`Disconnect` takes the terminal away and leaves the jobs. `ImportByHand` is an
operator who runs `zpool import` before a second try. An import succeeds when all
members of the pool are open, and not otherwise: degraded pools and pools last
used elsewhere are left out.

Fairness: weak on `Progress`, which is what units do by themselves plus a right
answer to a question that somebody reads. Nothing makes a disk appear, the
operator run `nixnas-unlock`, or the terminal stay.

### Session

A run is one build, flash or verification. `at` is where the main loop is in its
turn: `Drain` takes the events there are to the pane and to the log, `Flush` is
the flush of the turn and the frame drawn behind it, `NoKey` the poll. Lines are
counted: `sent` by the worker, `due` in the pane's buffer, `drawn` on the
screen, and how many a log has on disk; between flushes a `BufWriter` may have
spilled any part. `dir` is a sequence, because retention goes by the time a log was
written last. `Keep` lists the directory, of which it may miss any part
(`logging.rs:162-169` passes over what cannot be read), `RemoveOne` removes one log of
what is beyond `Retain` or of the session's own, or fails to and leaves it
(`logging.rs:151`, `178`), `Leave` appends the retention line if it can; others act in
between. `seen` and `newest` are histories for the property: the runs whose logs the
choice saw and could remove, and those of the newest `Retain` of the whole directory. A write may fail in `Drain` (which ends the log) and in `Flush` (which
nobody sees). `Kill` is Ctrl+C, whose exit drops and so flushes the writer, or a
signal, which does not: any part is on disk then. No fairness, only safety.

### Configure

`BeginSave` is `to_config`, the read and the merge; `OpenForWrite` the open
that truncates; `FinishWrite` and `WriteFails` what follows. A text stands for a
path, attribute or number; what a value becomes on its way is kept: blank, unset,
default and not-a-number (`FromConfig`, `ToConfig`, `Loads`). The browser has its
directory, the places of its listing that are shown and the row, and draws before
the next key (`Drawn`), which is where an index out of range is put right. Filter
and hidden names are abstracted to the places they show, which may be any
(`Shown`); a row counts those above it. yazi may pick anything (`PickYazi`): a file
for a directory is replaced by its parent, a directory for a file is not (section 4). The second instance does saves of any settings; `HandEdit` is
an editor. Two texts written over each other become either one or garbage
(`Lands`), a write that fails leaves a part of the text (`Part`). `hurt`
remembers such accidents, and a text read between another's truncation and write.
No fairness: every step is an operator's or may fail.

### Escrow

`pc` is the next command of a run of the script; every command succeeds, or fails
into the EXIT trap (`Fail`), or has a signal in front of it (`Interrupt`, `Kill`). One command's failure
does not reach errexit: the `$(cat "$keyfile")` within the arguments of jq
(`recovery-escrow.nix:106`), which would leave an item without a key; that read of a
file the script has just written is taken to succeed. `luksAddKey`
needs a free slot and is atomic; `create item` may succeed and lose its answer.
`RemakeHeader` is an image built or flashed again: no key opens it any longer.
All runs are for one host and one device. No fairness: a script nobody starts
again has no duty to succeed.

## 3. Passing runs

| Run | Instance | States | Shows |
|---|---|---|---|
| `switch_concurrent` | 2 invocations, modes switch and boot, 1 foreign start | 0.9 M | types; the flock keeps switches apart unless a lock file was removed under one; an invocation whose mode nobody else uses reports the truth |
| `switch_serial` | 2 invocations, modes switch and boot | 34 k | no EAGAIN, `Activation` is implemented, activations and followers end |
| `flash` | 2 disks (larger, smaller), 2 flashes | 190 k | types, honest success, own store, passphrase of the right disk, only the typed disk, backup first, it ends |
| `build` | 2 processes, 2 disks of different sizes under 1 name, 2 passphrases, 2 builds | 1.0 M | types, secrets gone, the image is the one asked for, Build & flash is of its own build, no image of two builds |
| `verify` | blocks of 2, chunks of 3, 7 disks, 3 images, 1 run, 1 change | 103 k | types, passes earned, no false alarm, it ends |
| `storage` | 2 boot-critical and 3 data members mixed in one chain, 2 pools (one striped), 2 tries, 2 runs of `nixnas-unlock` | 210 k | types, no lockout by delay, sealed until asked, pools follow members, final reports, boot and unlock end |
| `escrow` | 3 runs, 3 slots with the daily passphrase's | 1.4 M | done means recoverable, what was uploaded was enrolled, nothing left in clear |
| `session` | 2 sessions, 3 runs of one action in one second, a Done each and 1 event in all, 1 log kept, 2 names | 1.4 M | types and names, the log tells what the pane told, both exit choices |
| `configure` | a directory field, a file field and a number; 2 directories, 1 file; 1 edit by hand, a second instance, 1 foreign key | 1.9 M | types, saved is reloaded, foreign keys survive, the form is honest |

Bounds. Two invocations are the least that race; each has a unit of its own, and
a foreign switch with its orphan is the third party the lock clean-up is about.
The theorems hold for any number. Two flashes are a flash and its retry, on the
same disk or the other one, which is what leftovers and stale answers need. Two
builds make one build disturb another, within a process or between two, and behind
them no dialogue is gone through that could not build (`MayBuild`); one name
is enough, since what matters is that another disk gets it, larger or smaller. In
`verify` blocks and chunks are small enough that every read meets a block
boundary, the end of the device and a short last chunk; the disks are one for
each check that can fail, one larger and one smaller than the image. In `storage`
data members stand before, between and after those the store is on, and the
second run of `nixnas-unlock` meets members that are open, failed and dropped.
In `escrow` the third run is a retry that finds the header full or beside two
others. In `session` three runs are two of one session and one of the other, or a
name that is taken twice (`MaxSuffix` 2, so that the third finds none); the one event
besides the Dones (`MaxInAll`) may come in any of them; with
one log kept every keep has something to remove. In `configure` there is one field of each
kind that load, save and picker tell apart (a required directory, an optional
file, an optional number; the code's two other fields are texts, required and
optional), and the tree is the least in which a filter can hide the
selected row and a file stand below a directory that is asked for. Paths are
picked there and not typed, and the number is only ever blank or nonsense: words
that are typed and numbers that are valid are left to the theorems, which hold for
any.

`CHECK_DEADLOCK FALSE`: invocations, flashes, builds and verifications are
bounded, and a system in which all of them are over has stopped.

Symmetry is used only in runs without liveness.

## 4. Where the code and its words disagree

Each is a run TLC finds violated.

- `switch_overlap`: *"two activations cannot overlap"* (`switch.nix:27-28`). No orphan
  is needed. The probe of one invocation, `flock --nonblock`, holds the lock for a
  moment; a second invocation, of another mode, probes just then and finds it held,
  and its `pgrep` finds no switch. The first goes on and starts its unit, whose
  switch opens the lock file. The second removes that file by name; the first
  switch locks the deleted file, the second creates and locks a new one: two
  activations.
- `flash_grown`: *"partition + f2fs store grown to fill the device"*
  (`flash.rs:307`). The wait for the new size also ends on two samples of the
  old one.
- `build_secrets`: *"Zero + remove the secret temp files, regardless of success
  or failure"* (`build.rs:20`). A write that fails leaves the file, because the
  guard comes after it.

Eight more are what the models do, without a run of their own. The result file is
per mode, not per invocation, so of two invocations of one mode the second may
delete or answer for the first; `HonestWhenModeIsOwn` is what is left of
*"reports the HONEST outcome"* (`switch.nix:24`). The backup of a flash goes to
one fixed file, so a second flash replaces the copy that made the first one
*"recoverable"* (`flash.rs:246`). A truncated image ends a verification at the LUKS
header by an early return, although *"Only an unopenable target aborts"*
(`verify.rs:100`). A clean removes names, not *"exactly"* the files *"written THIS
session"* (`logging.rs:38`): a keep of a second session prunes a log of the first, a
third session begins the same action in the same second and `create_new` gives it
the name that is free again, and the clean of the first removes the log of the
third. With `RETAIN` 20 that takes as many newer logs within the second, or a clock
set back. It was found by the proof about `Session`, whose invariant was false
without this case, needs three sessions (the run `session` has two), and is the
`Robbed` of `ExitChoiceHolds`.

"Build & flash" flashes the image *"straight onto the SAME device"*
(`buildflash.rs:3-4`), but it keeps a name and a byte count (`buildflash.rs:323-337`)
and opens `/dev/<name>` after the build without measuring again
(`buildflash.rs:278-297`). The confirmation asks for that name once more. Another
stick that got the name during the build is written, and if it is large enough
reported as done; `FlowFlashesItsBuild` promises the disk only while it stayed plugged
in under its name (`meant`). A directory picked in yazi for a file field is taken as it
is: `apply_picked` looks only at fields for directories (`configure.rs:192-207`), so
`RightKind` is about these. An option that was put into the file as an empty text is in
force as such, although *"empty string = None"* (`configure.rs:83`) holds for the form:
it shows unset there and not "unsaved", and a save clears it; this is the exception in
`FormIsHonest`. And a clean or keep drops every error (`logging.rs:151`, `162-164`,
`169`, `178`): *"delete every file THIS session wrote"* (`logging.rs:146`) and the prune
*"to the newest"* hold for what could be listed and removed, and the operator is not
told of the rest.

## 5. Proofs

`SwitchProofs`, from the four assumptions about the constants of `Switch`:

- `TypeCorrect`: `Spec => []TypeOK`. `TypeInv` adds that a unit whose switch has
  ended has an outcome (`EndedHasOutcome`); without it the hook could write
  something that is no result. One step per action.
- `LockKeepsApart`: `Spec => []OverlapOnlyAfterSevering`, for any number of
  invocations, modes and foreign switches. The invariant `LockInv` says why the
  lock works: every open descriptor is an inode that exists (`InodesKnown`), two
  active switches never share an inode (`FlockExcludes`), and as long as nothing
  was severed a live switch has the inode the name leads to (`Attached`). Two
  active switches would then have one inode between them.
- `OwnModeIsHonest`: `Spec => []HonestWhenModeIsOwn`. Once an invocation has
  cleared it, the result file of its mode has nothing but what its own hook wrote
  (`ResultIsOwn`), because whoever else wrote or removed it would be of that mode;
  and an outcome comes only with the end of the switch (`InOrder`).
- `NoContentionAlone`: `SerialSpec => []NoSpuriousContention`. The three unit
  checks stay true while the script goes on (`UnitsAreChecked`), and past the probe
  the lock that will be taken is not the one an orphan has (`OrphanIsLeftBehind`).
- `SerialKeepsPromise`: `SerialSpec => KeepsPromise`, the serial use implements
  `Activation`. The steps of a script map to a stutter or to `Tell`
  (`ScriptTells`), those of a unit to a stutter, to `Activate` or to `Finish`
  (`UnitActivates`), the end of a foreign switch to one of its own (`ForeignStops`).
  `Activate` needs that nobody is at work, which is `LockInv` without a severed lock.

`VerifyProofs`, from the assumptions about targets, blocks and chunks. First the
device handle, from `Block > 0`:

- `ReadIsExact`: a read through either handle returns what is at its position and
  nothing past the end, at least a byte before it, and leaves the cache coherent,
  for all block sizes, devices, positions and requests. The lemmas follow the code:
  a refilled cache holds the block of the position (`BlockOf`, `RefilledIsCoherent`),
  a position in the cache is answered from it (`FromCacheIsExact`), a large read
  goes around it (`DirectIsExact`).
- `WindowStaysInside`: a read through the ESP window stays in it.

Then the verification, of any targets and images whose cells are numbered from 0
(`TargetsAssumption`), with chunks no smaller than a block:

- `VerifyPassIsEarned` (`PassIsEarned`) and `VerifyNoFalseAlarm` (`NoFalseAlarm`).
  While nothing disturbs it, at each check the list of issues is empty exactly when
  all that was looked at is good (`Findings`), and in the loop the position is where
  the count is and the two digests agree exactly when the cells so far do
  (`Hashing`, `ChunksAgree`). The last chunk, which is short, makes that the whole
  image or the whole target; a verdict is right when it is sent and while it is on
  the screen (`IsRight`). A digest is what went into it, so the loop needs no
  induction over its length.
- `VerifyTypes`.

`StorageProofs`, from disjoint members and pools that lie on data members: all
the invariants of the run `storage`, for any members, any order of them, any
pools and any number of tries and runs. They are proved together, as `IInv`,
whose parts are the reasons:

- `SlowIsNotLockedOut` (`NoLockout`): before the host is up no boot-critical
  member is ever dropped (`CriticalKept`, from `Limited`), and the import polls
  only when none of them is on its way (`PollWaited`, from `ImportMayStart`); so
  a poll or a mount that fails found a failed member.
- `StaysSealed` (`SealedUntilAsked`): nothing touches a data member of usb mode
  until there was a run (`Untouched`), and before the host is up there is none
  (`NothingYet`).
- `OpenPoolsAreImported` (`PoolsFollowMembers`): an import failed when no data
  member was on its way and one was missing, and no member moves again without a
  run that queues the import too (`ImportsKnow`, `HotOpensEarly`); the target
  pulls every import (`TargetPulls`).
- `ReportStands` (`ReportIsFinal`): every step of a unit or of the target needs
  a job, and the loop saw none (`ReportHolds`).
- `TypeCorrect`, with the tries a pending unit has left (`TriesLeft`).

`FlashProofs`, from the assumptions about sizes in `Flash`: all the safety
properties of the run `flash`, for any disks, listings, passphrases and number of
flashes. `IInv` has a part for the types, one for the worker and one for the
dialogue:

- `SuccessIsHonest`, `GrowIsItsOwn`: what the worker knows of its target at each
  command (`ProgressIsTrue`, `WorkerIsShown`), so that a disk which was pulled,
  replaced or torn cannot reach the verdict.
- `PassphraseIsForTarget`: the passphrase on the screen belongs to the selected
  disk once it has been given (`PassIsForSelected`), over every Esc.
- `OthersAreKept`, `BackupComesFirst`: action properties. Only the worker writes,
  and it works on the disk whose name was typed (`WorkerIsOnTyped`), after a
  backup that is as long as the disk (`BackupGrows`).
- `TypeCorrect`.

`BuildProofs`, from the assumptions about sizes and special values in `Build`: all the properties of
the run `build`, for any number of processes, disks, passphrases and builds. What
the processes share is link, image and sticks, so the proof has two halves: a step
of another process or of an orphaned command is `Elsewhere`, which changes those
under a busy screen only if `contended` says so and keeps every part of the
invariant (`ElsewhereKeeps`); and a step of the process itself keeps its own `Inv`.

- `SecretsAreGone` (`SecretsGoneWhenReported`): a secret without a guard belongs to
  the step that is writing it (`Guarded`), and a pipeline lives only under its
  screen (`WorkerIsShown`).
- `ImageIsAsked` (`ImageIsTheOneAsked`): while nobody else wrote, the link and later
  the script have the size asked for (`Own`), and the secrets the script reads are
  those of this build (`Prepared`).
- `FlowIsItsBuild` (`FlowFlashesItsBuild`): as long as the measured disk stays under
  the picked name, the size asked for is its size, over every way through the
  screens (`Gathered`, `Targeted`), and the flash is onto that disk (`Flashed`).
- `ImagesAreOfOneBuild` (`NoMixedImage`): a complete console hash lies beside the
  passphrase file it was derived with, whatever died over them (`Paired`), because
  no passphrase file is created over an old one (`create_new`). It needs that no
  passphrase is the word for an absent or partial file (`NoPassphraseIsAState`).
- `TypeCorrect`.

`SessionProofs`, from the three assumptions of `Session`, for any number of
sessions, actions, runs and events. The directory is a sequence in the order of the
last write; the first lemmas say what each operation does to the pairs of name and
run in it and to their lines (`WrittenIs`, `WithoutIs`, `AppendedIs`), and the rest
never looks at a position again.

- `LogAndPaneAgree` (`LogTellsThePane`): a log has no more lines than the pane got
  and no fewer than were drawn, and all of them when it is closed (`LogIsSound`); a
  run whose log is gone has somebody who removed it (`RunIsSound`).
- `ExitKeepsItsWord` (`ExitChoiceHolds`): a session knows the names of all its logs
  (`FilesAreKnown`), and these names are its own as long as nobody has removed one
  of them (`CleanIsHonest`; that condition is the case of section 4). Of its own logs
  that could be removed a clean has the rest still on its list (`CleanIsComplete`).
  Of what a keep listed, no more than `Retain` that it could remove are off its list
  (`Left`, `KeepCounts`), and the newest of the directory never are on it, nor gone
  unless another session removed them (`NewestIsSafe`): missing entries only make
  the cut smaller.
- `SessionTypes`: with the names, and the one writer of a run on the screen.

`ConfigureProofs`, from the assumptions about fields, entries, special values, the
tree of directories, and texts of the right kind in path fields:

- `ConfigureTypes` (`TypeOK`): whatever is typed, picked, loaded or merged has its
  field's type (`Value`), in a field for a directory it is no file (`RightKind`, from
  `TypedAssumption` about what is typed), and each key leaves a browser whose row is
  drawn (`BrowseKeeps`).

- `SavedIsRead` (`SavedIsReloaded`): a merged text loads as the settings merged
  into it (`MergedLoads`), whatever the file held; a cleared option because its
  key is taken out. The draft of a save is such a text (`DraftIsForm`).
- `ForeignKeysAreKept` (`ForeignKeysSurvive`): a draft carries the foreign keys of
  the file it was made from (`DraftsCarry`), and between that and the write nobody
  else wrote unless `hurt` says so.
- `FormTellsSettings` (`FormIsHonest`): form and settings agree but for blanks
  (`RoundTrip`), and there are none in what a save has reported (`SavedHasNoBlanks`).

`EscrowProofs`, from the two assumptions of `Escrow`, for any number of
interleaved runs: `DoneIsRecoverable`, `VaultIsEnrolled`, `NothingIsLeft` and
`TypeCorrect`. The invariant follows the script: what is past `slot` is enrolled
(`Enrolled`), what is past `cat` is in the file unless another run took it
(`WrittenOut`), whoever is done has uploaded what was to be (`Uploaded`), and what is in
the vault was enrolled before (`UploadedWereEnrolled` itself).

Only model-checked: liveness (`FlashEnds`, `VerifyEnds`, `BootEnds`, `UnlockEnds`,
`ActivationFinishes`, `FollowerReturns`), since the prover has neither ENABLED nor
fairness. Every other property of a passing run is a theorem too. The type
correctness of `Escrow` is only a theorem (`TypeCorrect`): it holds for every instance,
so no run repeats it. The properties
of the runs that are violated have none, of course.

## 6. Not modelled

Drawing, log panes, the build's checklist, scrolling and the menu cursor; text parsing of lsblk and sgdisk (its outcomes are
modelled); zeroization of memory; the NixOS modules that only declare options.
Of `Storage`: how often the passphrase is asked for (systemd-ask-password shares
an answer between open questions, and `Forget` lets the keyring lose it), which
failed units systemd lists, evaluation-time assertions and mount options.
Of external programs (systemd, flock, switch-to-configuration, nix, cryptsetup,
the kernel) only what this code relies on. A failed write of the result hook, of
a secret, a log, the settings or of a disk is modelled; a power cut that loses
what the kernel had accepted is not, since no part of this code recovers from one.
The stick layout, the persistence modules and the appliance base are options and
assertions evaluated before anything runs. Two short scripts in them run once and
alone: the machine id is made when its file is empty (`identity.nix`), and the
blocks of a new image are released (`f2fs-release-cblocks.nix`); neither runs
beside anything else.

## 7. Plan

1. *Done*: `Switch` with `Activation`, `Flash`, `Build`, `DevReader`, `Verify`,
   `Storage`, `Session`, `Configure`, `Escrow`; theorems about each of them, one for
   every safety property of a passing run; the serial use of `Switch` implements
   `Activation`.
2. Abstract specifications of the escrow (a key is enrolled, then told, then
   reported) and of the storage target (raised, settled, reported), with proofs that
   the detailed ones implement them.
3. Action properties of the session logs: what a step of one session may do to the
   logs of another.
