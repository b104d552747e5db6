------------------------------ MODULE Storage -------------------------------
(***************************************************************************)
(* STORAGE: one boot of a host, from the initrd that opens the store to    *)
(* the data pools (modules/boot/disk.nix, modules/store/location.nix,      *)
(* modules/storage/connect.nix).                                           *)
(*                                                                         *)
(* In usb mode the initrd opens the stick, and nixnas-unlock opens the     *)
(* data members later.  In hot mode the initrd opens every member in one   *)
(* chain, and the storage target only imports.  The modules of nixnas say  *)
(* which unit waits for which and which wait has a limit; systemd and      *)
(* zpool do the work and are modelled as far as those options govern them. *)
(* A limit is an action that may fire at any time of the wait, so nothing  *)
(* depends on how long the operator or a disk takes.                       *)
(***************************************************************************)
EXTENDS FiniteSets, Naturals, Sequences, SequencesExt

CONSTANTS
  Stick,          \* the store partition of the stick, "cryptstore"
  Critical,       \* hot.unlock and root.unlock
  Data,           \* storage.unlock
  Order,          \* attrNames: the members of hot mode, sorted
  Needs,          \* for each of storage.zfsPools, the members it lies on
  MaxTries,       \* passphrases systemd-cryptsetup takes before it fails
  MaxUnlocks      \* bound: runs of nixnas-unlock

Pools == DOMAIN Needs
Members == {Stick} \cup Critical \cup Data

ASSUME MembersAssumption ==
  Critical \cap Data = {} /\ Stick \notin Critical \cup Data
ASSUME OrderAssumption ==
  IsInjective(Order) /\ ToSet(Order) = Critical \cup Data
ASSUME NeedsAssumption == \A p \in Pools: Needs[p] \subseteq Data
ASSUME TriesAssumption == MaxTries \in Nat \ {0} /\ MaxUnlocks \in Nat

VARIABLES
  mode,         \* store.location, and whether the hot store is a zfs dataset
  boot,         \* where the boot stands
  present,      \* disks that udev has shown
  unit,         \* systemd-cryptsetup@<m>, for each member
  tries,        \* wrong passphrases it has taken
  cache,        \* whose passphrase the kernel keyring holds
  poll,         \* the initrd's import of the store pool
  target,       \* nixnas-storage.target
  import,       \* nixnas-import-<p>, for each pool
  imported,     \* data pools that are imported
  tool,         \* nixnas-unlock
  report,       \* the units it listed as failed
  unlocks       \* its runs so far

initrdVars == <<boot, poll>>
memberVars == <<unit, tries, cache>>
poolVars == <<import, imported>>
toolVars == <<tool, report, unlocks>>
vars == <<mode, initrdVars, present, memberVars, target, poolVars, toolVars>>

Hot == mode # "usb"
Opened == {m \in Members: unit[m] = "open"}
Pending(m) == unit[m] \in {"queued", "asking"}

\* What the initrd cannot do without.
BootCritical == IF Hot THEN Critical ELSE {Stick}

\* The order in which members are opened here: the data members of hot mode are
\* in the initrd's chain, those of usb mode are in a chain of their own.
Chain ==
  IF boot # "initrd" THEN SelectSeq(Order, LAMBDA m: m \in Data)
  ELSE IF Hot THEN Order ELSE <<Stick>>

\* after: only the member just before it, and only if it has a job.
MayStart(m) ==
  \A i \in 2..Len(Chain): Chain[i] = m => ~Pending(Chain[i - 1])

\* Mutant: data members are made boot-critical too.
Limited_None == {}

\* The disks the wait for which has a limit: not the boot-critical ones.
Limited == Data

\* The stick has a passphrase of its own.
Key(m) == IF m = Stick THEN "stick" ELSE "data"

\* crypttab's nofail, and the targets want units and do not require them: a
\* target waits for them and takes any outcome.
Settled(members) == \A m \in members: ~Pending(m)
ImportsSettled == \A p \in Pools: import[p] # "queued"

\* Mutant: the loop looks for the job of the target only.
JobsListed_Target == target = "starting"

\* Mutant: the loop waits for the pools to be up.
JobsListed_Up ==
  \/ target = "starting"
  \/ \E p \in Pools: import[p] # "active"

\* What nixnas-unlock looks for in the list of jobs.
JobsListed ==
  \/ target = "starting"
  \/ ~Settled(Members)
  \/ ~ImportsSettled

FailedUnits ==
  {m \in Members: unit[m] = "failed"} \cup {p \in Pools: import[p] = "failed"}

Init ==
  /\ mode \in {"usb", "hot", "hotZfs"}
  /\ boot = "initrd" /\ poll = "off"
  /\ present = {}
  /\ unit = [m \in Members |->
              IF m \in (IF mode = "usb" THEN {Stick} ELSE Critical \cup Data)
              THEN "queued" ELSE "off"]
  /\ tries = [m \in Members |-> 0]
  /\ cache = "none"
  /\ target = "off"
  /\ import = [p \in Pools |-> "off"] /\ imported = {}
  /\ tool = "off" /\ report = {} /\ unlocks = 0

-----------------------------------------------------------------------------
\* Disks and members.

\* A disk spins up, whenever it does.
Appear(m) ==
  /\ m \notin present
  /\ present' = present \cup {m}
  /\ UNCHANGED <<mode, initrdVars, memberVars, target, poolVars, toolVars>>

\* systemd-cryptsetup runs: with the passphrase from the keyring if that opens
\* the member, otherwise it asks.
StartMember(m) ==
  /\ boot # "emergency"
  /\ unit[m] = "queued" /\ m \in present /\ MayStart(m)
  /\ unit' = [unit EXCEPT ![m] = IF cache = Key(m) THEN "open" ELSE "asking"]
  /\ UNCHANGED <<mode, initrdVars, present, tries, cache, target, poolVars,
                 toolVars>>

\* The wait for the disk of a member reaches its limit: the start is dropped and
\* the unit is as if never started, not failed.
DeviceTimesOut(m) ==
  /\ boot # "emergency"
  /\ m \in Limited
  /\ unit[m] = "queued" /\ m \notin present
  /\ unit' = [unit EXCEPT ![m] = "off"]
  /\ UNCHANGED <<mode, initrdVars, present, tries, cache, target, poolVars,
                 toolVars>>

\* A member that asks is told when the answer to another gets into the keyring.
TakeCached(m) ==
  /\ boot # "emergency"
  /\ unit[m] = "asking" /\ cache = Key(m)
  /\ unit' = [unit EXCEPT ![m] = "open"]
  /\ UNCHANGED <<mode, initrdVars, present, tries, cache, target, poolVars,
                 toolVars>>

\* Somebody reads the question: on the console or over ssh in the initrd, where
\* nixnas-unlock runs later on.
Heard == boot = "initrd" \/ (boot = "up" /\ tool = "waiting")

AnswerRight(m) ==
  /\ Heard
  /\ unit[m] = "asking"
  /\ unit' = [unit EXCEPT ![m] = "open"]
  /\ cache' = Key(m)
  /\ UNCHANGED <<mode, initrdVars, present, tries, target, poolVars, toolVars>>

AnswerWrong(m) ==
  /\ Heard
  /\ unit[m] = "asking"
  /\ tries' = [tries EXCEPT ![m] = @ + 1]
  /\ unit' = [unit EXCEPT ![m] = IF tries'[m] = MaxTries THEN "failed" ELSE @]
  /\ UNCHANGED <<mode, initrdVars, present, cache, target, poolVars, toolVars>>

\* The keyring forgets after a while.
Forget ==
  /\ cache # "none"
  /\ cache' = "none"
  /\ UNCHANGED <<mode, initrdVars, present, unit, tries, target, poolVars,
                 toolVars>>

-----------------------------------------------------------------------------
\* The initrd.

StoreOpen == BootCritical \subseteq Opened

\* cryptsetup.target waits for the members that are not nofail.
CryptsetupTarget == Settled(BootCritical)

\* Mutant: the import is not ordered after cryptsetup.target.
ImportMayStart_AtOnce == TRUE

\* zfs-import-<pool>: after cryptsetup.target it polls for the pool, and gives up
\* after 60 polls.
ImportMayStart == CryptsetupTarget

StartPoll ==
  /\ boot = "initrd" /\ mode = "hotZfs" /\ poll = "off"
  /\ ImportMayStart
  /\ poll' = "polling"
  /\ UNCHANGED <<mode, boot, present, memberVars, target, poolVars, toolVars>>

PollFinds ==
  /\ boot = "initrd" /\ poll = "polling"
  /\ StoreOpen
  /\ poll' = "imported"
  /\ UNCHANGED <<mode, boot, present, memberVars, target, poolVars, toolVars>>

PollGivesUp ==
  /\ boot = "initrd" /\ poll = "polling"
  /\ ~StoreOpen
  /\ boot' = "emergency"
  /\ UNCHANGED <<mode, poll, present, memberVars, target, poolVars, toolVars>>

\* x-systemd.device-timeout=0: the mounts wait for their mapper without a limit.
MountLimited == FALSE

\* A store on a device is mounted when its mappers are there.  The mount is lost
\* with any of them, and when its own wait for one has a limit.
MountLost ==
  \E m \in BootCritical:
    unit[m] \in {"off", "failed"} \/ (MountLimited /\ unit[m] # "open")

MountFails ==
  /\ boot = "initrd" /\ mode # "hotZfs"
  /\ MountLost
  /\ boot' = "emergency"
  /\ UNCHANGED <<mode, poll, present, memberVars, target, poolVars, toolVars>>

\* The members the target wants and is after.
UnlockUnits == IF Hot THEN {} ELSE Data

\* Mutant: a unit that is started again keeps its count of tries.
Raised_KeepsTries ==
  /\ target' = IF target = "active" THEN "active" ELSE "starting"
  /\ unit' = [m \in Members |->
       IF m \in UnlockUnits /\ unit[m] \in {"off", "failed"} THEN "queued"
       ELSE unit[m]]
  /\ tries' = tries
  /\ import' = [p \in Pools |->
       IF import[p] = "active" THEN "active" ELSE "queued"]

\* systemctl start: what is up or has a job keeps it, the rest gets a job.
Raised ==
  /\ target' = IF target = "active" THEN "active" ELSE "starting"
  /\ unit' = [m \in Members |->
       IF m \in UnlockUnits /\ unit[m] \in {"off", "failed"} THEN "queued"
       ELSE unit[m]]
  /\ tries' = [m \in Members |->
       IF m \in UnlockUnits /\ unit[m] \in {"off", "failed"} THEN 0
       ELSE tries[m]]
  /\ import' = [p \in Pools |->
       IF import[p] = "active" THEN "active" ELSE "queued"]

\* Mutant: the target is raised at boot in both modes.
RaisedAtBoot_Always == TRUE

\* wantedBy: multi-user.target, in hot mode.
RaisedAtBoot == Hot

\* / and /nix are mounted and the root is switched.  Nothing waits for the data
\* members, and what the initrd has not opened by then it will not open.
SwitchRoot ==
  /\ boot = "initrd"
  /\ StoreOpen /\ (mode = "hotZfs" => poll = "imported")
  /\ boot' = "up"
  /\ LET left == [m \in Members |-> IF Pending(m) THEN "off" ELSE unit[m]]
     IN IF RaisedAtBoot
        THEN /\ target' = "starting"
             /\ unit' = [m \in Members |->
                  IF m \in UnlockUnits /\ left[m] # "open" THEN "queued"
                  ELSE left[m]]
             /\ import' = [p \in Pools |-> "queued"]
        ELSE unit' = left /\ UNCHANGED <<target, import>>
  /\ tries' = [m \in Members |-> 0]
  /\ UNCHANGED <<mode, poll, present, cache, imported, toolVars>>

-----------------------------------------------------------------------------
\* The storage target.

\* Mutant: the import is not ordered after the unlock units.
ImportAfter_Nothing(p) == TRUE

\* after: the unlock units, in usb mode.
ImportAfter(p) == Settled(UnlockUnits)

\* The script of nixnas-import-<p>: nothing to do, or a scan of the mappers.
RunImport(p) ==
  /\ boot = "up" /\ import[p] = "queued"
  /\ ImportAfter(p)
  /\ LET up == p \in imported \/ Needs[p] \subseteq Opened
     IN /\ import' = [import EXCEPT ![p] = IF up THEN "active" ELSE "failed"]
        /\ imported' = IF up THEN imported \cup {p} ELSE imported
  /\ UNCHANGED <<mode, initrdVars, present, memberVars, target, toolVars>>

\* The operator imports a pool by hand.
ImportByHand(p) ==
  /\ boot = "up" /\ p \notin imported
  /\ Needs[p] \subseteq Opened
  /\ imported' = imported \cup {p}
  /\ UNCHANGED <<mode, initrdVars, present, memberVars, target, import,
                 toolVars>>

TargetReached ==
  /\ target = "starting"
  /\ Settled(UnlockUnits) /\ ImportsSettled
  /\ target' = "active"
  /\ UNCHANGED <<mode, initrdVars, present, memberVars, poolVars, toolVars>>

-----------------------------------------------------------------------------
\* nixnas-unlock.

\* systemctl start --no-block, then the loop.
RunUnlock ==
  /\ boot = "up" /\ tool # "waiting" /\ unlocks < MaxUnlocks
  /\ tool' = "waiting" /\ unlocks' = unlocks + 1
  /\ Raised
  /\ UNCHANGED <<mode, initrdVars, present, cache, imported, report>>

\* The loop finds no job left, and the failed units are listed.
ReportUnlock ==
  /\ tool = "waiting"
  /\ ~JobsListed
  /\ tool' = "done" /\ report' = FailedUnits
  /\ UNCHANGED <<mode, initrdVars, present, memberVars, target, poolVars,
                 unlocks>>

\* The terminal goes away.  The jobs stay, and so do the questions.
Disconnect ==
  /\ tool = "waiting"
  /\ tool' = "off"
  /\ UNCHANGED <<mode, initrdVars, present, memberVars, target, poolVars,
                 report, unlocks>>

-----------------------------------------------------------------------------
InitrdStep ==
  StartPoll \/ PollFinds \/ PollGivesUp \/ MountFails \/ SwitchRoot

MemberStep(m) ==
  StartMember(m) \/ TakeCached(m) \/ DeviceTimesOut(m) \/ AnswerRight(m)

\* What happens of itself, once somebody listens.
Progress ==
  \/ InitrdStep
  \/ \E m \in Members: MemberStep(m)
  \/ \E p \in Pools: RunImport(p)
  \/ TargetReached
  \/ ReportUnlock

Next ==
  \/ Progress
  \/ \E m \in Members: Appear(m) \/ AnswerWrong(m)
  \/ Forget
  \/ \E p \in Pools: ImportByHand(p)
  \/ RunUnlock \/ Disconnect

\* Units run, limits are kept, and a question that somebody reads gets an answer
\* in the end.  Nothing makes a disk appear, the operator come, or the terminal go
\* away.
Spec == Init /\ [][Next]_vars /\ WF_vars(Progress)

-----------------------------------------------------------------------------
\* Every variable keeps its type.
TypeOK ==
  /\ mode \in {"usb", "hot", "hotZfs"}
  /\ boot \in {"initrd", "up", "emergency"}
  /\ present \subseteq Members
  /\ unit \in [Members -> {"off", "queued", "asking", "open", "failed"}]
  /\ tries \in [Members -> 0..MaxTries]
  /\ cache \in {"none", "stick", "data"}
  /\ poll \in {"off", "polling", "imported"}
  /\ target \in {"off", "starting", "active"}
  /\ import \in [Pools -> {"off", "queued", "active", "failed"}]
  /\ imported \subseteq Pools
  /\ tool \in {"off", "waiting", "done"}
  /\ report \subseteq Members \cup Pools
  /\ unlocks \in 0..MaxUnlocks

\* A slow disk or a slow operator never locks the host out: the boot ends in the
\* emergency shell only when a member it cannot do without took MaxTries wrong
\* passphrases (disk.nix 53-90, location.nix 291-297).
NoLockout ==
  boot = "emergency" => \E m \in BootCritical: unit[m] = "failed"

\* In usb mode nothing opens or even starts a data member before the operator ran
\* nixnas-unlock (connect.nix 6-9, 107-115).
SealedUntilAsked ==
  ~Hot /\ unlocks = 0 => Settled(Data) /\ Data \cap Opened = {}

\* When everything has settled, every pool that was asked for and whose members
\* are open is imported: no import ran before its members (connect.nix 130).
PoolsFollowMembers ==
  boot = "up" /\ target = "active" /\ ~JobsListed =>
    \A p \in Pools: Needs[p] \subseteq Opened => p \in imported

\* What nixnas-unlock listed is how things still stand: it did not report while a
\* member or a pool was on its way, also not on a second run, when the target has
\* no job of its own (connect.nix 58-80).
ReportIsFinal == tool = "done" => report = FailedUnits

\* When the disks the store is on have appeared, the initrd comes to an end: a
\* dead archive in the chain cannot hold it up (location.nix 238-249).
BootEnds ==
  boot = "initrd" /\ BootCritical \subseteq present ~> boot # "initrd"

\* A run of nixnas-unlock that keeps its terminal ends, whatever is missing.
UnlockEnds == tool = "waiting" ~> tool # "waiting"

=============================================================================
