------------------------------- MODULE Switch -------------------------------
(***************************************************************************)
(* nixnas-switch (modules/appliance/switch.nix): any number of concurrent  *)
(* invocations of the wrapper script, the transient systemd units they     *)
(* start (named for the mode, so at most one is loaded per mode), the      *)
(* switch-to-configuration process each unit runs, the flock that process  *)
(* takes on /run/nixos/switch-to-configuration.lock, and the result file   *)
(* /run/nixnas/switch-<mode>.result the unit's ExecStopPost hook writes.   *)
(*                                                                         *)
(* The lock is on an inode, not on a name.  lockPath is the inode the name *)
(* leads to now (0: no such file); fd[w] and foreignFd are the inodes that *)
(* processes have open.  Deleting the file leaves open descriptors alone,  *)
(* and the next switch creates another inode.                              *)
(*                                                                         *)
(* A switch-to-configuration process that this tool did not start (a       *)
(* nixos-rebuild over SSH, the nightly system.autoUpgrade) is "foreign":   *)
(* it takes the same lock, and when killed it may leave an orphaned child  *)
(* that still holds the descriptor.                                        *)
(***************************************************************************)
EXTENDS Naturals

CONSTANTS
  Wrappers,     \* invocations of nixnas-switch
  Args,         \* the mode arguments they may be given
  Nobody,       \* no unit of that name is loaded
  Foreign,      \* the switch process started by something else
  MaxForeign    \* bound: how many foreign switches start after the first state

Modes == {"switch", "boot", "test"}

ASSUME ArgsAssumption == Args \subseteq Modes
ASSUME NobodyAssumption == Nobody \notin Wrappers
ASSUME ForeignAssumption == Foreign \notin Wrappers
ASSUME MaxForeignAssumption == MaxForeign \in Nat

VARIABLES
  mode,         \* the mode argument of each invocation
  pc,           \* where each invocation of the script is
  exit,         \* what it told its caller when it exited
  unit,         \* mode -> the invocation whose unit is loaded under that name
  job,          \* the life of the unit an invocation started
  outcome,      \* how its switch-to-configuration ended
  result,       \* mode -> contents of the result file
  lockPath,     \* inode behind the lock's name, 0 when there is no file
  inodes,       \* inodes created for the lock so far
  fd,           \* inode open in the switch process of an invocation's unit
  probe,        \* inode an invocation's flock(1) probe has locked, or 0
  foreign,      \* "absent", "alive", or "orphan": killed, a child has the lock
  foreignFd,    \* inode it locked
  foreignRuns,  \* foreign switches started so far
  severed       \* history: a wrapper deleted the lock file of a live switch

wrapperVars == <<mode, pc, exit, probe>>
unitVars == <<unit, job, outcome, fd>>
foreignVars == <<foreign, foreignFd, foreignRuns>>
lockVars == <<lockPath, inodes, severed>>
vars == <<wrapperVars, unitVars, result, lockVars, foreignVars>>

Outcomes == {"success", "failed", "eagain"}

Following == {"follow", "loadstate", "grace"}
Running == {"checkSwitch", "checkBoot", "checkTest", "probe", "unprobe",
            "pgrep", "clean", "clear", "start", "report"} \cup Following

\* The unit is known to systemd under its name.
LoadedJobs == {"queued", "alive", "opened", "active", "ended", "posting",
               "posted"}
\* Its switch-to-configuration process exists: pgrep would list it.
AliveJobs == {"alive", "opened", "active"}

TypeOK ==
  /\ mode \in [Wrappers -> Modes]
  /\ pc \in [Wrappers -> {"idle", "exited"} \cup Running]
  /\ exit \in [Wrappers -> Outcomes \cup
                 {"none", "refused", "noresult", "detached", "died"}]
  /\ unit \in [Modes -> Wrappers \cup {Nobody}]
  /\ job \in [Wrappers -> {"none", "gone"} \cup LoadedJobs]
  /\ outcome \in [Wrappers -> Outcomes \cup {"none"}]
  /\ result \in [Modes -> Outcomes \cup {"absent", "empty"}]
  /\ lockPath \in Nat
  /\ inodes \in Nat
  /\ fd \in [Wrappers -> Nat]
  /\ probe \in [Wrappers -> Nat]
  /\ foreign \in {"absent", "alive", "orphan"}
  /\ foreignFd \in Nat
  /\ foreignRuns \in 0..MaxForeign
  /\ severed \in BOOLEAN

\* A flock is held on inode i by a switch, by an orphan, or by a probe.
Locked(i) ==
  /\ i # 0
  /\ \/ \E w \in Wrappers : job[w] = "active" /\ fd[w] = i
     \/ \E w \in Wrappers : probe[w] = i
     \/ foreign # "absent" /\ foreignFd = i

SwitchAlive ==
  \/ \E w \in Wrappers : job[w] \in AliveJobs
  \/ foreign = "alive"

\* [ -s result ]
HasResult(m) == result[m] \in Outcomes

Init ==
  /\ mode = [w \in Wrappers |-> "switch"]
  /\ pc = [w \in Wrappers |-> "idle"]
  /\ exit = [w \in Wrappers |-> "none"]
  /\ unit = [m \in Modes |-> Nobody]
  /\ job = [w \in Wrappers |-> "none"]
  /\ outcome = [w \in Wrappers |-> "none"]
  \* a fresh boot, or one that has seen activations: their results and the
  \* lock file are still there, and a foreign switch may be running or may
  \* have left an orphan
  /\ \/ /\ result = [m \in Modes |-> "absent"]
        /\ foreign = "absent"
        /\ inodes = 0
     \/ /\ result = [m \in Modes |-> "success"]
        /\ foreign \in {"absent", "alive", "orphan"}
        /\ inodes = 1
  /\ lockPath = inodes
  /\ foreignFd = IF foreign = "absent" THEN 0 ELSE lockPath
  /\ fd = [w \in Wrappers |-> 0]
  /\ probe = [w \in Wrappers |-> 0]
  /\ foreignRuns = 0
  /\ severed = FALSE

-----------------------------------------------------------------------------
(* The wrapper script.                                                     *)

Goto(w, from, to) ==
  /\ pc[w] = from
  /\ pc' = [pc EXCEPT ![w] = to]

Exit(w, from, code) ==
  /\ Goto(w, from, "exited")
  /\ exit' = [exit EXCEPT ![w] = code]

\* Arguments are parsed and the target resolved to a system toplevel.
Begin(w) ==
  /\ Goto(w, "idle", "checkSwitch")
  /\ \E m \in Args : mode' = [mode EXCEPT ![w] = m]
  /\ UNCHANGED <<exit, probe, unitVars, result, lockVars, foreignVars>>

\* One round of "for m in switch boot test": a LoadState query per unit name.
CheckUnit(w, from, m, to) ==
  /\ \/ unit[m] = Nobody /\ Goto(w, from, to) /\ UNCHANGED exit
     \/ unit[m] # Nobody /\ Exit(w, from, "refused")
  /\ UNCHANGED <<mode, probe, unitVars, result, lockVars, foreignVars>>

CheckUnits(w) ==
  \/ CheckUnit(w, "checkSwitch", "switch", "checkBoot")
  \/ CheckUnit(w, "checkBoot", "boot", "checkTest")
  \/ CheckUnit(w, "checkTest", "test", "probe")

\* flock --nonblock "$lock" true: while true runs, the probe itself has the
\* lock.
ProbeLock(w) ==
  /\ \/ lockPath = 0 /\ Goto(w, "probe", "clear") /\ UNCHANGED probe
     \/ /\ lockPath # 0 /\ ~Locked(lockPath)
        /\ Goto(w, "probe", "unprobe")
        /\ probe' = [probe EXCEPT ![w] = lockPath]
     \/ /\ lockPath # 0 /\ Locked(lockPath)
        /\ Goto(w, "probe", "pgrep")
        /\ UNCHANGED probe
  /\ UNCHANGED <<mode, exit, unitVars, result, lockVars, foreignVars>>

ReleaseProbe(w) ==
  /\ Goto(w, "unprobe", "clear")
  /\ probe' = [probe EXCEPT ![w] = 0]
  /\ UNCHANGED <<mode, exit, unitVars, result, lockVars, foreignVars>>

Pgrep(w) ==
  /\ \/ SwitchAlive /\ Exit(w, "pgrep", "refused")
     \/ ~SwitchAlive /\ Goto(w, "pgrep", "clean") /\ UNCHANGED exit
  /\ UNCHANGED <<mode, probe, unitVars, result, lockVars, foreignVars>>

\* Inode i is open in a switch process that is alive.
InUse(i) ==
  \/ \E w \in Wrappers : job[w] \in {"opened", "active"} /\ fd[w] = i
  \/ foreign = "alive" /\ foreignFd = i

\* Mutant: leave the stale lock file where it is.
RemoveLock_Skipped(w) ==
  /\ Goto(w, "clean", "clear")
  /\ UNCHANGED <<mode, exit, probe, unitVars, result, lockVars, foreignVars>>

\* rm -f -- "$lock": by name, whatever inode the name leads to by now.
RemoveLock(w) ==
  /\ Goto(w, "clean", "clear")
  /\ lockPath' = 0
  /\ severed' = (severed \/ (lockPath # 0 /\ InUse(lockPath)))
  /\ UNCHANGED <<mode, exit, probe, unitVars, result, inodes, foreignVars>>

\* Mutant: start without deleting the previous result.
ClearResult_Kept(w) ==
  /\ Goto(w, "clear", "start")
  /\ UNCHANGED <<mode, exit, probe, unitVars, result, lockVars, foreignVars>>

ClearResult(w) ==
  /\ Goto(w, "clear", "start")
  /\ result' = [result EXCEPT ![mode[w]] = "absent"]
  /\ UNCHANGED <<mode, exit, probe, unitVars, lockVars, foreignVars>>

\* systemd-run --no-block --unit=nixnas-switch-$mode: refused, and the script
\* ends under errexit, when a unit of that name is loaded.
StartUnit(w) ==
  /\ \/ /\ unit[mode[w]] # Nobody
        /\ Exit(w, "start", "refused")
        /\ UNCHANGED <<unit, job>>
     \/ /\ unit[mode[w]] = Nobody
        /\ Goto(w, "start", "follow")
        /\ unit' = [unit EXCEPT ![mode[w]] = w]
        /\ job' = [job EXCEPT ![w] = "queued"]
        /\ UNCHANGED exit
  /\ UNCHANGED <<mode, probe, outcome, fd, result, lockVars, foreignVars>>

\* while [ ! -s "$resfile" ]
TestResult(w) ==
  /\ \/ HasResult(mode[w]) /\ Goto(w, "follow", "report")
     \/ ~HasResult(mode[w]) /\ Goto(w, "follow", "loadstate")
  /\ UNCHANGED <<mode, exit, probe, unitVars, result, lockVars, foreignVars>>

\* Mutant: wait for the result only.
QueryLoadState_Ignored(w) ==
  /\ Goto(w, "loadstate", "follow")
  /\ UNCHANGED <<mode, exit, probe, unitVars, result, lockVars, foreignVars>>

QueryLoadState(w) ==
  /\ \/ unit[mode[w]] # Nobody /\ Goto(w, "loadstate", "follow")
     \/ unit[mode[w]] = Nobody /\ Goto(w, "loadstate", "grace")
  /\ UNCHANGED <<mode, exit, probe, unitVars, result, lockVars, foreignVars>>

\* Mutant: take a unit that has left for one that succeeded.
Recheck_Optimistic(w) ==
  /\ Exit(w, "grace", "success")
  /\ UNCHANGED <<mode, probe, unitVars, result, lockVars, foreignVars>>

\* A second after the unit was found gone, look at the result once more.
Recheck(w) ==
  /\ \/ HasResult(mode[w]) /\ Goto(w, "grace", "follow") /\ UNCHANGED exit
     \/ ~HasResult(mode[w]) /\ Exit(w, "grace", "noresult")
  /\ UNCHANGED <<mode, probe, unitVars, result, lockVars, foreignVars>>

\* read -r result status < "$resfile", then exit with that status.
Report(w) ==
  /\ Exit(w, "report",
          IF HasResult(mode[w]) THEN result[mode[w]] ELSE "noresult")
  /\ UNCHANGED <<mode, probe, unitVars, result, lockVars, foreignVars>>

\* Mutant: a blocking start, which ties the unit to the client.
LoseSession_Blocking(w) ==
  /\ pc[w] \in Running
  /\ Exit(w, pc[w], "died")
  /\ probe' = [probe EXCEPT ![w] = 0]
  /\ job' = [job EXCEPT ![w] = IF @ = "queued" THEN "none" ELSE @]
  /\ unit' = [m \in Modes |-> IF unit[m] = w /\ job[w] = "queued"
                              THEN Nobody ELSE unit[m]]
  /\ UNCHANGED <<mode, outcome, fd, result, lockVars, foreignVars>>

\* The session is lost (HUP) or interrupted: the script ends where it is.  A
\* running probe ends with it.  The unit belongs to PID 1 and does not notice.
LoseSession(w) ==
  /\ pc[w] \in Running
  /\ Exit(w, pc[w], IF pc[w] \in Following THEN "detached" ELSE "died")
  /\ probe' = [probe EXCEPT ![w] = 0]
  /\ UNCHANGED <<mode, unitVars, result, lockVars, foreignVars>>

WrapperStep(w) ==
  \/ CheckUnits(w) \/ ProbeLock(w) \/ ReleaseProbe(w) \/ Pgrep(w)
  \/ RemoveLock(w) \/ ClearResult(w) \/ StartUnit(w) \/ TestResult(w)
  \/ QueryLoadState(w) \/ Recheck(w) \/ Report(w)

-----------------------------------------------------------------------------
(* The unit of invocation w, run by PID 1.                                 *)

Advance(w, from, to) ==
  /\ job[w] = from
  /\ job' = [job EXCEPT ![w] = to]

Exec(w) ==
  /\ Advance(w, "queued", "alive")
  /\ UNCHANGED <<wrapperVars, unit, outcome, fd, result, lockVars,
                 foreignVars>>

\* open(lock, O_CREAT): a new inode when the name is gone.
OpenLock(w) ==
  /\ Advance(w, "alive", "opened")
  /\ inodes' = IF lockPath = 0 THEN inodes + 1 ELSE inodes
  /\ lockPath' = IF lockPath = 0 THEN inodes + 1 ELSE lockPath
  /\ fd' = [fd EXCEPT ![w] = lockPath']
  /\ UNCHANGED <<wrapperVars, unit, outcome, result, severed, foreignVars>>

\* Mutant: go on without the lock.
TakeLock_Ignored(w) ==
  /\ Advance(w, "opened", "active")
  /\ UNCHANGED <<wrapperVars, unit, outcome, fd, result, lockVars, foreignVars>>

\* flock(LOCK_EX | LOCK_NB): on contention the process exits with EAGAIN.
TakeLock(w) ==
  /\ \/ /\ ~Locked(fd[w])
        /\ Advance(w, "opened", "active")
        /\ UNCHANGED <<outcome, fd>>
     \/ /\ Locked(fd[w])
        /\ Advance(w, "opened", "ended")
        /\ outcome' = [outcome EXCEPT ![w] = "eagain"]
        /\ fd' = [fd EXCEPT ![w] = 0]
  /\ UNCHANGED <<wrapperVars, unit, result, lockVars, foreignVars>>

\* Mutant: a hook that finds no result in its environment.
EndSwitch_NoResult(w) ==
  /\ \E from \in AliveJobs : Advance(w, from, "ended")
  /\ fd' = [fd EXCEPT ![w] = 0]
  /\ UNCHANGED <<wrapperVars, unit, outcome, result, lockVars, foreignVars>>

\* The switch ends, or dies or cannot be executed, and its descriptors close.
EndSwitch(w) ==
  /\ \/ /\ Advance(w, "active", "ended")
        /\ \E o \in {"success", "failed"} :
             outcome' = [outcome EXCEPT ![w] = o]
     \/ /\ \E from \in {"queued", "alive", "opened"} :
             Advance(w, from, "ended")
        /\ outcome' = [outcome EXCEPT ![w] = "failed"]
  /\ fd' = [fd EXCEPT ![w] = 0]
  /\ UNCHANGED <<wrapperVars, unit, result, lockVars, foreignVars>>

\* ExecStopPost, first half: the redirection truncates or creates the file.
HookOpen(w) ==
  /\ Advance(w, "ended", "posting")
  /\ result' = [result EXCEPT ![mode[w]] = "empty"]
  /\ UNCHANGED <<wrapperVars, unit, outcome, fd, lockVars, foreignVars>>

\* Second half: printf writes the line.  Into a file deleted meanwhile it
\* writes in vain, and so it does when the write fails.
HookWrite(w) ==
  /\ Advance(w, "posting", "posted")
  /\ \/ /\ result[mode[w]] # "absent"
        /\ result' = [result EXCEPT ![mode[w]] = outcome[w]]
     \/ UNCHANGED result
  /\ UNCHANGED <<wrapperVars, unit, outcome, fd, lockVars, foreignVars>>

\* --collect: the unit is unloaded, failed or not.
Collect(w) ==
  /\ Advance(w, "posted", "gone")
  /\ unit' = [unit EXCEPT ![mode[w]] = Nobody]
  /\ UNCHANGED <<wrapperVars, outcome, fd, result, lockVars, foreignVars>>

UnitStep(w) ==
  \/ Exec(w) \/ OpenLock(w) \/ TakeLock(w) \/ EndSwitch(w)
  \/ HookOpen(w) \/ HookWrite(w) \/ Collect(w)

-----------------------------------------------------------------------------
(* Switches this tool did not start.                                       *)

ForeignStart ==
  /\ foreign = "absent"
  /\ foreignRuns < MaxForeign
  /\ ~Locked(lockPath)
  /\ inodes' = IF lockPath = 0 THEN inodes + 1 ELSE inodes
  /\ lockPath' = IF lockPath = 0 THEN inodes + 1 ELSE lockPath
  /\ foreign' = "alive"
  /\ foreignFd' = lockPath'
  /\ foreignRuns' = foreignRuns + 1
  /\ UNCHANGED <<wrapperVars, unitVars, result, severed>>

ForeignKilled ==
  /\ foreign = "alive"
  /\ foreign' = "orphan"
  /\ UNCHANGED <<wrapperVars, unitVars, result, lockVars, foreignFd,
                 foreignRuns>>

\* The process, or the last orphan, ends and the descriptor closes.
ForeignEnd ==
  /\ foreign # "absent"
  /\ foreign' = "absent"
  /\ foreignFd' = 0
  /\ UNCHANGED <<wrapperVars, unitVars, result, lockVars, foreignRuns>>

-----------------------------------------------------------------------------

Next ==
  \/ \E w \in Wrappers : Begin(w) \/ WrapperStep(w) \/ LoseSession(w)
  \/ \E w \in Wrappers : UnitStep(w)
  \/ ForeignStart \/ ForeignKilled \/ ForeignEnd

\* PID 1 runs what it loaded, a switch ends by itself, and a script that is
\* not interrupted goes on.  Nothing is promised of sessions or of foreign
\* switches.
Fairness ==
  /\ \A w \in Wrappers : WF_vars(UnitStep(w))
  /\ \A w \in Wrappers : WF_vars(WrapperStep(w))

Spec == Init /\ [][Next]_vars /\ Fairness

\* One operator with one shell: a new invocation only after the last one
\* exited or was lost, its unit possibly still running; no foreign switch
\* starts meanwhile.
AloneWhenBeginning ==
  \A w \in Wrappers :
    pc[w] = "idle" /\ pc'[w] # "idle" =>
      \A v \in Wrappers : pc[v] \in {"idle", "exited"}

SerialNext ==
  /\ \/ \E w \in Wrappers : Begin(w) \/ WrapperStep(w) \/ LoseSession(w)
     \/ \E w \in Wrappers : UnitStep(w)
     \/ ForeignKilled \/ ForeignEnd
  /\ AloneWhenBeginning

SerialSpec == Init /\ [][SerialNext]_vars /\ Fairness

-----------------------------------------------------------------------------
(* Properties.                                                             *)

\* "Two activations cannot overlap": at most one switch is past the lock,
\* whoever started it.
NoOverlap ==
  /\ \A v, w \in Wrappers : job[v] = "active" /\ job[w] = "active" => v = w
  /\ \A w \in Wrappers : job[w] = "active" => foreign # "alive"

\* The flock alone keeps invocations of different modes apart, and it does so
\* as long as no wrapper has deleted the lock file of a live switch.
OverlapOnlyAfterSevering == ~severed => NoOverlap

\* Other invocations of the same mode share the unit name and result file.
Peers(w) == {v \in Wrappers \ {w} : mode[v] = mode[w]}

\* An invocation whose mode is its own is told the outcome of its own
\* activation, never what an earlier one left in the file, whatever the
\* invocations of other modes do.
HonestWhenModeIsOwn ==
  \A w \in Wrappers :
    Peers(w) = {} /\ exit[w] \in Outcomes => exit[w] = outcome[w]

\* Losing the session cannot interrupt the activation: a unit systemd has
\* accepted runs to its end whatever becomes of the script that asked for it.
ActivationFinishes ==
  \A w \in Wrappers : job[w] = "queued" ~> job[w] = "gone"

\* A script that follows its unit returns, also when the result was never
\* written: the hook failed, or the unit went without it.
FollowerReturns ==
  \A w \in Wrappers : pc[w] = "follow" ~> pc[w] = "exited"

\* A stale lock never costs a retry its activation: one invocation at a time
\* never meets exit status 11.
NoSpuriousContention == \A w \in Wrappers : outcome[w] # "eagain"

\* Switch keeps the promise of Activation.
Promise ==
  INSTANCE Activation WITH
    Requests <- Wrappers,
    active <- {w \in Wrappers : job[w] = "active"} \cup
                (IF foreign = "alive" THEN {Foreign} ELSE {}),
    verdict <- outcome,
    told <- [w \in Wrappers |->
               IF exit[w] \in Outcomes THEN exit[w] ELSE "none"]

KeepsPromise == Promise!Spec

=============================================================================
