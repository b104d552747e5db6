---------------------------- MODULE SwitchProofs ----------------------------
(***************************************************************************)
(* What the activation lock guarantees for any number of concurrent        *)
(* invocations in any modes and any foreign switches.                      *)
(***************************************************************************)
EXTENDS Switch, TLAPS

\* The hook runs only after the switch has an outcome; without that the result
\* file could come to hold what no switch reported.
EndedHasOutcome ==
  \A w \in Wrappers :
    job[w] \in {"ended", "posting", "posted"} => outcome[w] \in Outcomes

TypeInv == TypeOK /\ EndedHasOutcome

\* Every action keeps the types: the shape of the wrapper's locals, the unit
\* table, the result files and the lock.
LEMMA TypeStep == TypeInv /\ [Next]_vars => TypeInv'
<1> SUFFICES ASSUME TypeInv, [Next]_vars PROVE TypeInv'
  OBVIOUS
<1> USE ArgsAssumption, NobodyAssumption, MaxForeignAssumption
        DEF TypeOK, TypeInv, EndedHasOutcome
<1>1. ASSUME NEW w \in Wrappers, Begin(w) PROVE TypeInv'
  BY <1>1 DEF Begin, Goto, Running, Modes, unitVars, lockVars, foreignVars
<1>2. ASSUME NEW w \in Wrappers, WrapperStep(w) PROVE TypeInv'
  <2> USE DEF Goto, Exit, Running, Following, Outcomes, LoadedJobs, Modes,
              HasResult, unitVars, lockVars, foreignVars
  <2>1. CASE CheckUnits(w)
    BY <2>1 DEF CheckUnits, CheckUnit
  <2>2. CASE ProbeLock(w)
    BY <2>2 DEF ProbeLock
  <2>3. CASE ReleaseProbe(w)
    BY <2>3 DEF ReleaseProbe
  <2>4. CASE Pgrep(w)
    BY <2>4 DEF Pgrep
  <2>5. CASE RemoveLock(w)
    BY <2>5 DEF RemoveLock, InUse
  <2>6. CASE ClearResult(w)
    BY <2>6 DEF ClearResult
  <2>7. CASE StartUnit(w)
    BY <2>7 DEF StartUnit
  <2>8. CASE TestResult(w)
    BY <2>8 DEF TestResult
  <2>9. CASE QueryLoadState(w)
    BY <2>9 DEF QueryLoadState
  <2>10. CASE Recheck(w)
    BY <2>10 DEF Recheck
  <2>11. CASE Report(w)
    BY <2>11 DEF Report
  <2> QED
    BY <1>2, <2>1, <2>2, <2>3, <2>4, <2>5, <2>6, <2>7, <2>8, <2>9, <2>10,
       <2>11 DEF WrapperStep
<1>3. ASSUME NEW w \in Wrappers, LoseSession(w) PROVE TypeInv'
  BY <1>3 DEF LoseSession, Exit, Goto, Running, Following, unitVars,
              lockVars, foreignVars
<1>4. ASSUME NEW w \in Wrappers, UnitStep(w) PROVE TypeInv'
  <2> USE DEF Advance, LoadedJobs, Outcomes, Modes, wrapperVars, lockVars,
              foreignVars
  <2>1. CASE Exec(w)
    BY <2>1 DEF Exec
  <2>2. CASE OpenLock(w)
    BY <2>2 DEF OpenLock
  <2>3. CASE TakeLock(w)
    BY <2>3 DEF TakeLock
  <2>4. CASE EndSwitch(w)
    <3>1. PICK o \in Outcomes, from \in LoadedJobs :
            /\ Advance(w, from, "ended")
            /\ outcome' = [outcome EXCEPT ![w] = o]
      BY <2>4 DEF EndSwitch
    <3> QED
      BY <2>4, <3>1 DEF EndSwitch
  <2>5. CASE HookOpen(w)
    BY <2>5 DEF HookOpen
  <2>6. CASE HookWrite(w)
    BY <2>6 DEF HookWrite
  <2>7. CASE Collect(w)
    BY <2>7 DEF Collect
  <2> QED
    BY <1>4, <2>1, <2>2, <2>3, <2>4, <2>5, <2>6, <2>7 DEF UnitStep
<1>5. CASE ForeignStart
  BY <1>5 DEF ForeignStart, wrapperVars, unitVars
<1>6. CASE ForeignKilled
  BY <1>6 DEF ForeignKilled, wrapperVars, unitVars, lockVars
<1>7. CASE ForeignEnd
  BY <1>7 DEF ForeignEnd, wrapperVars, unitVars, lockVars
<1>8. CASE UNCHANGED vars
  BY <1>8 DEF vars, wrapperVars, unitVars, lockVars, foreignVars
<1> QED
  BY <1>1, <1>2, <1>3, <1>4, <1>5, <1>6, <1>7, <1>8 DEF Next

LEMMA InitTypes == Init => TypeOK
<1> SUFFICES ASSUME Init PROVE TypeOK
  OBVIOUS
<1>1. /\ inodes \in Nat /\ lockPath \in Nat /\ foreignFd \in Nat
      /\ foreignRuns \in 0..MaxForeign
  BY MaxForeignAssumption DEF Init
<1>2. result \in [Modes -> Outcomes \cup {"absent", "empty"}]
  BY DEF Init, Outcomes
<1>3. /\ mode \in [Wrappers -> Modes]
      /\ pc \in [Wrappers -> {"idle", "exited"} \cup Running]
      /\ exit \in [Wrappers -> Outcomes \cup
                     {"none", "refused", "noresult", "detached", "died"}]
      /\ unit \in [Modes -> Wrappers \cup {Nobody}]
      /\ job \in [Wrappers -> {"none", "gone"} \cup LoadedJobs]
      /\ outcome \in [Wrappers -> Outcomes \cup {"none"}]
      /\ fd \in [Wrappers -> Nat] /\ probe \in [Wrappers -> Nat]
  BY DEF Init, Modes
<1> QED
  BY <1>1, <1>2, <1>3 DEF Init, TypeOK

\* Every variable stays in its type, and a result file never holds anything
\* but an outcome some switch had.
THEOREM TypeCorrect == Spec => []TypeOK
<1>1. Init => TypeInv
  <2> SUFFICES ASSUME Init PROVE TypeInv
    OBVIOUS
  <2>1. EndedHasOutcome
    BY DEF Init, EndedHasOutcome
  <2> QED
    BY InitTypes, <2>1 DEF TypeInv
<1> QED
  BY <1>1, TypeStep, PTL DEF Spec, TypeInv

-----------------------------------------------------------------------------
(* The lock.  Two facts make it work: a flock excludes others on the same  *)
(* inode, and the inode every live switch has open is the one the name     *)
(* still leads to.  The second is what deleting the file can break.        *)

\* Inodes are numbered as they are created, so a new one is nobody's.
InodesKnown ==
  /\ lockPath <= inodes
  /\ foreignFd <= inodes
  /\ foreign # "absent" => foreignFd # 0
  /\ \A w \in Wrappers : fd[w] <= inodes
  /\ \A w \in Wrappers : job[w] \in {"opened", "active"} => fd[w] # 0

\* No two switches hold a lock on the same inode.
FlockExcludes ==
  /\ \A v, w \in Wrappers :
       job[v] = "active" /\ job[w] = "active" /\ fd[v] = fd[w] => v = w
  /\ \A w \in Wrappers :
       job[w] = "active" /\ foreign # "absent" => fd[w] # foreignFd

\* Until a live switch's lock file is deleted, they all have the same inode.
Attached ==
  ~severed =>
    /\ \A w \in Wrappers : job[w] \in {"opened", "active"} => fd[w] = lockPath
    /\ foreign = "alive" => foreignFd = lockPath

LockInv == TypeOK /\ InodesKnown /\ FlockExcludes /\ Attached

LEMMA LockStep == LockInv /\ TypeOK' /\ [Next]_vars => LockInv'
<1> SUFFICES ASSUME LockInv, TypeOK', [Next]_vars
             PROVE  InodesKnown' /\ FlockExcludes' /\ Attached'
  BY DEF LockInv
<1> USE DEF LockInv
<1>1. ASSUME NEW w \in Wrappers, Begin(w) \/ WrapperStep(w) \/ LoseSession(w),
             ~RemoveLock(w)
      PROVE  InodesKnown' /\ FlockExcludes' /\ Attached'
  <2>1. UNCHANGED <<lockVars, foreignVars, fd>>
    BY <1>1 DEF Begin, WrapperStep, LoseSession, CheckUnits, CheckUnit,
       ProbeLock, ReleaseProbe, Pgrep, ClearResult, StartUnit, TestResult,
       QueryLoadState, Recheck, Report, unitVars
  <2>2. \A v \in Wrappers : job'[v] \in {"opened", "active"} => job'[v] = job[v]
    BY <1>1 DEF Begin, WrapperStep, LoseSession, CheckUnits, CheckUnit,
       ProbeLock, ReleaseProbe, Pgrep, ClearResult, StartUnit, TestResult,
       QueryLoadState, Recheck, Report, unitVars, TypeOK
  <2> QED
    BY <2>1, <2>2 DEF InodesKnown, FlockExcludes, Attached, lockVars,
       foreignVars
<1>2. ASSUME NEW w \in Wrappers, RemoveLock(w)
      PROVE  InodesKnown' /\ FlockExcludes' /\ Attached'
  <2>1. UNCHANGED <<unitVars, inodes, foreignVars>> /\ lockPath' = 0
        /\ severed' = (severed \/ (lockPath # 0 /\ InUse(lockPath)))
    BY <1>2 DEF RemoveLock
  <2>2. InodesKnown' /\ FlockExcludes'
    BY <2>1 DEF InodesKnown, FlockExcludes, unitVars, foreignVars, TypeOK
  <2>3. Attached'
    BY <2>1 DEF Attached, InUse, InodesKnown, unitVars, foreignVars, TypeOK
  <2> QED
    BY <2>2, <2>3
<1>3. ASSUME NEW w \in Wrappers, UnitStep(w)
      PROVE  InodesKnown' /\ FlockExcludes' /\ Attached'
  <2> USE DEF Advance, InodesKnown, FlockExcludes, Attached, TypeOK, lockVars,
              foreignVars
  <2>1. CASE Exec(w)
    BY <2>1 DEF Exec
  <2>2. CASE OpenLock(w)
    BY <2>2 DEF OpenLock
  <2>3. CASE TakeLock(w)
    BY <2>3 DEF TakeLock, Locked
  <2>4. CASE EndSwitch(w)
    <3>1. /\ job' = [job EXCEPT ![w] = "ended"]
          /\ fd' = [fd EXCEPT ![w] = 0]
          /\ UNCHANGED <<lockVars, foreignVars>>
      BY <2>4 DEF EndSwitch
    <3> QED
      BY <3>1
  <2>5. CASE HookOpen(w) \/ HookWrite(w) \/ Collect(w)
    BY <2>5 DEF HookOpen, HookWrite, Collect
  <2> QED
    BY <1>3, <2>1, <2>2, <2>3, <2>4, <2>5 DEF UnitStep
<1>4. CASE ForeignStart
  BY <1>4 DEF ForeignStart, Locked, unitVars, InodesKnown, FlockExcludes,
     Attached, TypeOK
<1>5. CASE ForeignKilled \/ ForeignEnd
  BY <1>5 DEF ForeignKilled, ForeignEnd, unitVars, lockVars, InodesKnown,
     FlockExcludes, Attached, TypeOK
<1>6. CASE UNCHANGED vars
  BY <1>6 DEF vars, unitVars, lockVars, foreignVars, InodesKnown,
     FlockExcludes, Attached
<1> QED
  BY <1>1, <1>2, <1>3, <1>4, <1>5, <1>6 DEF Next

\* Invocations of different modes have different unit names, so systemd does
\* not keep their activations apart: the flock does, and it does for every
\* number of invocations and foreign switches, until a wrapper deletes the
\* lock file while a live switch has it open.
THEOREM LockKeepsApart == Spec => []OverlapOnlyAfterSevering
<1>1. Init => LockInv
  <2> SUFFICES ASSUME Init PROVE LockInv
    OBVIOUS
  <2>1. TypeOK
    BY InitTypes
  <2> QED
    BY <2>1 DEF Init, LockInv, TypeOK, InodesKnown, FlockExcludes, Attached
<1>2. LockInv => OverlapOnlyAfterSevering
  BY DEF LockInv, FlockExcludes, Attached, InodesKnown,
     OverlapOnlyAfterSevering, NoOverlap
<1> QED
  BY <1>1, <1>2, TypeCorrect, LockStep, PTL DEF Spec

-----------------------------------------------------------------------------
(* Who is told what, whatever else runs.                                   *)

Before == {"idle", "checkSwitch", "checkBoot", "checkTest", "probe", "unprobe",
           "pgrep", "clean", "clear", "start"}

\* An invocation that has not started its unit has none, one that has not ended
\* has told nothing, and an outcome comes with the end of the switch.
InOrder ==
  \A w \in Wrappers :
    /\ pc[w] \in Before => job[w] = "none"
    /\ pc[w] # "exited" => exit[w] = "none"
    /\ job[w] \in {"none", "queued"} \cup AliveJobs => outcome[w] = "none"

\* Its mode is the invocation's own: whoever else has begun has another.
OwnMode(w) ==
  \A v \in Wrappers \ {w} : pc[v] # "idle" => mode[v] # mode[w]

\* The result file of w, once w has cleared it, holds nothing but what w's own
\* hook wrote.
ResultIsOwn(w) ==
  (pc[w] \in {"start", "report"} \cup Following \/ job[w] # "none") /\ HasResult(mode[w]) =>
    job[w] \in {"posted", "gone"} /\ result[mode[w]] = outcome[w]

ToldIsOwn(w) ==
  exit[w] \in Outcomes => job[w] \in {"posted", "gone"} /\ exit[w] = outcome[w]

HonestInv ==
  /\ TypeInv
  /\ InOrder
  /\ \A w \in Wrappers : OwnMode(w) => ResultIsOwn(w) /\ ToldIsOwn(w)

LEMMA OrderStep == TypeInv /\ InOrder /\ [Next]_vars => InOrder'
<1> SUFFICES ASSUME TypeInv, InOrder, [Next]_vars PROVE InOrder'
  OBVIOUS
<1> USE DEF TypeInv, TypeOK, InOrder, Before
<1>1. ASSUME NEW w \in Wrappers, Begin(w) PROVE InOrder'
  BY <1>1 DEF Begin, Goto, unitVars
<1>2. ASSUME NEW w \in Wrappers, WrapperStep(w) PROVE InOrder'
  <2> USE DEF Goto, Exit, unitVars
  <2>1. CASE CheckUnits(w)
    BY <2>1 DEF CheckUnits, CheckUnit
  <2>2. CASE ProbeLock(w) \/ ReleaseProbe(w) \/ Pgrep(w) \/ RemoveLock(w) \/ ClearResult(w)
    BY <2>2 DEF ProbeLock, ReleaseProbe, Pgrep, RemoveLock, ClearResult
  <2>3. CASE StartUnit(w)
    BY <2>3 DEF StartUnit
  <2>4. CASE TestResult(w) \/ QueryLoadState(w) \/ Recheck(w) \/ Report(w)
    BY <2>4 DEF TestResult, QueryLoadState, Recheck, Report
  <2> QED
    BY <1>2, <2>1, <2>2, <2>3, <2>4 DEF WrapperStep
<1>3. ASSUME NEW w \in Wrappers, LoseSession(w) PROVE InOrder'
  BY <1>3 DEF LoseSession, Exit, Goto, Running, unitVars
<1>4. ASSUME NEW w \in Wrappers, UnitStep(w) PROVE InOrder'
  <2> USE DEF Advance, AliveJobs, wrapperVars
  <2>1. CASE Exec(w) \/ OpenLock(w) \/ HookOpen(w) \/ HookWrite(w) \/ Collect(w)
    BY <2>1 DEF Exec, OpenLock, HookOpen, HookWrite, Collect
  <2>2. CASE TakeLock(w)
    BY <2>2 DEF TakeLock
  <2>3. CASE EndSwitch(w)
    <3>1. /\ job[w] \in {"queued"} \cup AliveJobs
          /\ job' = [job EXCEPT ![w] = "ended"]
          /\ \E o \in Outcomes : outcome' = [outcome EXCEPT ![w] = o]
          /\ UNCHANGED wrapperVars
      BY <2>3 DEF EndSwitch, Outcomes
    <3> QED
      BY <3>1
  <2> QED
    BY <1>4, <2>1, <2>2, <2>3 DEF UnitStep
<1>5. CASE ForeignStart \/ ForeignKilled \/ ForeignEnd
  BY <1>5 DEF ForeignStart, ForeignKilled, ForeignEnd, wrapperVars, unitVars
<1>6. CASE UNCHANGED vars
  BY <1>6 DEF vars, wrapperVars, unitVars
<1> QED
  BY <1>1, <1>2, <1>3, <1>4, <1>5, <1>6 DEF Next

\* A step that leaves w's own variables and the result file of its mode alone.
LEMMA NotMine ==
  ASSUME NEW w, ResultIsOwn(w), ToldIsOwn(w),
         mode'[w] = mode[w], exit'[w] = exit[w], job'[w] = job[w], outcome'[w] = outcome[w],
         pc'[w] = pc[w], result'[mode[w]] = result[mode[w]]
  PROVE  ResultIsOwn(w)' /\ ToldIsOwn(w)'
BY DEF ResultIsOwn, ToldIsOwn, HasResult

\* A unit's step, as the script of its invocation w sees it: the result file changes
\* only by w's hook.
LEMMA HookIsOwn ==
  ASSUME TypeInv, InOrder, NEW w \in Wrappers, UnitStep(w), ResultIsOwn(w), ToldIsOwn(w)
  PROVE  ResultIsOwn(w)' /\ ToldIsOwn(w)'
<1> USE DEF TypeInv, TypeOK, InOrder, ResultIsOwn, ToldIsOwn, HasResult, Advance, Outcomes,
            wrapperVars
<1>1. CASE Exec(w) \/ OpenLock(w)
  BY <1>1 DEF Exec, OpenLock
<1>2. CASE TakeLock(w)
  BY <1>2 DEF TakeLock
<1>3. CASE EndSwitch(w)
  <2>1. /\ job[w] \in {"queued"} \cup AliveJobs
        /\ job' = [job EXCEPT ![w] = "ended"]
        /\ \E o \in Outcomes : outcome' = [outcome EXCEPT ![w] = o]
        /\ UNCHANGED <<wrapperVars, result>>
    BY <1>3 DEF EndSwitch, AliveJobs
  <2> QED
    BY <2>1 DEF AliveJobs
<1>4. CASE HookOpen(w)
  BY <1>4 DEF HookOpen
<1>5. CASE HookWrite(w)
  BY <1>5 DEF HookWrite, EndedHasOutcome
<1>6. CASE Collect(w)
  BY <1>6 DEF Collect
<1> QED
  BY <1>1, <1>2, <1>3, <1>4, <1>5, <1>6 DEF UnitStep

\* A script's step, as its own invocation sees it.
LEMMA ScriptIsOwn ==
  ASSUME TypeInv, InOrder, NEW w \in Wrappers, WrapperStep(w) \/ LoseSession(w),
         ResultIsOwn(w), ToldIsOwn(w)
  PROVE  ResultIsOwn(w)' /\ ToldIsOwn(w)'
<1> USE DEF TypeInv, TypeOK, InOrder, ResultIsOwn, ToldIsOwn, HasResult, Goto, Exit, Outcomes,
            Following, unitVars
<1>1. CASE CheckUnits(w)
  BY <1>1 DEF CheckUnits, CheckUnit, Before
<1>2. CASE ProbeLock(w) \/ ReleaseProbe(w) \/ Pgrep(w) \/ RemoveLock(w)
  BY <1>2 DEF ProbeLock, ReleaseProbe, Pgrep, RemoveLock, Before
<1>3. CASE ClearResult(w)
  BY <1>3 DEF ClearResult
<1>4. CASE StartUnit(w)
  BY <1>4 DEF StartUnit, Before
<1>5. CASE TestResult(w) \/ QueryLoadState(w)
  BY <1>5 DEF TestResult, QueryLoadState
<1>6. CASE Recheck(w)
  BY <1>6 DEF Recheck
<1>7. CASE Report(w)
  BY <1>7 DEF Report
<1>8. CASE LoseSession(w)
  BY <1>8 DEF LoseSession, Running
<1> QED
  BY <1>1, <1>2, <1>3, <1>4, <1>5, <1>6, <1>7, <1>8 DEF WrapperStep

\* What a step of invocation u does to invocation w and to the result files.
LEMMA OnlyMine ==
  ASSUME TypeInv, InOrder, NEW u \in Wrappers, NEW w \in Wrappers, u # w,
         WrapperStep(u) \/ LoseSession(u) \/ UnitStep(u)
  PROVE  /\ mode'[w] = mode[w] /\ exit'[w] = exit[w] /\ job'[w] = job[w]
         /\ outcome'[w] = outcome[w] /\ pc'[w] = pc[w]
         /\ \A m \in Modes : m # mode[u] => result'[m] = result[m]
         /\ mode' = mode /\ pc[u] # "idle" /\ (pc'[u] # "idle")
<1> USE DEF TypeInv, TypeOK, InOrder, Before
<1>1. CASE WrapperStep(u)
  BY <1>1 DEF WrapperStep, CheckUnits, CheckUnit, ProbeLock, ReleaseProbe, Pgrep, RemoveLock,
              ClearResult, StartUnit, TestResult, QueryLoadState, Recheck, Report, Goto, Exit,
              unitVars
<1>2. CASE LoseSession(u)
  BY <1>2 DEF LoseSession, Running, Following, Goto, Exit, unitVars
<1>3. CASE UnitStep(u)
  <2> USE DEF Advance, wrapperVars
  <2>1. CASE Exec(u) \/ OpenLock(u) \/ TakeLock(u) \/ Collect(u)
    BY <2>1 DEF Exec, OpenLock, TakeLock, Collect
  <2>2. CASE EndSwitch(u)
    BY <2>2 DEF EndSwitch, AliveJobs
  <2>3. CASE HookOpen(u) \/ HookWrite(u)
    BY <2>3 DEF HookOpen, HookWrite
  <2> QED
    BY <1>3, <2>1, <2>2, <2>3 DEF UnitStep
<1> QED
  BY <1>1, <1>2, <1>3

LEMMA HonestStep == HonestInv /\ [Next]_vars => HonestInv'
<1> SUFFICES ASSUME HonestInv, [Next]_vars, NEW w \in Wrappers, OwnMode(w)'
             PROVE  ResultIsOwn(w)' /\ ToldIsOwn(w)'
  BY TypeStep, OrderStep DEF HonestInv
<1>0. TypeInv /\ InOrder /\ (OwnMode(w) => ResultIsOwn(w) /\ ToldIsOwn(w))
  BY DEF HonestInv
<1>1. CASE Begin(w)
  BY <1>0, <1>1 DEF Begin, Goto, TypeInv, TypeOK, InOrder, Before, ResultIsOwn, ToldIsOwn,
                    Following, Outcomes, unitVars
<1>2. ASSUME NEW u \in Wrappers, u # w, Begin(u) PROVE ResultIsOwn(w)' /\ ToldIsOwn(w)'
  <2>1. /\ pc[u] = "idle" /\ UNCHANGED <<exit, job, outcome, result>>
        /\ \A v \in Wrappers \ {u} : pc'[v] = pc[v] /\ mode'[v] = mode[v]
    BY <1>0, <1>2 DEF Begin, Goto, TypeInv, TypeOK, unitVars
  <2>2. OwnMode(w)
    BY <1>2, <2>1 DEF OwnMode
  <2> QED
    BY <1>0, <1>2, <2>1, <2>2, NotMine
<1>3. ASSUME NEW u \in Wrappers, WrapperStep(u) \/ LoseSession(u) \/ UnitStep(u)
      PROVE  ResultIsOwn(w)' /\ ToldIsOwn(w)'
  <2>1. OwnMode(w)
    BY <1>0, <1>3, OnlyMine DEF OwnMode
  <2>2. CASE u = w
    BY <1>0, <1>3, <2>1, <2>2, HookIsOwn, ScriptIsOwn
  <2>3. CASE u # w
    <3>1. mode[u] # mode[w] /\ mode[w] \in Modes
      BY <1>0, <1>3, <2>1, <2>3, OnlyMine DEF OwnMode, TypeInv, TypeOK
    <3> QED
      BY <1>0, <1>3, <2>1, <2>3, <3>1, OnlyMine, NotMine
  <2> QED
    BY <2>2, <2>3
<1>4. CASE ForeignStart \/ ForeignKilled \/ ForeignEnd \/ UNCHANGED vars
  <2>1. UNCHANGED <<mode, pc, exit, job, outcome, result>>
    BY <1>4 DEF ForeignStart, ForeignKilled, ForeignEnd, vars, wrapperVars, unitVars
  <2> QED
    BY <1>0, <2>1, NotMine DEF OwnMode
<1> QED
  BY <1>1, <1>2, <1>3, <1>4 DEF Next

\* An invocation whose mode nobody else was given is told how its own activation
\* ended: an earlier result was deleted before the unit could start, and no other
\* hook writes to that file.
THEOREM OwnModeIsHonest == Spec => []HonestWhenModeIsOwn
<1>1. Init => HonestInv
  <2> SUFFICES ASSUME Init PROVE HonestInv
    OBVIOUS
  <2>1. EndedHasOutcome /\ InOrder /\ \A w \in Wrappers : ResultIsOwn(w) /\ ToldIsOwn(w)
    BY DEF Init, EndedHasOutcome, InOrder, ResultIsOwn, ToldIsOwn, Following, Outcomes
  <2> QED
    BY InitTypes, <2>1 DEF HonestInv, TypeInv
<1>2. HonestInv => HonestWhenModeIsOwn
  BY DEF HonestInv, HonestWhenModeIsOwn, Peers, OwnMode, ToldIsOwn
<1> QED
  BY <1>1, <1>2, HonestStep, PTL DEF Spec

-----------------------------------------------------------------------------
(* One invocation at a time.                                               *)

OneAtWork ==
  \A v, w \in Wrappers : pc[v] \in Running /\ pc[w] \in Running => v = w

\* A loaded unit has its name.
UnitsAreNamed ==
  \A w \in Wrappers : job[w] \in LoadedJobs => unit[mode[w]] = w

\* What the three queries have found stays true: no unit is loaded but one's own.
UnitsAreChecked ==
  \A v, w \in Wrappers :
    /\ job[v] \in LoadedJobs /\ job[w] \in LoadedJobs => v = w
    /\ job[v] \in LoadedJobs =>
         /\ pc[w] \in {"checkBoot", "checkTest"} => mode[v] # "switch"
         /\ pc[w] = "checkTest" => mode[v] # "boot"
         /\ pc[w] \notin {"probe", "unprobe", "pgrep", "clean", "clear", "start"}
         /\ pc[w] \in Following \cup {"report"} => v = w

\* A foreign switch that is alive has the lock of that name; past the probe there
\* is none, and the lock that will be taken is not the orphan's.
OrphanIsLeftBehind ==
  /\ foreign = "alive" => lockPath = foreignFd
  /\ \A w \in Wrappers :
       /\ pc[w] \in {"unprobe", "clean", "clear", "start"} \/ job[w] \in LoadedJobs =>
            foreign # "alive"
       /\ pc[w] \in {"unprobe", "clear", "start"} \/ job[w] \in {"queued", "alive"} =>
            foreign = "absent" \/ foreignFd # lockPath
       /\ job[w] = "opened" /\ foreign # "absent" => fd[w] # foreignFd
       /\ probe[w] # 0 => pc[w] = "unprobe"

SerialInv ==
  /\ TypeInv /\ LockInv /\ InOrder
  /\ OneAtWork /\ UnitsAreNamed /\ UnitsAreChecked /\ OrphanIsLeftBehind
  /\ \A w \in Wrappers : pc[w] \in Running => ResultIsOwn(w)

LEMMA SerialIsSpec == SerialSpec => Spec
<1>1. [SerialNext]_vars => [Next]_vars
  BY DEF SerialNext, Next
<1> QED
  BY <1>1, PTL DEF SerialSpec, Spec

LEMMA StepsOneAtWork ==
  ASSUME SerialInv, [SerialNext]_vars PROVE OneAtWork'
<1> USE DEF SerialInv, TypeInv, TypeOK, OneAtWork
<1>1. ASSUME NEW u \in Wrappers, Begin(u), AloneWhenBeginning PROVE OneAtWork'
  <2>1. pc' = [pc EXCEPT ![u] = "checkSwitch"] /\ pc[u] = "idle"
    BY <1>1 DEF Begin, Goto
  <2>2. \A v \in Wrappers : pc[v] \notin Running
    BY <1>1, <2>1 DEF AloneWhenBeginning, Running, Following
  <2> QED
    BY <2>1, <2>2
<1>2. ASSUME NEW u \in Wrappers, WrapperStep(u) \/ LoseSession(u) \/ UnitStep(u)
      PROVE  OneAtWork'
  <2>1. \A v \in Wrappers \ {u} : pc'[v] = pc[v]
    BY <1>2, OnlyMine
  <2>2. pc'[u] \in Running => pc[u] \in Running
    <3>1. CASE WrapperStep(u) \/ LoseSession(u)
      BY <3>1 DEF WrapperStep, LoseSession, CheckUnits, CheckUnit, ProbeLock, ReleaseProbe,
                  Pgrep, RemoveLock, ClearResult, StartUnit, TestResult, QueryLoadState, Recheck,
                  Report, Goto, Exit, Running, Following
    <3>2. CASE UnitStep(u)
      BY <3>2 DEF UnitStep, Exec, OpenLock, TakeLock, EndSwitch, HookOpen, HookWrite, Collect,
                  wrapperVars
    <3> QED
      BY <1>2, <3>1, <3>2
  <2> QED
    BY <2>1, <2>2
<1>3. CASE ForeignKilled \/ ForeignEnd \/ UNCHANGED vars
  BY <1>3 DEF ForeignKilled, ForeignEnd, vars, wrapperVars
<1> QED
  BY <1>1, <1>2, <1>3 DEF SerialNext

\* A loaded unit keeps its name, and what an invocation has checked stays true: only
\* the one invocation at work could load another.
LEMMA StepsUnits ==
  ASSUME SerialInv, [SerialNext]_vars PROVE UnitsAreNamed' /\ UnitsAreChecked'
<1> USE NobodyAssumption DEF SerialInv, TypeInv, TypeOK
<1>1. ASSUME NEW u \in Wrappers, Begin(u) PROVE UnitsAreNamed' /\ UnitsAreChecked'
  <2>1. /\ pc' = [pc EXCEPT ![u] = "checkSwitch"] /\ pc[u] = "idle" /\ job[u] = "none"
        /\ UNCHANGED <<job, unit>> /\ \A v \in Wrappers \ {u} : mode'[v] = mode[v]
    BY <1>1 DEF Begin, Goto, unitVars, InOrder, Before
  <2> QED
    BY <2>1 DEF UnitsAreNamed, UnitsAreChecked, LoadedJobs, Following
<1>2. ASSUME NEW u \in Wrappers, WrapperStep(u) PROVE UnitsAreNamed' /\ UnitsAreChecked'
  <2> USE DEF Goto, Exit, UnitsAreNamed, UnitsAreChecked, LoadedJobs, Following
  <2>1. CASE CheckUnits(u)
    BY <2>1 DEF CheckUnits, CheckUnit, unitVars, Modes
  <2>2. CASE ProbeLock(u) \/ ReleaseProbe(u) \/ Pgrep(u) \/ RemoveLock(u) \/ ClearResult(u)
    BY <2>2 DEF ProbeLock, ReleaseProbe, Pgrep, RemoveLock, ClearResult, unitVars
  <2>3. CASE StartUnit(u)
    BY <2>3 DEF StartUnit, OneAtWork, Running
  <2>4. CASE TestResult(u) \/ QueryLoadState(u) \/ Recheck(u) \/ Report(u)
    BY <2>4 DEF TestResult, QueryLoadState, Recheck, Report, unitVars
  <2> QED
    BY <1>2, <2>1, <2>2, <2>3, <2>4 DEF WrapperStep
<1>3. ASSUME NEW u \in Wrappers, LoseSession(u) PROVE UnitsAreNamed' /\ UnitsAreChecked'
  BY <1>3 DEF LoseSession, Goto, Exit, UnitsAreNamed, UnitsAreChecked, Following, unitVars
<1>4. ASSUME NEW u \in Wrappers, UnitStep(u) PROVE UnitsAreNamed' /\ UnitsAreChecked'
  <2>1. UNCHANGED <<mode, pc>> /\ job[u] \in LoadedJobs
        /\ \A v \in Wrappers \ {u} : job'[v] = job[v]
    BY <1>4 DEF UnitStep, Exec, OpenLock, TakeLock, EndSwitch, HookOpen, HookWrite, Collect,
                Advance, wrapperVars, LoadedJobs
  <2>2. UnitsAreChecked'
    BY <2>1 DEF UnitsAreChecked
  <2>3. CASE UNCHANGED unit
    BY <2>1, <2>2, <2>3 DEF UnitsAreNamed
  <2>4. CASE Collect(u)
    BY <2>1, <2>2, <2>4 DEF Collect, Advance, UnitsAreNamed, UnitsAreChecked, LoadedJobs
  <2> QED
    BY <1>4, <2>2, <2>3, <2>4 DEF UnitStep, Exec, OpenLock, TakeLock, EndSwitch, HookOpen, HookWrite
<1>5. CASE ForeignKilled \/ ForeignEnd \/ UNCHANGED vars
  BY <1>5 DEF ForeignKilled, ForeignEnd, vars, wrapperVars, unitVars, UnitsAreNamed, UnitsAreChecked
<1> QED
  BY <1>1, <1>2, <1>3, <1>4, <1>5 DEF SerialNext

\* Past its probe an invocation meets no foreign switch, and not the orphan's inode.
LEMMA StepsOrphan ==
  ASSUME SerialInv, [SerialNext]_vars PROVE OrphanIsLeftBehind'
<1> USE DEF SerialInv, TypeInv, TypeOK, LockInv, InodesKnown, OrphanIsLeftBehind
<1>1. ASSUME NEW u \in Wrappers, Begin(u) PROVE OrphanIsLeftBehind'
  BY <1>1 DEF Begin, Goto, unitVars, lockVars, foreignVars
<1>2. ASSUME NEW u \in Wrappers, WrapperStep(u) PROVE OrphanIsLeftBehind'
  <2> USE DEF Goto, Exit, foreignVars, lockVars, unitVars
  <2>1. CASE CheckUnits(u)
    BY <2>1 DEF CheckUnits, CheckUnit
  <2>2. CASE ProbeLock(u)
    BY <2>2 DEF ProbeLock, Locked
  <2>3. CASE ReleaseProbe(u)
    BY <2>3 DEF ReleaseProbe
  <2>4. CASE Pgrep(u)
    BY <2>4 DEF Pgrep, SwitchAlive
  <2>5. CASE RemoveLock(u)
    BY <2>5 DEF RemoveLock
  <2>6. CASE ClearResult(u)
    BY <2>6 DEF ClearResult
  <2>7. CASE StartUnit(u)
    BY <2>7 DEF StartUnit, LoadedJobs
  <2>8. CASE TestResult(u) \/ QueryLoadState(u) \/ Recheck(u) \/ Report(u)
    BY <2>8 DEF TestResult, QueryLoadState, Recheck, Report
  <2> QED
    BY <1>2, <2>1, <2>2, <2>3, <2>4, <2>5, <2>6, <2>7, <2>8 DEF WrapperStep
<1>3. ASSUME NEW u \in Wrappers, LoseSession(u) PROVE OrphanIsLeftBehind'
  BY <1>3 DEF LoseSession, Goto, Exit, unitVars, lockVars, foreignVars
<1>4. ASSUME NEW u \in Wrappers, UnitStep(u) PROVE OrphanIsLeftBehind'
  <2> USE DEF Advance, wrapperVars, foreignVars, lockVars, LoadedJobs
  <2>1. CASE OpenLock(u)
    BY <2>1, <1>4 DEF OpenLock, UnitsAreChecked
  <2>2. CASE Exec(u)
    BY <2>2 DEF Exec
  <2>3. CASE TakeLock(u)
    BY <2>3 DEF TakeLock
  <2>4. CASE EndSwitch(u)
    BY <2>4 DEF EndSwitch, AliveJobs
  <2>5. CASE HookOpen(u) \/ HookWrite(u) \/ Collect(u)
    BY <2>5 DEF HookOpen, HookWrite, Collect
  <2> QED
    BY <1>4, <2>1, <2>2, <2>3, <2>4, <2>5 DEF UnitStep
<1>5. CASE ForeignKilled
  BY <1>5 DEF ForeignKilled, wrapperVars, unitVars, lockVars
<1>6. CASE ForeignEnd
  BY <1>6 DEF ForeignEnd, wrapperVars, unitVars, lockVars
<1>7. CASE UNCHANGED vars
  BY <1>7 DEF vars, wrapperVars, unitVars, lockVars, foreignVars
<1> QED
  BY <1>1, <1>2, <1>3, <1>4, <1>5, <1>6, <1>7 DEF SerialNext

\* The result file of the invocation at work is its own: the one unit that is loaded
\* is its own too.
LEMMA StepsResult ==
  ASSUME SerialInv, [SerialNext]_vars, NEW w \in Wrappers, pc'[w] \in Running
  PROVE  ResultIsOwn(w)'
<1>0. /\ TypeInv /\ InOrder /\ OneAtWork /\ UnitsAreChecked
      /\ pc[w] \in Running => ResultIsOwn(w)
  BY DEF SerialInv
<1>1. CASE Begin(w)
  BY <1>0, <1>1 DEF Begin, Goto, TypeInv, TypeOK, InOrder, Before, ResultIsOwn, Following, unitVars
<1>2. ASSUME NEW u \in Wrappers, u # w, Begin(u) PROVE ResultIsOwn(w)'
  <2>1. pc'[w] = pc[w] /\ mode'[w] = mode[w] /\ UNCHANGED <<job, outcome, result>>
    BY <1>0, <1>2 DEF Begin, Goto, TypeInv, TypeOK, unitVars
  <2> QED
    BY <1>0, <2>1 DEF ResultIsOwn, HasResult
<1>3. CASE WrapperStep(w) \/ LoseSession(w) \/ UnitStep(w)
  <2>1. pc[w] \in Running /\ exit[w] = "none"
    <3>1. pc[w] # "idle" /\ pc[w] # "exited"
      BY <1>0, <1>3 DEF WrapperStep, LoseSession, CheckUnits, CheckUnit, ProbeLock, ReleaseProbe,
         Pgrep, RemoveLock, ClearResult, StartUnit, TestResult, QueryLoadState, Recheck, Report,
         UnitStep, Exec, OpenLock, TakeLock, EndSwitch, HookOpen, HookWrite, Collect, Goto, Exit,
         Running, Following, wrapperVars, InOrder, Before, Advance
    <3> QED
      BY <1>0, <3>1 DEF TypeInv, TypeOK, InOrder
  <2>2. ToldIsOwn(w)
    BY <2>1 DEF ToldIsOwn, Outcomes
  <2> QED
    BY <1>0, <1>3, <2>1, <2>2, HookIsOwn, ScriptIsOwn
<1>4. ASSUME NEW u \in Wrappers, u # w, WrapperStep(u) \/ LoseSession(u) PROVE ResultIsOwn(w)'
  <2>1. pc[w] \in Running /\ pc[u] \in Running
    BY <1>0, <1>4, OnlyMine DEF WrapperStep, LoseSession, CheckUnits, CheckUnit, ProbeLock,
       ReleaseProbe, Pgrep, RemoveLock, ClearResult, StartUnit, TestResult, QueryLoadState,
       Recheck, Report, Goto, Exit, Running, Following
  <2> QED
    BY <1>0, <1>4, <2>1 DEF OneAtWork
<1>5. ASSUME NEW u \in Wrappers, u # w, UnitStep(u) PROVE ResultIsOwn(w)'
  <2>1. job[u] \in LoadedJobs
    BY <1>5 DEF UnitStep, Exec, OpenLock, TakeLock, EndSwitch, HookOpen, HookWrite, Collect,
                Advance, LoadedJobs
  <2>2. pc'[w] = pc[w] /\ job'[w] = job[w]
    BY <1>0, <1>5, OnlyMine
  <2>3. pc[w] \in {"checkSwitch", "checkBoot", "checkTest"}
    BY <1>0, <1>5, <2>1, <2>2 DEF UnitsAreChecked, Running
  <2> QED
    BY <1>0, <2>2, <2>3 DEF InOrder, Before, ResultIsOwn, Following
<1>6. CASE ForeignKilled \/ ForeignEnd \/ UNCHANGED vars
  <2>1. UNCHANGED <<mode, pc, job, outcome, result>>
    BY <1>6 DEF ForeignKilled, ForeignEnd, vars, wrapperVars, unitVars
  <2> QED
    BY <1>0, <2>1 DEF ResultIsOwn, HasResult
<1> QED
  BY <1>1, <1>2, <1>3, <1>4, <1>5, <1>6 DEF SerialNext

LEMMA SerialStep == SerialInv /\ [SerialNext]_vars => SerialInv'
<1> SUFFICES ASSUME SerialInv, [SerialNext]_vars PROVE SerialInv'
  OBVIOUS
<1>1. [Next]_vars
  BY DEF SerialNext, Next
<1>2. TypeInv' /\ InOrder'
  BY <1>1, TypeStep, OrderStep DEF SerialInv
<1>3. LockInv'
  BY <1>1, <1>2, LockStep DEF SerialInv, TypeInv
<1>4. \A w \in Wrappers : pc'[w] \in Running => ResultIsOwn(w)'
  BY StepsResult
<1> QED
  BY <1>2, <1>3, <1>4, StepsOneAtWork, StepsUnits, StepsOrphan DEF SerialInv

LEMMA InitSerial == Init => SerialInv
<1> SUFFICES ASSUME Init PROVE SerialInv
  OBVIOUS
<1>1. TypeInv /\ InOrder
  BY InitTypes DEF Init, TypeInv, EndedHasOutcome, InOrder
<1>2. LockInv
  BY <1>1 DEF Init, LockInv, TypeInv, TypeOK, InodesKnown, FlockExcludes, Attached
<1>3. OneAtWork /\ UnitsAreNamed /\ UnitsAreChecked
  BY DEF Init, OneAtWork, UnitsAreNamed, UnitsAreChecked, Running, Following, LoadedJobs
<1>4. OrphanIsLeftBehind
  BY DEF Init, OrphanIsLeftBehind, LoadedJobs
<1>5. \A w \in Wrappers : ResultIsOwn(w)
  BY DEF Init, ResultIsOwn, Following
<1> QED
  BY <1>1, <1>2, <1>3, <1>4, <1>5 DEF SerialInv

\* Whoever opened the lock of the unit at work finds it free.
LEMMA LockIsFree ==
  ASSUME SerialInv, NEW w \in Wrappers, job[w] = "opened" PROVE ~Locked(fd[w])
BY DEF SerialInv, LockInv, InodesKnown, UnitsAreChecked, OrphanIsLeftBehind, LoadedJobs, Locked

\* The only contention a switch reports is with a lock that somebody holds, and an
\* invocation that is alone leaves no holder on the inode its own switch will open:
\* it has probed the lock, or moved an orphan's file out of the way.
THEOREM NoContentionAlone == SerialSpec => []NoSpuriousContention
<1>1. Init => NoSpuriousContention
  BY DEF Init, NoSpuriousContention
<1>2. SerialInv /\ NoSpuriousContention /\ [SerialNext]_vars => NoSpuriousContention'
  <2> SUFFICES ASSUME SerialInv, NoSpuriousContention, [SerialNext]_vars
               PROVE  NoSpuriousContention'
    OBVIOUS
  <2>1. ASSUME NEW u \in Wrappers, UnitStep(u) PROVE NoSpuriousContention'
    <3> USE DEF NoSpuriousContention, Advance
    <3>1. CASE TakeLock(u)
      BY <3>1, LockIsFree DEF TakeLock
    <3>2. CASE EndSwitch(u)
      BY <3>2 DEF EndSwitch, SerialInv, TypeInv, TypeOK
    <3> QED
      BY <2>1, <3>1, <3>2 DEF UnitStep, Exec, OpenLock, HookOpen, HookWrite, Collect
  <2>2. ASSUME NEW u \in Wrappers, Begin(u) \/ WrapperStep(u) \/ LoseSession(u)
        PROVE  NoSpuriousContention'
    BY <2>2 DEF NoSpuriousContention, Begin, WrapperStep, LoseSession, CheckUnits, CheckUnit,
       ProbeLock, ReleaseProbe, Pgrep, RemoveLock, ClearResult, StartUnit, TestResult,
       QueryLoadState, Recheck, Report, unitVars
  <2>3. CASE ForeignKilled \/ ForeignEnd \/ UNCHANGED vars
    BY <2>3 DEF NoSpuriousContention, ForeignKilled, ForeignEnd, vars, unitVars
  <2> QED
    BY <2>1, <2>2, <2>3 DEF SerialNext
<1> QED
  BY <1>1, <1>2, InitSerial, SerialStep, PTL DEF SerialSpec

-----------------------------------------------------------------------------
(* The promise of Activation.                                              *)

AtWork == {w \in Wrappers : job[w] = "active"} \cup
            (IF foreign = "alive" THEN {Foreign} ELSE {})

Told == [w \in Wrappers |-> IF exit[w] \in Outcomes THEN exit[w] ELSE "none"]

\* A step of the machinery that no caller of Activation sees.
LEMMA Unseen ==
  ASSUME AtWork' = AtWork, outcome' = outcome, Told' = Told
  PROVE  UNCHANGED Promise!vars
BY DEF AtWork, Told, Promise!vars

\* An invocation's script shows its caller nothing before it exits, and then no
\* outcome but the one its own activation had.
LEMMA ScriptTells ==
  ASSUME SerialInv, NEW w \in Wrappers, Begin(w) \/ WrapperStep(w) \/ LoseSession(w)
  PROVE  Promise!Tell(w) \/ UNCHANGED Promise!vars
<1>0. TypeInv /\ InOrder /\ (pc[w] \in Running => ResultIsOwn(w))
  BY DEF SerialInv
<1>1. AtWork' = AtWork /\ outcome' = outcome
  <2>1. UNCHANGED <<foreign, outcome>>
    BY DEF Begin, WrapperStep, LoseSession, CheckUnits, CheckUnit, ProbeLock, ReleaseProbe,
       Pgrep, RemoveLock, ClearResult, StartUnit, TestResult, QueryLoadState, Recheck, Report,
       unitVars, foreignVars
  <2>2. \A v \in Wrappers : job'[v] = "active" <=> job[v] = "active"
    BY <1>0 DEF Begin, WrapperStep, LoseSession, CheckUnits, CheckUnit, ProbeLock, ReleaseProbe,
       Pgrep, RemoveLock, ClearResult, StartUnit, TestResult, QueryLoadState, Recheck, Report,
       unitVars, TypeInv, TypeOK, InOrder, Before, Goto, Exit
  <2> QED
    BY <2>1, <2>2 DEF AtWork
<1>2. CASE Report(w) /\ HasResult(mode[w])
  <2>1. /\ pc[w] = "report" /\ exit[w] = "none"
        /\ exit' = [exit EXCEPT ![w] = result[mode[w]]]
    BY <1>0, <1>2 DEF Report, Exit, Goto, InOrder
  <2>2. result[mode[w]] = outcome[w] /\ outcome[w] \in Outcomes
    BY <1>0, <1>2, <2>1 DEF ResultIsOwn, HasResult, Running
  <2>3. Told' = [Told EXCEPT ![w] = outcome[w]] /\ Told[w] = "none" /\ outcome[w] # "none"
    BY <1>0, <2>1, <2>2 DEF Told, TypeInv, TypeOK, Outcomes
  <2> QED
    BY <1>1, <2>3 DEF Promise!Tell, AtWork, Told
<1>3. CASE ~(Report(w) /\ HasResult(mode[w]))
  <2>1. exit' = exit \/ (/\ exit[w] = "none"
                         /\ \E c : c \notin Outcomes /\ exit' = [exit EXCEPT ![w] = c])
    BY <1>0, <1>3 DEF Begin, WrapperStep, LoseSession, CheckUnits, CheckUnit, ProbeLock,
       ReleaseProbe, Pgrep, RemoveLock, ClearResult, StartUnit, TestResult, QueryLoadState,
       Recheck, Report, InOrder, Goto, Exit, Outcomes, Running, Following
  <2>2. Told' = Told
    BY <1>0, <2>1 DEF Told, TypeInv, TypeOK, Outcomes
  <2> QED
    BY <1>1, <2>2, Unseen
<1> QED
  BY <1>2, <1>3

\* A unit's switch begins when nobody else is at work, and what it comes to is its own
\* end.
LEMMA UnitActivates ==
  ASSUME SerialInv, NEW w \in Wrappers, UnitStep(w)
  PROVE  \/ Promise!Begin(w)
         \/ \E o \in Outcomes : Promise!End(w, o) \/ Promise!Abandon(w, o)
         \/ UNCHANGED Promise!vars
<1>0. TypeInv /\ InOrder /\ UnitsAreChecked /\ OrphanIsLeftBehind
  BY DEF SerialInv
<1>1. exit' = exit /\ foreign' = foreign /\ Told' = Told /\ job[w] \in LoadedJobs
  BY DEF UnitStep, Exec, OpenLock, TakeLock, EndSwitch, HookOpen, HookWrite, Collect, Told,
     wrapperVars, foreignVars, Advance, LoadedJobs
<1>2. /\ foreign # "alive"
      /\ \A v \in Wrappers : job[v] = "active" => v = w
  BY <1>0, <1>1 DEF UnitsAreChecked, OrphanIsLeftBehind, LoadedJobs
<1>3. AtWork = IF job[w] = "active" THEN {w} ELSE {}
  BY <1>2 DEF AtWork
<1>4. \A v \in Wrappers \ {w} : job'[v] = job[v]
  BY <1>0 DEF UnitStep, Exec, OpenLock, TakeLock, EndSwitch, HookOpen, HookWrite, Collect,
     Advance, TypeInv, TypeOK
<1>5. AtWork' = IF job'[w] = "active" THEN {w} ELSE {}
  BY <1>1, <1>2, <1>4 DEF AtWork
<1>6. job[w] \in {"queued"} \cup AliveJobs => outcome[w] = "none"
  BY <1>0 DEF InOrder
<1>7. CASE Exec(w) \/ OpenLock(w) \/ HookOpen(w) \/ HookWrite(w) \/ Collect(w)
  <2>1. job[w] # "active" /\ job'[w] # "active" /\ outcome' = outcome
    BY <1>0, <1>7 DEF Exec, OpenLock, HookOpen, HookWrite, Collect, Advance, TypeInv, TypeOK
  <2> QED
    BY <1>1, <1>3, <1>5, <2>1, Unseen
<1>8. CASE TakeLock(w)
  <2>1. /\ job[w] = "opened" /\ job'[w] = "active" /\ outcome' = outcome
    BY <1>0, <1>8, LockIsFree DEF TakeLock, Advance, TypeInv, TypeOK
  <2>2. Promise!Begin(w)
    BY <1>1, <1>3, <1>5, <1>6, <2>1 DEF Promise!Begin, AtWork, Told, AliveJobs
  <2> QED
    BY <2>2
<1>9. CASE EndSwitch(w)
  <2>1. /\ job[w] \in {"queued"} \cup AliveJobs /\ job'[w] = "ended"
        /\ \E o \in Outcomes : outcome' = [outcome EXCEPT ![w] = o]
    BY <1>0, <1>9 DEF EndSwitch, Advance, AliveJobs, Outcomes, TypeInv, TypeOK
  <2>2. PICK o \in Outcomes : outcome' = [outcome EXCEPT ![w] = o]
    BY <2>1
  <2>3. CASE job[w] = "active"
    <3>1. Promise!End(w, o)
      BY <1>1, <1>3, <1>5, <2>1, <2>2, <2>3 DEF Promise!End, AtWork, Told
    <3> QED
      BY <3>1
  <2>4. CASE job[w] # "active"
    <3>1. Promise!Abandon(w, o)
      BY <1>1, <1>3, <1>5, <1>6, <2>1, <2>2, <2>4 DEF Promise!Abandon, AtWork, Told
    <3> QED
      BY <3>1
  <2> QED
    BY <2>3, <2>4
<1> QED
  BY <1>7, <1>8, <1>9 DEF UnitStep

LEMMA ForeignStops ==
  ASSUME SerialInv, ForeignKilled \/ ForeignEnd
  PROVE  Promise!ForeignEnd \/ UNCHANGED Promise!vars
<1>1. UNCHANGED <<exit, job, outcome>> /\ Told' = Told /\ foreign' # "alive"
  BY DEF ForeignKilled, ForeignEnd, Told, wrapperVars, unitVars
<1>2. CASE foreign = "alive"
  <2>1. \A w \in Wrappers : job[w] # "active"
    BY <1>2 DEF SerialInv, OrphanIsLeftBehind, LoadedJobs
  <2>2. AtWork = {Foreign} /\ AtWork' = {}
    BY <1>1, <1>2, <2>1 DEF AtWork
  <2> QED
    BY <1>1, <2>2 DEF Promise!ForeignEnd, AtWork, Told
<1>3. CASE foreign # "alive"
  BY <1>1, <1>3, Unseen DEF AtWork
<1> QED
  BY <1>2, <1>3

\* One invocation at a time keeps the promise the header of the module makes: one
\* activation of the system at a time, each to its own end, and a caller who is told
\* an outcome is told the one of the activation it asked for.  Every step of the
\* scripts, the units and the lock is a step of Activation or none of its business.
THEOREM SerialKeepsPromise == SerialSpec => KeepsPromise
<1>1. Init => Promise!Init
  BY DEF Init, Promise!Init, Outcomes
<1>2. SerialInv /\ [SerialNext]_vars => [Promise!Next]_(Promise!vars)
  <2> SUFFICES ASSUME SerialInv, [SerialNext]_vars
               PROVE  Promise!Next \/ UNCHANGED Promise!vars
    OBVIOUS
  <2>1. ASSUME NEW w \in Wrappers, Begin(w) \/ WrapperStep(w) \/ LoseSession(w)
        PROVE  Promise!Next \/ UNCHANGED Promise!vars
    BY <2>1, ScriptTells DEF Promise!Next
  <2>2. ASSUME NEW w \in Wrappers, UnitStep(w)
        PROVE  Promise!Next \/ UNCHANGED Promise!vars
    BY <2>2, UnitActivates DEF Promise!Next
  <2>3. CASE ForeignKilled \/ ForeignEnd
    BY <2>3, ForeignStops DEF Promise!Next
  <2>4. CASE UNCHANGED vars
    BY <2>4 DEF vars, wrapperVars, unitVars, foreignVars, Promise!vars
  <2> QED
    BY <2>1, <2>2, <2>3, <2>4 DEF SerialNext
<1> QED
  BY <1>1, <1>2, InitSerial, SerialStep, PTL DEF SerialSpec, KeepsPromise, Promise!Spec

=============================================================================
