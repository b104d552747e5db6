--------------------------- MODULE StorageProofs ----------------------------
(* The safety of Storage for any sets of members and pools, any order of   *)
(* the members, and any number of tries and runs.                          *)
EXTENDS Storage, TLAPS

\* A unit that still asks has a try left.
TriesLeft == \A m \in Members: Pending(m) => tries[m] < MaxTries

\* Until the host is up, no member it cannot do without is given up: a limit on
\* its disk is the only way there.
CriticalKept == boot # "up" => \A m \in BootCritical: unit[m] # "off"

\* The initrd polls for the pool only when no boot-critical member is on its way.
PollWaited == boot # "up" /\ poll = "polling" => Settled(BootCritical)

\* Until the host is up there is no target, no import and no nixnas-unlock.
NothingYet ==
  boot # "up" =>
    /\ tool = "off" /\ target = "off" /\ unlocks = 0
    /\ \A p \in Pools: import[p] = "off"

\* In hot mode the host that is up opens no member.
HotOpensEarly == Hot /\ boot = "up" => Settled(Data)

\* A member of usb mode is not touched before it is asked for.
Untouched == ~Hot /\ unlocks = 0 => \A m \in Data: unit[m] = "off"

\* The target pulls every import.
TargetPulls == target # "off" => \A p \in Pools: import[p] # "off"

\* An import that is over: the pool is there, or no member was on its way and one
\* is missing.
ImportsKnow ==
  \A p \in Pools:
    /\ import[p] = "active" => p \in imported
    /\ import[p] = "failed" =>
         Settled(Data) /\ (Needs[p] \subseteq Opened => p \in imported)

\* After a report nothing is on its way.
ReportHolds == tool = "done" => ~JobsListed /\ report = FailedUnits

IInv ==
  /\ TypeOK
  /\ TriesLeft
  /\ CriticalKept
  /\ PollWaited
  /\ NoLockout
  /\ NothingYet
  /\ HotOpensEarly
  /\ Untouched
  /\ TargetPulls
  /\ ImportsKnow
  /\ ReportHolds

USE DEF initrdVars, memberVars, poolVars, toolVars

\* No member is both boot-critical here and data.
LEMMA CriticalIsNotData ==
  /\ BootCritical \cap Data = {}
  /\ BootCritical \subseteq Members /\ Data \subseteq Members
BY MembersAssumption DEF BootCritical, Hot, Members

LEMMA InitIInv == Init => IInv
<1> SUFFICES ASSUME Init PROVE IInv
  OBVIOUS
<1>1. TypeOK
  BY TriesAssumption, MembersAssumption DEF Init, TypeOK
<1>2. TriesLeft /\ CriticalKept /\ PollWaited /\ NoLockout /\ NothingYet
  BY TriesAssumption, MembersAssumption
     DEF Init, TriesLeft, CriticalKept, PollWaited, NoLockout, NothingYet,
         Pending, BootCritical, Hot, Members
<1>3. HotOpensEarly /\ Untouched /\ TargetPulls /\ ImportsKnow /\ ReportHolds
  BY MembersAssumption
     DEF Init, HotOpensEarly, Untouched, TargetPulls, ImportsKnow, ReportHolds,
         Hot, Members
<1> QED
  BY <1>1, <1>2, <1>3 DEF IInv

LEMMA TypeStep == TypeOK /\ TriesLeft /\ [Next]_vars => TypeOK' /\ TriesLeft'
<1> SUFFICES ASSUME TypeOK, TriesLeft, [Next]_vars PROVE TypeOK' /\ TriesLeft'
  OBVIOUS
<1> USE TriesAssumption DEF TypeOK, TriesLeft, Pending
<1>1. ASSUME NEW m \in Members, Appear(m) PROVE TypeOK' /\ TriesLeft'
  BY <1>1 DEF Appear
<1>2. ASSUME NEW m \in Members, StartMember(m) PROVE TypeOK' /\ TriesLeft'
  BY <1>2 DEF StartMember
<1>3. ASSUME NEW m \in Members, TakeCached(m) PROVE TypeOK' /\ TriesLeft'
  BY <1>3 DEF TakeCached
<1>4. ASSUME NEW m \in Members, DeviceTimesOut(m) PROVE TypeOK' /\ TriesLeft'
  BY <1>4 DEF DeviceTimesOut
<1>5. ASSUME NEW m \in Members, AnswerRight(m) PROVE TypeOK' /\ TriesLeft'
  BY <1>5 DEF AnswerRight, Key
<1>6. ASSUME NEW m \in Members, AnswerWrong(m) PROVE TypeOK' /\ TriesLeft'
  BY <1>6 DEF AnswerWrong
<1>7. CASE Forget
  BY <1>7 DEF Forget
<1>8. CASE StartPoll \/ PollFinds \/ PollGivesUp \/ MountFails
  BY <1>8 DEF StartPoll, PollFinds, PollGivesUp, MountFails
<1>9. CASE SwitchRoot
  BY <1>9 DEF SwitchRoot
<1>10. ASSUME NEW p \in Pools, RunImport(p) PROVE TypeOK' /\ TriesLeft'
  BY <1>10 DEF RunImport
<1>11. ASSUME NEW p \in Pools, ImportByHand(p) PROVE TypeOK' /\ TriesLeft'
  BY <1>11 DEF ImportByHand
<1>12. CASE TargetReached \/ Disconnect
  BY <1>12 DEF TargetReached, Disconnect
<1>13. CASE RunUnlock
  BY <1>13 DEF RunUnlock, Raised
<1>14. CASE ReportUnlock
  BY <1>14 DEF ReportUnlock, FailedUnits
<1>15. CASE UNCHANGED vars
  BY <1>15 DEF vars
<1> QED
  BY <1>1, <1>2, <1>3, <1>4, <1>5, <1>6, <1>7, <1>8, <1>9, <1>10, <1>11, <1>12,
     <1>13, <1>14, <1>15 DEF Next, Progress, InitrdStep, MemberStep

\* The initrd: what NoLockout rests on.
LockoutInv == CriticalKept /\ PollWaited /\ NoLockout /\ NothingYet

LEMMA LockoutStep == IInv /\ [Next]_vars => LockoutInv'
<1> SUFFICES ASSUME IInv, [Next]_vars PROVE LockoutInv'
  OBVIOUS
<1> USE CriticalIsNotData
    DEF IInv, TypeOK, CriticalKept, PollWaited, NoLockout, NothingYet, Pending,
        Settled, BootCritical, Hot, LockoutInv
<1>1. ASSUME NEW m \in Members, Appear(m) PROVE LockoutInv'
  BY <1>1 DEF Appear
<1>2. ASSUME NEW m \in Members, StartMember(m) PROVE LockoutInv'
  BY <1>2 DEF StartMember
<1>3. ASSUME NEW m \in Members, TakeCached(m) PROVE LockoutInv'
  BY <1>3 DEF TakeCached
<1>4. ASSUME NEW m \in Members, DeviceTimesOut(m) PROVE LockoutInv'
  BY <1>4 DEF DeviceTimesOut, Limited
<1>5. ASSUME NEW m \in Members, AnswerRight(m) PROVE LockoutInv'
  BY <1>5 DEF AnswerRight
<1>6. ASSUME NEW m \in Members, AnswerWrong(m) PROVE LockoutInv'
  BY <1>6 DEF AnswerWrong, Heard
<1>7. CASE Forget
  BY <1>7 DEF Forget
<1>8. CASE StartPoll
  BY <1>8 DEF StartPoll, ImportMayStart, CryptsetupTarget
<1>9. CASE PollFinds
  BY <1>9 DEF PollFinds
<1>10. CASE PollGivesUp
  BY <1>10 DEF PollGivesUp, StoreOpen, Opened
<1>11. CASE MountFails
  BY <1>11 DEF MountFails, MountLost, MountLimited
<1>12. CASE SwitchRoot
  BY <1>12 DEF SwitchRoot
<1>13. ASSUME NEW p \in Pools, RunImport(p) PROVE LockoutInv'
  BY <1>13 DEF RunImport
<1>14. ASSUME NEW p \in Pools, ImportByHand(p) PROVE LockoutInv'
  BY <1>14 DEF ImportByHand
<1>15. CASE TargetReached \/ ReportUnlock \/ Disconnect
  BY <1>15 DEF TargetReached, ReportUnlock, Disconnect
<1>16. CASE RunUnlock
  BY <1>16 DEF RunUnlock, Raised
<1>17. CASE UNCHANGED vars
  BY <1>17 DEF vars
<1> QED
  BY <1>1, <1>2, <1>3, <1>4, <1>5, <1>6, <1>7, <1>8, <1>9, <1>10, <1>11, <1>12,
     <1>13, <1>14, <1>15, <1>16, <1>17
     DEF Next, Progress, InitrdStep, MemberStep

\* The data members: sealed until asked for, and done with before an import.
DataInv == HotOpensEarly /\ Untouched /\ TargetPulls /\ ImportsKnow

LEMMA DataStep == IInv /\ [Next]_vars => DataInv'
<1> SUFFICES ASSUME IInv, [Next]_vars PROVE DataInv'
  OBVIOUS
<1> USE CriticalIsNotData, NeedsAssumption
    DEF IInv, TypeOK, NothingYet, HotOpensEarly, Untouched, TargetPulls,
        ImportsKnow, Pending, Settled, Opened, Hot, DataInv
<1>1. ASSUME NEW m \in Members, Appear(m) PROVE DataInv'
  BY <1>1 DEF Appear
<1>2. ASSUME NEW m \in Members, StartMember(m) PROVE DataInv'
  BY <1>2 DEF StartMember
<1>3. ASSUME NEW m \in Members, TakeCached(m) PROVE DataInv'
  BY <1>3 DEF TakeCached
<1>4. ASSUME NEW m \in Members, DeviceTimesOut(m) PROVE DataInv'
  BY <1>4 DEF DeviceTimesOut
<1>5. ASSUME NEW m \in Members, AnswerRight(m) PROVE DataInv'
  BY <1>5 DEF AnswerRight
<1>6. ASSUME NEW m \in Members, AnswerWrong(m) PROVE DataInv'
  BY <1>6 DEF AnswerWrong
<1>7. CASE Forget
  BY <1>7 DEF Forget
<1>8. CASE StartPoll \/ PollFinds \/ PollGivesUp \/ MountFails
  BY <1>8 DEF StartPoll, PollFinds, PollGivesUp, MountFails
<1>9. CASE SwitchRoot
  BY <1>9 DEF SwitchRoot, RaisedAtBoot, UnlockUnits
<1>10. ASSUME NEW p \in Pools, RunImport(p) PROVE DataInv'
  BY <1>10 DEF RunImport, ImportAfter, UnlockUnits
<1>11. ASSUME NEW p \in Pools, ImportByHand(p) PROVE DataInv'
  BY <1>11 DEF ImportByHand
<1>12. CASE TargetReached \/ ReportUnlock \/ Disconnect
  BY <1>12 DEF TargetReached, ReportUnlock, Disconnect
<1>13. CASE RunUnlock
  BY <1>13 DEF RunUnlock, Raised, UnlockUnits
<1>14. CASE UNCHANGED vars
  BY <1>14 DEF vars
<1> QED
  BY <1>1, <1>2, <1>3, <1>4, <1>5, <1>6, <1>7, <1>8, <1>9, <1>10, <1>11, <1>12,
     <1>13, <1>14 DEF Next, Progress, InitrdStep, MemberStep

\* Once reported, nothing moves until nixnas-unlock runs again: every step of a
\* unit or of the target is one of a job.
LEMMA ReportStep == IInv /\ [Next]_vars => ReportHolds'
<1> SUFFICES ASSUME IInv, [Next]_vars, tool' = "done"
             PROVE ~JobsListed' /\ report' = FailedUnits'
  BY DEF ReportHolds
<1> USE DEF JobsListed, ImportsSettled, Settled, Pending
<1>1. CASE ReportUnlock
  BY <1>1 DEF ReportUnlock, FailedUnits
<1>2. CASE ~ReportUnlock
  <2>1. tool = "done" /\ ~JobsListed /\ report = FailedUnits /\ boot = "up"
    <3>1. tool = "done"
      BY <1>2 DEF Next, Progress, InitrdStep, MemberStep, Appear, StartMember,
                  TakeCached, DeviceTimesOut, AnswerRight, AnswerWrong, Forget,
                  StartPoll, PollFinds, PollGivesUp, MountFails, SwitchRoot,
                  RunImport, ImportByHand, TargetReached, RunUnlock, Disconnect,
                  vars
    <3> QED
      BY <3>1 DEF IInv, ReportHolds, NothingYet
  <2>2. UNCHANGED <<unit, import, target, report>>
    BY <1>2, <2>1
       DEF Next, Progress, InitrdStep, MemberStep, Appear, StartMember,
           TakeCached, DeviceTimesOut, AnswerRight, AnswerWrong, Forget,
           StartPoll, PollFinds, PollGivesUp, MountFails, SwitchRoot, RunImport,
           ImportByHand, TargetReached, RunUnlock, Disconnect, vars
  <2> QED
    BY <2>1, <2>2 DEF FailedUnits
<1> QED
  BY <1>1, <1>2

LEMMA IInvHolds == Spec => []IInv
<1>1. IInv /\ [Next]_vars => IInv'
  BY TypeStep, LockoutStep, DataStep, ReportStep DEF IInv, LockoutInv, DataInv
<1> QED
  BY InitIInv, <1>1, PTL DEF Spec

\* Every variable keeps its type, for any members, pools and bounds.
THEOREM TypeCorrect == Spec => []TypeOK
BY IInvHolds, PTL DEF IInv

\* The emergency shell is reached over a failed passphrase only: no timing of
\* disks or of the operator leads there (disk.nix 53-90, location.nix 291-303).
THEOREM SlowIsNotLockedOut == Spec => []NoLockout
BY IInvHolds, PTL DEF IInv

\* In usb mode the data stays sealed until nixnas-unlock runs (connect.nix 107-115).
THEOREM StaysSealed == Spec => []SealedUntilAsked
<1>1. IInv => SealedUntilAsked
  BY DEF IInv, Untouched, SealedUntilAsked, Settled, Pending, Opened, Members
<1> QED
  BY IInvHolds, <1>1, PTL

\* What is open when everything has settled is imported (connect.nix 124-142).
THEOREM OpenPoolsAreImported == Spec => []PoolsFollowMembers
<1>1. IInv => PoolsFollowMembers
  <2> SUFFICES ASSUME IInv, target = "active", ~JobsListed, NEW p \in Pools,
                      Needs[p] \subseteq Opened
               PROVE p \in imported
    BY DEF PoolsFollowMembers
  <2>1. import[p] \in {"active", "failed"}
    BY DEF IInv, TypeOK, TargetPulls, JobsListed, ImportsSettled
  <2> QED
    BY <2>1 DEF IInv, ImportsKnow
<1> QED
  BY IInvHolds, <1>1, PTL

\* The report of nixnas-unlock is final (connect.nix 58-80).
THEOREM ReportStands == Spec => []ReportIsFinal
<1>1. IInv => ReportIsFinal
  BY DEF IInv, ReportHolds, ReportIsFinal
<1> QED
  BY IInvHolds, <1>1, PTL

=============================================================================
