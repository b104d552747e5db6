---------------------------- MODULE FlashProofs -----------------------------
(* The safety of a flash for any disks, sizes and listings, any number of  *)
(* flashes and retries, and a process that may be killed at any step.      *)
EXTENDS Flash, TLAPS

\* The screen that was opened may still arm its flash.
MayArm == phase \in Asking \cup {"devices"} => flashes < MaxFlashes

\* A worker, or its verdict, is there only while the screen shows it running.
WorkerIsShown ==
  /\ job.step # "none" => phase = "running" /\ channel = "none"
  /\ job.step = "none" => job = NoJob
  /\ channel # "none" => phase = "running"

\* The worker is on the disk whose name was typed, and a password is asked for
\* on the way to that disk only.
WorkerIsOnTyped ==
  /\ job.step # "none" => job.dev = typed /\ job.dev \in Names
  /\ phase = "sudoPass" => selected = typed /\ selected \in Names
  /\ channel \in Successes => typed \in Names
  /\ phase = "done" /\ message \in Successes => typed \in Names

JobInv == WorkerIsShown /\ WorkerIsOnTyped

\* What the steps behind the write, the verification and the new partition may
\* rely on.
Verified == {"measure", "move"}
Recreated == {"reread", "settle", "unlock", "resize", "close", "failedClose"}

WholeOrLied(d) == data[d] = "image" \/ lied[d]
Earned(d, verdict) ==
  /\ HasHeader(d)
  /\ WholeOrLied(d)
  /\ verdict \in {"partitionGrown", "storeGrown", "storeWarned"} => table[d] = "grown"

ProgressIsTrue ==
  /\ job.step \in {"finish", "verify"} => WholeOrLied(job.dev)
  /\ job.step \in Verified \cup {"recreate"} \cup Recreated =>
       HasHeader(job.dev) /\ WholeOrLied(job.dev)
  /\ job.step \in Recreated => table[job.dev] = "grown"
  /\ job.step = "resize" => mapper = job.dev
  /\ channel \in Successes => Earned(typed, channel)
  /\ phase = "done" /\ message \in Successes => Earned(typed, message)

\* The backup, from its first byte to the first byte of the write.
Backup(complete, durable) ==
  backupFile = [of |-> job.dev, what |-> data[job.dev],
                complete |-> complete, durable |-> durable]
BackupGrows ==
  /\ job.step = "copying" => Backup(FALSE, FALSE)
  /\ job.step = "syncing" => Backup(TRUE, FALSE)
  /\ job.step \in {"write", "stubbing"} /\ job.backup => Backup(TRUE, TRUE)

\* Behind the question for it, a passphrase belongs to the disk that is chosen.
PassIsForSelected ==
  phase \in {"confirm", "sudoPass"} /\ GrowsToFill /\ storePass # "none" =>
    passFor = selected

TypeInv == TypeOK /\ MayArm /\ JobInv

WorkInv == ProgressIsTrue /\ BackupGrows
PassInv == PassIsForSelected /\ PassphraseMatchesTarget

IInv == TypeInv /\ WorkInv /\ PassInv

USE DEF screenVars, deviceVars, mapperVars, historyVars, worldVars, quiet

LEMMA InitIInv == Init => IInv
<1> SUFFICES ASSUME Init PROVE IInv
  OBVIOUS
<1>1. TypeOK
  BY MaxFlashesAssumption
     DEF Init, TypeOK, Listing, NoJob, Passphrases, Asking, Verdicts, Successes
<1> QED
  BY <1>1 DEF Init, IInv, WorkInv, PassInv, TypeInv, MayArm, Asking, JobInv, WorkerIsShown, WorkerIsOnTyped, ProgressIsTrue,
              Verified, Recreated, BackupGrows, PassIsForSelected,
              PassphraseMatchesTarget, NoJob, Successes

LEMMA RefreshedIsListing ==
  TypeOK /\ RefreshDisks =>
    /\ listed' \in Listing
    /\ selected' \in {d \in Names : listed'[d] # "absent"} \cup {None}
BY SizesAssumption DEF RefreshDisks, Listing

Jobs == [step: Steps \cup {"none"}, dev: Names \cup {None}, backup: BOOLEAN,
         grow: BOOLEAN, pass: Passphrases]

\* A step of the worker goes on with the job it has, or ends it with a verdict.
Moved ==
  /\ UNCHANGED quiet
  /\ job.step # "none"
  /\ \/ /\ job' \in Jobs /\ job'.step \in Steps
        /\ job'.dev = job.dev /\ job'.backup = job.backup
        /\ job'.grow = job.grow /\ job'.pass = job.pass
        /\ UNCHANGED channel
     \/ job' = NoJob /\ channel' \in Verdicts

LEMMA NoJobIsJob == NoJob \in Jobs
BY DEF NoJob, Jobs, Passphrases

LEMMA ProceedMoves ==
  ASSUME job \in Jobs, job.step # "none", UNCHANGED quiet, NEW to \in Steps, Proceed(to)
  PROVE  Moved /\ job'.step = to /\ job'.dev = job.dev
BY DEF Jobs, Moved, Proceed

LEMMA ReturnMoves ==
  ASSUME job.step # "none", UNCHANGED quiet, NEW v \in Verdicts, Return(v)
  PROVE  Moved
BY DEF Moved, Return

LEMMA WorkerMoves == job \in Jobs /\ WorkerStep => Moved
<1> SUFFICES ASSUME job \in Jobs, WorkerStep PROVE Moved
  OBVIOUS
<1>1. \A to \in Steps : Proceed(to) /\ UNCHANGED quiet /\ job.step # "none" => Moved
  BY ProceedMoves
<1>2. \A v \in Verdicts : Return(v) /\ UNCHANGED quiet /\ job.step # "none" => Moved
  BY ReturnMoves
<1> HIDE DEF quiet, deviceVars, mapperVars
<1> USE <1>1, <1>2 DEF At, Steps, Verdicts, Successes
<1>3. CASE OpenBackup \/ CopyBackup \/ SyncBackup
  BY <1>3 DEF OpenBackup, CopyBackup, SyncBackup
<1>4. CASE OpenWriter \/ WriteChunk \/ WriteError \/ DropWrites \/ Finish
  BY <1>4 DEF OpenWriter, WriteChunk, WriteError, Fail, Writing, DropWrites, Finish
<1>5. CASE Verify \/ MeasurePartition \/ MoveHeader \/ RecreatePartition
  BY <1>5 DEF Verify, MeasurePartition, MoveHeader, RecreatePartition
<1>6. CASE Reread \/ SettleSize \/ OpenMapper
  BY <1>6 DEF Reread, SettleSize, OpenMapper
<1>7. CASE Resize \/ CloseMapper
  BY <1>7 DEF Resize, CloseMapper
<1> QED
  BY <1>3, <1>4, <1>5, <1>6, <1>7 DEF WorkerStep

-----------------------------------------------------------------------------
(* Types, and whose worker it is.                                          *)

\* What the screen has, apart from the world.
ScreenTypes ==
  /\ phase \in Asking \cup {"home", "devices", "running", "done", "quit"}
  /\ listed \in Listing
  /\ selected \in {d \in Names : listed[d] # "absent"} \cup {None}
  /\ backup \in BOOLEAN
  /\ storePass \in Passphrases
  /\ message \in Verdicts \cup {"none"}
  /\ flashes \in 0..MaxFlashes
  /\ typed \in Names \cup {None}
  /\ passFor \in Names \cup {None}

JobTypes == job \in Jobs /\ channel \in Verdicts \cup {"none"}

Contents == {"original", "stub", "torn", "image"}
DeviceTypes ==
  /\ data \in [Names -> Contents]
  /\ table \in [Names -> {"image", "moved", "grown"}]
  /\ kernel \in [Names -> {"image", "full"}]
  /\ store \in [Names -> {"image", "full"}]
  /\ mapper \in Names \cup {None}
  /\ mapperSize \in {"image", "full"}
  /\ backupFile \in [of: Names \cup {None}, what: {"none"} \cup Contents,
                     complete: BOOLEAN, durable: BOOLEAN]
  /\ lied \in [Names -> BOOLEAN]

LEMMA TypeParts == TypeOK <=> ScreenTypes /\ JobTypes /\ DeviceTypes
<1>1. {"none"} \cup {"original", "stub", "torn", "image"} = {"none"} \cup Contents
  BY DEF Contents
<1> QED
  BY <1>1 DEF TypeOK, ScreenTypes, JobTypes, DeviceTypes, Jobs, Contents

LEMMA ArmStep ==
  ASSUME TypeInv, phase \in Asking, Arm
  PROVE  /\ job' \in Jobs /\ job'.dev = selected /\ job'.grow = GrowsToFill
         /\ job'.pass = storePass /\ job'.backup = backup
         /\ job'.step = IF backup THEN "backup" ELSE "write"
         /\ flashes' \in 0..MaxFlashes
BY MaxFlashesAssumption, TypeParts
   DEF TypeInv, MayArm, ScreenTypes, Arm, Jobs, Steps, GrowsToFill

LEMMA DeviceStep == TypeInv /\ WorkerStep => DeviceTypes'
<1> SUFFICES ASSUME TypeInv, WorkerStep PROVE DeviceTypes'
  OBVIOUS
<1>1. DeviceTypes /\ (job.step # "none" => job.dev \in Names)
  BY TypeParts DEF TypeInv, JobInv, WorkerIsOnTyped
<1> USE <1>1 DEF DeviceTypes, Contents, At
<1>2. CASE OpenBackup
  <2>1. data[job.dev] \in Contents /\ job.dev \in Names
    BY <1>2 DEF OpenBackup
  <2>2. \/ UNCHANGED backupFile
        \/ backupFile' = [of |-> job.dev, what |-> data[job.dev],
                          complete |-> FALSE, durable |-> FALSE]
    BY <1>2 DEF OpenBackup
  <2>3. backupFile' \in [of: Names \cup {None}, what: {"none"} \cup Contents,
                         complete: BOOLEAN, durable: BOOLEAN]
    <3>1. CASE UNCHANGED backupFile
      BY <3>1
    <3>2. CASE backupFile' = [of |-> job.dev, what |-> data[job.dev],
                              complete |-> FALSE, durable |-> FALSE]
      <4> HIDE <1>1
      <4> HIDE DEF Contents, DeviceTypes
      <4> QED
        BY <2>1, <3>2
    <3> QED
      BY <2>2, <3>1, <3>2
  <2> QED
    BY <1>2, <2>3 DEF OpenBackup
<1>3. CASE CopyBackup \/ SyncBackup
  BY <1>3 DEF CopyBackup, SyncBackup
<1>4. CASE OpenWriter \/ WriteError \/ Verify \/ MeasurePartition
  BY <1>4 DEF OpenWriter, WriteError, Verify, MeasurePartition
<1>5. CASE WriteChunk \/ Finish
  BY <1>5 DEF WriteChunk, Finish, Put
<1>6. CASE DropWrites
  BY <1>6 DEF DropWrites
<1>7. CASE MoveHeader
  BY <1>7 DEF MoveHeader
<1>8. CASE RecreatePartition
  BY <1>8 DEF RecreatePartition
<1>9. CASE Reread \/ SettleSize
  BY <1>9 DEF Reread, SettleSize
<1>10. CASE OpenMapper
  BY <1>10 DEF OpenMapper
<1>11. CASE Resize
  BY <1>11 DEF Resize
<1>12. CASE CloseMapper
  BY <1>12 DEF CloseMapper
<1> QED
  BY <1>2, <1>3, <1>4, <1>5, <1>6, <1>7, <1>8, <1>9, <1>10, <1>11, <1>12
     DEF WorkerStep

LEMMA TypeStep == TypeInv /\ [Next]_vars => TypeInv'
<1> SUFFICES ASSUME TypeInv, [Next]_vars PROVE TypeInv'
  OBVIOUS
<1>1. ScreenTypes /\ JobTypes /\ DeviceTypes
  BY TypeParts DEF TypeInv
<1> DEFINE Goal == MayArm' /\ JobInv' /\ ScreenTypes' /\ JobTypes' /\ DeviceTypes'
<1> SUFFICES Goal
  <2>1. TypeOK' <=> ScreenTypes' /\ JobTypes' /\ DeviceTypes'
    BY TypeParts, PTL
  <2> QED
    BY <2>1 DEF TypeInv
<1> USE <1>1
    DEF TypeInv, MayArm, JobInv, WorkerIsShown, WorkerIsOnTyped, ScreenTypes, Asking
<1>2. ASSUME UNCHANGED worldVars, RefreshDisks, UNCHANGED <<backup, storePass>>,
             UNCHANGED historyVars, phase = "devices", UNCHANGED <<phase, message>>
      PROVE  Goal
  BY <1>2, RefreshedIsListing DEF JobTypes, DeviceTypes
<1>3. CASE Open
  BY <1>3, RefreshedIsListing DEF Open, JobTypes, DeviceTypes, Passphrases,
     Verdicts, Successes
<1>4. CASE Refresh
  BY <1>2, <1>4 DEF Refresh
<1>5. CASE MoveCursor
  BY <1>5 DEF MoveCursor, JobTypes, DeviceTypes
<1>6. CASE ChooseTarget \/ AcceptSummary \/ Back \/ Restart
  BY <1>6 DEF ChooseTarget, AcceptSummary, Back, Restart, Goto, JobTypes, DeviceTypes
<1>7. ASSUME NEW yes \in BOOLEAN, AnswerBackup(yes) PROVE Goal
  BY <1>7 DEF AnswerBackup, Goto, JobTypes, DeviceTypes
<1>8. ASSUME NEW p \in Passphrases, EnterStorePass(p) PROVE Goal
  BY <1>8 DEF EnterStorePass, Goto, JobTypes, DeviceTypes
<1>9. ASSUME phase \in {"confirm", "sudoPass"}, selected \in Names, typed' = selected,
             UNCHANGED passFor, Arm
      PROVE  Goal
  <2>1. job' \in Jobs /\ job'.dev = selected /\ flashes' \in 0..MaxFlashes
    BY <1>9, ArmStep
  <2>2. channel = "none" /\ UNCHANGED channel
    BY <1>9 DEF Arm, JobTypes
  <2>3. ScreenTypes' /\ JobTypes' /\ DeviceTypes'
    BY <1>9, <2>1, <2>2 DEF Arm, Passphrases, JobTypes, DeviceTypes
  <2> QED
    BY <1>9, <2>1, <2>2, <2>3 DEF Arm, Successes
<1>10. ASSUME phase \in {"confirm", "sudoPass"}, typed' \in Names, UNCHANGED passFor, Refuse
       PROVE  Goal
  BY <1>10 DEF Refuse, JobTypes, DeviceTypes, Verdicts, Successes
<1>11. ASSUME NEW n \in Names, TypeName(n) PROVE Goal
  <2>1. CASE n = selected /\ (Arm \/ Refuse)
    BY <1>9, <1>10, <1>11, <2>1 DEF TypeName
  <2>2. CASE ~(n = selected /\ (Arm \/ Refuse))
    BY <1>11, <2>2 DEF TypeName, JobTypes, DeviceTypes, Successes
  <2> QED
    BY <2>1, <2>2
<1>12. CASE Authenticate
  BY <1>9, <1>10, <1>12 DEF Authenticate
<1>13. CASE Drain
  <2>1. ScreenTypes' /\ JobTypes' /\ DeviceTypes'
    BY <1>13 DEF Drain, JobTypes, DeviceTypes
  <2>2. MayArm' /\ WorkerIsShown'
    BY <1>13 DEF Drain
  <2>3. job.step = "none" /\ (channel \in Successes => typed \in Names)
    BY <1>13 DEF Drain
  <2>4. job' = job /\ channel' = "none" /\ phase' = "done" /\ message' = channel
        /\ typed' = typed
    BY <1>13 DEF Drain
  <2>5. "none" \notin Successes
    BY DEF Successes
  <2> HIDE DEF Successes
  <2>6. WorkerIsOnTyped'
    BY <2>3, <2>4, <2>5
  <2> QED
    BY <2>1, <2>2, <2>6
<1>14. CASE CtrlC
  BY <1>14, NoJobIsJob DEF CtrlC, NoJob, JobTypes, DeviceTypes, Passphrases, Successes
<1>15. CASE WorkerStep
  <2>1. Moved
    BY <1>15, WorkerMoves DEF JobTypes
  <2>2. DeviceTypes'
    BY <1>15, DeviceStep
  <2>3. JobTypes'
    BY <2>1, NoJobIsJob DEF Moved, JobTypes
  <2>4. WorkerIsShown'
    BY <2>1 DEF Moved, NoJob, Steps
  <2> QED
    BY <2>1, <2>2, <2>3, <2>4 DEF Moved, NoJob, Successes, JobTypes
<1>16. CASE UNCHANGED vars
  BY <1>16 DEF vars, JobTypes, DeviceTypes
<1> QED
  BY <1>3, <1>4, <1>5, <1>6, <1>7, <1>8, <1>11, <1>12, <1>13, <1>14, <1>15, <1>16
     DEF Next, ScreenStep

-----------------------------------------------------------------------------
(* The write, the verification, the grow and the backup.                   *)

\* Who does not touch the worker, the devices, the verdict or the gate keeps what
\* the worker knows.
Untouched ==
  /\ UNCHANGED <<job, channel, deviceVars, mapperVars, backupFile, typed>>
  /\ phase' = "done" => phase = "done" /\ UNCHANGED message

LEMMA UntouchedKeeps ==
  ProgressIsTrue /\ BackupGrows /\ Untouched => ProgressIsTrue' /\ BackupGrows'
BY DEF Untouched, ProgressIsTrue, Earned, WholeOrLied, HasHeader, BackupGrows, Backup

LEMMA ScreenWork ==
  ASSUME TypeInv, WorkInv, ScreenStep \/ Drain \/ CtrlC \/ Restart
  PROVE  WorkInv'
<1> USE DEF TypeInv, JobInv, WorkerIsShown, Asking
<1>1. ASSUME Refresh \/ MoveCursor PROVE Untouched
  BY <1>1 DEF Untouched, Refresh, MoveCursor
<1>2. ASSUME ChooseTarget \/ AcceptSummary \/ Back \/ Restart PROVE Untouched
  BY <1>2 DEF Untouched, ChooseTarget, AcceptSummary, Back, Restart, Goto
<1>3. ASSUME NEW yes \in BOOLEAN, AnswerBackup(yes) PROVE Untouched
  BY <1>3 DEF Untouched, AnswerBackup, Goto
<1>4. ASSUME NEW p \in Passphrases, EnterStorePass(p) PROVE Untouched
  BY <1>4 DEF Untouched, EnterStorePass, Goto
<1> USE DEF WorkInv
<1>5. CASE Open
  BY <1>5 DEF Open, ProgressIsTrue, BackupGrows, Backup, Verified, Recreated, Successes,
              WholeOrLied, HasHeader
<1>6. ASSUME phase \in Asking, Arm PROVE WorkInv'
  <2>1. /\ job'.step = IF backup THEN "backup" ELSE "write"
        /\ job'.backup = backup /\ channel = "none" /\ channel' = "none"
        /\ phase' = "running"
    <3>1. channel = "none" /\ UNCHANGED channel /\ phase' = "running"
      BY <1>6, TypeParts DEF Arm, JobTypes
    <3> QED
      BY <1>6, <3>1, ArmStep
  <2> QED
    BY <2>1 DEF ProgressIsTrue, BackupGrows, Verified, Recreated, Successes
<1>7. ASSUME phase \in Asking, Refuse PROVE WorkInv'
  BY <1>7 DEF Refuse, ProgressIsTrue, BackupGrows, Backup, Verified, Recreated,
              Successes, WholeOrLied, HasHeader
<1>8. ASSUME NEW n \in Names, TypeName(n) PROVE WorkInv'
  <2>1. CASE n = selected /\ (Arm \/ Refuse)
    BY <1>6, <1>7, <1>8, <2>1 DEF TypeName
  <2>2. CASE ~(n = selected /\ (Arm \/ Refuse))
    <3>1. job.step = "none" /\ channel = "none" /\ phase' # "done"
          /\ UNCHANGED <<job, channel>>
      BY <1>8, <2>2, TypeParts DEF TypeName, JobTypes
    <3> QED
      BY <3>1 DEF ProgressIsTrue, BackupGrows, Verified, Recreated, Successes
  <2> QED
    BY <2>1, <2>2
<1>9. CASE Authenticate
  BY <1>6, <1>7, <1>9 DEF Authenticate
<1>10. CASE Drain
  <2>1. /\ UNCHANGED <<job, deviceVars, mapperVars, backupFile, typed>>
        /\ channel' = "none" /\ message' = channel
    BY <1>10 DEF Drain
  <2> QED
    BY <2>1 DEF ProgressIsTrue, BackupGrows, Backup, Earned, WholeOrLied, HasHeader,
                Successes
<1>11. CASE CtrlC
  BY <1>11 DEF CtrlC, NoJob, ProgressIsTrue, BackupGrows, Verified, Recreated, Successes
<1> QED
  BY <1>1, <1>2, <1>3, <1>4, <1>5, <1>8, <1>9, <1>10, <1>11, UntouchedKeeps DEF ScreenStep

\* A step that ends the worker owes only what its verdict says.
LEMMA ReturnWork ==
  ASSUME WorkerIsShown, job.step # "none", UNCHANGED quiet, NEW v, Return(v),
         v \in Successes => Earned(typed, v)'
  PROVE  WorkInv'
BY DEF WorkerIsShown, Return, NoJob, WorkInv, ProgressIsTrue, BackupGrows, Verified,
       Recreated

\* A step that goes on owes what the next one relies on.
LEMMA ProceedWork ==
  ASSUME WorkerIsShown, job \in Jobs, job.step # "none", UNCHANGED quiet,
         NEW to \in Steps, Proceed(to),
         to \in {"finish", "verify"} => WholeOrLied(job.dev)',
         to \in Verified \cup {"recreate"} \cup Recreated =>
           HasHeader(job.dev)' /\ WholeOrLied(job.dev)',
         to \in Recreated => table'[job.dev] = "grown",
         to = "resize" => mapper' = job.dev,
         to = "copying" => Backup(FALSE, FALSE)',
         to = "syncing" => Backup(TRUE, FALSE)',
         to \in {"write", "stubbing"} /\ job.backup => Backup(TRUE, TRUE)'
  PROVE  WorkInv'
<1>1. /\ job'.step = to /\ job'.dev = job.dev /\ job'.backup = job.backup
      /\ channel' = "none" /\ phase' = "running"
  BY DEF Proceed, Jobs, WorkerIsShown
<1> QED
  BY <1>1 DEF WorkInv, ProgressIsTrue, BackupGrows, Successes, HasHeader, WholeOrLied

LEMMA WorkerWork ==
  ASSUME TypeInv, WorkInv, WorkerStep
  PROVE  WorkInv'
<1>1. /\ WorkerIsShown /\ job \in Jobs /\ DeviceTypes
      /\ job.step # "none" => job.dev \in Names /\ job.dev = typed
  BY TypeParts DEF TypeInv, JobInv, WorkerIsOnTyped, JobTypes
<1> USE <1>1 DEF At, Steps, Verified, Recreated, Successes
<1>2. CASE OpenBackup
  <2>1. CASE Return("error")
    BY <1>2, <2>1, ReturnWork DEF OpenBackup
  <2>2. CASE Proceed("copying")
    <3>1. UNCHANGED <<job.dev, data>>
      BY <1>2, <2>2, ProceedMoves DEF OpenBackup
    <3>2. ~Return("error")
      BY <1>2, <2>2, ProceedMoves DEF OpenBackup, Return, NoJob
    <3>3. Backup(FALSE, FALSE)'
      BY <1>2, <3>1, <3>2 DEF OpenBackup, Backup
    <3> QED
      BY <1>2, <2>2, <3>3, ProceedWork DEF OpenBackup
  <2> QED
    BY <1>2, <2>1, <2>2 DEF OpenBackup
<1>3. CASE CopyBackup
  BY <1>3, ReturnWork, ProceedWork
     DEF CopyBackup, WorkInv, BackupGrows, Backup, Proceed, Jobs, DeviceTypes
<1>4. CASE SyncBackup
  BY <1>4, ReturnWork, ProceedWork
     DEF SyncBackup, WorkInv, BackupGrows, Backup, Proceed, Jobs, DeviceTypes
<1>5. CASE OpenWriter
  BY <1>5, ReturnWork, ProceedWork
     DEF OpenWriter, WorkInv, BackupGrows, Backup, Proceed, Jobs
<1>6. CASE WriteChunk
  <2>1. CASE At("stubbing") /\ Proceed("heading")
    BY <1>6, <2>1, ProceedWork DEF WriteChunk
  <2>2. CASE At("heading") /\ Proceed("tailing")
    BY <1>6, <2>2, ProceedWork DEF WriteChunk
  <2>3. CASE At("tailing") /\ Put("image") /\ Proceed("finish")
    <3>1. UNCHANGED job.dev
      BY <1>6, <2>3, ProceedMoves DEF WriteChunk
    <3>2. WholeOrLied(job.dev)'
      BY <2>3, <3>1 DEF Put, WholeOrLied, DeviceTypes
    <3> QED
      BY <1>6, <2>3, <3>2, ProceedWork DEF WriteChunk
  <2> QED
    BY <1>6, <2>1, <2>2, <2>3 DEF WriteChunk
<1>7. CASE WriteError
  BY <1>7, ReturnWork DEF WriteError, Fail, Writing
<1>8. CASE DropWrites
  BY <1>8, ProceedWork DEF DropWrites, Proceed, Jobs, WholeOrLied, DeviceTypes
<1>9. CASE Finish
  BY <1>9, ReturnWork, ProceedWork
     DEF Finish, WorkInv, ProgressIsTrue, WholeOrLied, Proceed, Jobs
<1>10. CASE Verify
  BY <1>10, ReturnWork, ProceedWork
     DEF Verify, WorkInv, ProgressIsTrue, WholeOrLied, HasHeader, Earned, Proceed, Jobs
<1>11. CASE MeasurePartition
  BY <1>11, ReturnWork, ProceedWork
     DEF MeasurePartition, WorkInv, ProgressIsTrue, WholeOrLied, HasHeader, Earned,
         Proceed, Jobs
<1>12. CASE MoveHeader
  BY <1>12, ReturnWork, ProceedWork
     DEF MoveHeader, WorkInv, ProgressIsTrue, WholeOrLied, HasHeader, Earned,
         Proceed, Jobs
<1>13. CASE RecreatePartition
  BY <1>13, ReturnWork, ProceedWork
     DEF RecreatePartition, WorkInv, ProgressIsTrue, WholeOrLied, HasHeader, Earned,
         Proceed, Jobs, DeviceTypes
<1>14. CASE Reread \/ SettleSize
  BY <1>14, ReturnWork, ProceedWork
     DEF Reread, SettleSize, WorkInv, ProgressIsTrue, WholeOrLied, HasHeader, Earned,
         Proceed, Jobs
<1>15. CASE OpenMapper
  BY <1>15, ReturnWork, ProceedWork
     DEF OpenMapper, WorkInv, ProgressIsTrue, WholeOrLied, HasHeader, Earned,
         Proceed, Jobs
<1>16. CASE Resize
  BY <1>16, ReturnWork, ProceedWork
     DEF Resize, WorkInv, ProgressIsTrue, WholeOrLied, HasHeader, Earned, Proceed, Jobs
<1>17. CASE CloseMapper
  BY <1>17, ReturnWork
     DEF CloseMapper, WorkInv, ProgressIsTrue, WholeOrLied, HasHeader, Earned
<1> QED
  BY <1>2, <1>3, <1>4, <1>5, <1>6, <1>7, <1>8, <1>9, <1>10, <1>11, <1>12, <1>13, <1>14,
     <1>15, <1>16, <1>17 DEF WorkerStep

LEMMA WorkStep == TypeInv /\ WorkInv /\ [Next]_vars => WorkInv'
<1> SUFFICES ASSUME TypeInv, WorkInv, [Next]_vars PROVE WorkInv'
  OBVIOUS
<1>1. CASE UNCHANGED vars
  BY <1>1, UntouchedKeeps DEF vars, Untouched, WorkInv
<1> QED
  BY <1>1, ScreenWork, WorkerWork DEF Next

-----------------------------------------------------------------------------
(* The passphrase.                                                         *)

LEMMA PassStep == TypeInv /\ PassInv /\ [Next]_vars => PassInv'
<1> SUFFICES ASSUME TypeInv, PassInv, [Next]_vars PROVE PassInv'
  OBVIOUS
<1>1. job \in Jobs
  BY TypeParts DEF TypeInv, JobTypes
<1> USE DEF PassInv, PassIsForSelected, PassphraseMatchesTarget, GrowsToFill, TypeInv,
            JobInv, WorkerIsShown, Asking, NoJob
<1>2. CASE Open
  BY <1>2 DEF Open
<1>3. CASE Refresh \/ MoveCursor \/ ChooseTarget \/ AcceptSummary \/ Back \/ Restart
  BY <1>3 DEF Refresh, MoveCursor, ChooseTarget, AcceptSummary, Back, Restart, Goto
<1>4. ASSUME NEW yes \in BOOLEAN, AnswerBackup(yes) PROVE PassInv'
  BY <1>4 DEF AnswerBackup, Goto
<1>5. ASSUME NEW p \in Passphrases, EnterStorePass(p) PROVE PassInv'
  BY <1>5 DEF EnterStorePass, Goto
<1>6. ASSUME phase \in {"confirm", "sudoPass"}, Arm, UNCHANGED passFor PROVE PassInv'
  <2>1. job'.dev = selected /\ job'.grow = GrowsToFill /\ job'.pass = storePass
    BY <1>6, ArmStep
  <2> QED
    BY <1>6, <2>1 DEF Arm
<1>7. ASSUME NEW n \in Names, TypeName(n) PROVE PassInv'
  BY <1>6, <1>7 DEF TypeName, Refuse
<1>8. CASE Authenticate
  BY <1>6, <1>8 DEF Authenticate, Refuse
<1>9. CASE Drain
  BY <1>9 DEF Drain
<1>10. CASE CtrlC
  BY <1>10 DEF CtrlC
<1>11. CASE WorkerStep
  <2>1. Moved
    BY <1>1, <1>11, WorkerMoves
  <2> QED
    BY <2>1 DEF Moved
<1>12. CASE UNCHANGED vars
  BY <1>12 DEF vars
<1> QED
  BY <1>2, <1>3, <1>4, <1>5, <1>7, <1>8, <1>9, <1>10, <1>11, <1>12 DEF Next, ScreenStep

LEMMA Inductive == Spec => []IInv
<1>1. IInv /\ [Next]_vars => IInv'
  BY TypeStep, WorkStep, PassStep DEF IInv
<1> QED
  BY InitIInv, <1>1, PTL DEF Spec

-----------------------------------------------------------------------------
(* What a step does to disks.                                              *)

\* Disks other than the one typed.
OthersKept ==
  \A d \in Names :
    <<data, table, store>>' # <<data, table, store>> /\ typed # d =>
      /\ data'[d] = data[d]
      /\ table'[d] = table[d]
      /\ store'[d] = store[d]

LEMMA OthersStep == IInv /\ [Next]_vars => [OthersKept]_vars
<1> SUFFICES ASSUME IInv, [Next]_vars PROVE OthersKept
  OBVIOUS
<1>1. /\ DeviceTypes
      /\ job.step # "none" => job.dev = typed
      /\ job.step = "resize" => mapper = job.dev
  BY TypeParts DEF IInv, TypeInv, JobInv, WorkerIsOnTyped, WorkInv, ProgressIsTrue
<1>2. CASE WorkerStep
  <2> USE <1>1 DEF DeviceTypes, OthersKept, At
  <2>1. CASE OpenBackup \/ CopyBackup \/ SyncBackup \/ OpenWriter \/ WriteError
    BY <2>1 DEF OpenBackup, CopyBackup, SyncBackup, OpenWriter, WriteError
  <2>2. CASE DropWrites \/ Verify \/ MeasurePartition \/ Reread \/ SettleSize
    BY <2>2 DEF DropWrites, Verify, MeasurePartition, Reread, SettleSize
  <2>3. CASE WriteChunk \/ Finish
    BY <2>3 DEF WriteChunk, Finish, Put
  <2>4. CASE MoveHeader \/ RecreatePartition
    BY <2>4 DEF MoveHeader, RecreatePartition
  <2>5. CASE OpenMapper \/ CloseMapper
    BY <2>5 DEF OpenMapper, CloseMapper
  <2>6. CASE Resize
    BY <2>6 DEF Resize
  <2> QED
    BY <1>2, <2>1, <2>2, <2>3, <2>4, <2>5, <2>6 DEF WorkerStep
<1>3. CASE Drain \/ CtrlC \/ Restart
  BY <1>3 DEF Drain, CtrlC, Restart, OthersKept
<1>4. CASE ScreenStep
  BY <1>4 DEF ScreenStep, Open, Refresh, MoveCursor, ChooseTarget, AcceptSummary, Back,
              AnswerBackup, EnterStorePass, TypeName, Authenticate, Arm, Refuse, OthersKept
<1>5. CASE UNCHANGED vars
  BY <1>5 DEF vars, OthersKept
<1> QED
  BY <1>2, <1>3, <1>4, <1>5 DEF Next

-----------------------------------------------------------------------------

\* Type correctness of the screen, the worker and the devices.
THEOREM TypeCorrect == Spec => []TypeOK
<1>1. IInv => TypeOK
  BY DEF IInv, TypeInv
<1> QED
  BY Inductive, <1>1, PTL

\* A success is proved: the disk that was typed starts with the image, has all of
\* it unless it dropped writes silently, and was grown if the message says so.
THEOREM SuccessIsHonest == Spec => []HonestSuccess
<1>1. IInv => HonestSuccess
  BY DEF IInv, WorkInv, ProgressIsTrue, Earned, WholeOrLied, HonestSuccess
<1> QED
  BY Inductive, <1>1, PTL

\* resize.f2fs only ever works on the store of the disk that is being flashed.
THEOREM GrowIsItsOwn == Spec => []GrowsOwnStore
<1>1. IInv => GrowsOwnStore
  BY DEF IInv, WorkInv, ProgressIsTrue, Recreated, GrowsOwnStore
<1> QED
  BY Inductive, <1>1, PTL

\* The worker gets no passphrase that was asked for another disk.
THEOREM PassphraseIsForTarget == Spec => []PassphraseMatchesTarget
<1>1. IInv => PassphraseMatchesTarget
  BY DEF IInv, PassInv
<1> QED
  BY Inductive, <1>1, PTL

\* No step changes a disk other than the one whose name was typed last.
THEOREM OthersAreKept == Spec => OnlyTypedIsWritten
<1>1. IInv /\ [Next]_vars =>
        [\A d \in Names :
           <<data, table, store>>' # <<data, table, store>> /\ typed # d =>
             /\ data'[d] = data[d]
             /\ table'[d] = table[d]
             /\ store'[d] = store[d]]_vars
  BY OthersStep DEF OthersKept
<1> QED
  BY Inductive, <1>1, PTL DEF Spec, OnlyTypedIsWritten

\* The first write to a disk finds its backup complete and durable, if one was
\* asked for.
THEOREM BackupComesFirst == Spec => BackupBeforeOverwrite
<1>1. IInv /\ [Next]_vars =>
        [job.backup /\ data' # data /\ job.step = "stubbing" =>
           backupFile = [of |-> job.dev, what |-> data[job.dev],
                         complete |-> TRUE, durable |-> TRUE]]_vars
  BY DEF IInv, WorkInv, BackupGrows, Backup
<1> QED
  BY Inductive, <1>1, PTL DEF Spec, BackupBeforeOverwrite

=============================================================================
