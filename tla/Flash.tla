------------------------------- MODULE Flash --------------------------------
(***************************************************************************)
(* FLASH: the screen that arms a write (tui/src/ui/flash.rs), the worker   *)
(* that carries it out (tui/src/flash.rs) and the devices it works on.     *)
(*                                                                         *)
(* The screen walks devices -> summary -> backup? -> store passphrase? ->  *)
(* typed name -> sudo password? and then spawns one worker.  The worker    *)
(* backs up, writes, verifies the header and, when the image is smaller    *)
(* than the device, grows the last partition and the f2fs inside LUKS.     *)
(* The two share nothing but a channel; the screen drains it once a frame. *)
(*                                                                         *)
(* Of a device the model keeps what its first bytes and its whole contents *)
(* are (data), how far its partition table was grown (table), the size of  *)
(* the last partition the kernel goes by (kernel) and the size of the      *)
(* f2fs (store).  Sizes are relative to the image.                         *)
(***************************************************************************)
EXTENDS Naturals

CONSTANTS
  Names,        \* kernel names of the whole disks lsblk lists
  SizeOf,       \* their true size: "smaller", "exact" or "larger" than the image
  Listings,     \* what lsblk may list: sizes, perhaps unknown or out of date
  None,         \* no device
  MaxFlashes    \* bound: writes armed in a behaviour

Sizes == {"smaller", "exact", "larger"}

Listing == [Names -> Sizes \cup {"unknown", "absent"}]

ASSUME SizesAssumption ==
  SizeOf \in [Names -> Sizes] /\ Listings \subseteq Listing
ASSUME NoneAssumption == None \notin Names
ASSUME MaxFlashesAssumption == MaxFlashes \in Nat

VARIABLES
  phase,        \* the screen
  listed,       \* the listing it shows
  selected,     \* the disk under the cursor
  backup,       \* answer to "back up first?"
  storePass,    \* the LUKS passphrase in the screen's state
  message,      \* the verdict on the Done screen
  job,          \* the worker and the arguments it was spawned with
  channel,      \* its terminal event, until the screen drains it
  data,         \* "original", "stub" and "torn": part of the image, "image"
  table,        \* partition table: the image's, header moved, or grown
  kernel,       \* last partition as the kernel sees it: "image" or "full"
  store,        \* f2fs: "image" or "full" size
  mapper,       \* device behind /dev/mapper/nixnas-flash-grow
  mapperSize,   \* and the size the mapping was opened with
  backupFile,   \* nixnas-backup.img: which device, which contents, complete?
  flashes,      \* writes armed so far
  typed,        \* history: the name typed at the gate
  passFor,      \* history: the disk the passphrase was asked for
  lied          \* history: the device dropped writes without an error

screenVars == <<phase, listed, selected, backup, storePass, message>>
deviceVars == <<data, table, kernel, store, lied>>
mapperVars == <<mapper, mapperSize>>
historyVars == <<typed, passFor>>
vars == <<screenVars, job, channel, deviceVars, mapperVars, backupFile,
          flashes, historyVars>>

Passphrases == {"none", "right", "wrong"}

\* Verdicts of a flash: the error, or the success message and its grow part.
Successes == {"flashed", "partitionGrown", "storeGrown", "storeWarned",
              "partitionWarned"}
Verdicts == Successes \cup {"error"}

Asking == {"summary", "backupAsk", "storePass", "confirm", "sudoPass"}
Steps == {"backup", "copying", "syncing", "write", "stubbing", "heading",
          "tailing", "finish", "verify", "measure", "move", "recreate",
          "reread", "settle", "unlock", "resize", "close", "failedClose"}
Writing == {"stubbing", "heading", "tailing"}

NoJob == [step |-> "none", dev |-> None, backup |-> FALSE, grow |-> FALSE,
          pass |-> "none"]

TypeOK ==
  /\ phase \in Asking \cup {"home", "devices", "running", "done", "quit"}
  /\ listed \in Listing
  /\ selected \in {d \in Names : listed[d] # "absent"} \cup {None}
  /\ backup \in BOOLEAN
  /\ storePass \in Passphrases
  /\ message \in Verdicts \cup {"none"}
  /\ job \in [step: Steps \cup {"none"}, dev: Names \cup {None},
              backup: BOOLEAN, grow: BOOLEAN, pass: Passphrases]
  /\ channel \in Verdicts \cup {"none"}
  /\ data \in [Names -> {"original", "stub", "torn", "image"}]
  /\ table \in [Names -> {"image", "moved", "grown"}]
  /\ kernel \in [Names -> {"image", "full"}]
  /\ store \in [Names -> {"image", "full"}]
  /\ mapper \in Names \cup {None}
  /\ mapperSize \in {"image", "full"}
  /\ backupFile \in [of: Names \cup {None}, what: {"none"} \cup
                       {"original", "stub", "torn", "image"},
                     complete: BOOLEAN, durable: BOOLEAN]
  /\ flashes \in 0..MaxFlashes
  /\ typed \in Names \cup {None}
  /\ passFor \in Names \cup {None}
  /\ lied \in [Names -> BOOLEAN]

Init ==
  /\ phase = "home"
  /\ listed = [d \in Names |-> "absent"]
  /\ selected = None
  /\ backup = TRUE
  /\ storePass = "none"
  /\ message = "none"
  /\ job = NoJob
  /\ channel = "none"
  /\ data = [d \in Names |-> "original"]
  /\ table = [d \in Names |-> "image"]
  /\ kernel = [d \in Names |-> "image"]
  /\ store = [d \in Names |-> "image"]
  /\ mapper = None
  /\ mapperSize = "image"
  /\ backupFile = [of |-> None, what |-> "none", complete |-> FALSE,
                   durable |-> FALSE]
  /\ flashes = 0
  /\ typed = None
  /\ passFor = None
  /\ lied = [d \in Names |-> FALSE]

-----------------------------------------------------------------------------
(* The screen.                                                             *)

ImageFits == listed[selected] # "smaller"     \* unknown passes
GrowsToFill == listed[selected] = "larger"    \* unknown does not

worldVars == <<job, channel, deviceVars, mapperVars, backupFile, flashes>>

\* Mutant: the cursor is not brought back into the new listing.
RefreshDisks_Unclamped ==
  /\ listed' \in Listings \cup {[d \in Names |-> "absent"]}
  /\ selected' \in IF selected = None THEN {None} \cup Names ELSE {selected}

\* lsblk runs again; the cursor is an index, so it may end up on another disk.
RefreshDisks ==
  /\ listed' \in Listings \cup {[d \in Names |-> "absent"]}
  /\ LET present == {d \in Names : listed'[d] # "absent"}
     IN selected' \in IF present = {} THEN {None} ELSE present

\* FlashScreen::new: fresh state, or straight to a failure without an image.
Open ==
  /\ phase = "home"
  /\ flashes < MaxFlashes
  /\ \/ phase' = "devices" /\ message' = "none"
     \/ phase' = "done" /\ message' = "error"
  /\ backup' = TRUE
  /\ storePass' = "none"
  /\ RefreshDisks
  /\ typed' = None
  /\ passFor' = None
  /\ UNCHANGED <<worldVars>>

Refresh ==
  /\ phase = "devices"
  /\ RefreshDisks
  /\ UNCHANGED <<phase, backup, storePass, message, worldVars, historyVars>>

MoveCursor ==
  /\ phase = "devices"
  /\ selected' \in {d \in Names : listed[d] # "absent"}
  /\ UNCHANGED <<phase, listed, backup, storePass, message, worldVars,
                 historyVars>>

Goto(from, to) ==
  /\ phase \in from
  /\ phase' = to

ChooseTarget ==
  /\ selected # None
  /\ Goto({"devices"}, "summary")
  /\ UNCHANGED <<listed, selected, backup, storePass, message, worldVars, historyVars>>

AcceptSummary ==
  /\ Goto({"summary"}, "backupAsk")
  /\ ImageFits
  /\ UNCHANGED <<listed, selected, backup, storePass, message, worldVars, historyVars>>

\* Mutant: a passphrase given before is not asked for again.
AnswerBackup_KeepPass(yes) ==
  /\ Goto({"backupAsk"}, IF GrowsToFill /\ storePass = "none"
                        THEN "storePass" ELSE "confirm")
  /\ backup' = yes
  /\ UNCHANGED <<listed, selected, storePass, message, worldVars, historyVars>>

AnswerBackup(yes) ==
  /\ Goto({"backupAsk"}, IF GrowsToFill THEN "storePass" ELSE "confirm")
  /\ backup' = yes
  /\ UNCHANGED <<listed, selected, storePass, message, worldVars, historyVars>>

\* Enter on an empty field skips the f2fs grow.
EnterStorePass(p) ==
  /\ Goto({"storePass"}, "confirm")
  /\ storePass' = p
  /\ passFor' = selected
  /\ UNCHANGED <<listed, selected, backup, message, worldVars, typed>>

\* Esc: every question leads back to the summary, the summary to the list, the
\* list and the verdict to HOME.  What was answered stays in the screen.
Back ==
  /\ \/ Goto(Asking \ {"summary"}, "summary")
     \/ Goto({"summary"}, "devices")
     \/ Goto({"devices", "done"}, "home")
  /\ UNCHANGED <<listed, selected, backup, storePass, message, worldVars, historyVars>>

\* Mutant: the answer to the backup question is not what the worker gets.
Arm_BackupLost ==
  /\ phase' = "running"
  /\ job' = [step |-> "write", dev |-> selected, backup |-> backup,
             grow |-> GrowsToFill, pass |-> storePass]
  /\ storePass' = "none"
  /\ flashes' = flashes + 1
  /\ UNCHANGED <<listed, selected, backup, message, channel, deviceVars,
                 mapperVars, backupFile>>

\* arm(): the facts are read from the screen again; the passphrase moves into
\* the worker.
Arm ==
  /\ phase' = "running"
  /\ job' = [step |-> IF backup THEN "backup" ELSE "write",
             dev |-> selected, backup |-> backup, grow |-> GrowsToFill,
             pass |-> storePass]
  /\ storePass' = "none"
  /\ flashes' = flashes + 1
  /\ UNCHANGED <<listed, selected, backup, message, channel, deviceVars, mapperVars,
                 backupFile>>

\* No sudo, or a sudo that fails.
Refuse ==
  /\ phase' = "done"
  /\ message' = "error"
  /\ UNCHANGED <<listed, selected, backup, storePass, worldVars>>

\* Mutant: the gate accepts the name of any disk.
TypeName_Any(n) ==
  /\ phase = "confirm"
  /\ typed' = n
  /\ Arm
  /\ UNCHANGED passFor

\* The point of no return: the bare device name, typed exactly.  Then root
\* goes ahead, a user is asked for the sudo password, no sudo ends it.
TypeName(n) ==
  /\ phase = "confirm"
  /\ typed' = n
  /\ UNCHANGED passFor
  /\ \/ n # selected /\ UNCHANGED <<screenVars, worldVars>>
     \/ n = selected /\ Arm
     \/ n = selected /\ Refuse
     \/ /\ n = selected
        /\ phase' = "sudoPass"
        /\ UNCHANGED <<listed, selected, backup, storePass, message, worldVars>>

\* sudo -S -v: accepted, or sudo is missing or broken.  A wrong password asks
\* again and changes nothing.
Authenticate ==
  /\ phase = "sudoPass"
  /\ Arm \/ Refuse
  /\ UNCHANGED <<typed, passFor>>

\* drain_events: the verdict leaves the channel and the worker is forgotten.
Drain ==
  /\ phase = "running"
  /\ channel # "none"
  /\ phase' = "done"
  /\ message' = channel
  /\ channel' = "none"
  /\ UNCHANGED <<listed, selected, backup, storePass, job, deviceVars, mapperVars,
                 backupFile, flashes, historyVars>>

\* Ctrl+C: the process exits under the worker.  A command the worker was
\* waiting for runs on by itself, which is the worker's step before this one; a
\* sudo dd sees end of file, and a mapping that is open stays open.
CtrlC ==
  /\ phase \notin {"quit"}
  /\ phase' = "quit"
  /\ job' = NoJob
  /\ channel' = "none"
  /\ storePass' = "none"
  /\ UNCHANGED <<listed, selected, backup, message, deviceVars, mapper, mapperSize,
                 backupFile, flashes, historyVars>>

Restart ==
  /\ Goto({"quit"}, "home")
  /\ UNCHANGED <<listed, selected, backup, storePass, message, worldVars, historyVars>>

ScreenStep ==
  \/ Open \/ Refresh \/ MoveCursor \/ ChooseTarget \/ AcceptSummary \/ Back
  \/ \E yes \in BOOLEAN : AnswerBackup(yes)
  \/ \E p \in Passphrases : EnterStorePass(p)
  \/ \E n \in Names : TypeName(n)
  \/ Authenticate

-----------------------------------------------------------------------------
(* The worker, run_flash.  d is its device.                                *)

At(step) == job.step = step

Proceed(to) == job' = [job EXCEPT !.step = to] /\ UNCHANGED channel

\* The function returns and the thread sends Done.
Return(verdict) == job' = NoJob /\ channel' = verdict

Fail(steps) ==
  /\ job.step \in steps
  /\ Return("error")

quiet == <<screenVars, flashes, historyVars>>

\* Opening the device for reading and creating the file, which empties what an
\* earlier backup left there.
OpenBackup ==
  /\ At("backup")
  /\ \/ /\ Proceed("copying")
        /\ backupFile' = [of |-> job.dev, what |-> data[job.dev],
                          complete |-> FALSE, durable |-> FALSE]
     \/ Return("error") /\ UNCHANGED backupFile
  /\ UNCHANGED <<deviceVars, mapperVars, quiet>>

CopyBackup ==
  /\ At("copying")
  /\ \/ Proceed("syncing") /\ backupFile' = [backupFile EXCEPT !.complete = TRUE]
     \/ Return("error") /\ UNCHANGED backupFile
  /\ UNCHANGED <<deviceVars, mapperVars, quiet>>

SyncBackup ==
  /\ At("syncing")
  /\ \/ Proceed("write") /\ backupFile' = [backupFile EXCEPT !.durable = TRUE]
     \/ Return("error") /\ UNCHANGED backupFile
  /\ UNCHANGED <<deviceVars, mapperVars, quiet>>

\* Open the image and the device: nothing is written yet.
OpenWriter ==
  /\ At("write")
  /\ Proceed("stubbing") \/ Return("error")
  /\ UNCHANGED <<deviceVars, mapperVars, backupFile, quiet>>

Put(contents) ==
  /\ data' = [data EXCEPT ![job.dev] = contents]
  /\ table' = [table EXCEPT ![job.dev] = "image"]
  /\ kernel' = [kernel EXCEPT ![job.dev] = "image"]
  /\ store' = [store EXCEPT ![job.dev] = "image"]
  /\ UNCHANGED lied

\* The copy loop: a part of the header, the header, all of it.  A device that
\* is too small ends it with an error.
WriteChunk ==
  /\ \/ At("stubbing") /\ Put("stub") /\ Proceed("heading")
     \/ At("heading") /\ Put("torn") /\ Proceed("tailing")
     \/ /\ At("tailing") /\ SizeOf[job.dev] # "smaller"
        /\ Put("image") /\ Proceed("finish")
  /\ UNCHANGED <<mapperVars, backupFile, quiet>>

WriteError ==
  /\ Fail(Writing)
  /\ UNCHANGED <<deviceVars, mapperVars, backupFile, quiet>>

\* A worn-out device accepts the rest of the writes and drops them.
DropWrites ==
  /\ job.step \in {"stubbing", "tailing"}
  /\ Proceed("finish")
  /\ lied' = [lied EXCEPT ![job.dev] = TRUE]
  /\ UNCHANGED <<data, table, kernel, store, mapperVars, backupFile, quiet>>

\* fsync, or the exit status of dd conv=fsync: what was written may not have
\* reached the device.
Finish ==
  /\ At("finish")
  /\ \/ Proceed("verify") /\ UNCHANGED deviceVars
     \/ Return("error") /\ UNCHANGED deviceVars
     \/ Return("error") /\ Put("torn")
  /\ UNCHANGED <<mapperVars, backupFile, quiet>>

HasHeader(d) == data[d] \in {"torn", "image"}

\* Mutant: success on trust.
Verify_Skipped ==
  /\ At("verify")
  /\ IF job.grow THEN Proceed("measure") ELSE Return("flashed")
  /\ UNCHANGED <<deviceVars, mapperVars, backupFile, quiet>>

\* same_prefix over the first 4 MiB.
Verify ==
  /\ At("verify")
  /\ \/ /\ HasHeader(job.dev)
        /\ IF job.grow THEN Proceed("measure") ELSE Return("flashed")
     \/ Return("error")
  /\ UNCHANGED <<deviceVars, mapperVars, backupFile, quiet>>

\* grow_last_partition.  sgdisk writes its table at the end, or not at all.
MeasurePartition ==
  /\ At("measure")
  /\ Proceed("move") \/ Return("partitionWarned")
  /\ UNCHANGED <<deviceVars, mapperVars, backupFile, quiet>>

MoveHeader ==
  /\ At("move")
  /\ \/ /\ Proceed("recreate")
        /\ table' = [table EXCEPT ![job.dev] =
                       IF @ = "image" THEN "moved" ELSE @]
     \/ Return("partitionWarned") /\ UNCHANGED table
  /\ UNCHANGED <<data, kernel, store, lied, mapperVars, backupFile, quiet>>

\* The kernel takes the new table at once, or goes on with the old one because
\* the disk is busy.
RecreatePartition ==
  /\ At("recreate")
  /\ \/ /\ table' = [table EXCEPT ![job.dev] = "grown"]
        /\ IF job.pass = "none" THEN Return("partitionGrown")
                                ELSE Proceed("reread")
        /\ \/ kernel' = [kernel EXCEPT ![job.dev] = "full"]
           \/ UNCHANGED kernel
     \/ Return("partitionWarned") /\ UNCHANGED <<table, kernel>>
  /\ UNCHANGED <<data, store, lied, mapperVars, backupFile, quiet>>

\* blockdev --rereadpt, best effort, then wait for the partition's node.
Reread ==
  /\ At("reread")
  /\ \/ /\ Proceed("settle")
        /\ \/ kernel' = [kernel EXCEPT ![job.dev] = "full"]
           \/ UNCHANGED kernel
     \/ Return("storeWarned") /\ UNCHANGED kernel
  /\ UNCHANGED <<data, table, store, lied, mapperVars, backupFile, quiet>>

\* Mutant: wait for the new size, however long it takes.
SettleSize_Unbounded ==
  /\ At("settle")
  /\ kernel[job.dev] = "full"
  /\ Proceed("unlock")
  /\ UNCHANGED <<deviceVars, mapperVars, backupFile, quiet>>

\* Two equal samples of the size, of whichever size it is, or fifty different
\* ones.
SettleSize ==
  /\ At("settle")
  /\ Proceed("unlock")
  /\ \/ kernel' = [kernel EXCEPT ![job.dev] = "full"]
     \/ UNCHANGED kernel
  /\ UNCHANGED <<data, table, store, lied, mapperVars, backupFile, quiet>>

\* Mutant: the mapping of an earlier run is taken for this one.
OpenMapper_Reuse ==
  /\ At("unlock")
  /\ \/ /\ job.pass = "right"
        /\ Proceed("resize")
        /\ mapper' = IF mapper = None THEN job.dev ELSE mapper
        /\ mapperSize' = IF mapper = None THEN kernel[job.dev] ELSE mapperSize
     \/ Return("storeWarned") /\ UNCHANGED <<mapper, mapperSize>>
  /\ UNCHANGED <<deviceVars, backupFile, quiet>>

\* cryptsetup open: refuses a wrong passphrase and a name that is in use.
OpenMapper ==
  /\ At("unlock")
  /\ \/ /\ job.pass = "right" /\ mapper = None
        /\ Proceed("resize")
        /\ mapper' = job.dev
        /\ mapperSize' = kernel[job.dev]
     \/ Return("storeWarned") /\ UNCHANGED <<mapper, mapperSize>>
  /\ UNCHANGED <<deviceVars, backupFile, quiet>>

\* resize.f2fs fills the mapping; whatever it said, the mapping is closed next.
Resize ==
  /\ At("resize")
  /\ \/ /\ Proceed("close")
        /\ store' = [store EXCEPT ![mapper] = mapperSize]
     \/ Proceed("failedClose") /\ UNCHANGED store
  /\ UNCHANGED <<data, table, kernel, lied, mapperVars, backupFile, quiet>>

CloseMapper ==
  /\ \/ /\ At("close") /\ Return("storeGrown")
        /\ mapper' = None
     \/ /\ At("failedClose") /\ Return("storeWarned")
        /\ mapper' = None
     \/ /\ job.step \in {"close", "failedClose"} /\ Return("storeWarned")
        /\ UNCHANGED mapper
  /\ UNCHANGED <<mapperSize, deviceVars, backupFile, quiet>>

WorkerStep ==
  \/ OpenBackup \/ CopyBackup \/ SyncBackup
  \/ OpenWriter \/ WriteChunk \/ WriteError \/ DropWrites \/ Finish \/ Verify
  \/ MeasurePartition \/ MoveHeader \/ RecreatePartition
  \/ Reread \/ SettleSize \/ OpenMapper \/ Resize \/ CloseMapper

-----------------------------------------------------------------------------

Next == ScreenStep \/ Drain \/ CtrlC \/ Restart \/ WorkerStep

\* The worker thread runs and the main loop drains every frame; keys come when
\* the operator presses them.
Spec == Init /\ [][Next]_vars /\ WF_vars(WorkerStep) /\ WF_vars(Drain)

-----------------------------------------------------------------------------
(* Properties.                                                             *)

\* "Never report success on trust": a success names a disk that starts with
\* the image, that has all of it unless the device itself dropped writes, and
\* whose partition was grown if the message says so.
HonestSuccess ==
  phase = "done" /\ message \in Successes =>
    /\ HasHeader(typed)
    /\ data[typed] = "image" \/ lied[typed]
    /\ message \in {"partitionGrown", "storeGrown", "storeWarned"} =>
         table[typed] = "grown"

\* Only the disk whose name was typed last is ever written, whatever was
\* selected, refreshed or answered before.
OnlyTypedIsWritten ==
  [][\A d \in Names :
       <<data, table, store>>' # <<data, table, store>> /\ typed # d =>
         /\ data'[d] = data[d]
         /\ table'[d] = table[d]
         /\ store'[d] = store[d]]_vars

\* The first write to a disk whose operator asked for a backup happens when
\* the backup holds what the disk holds, all of it, durably.
BackupBeforeOverwrite ==
  [][job.backup /\ data' # data /\ job.step = "stubbing" =>
       backupFile = [of |-> job.dev, what |-> data[job.dev],
                     complete |-> TRUE, durable |-> TRUE]]_vars

\* What resize.f2fs works on is the store of the disk being flashed, behind a
\* verified header and in a grown partition, also when a flash that was
\* interrupted left its mapping, of this disk or of another, under the name.
GrowsOwnStore ==
  job.step = "resize" =>
    mapper = job.dev /\ HasHeader(job.dev) /\ table[job.dev] = "grown"

\* The passphrase a worker gets was asked for the disk it works on, although
\* the screen keeps it when the operator goes back to choose another disk.
PassphraseMatchesTarget ==
  job.grow /\ job.pass # "none" => passFor = job.dev

\* A flash ends with a verdict on the screen: the worker waits for nothing that
\* may never come.
FlashEnds == phase = "running" ~> phase # "running"

\* "Partition + f2fs store grown to fill the device" is true of the f2fs.
GrownIsGrown ==
  phase = "done" /\ message = "storeGrown" => store[typed] = "full"

=============================================================================
