------------------------------- MODULE Verify -------------------------------
(***************************************************************************)
(* VERIFY: the screen behind "Verify image" and "Verify install"           *)
(* (tui/src/ui/verify.rs) and its worker (tui/src/verify.rs), which reads  *)
(* the target through DevReader.                                           *)
(*                                                                         *)
(* A target is a function from offsets to cells: the partition table, the  *)
(* ESP, the header of the store, and data.  A digest is the sequence of    *)
(* the chunks that went into it.  The worker and the screen share the skip *)
(* flag and a channel.  Meanwhile a disk may be pulled, and another        *)
(* process may build the image anew.                                       *)
(***************************************************************************)
EXTENDS DevReader, FiniteSets, Sequences

CONSTANTS
  Disks,          \* whole disks
  Contents,       \* what is on each
  Images,         \* what the built image may be
  None,           \* no image, no disk
  Chunk,          \* CHUNK: bytes hashed at a time
  MaxVerifies,    \* bound: verifications started in a behaviour
  MaxChanges      \* bound: disks pulled and images rebuilt

\* Where the image has its parts.
GptAt == 0
EspAt == 1
StoreAt == 2

\* A target has a cell at each offset below its size.
IsTarget(c) ==
  c # None /\ IsFiniteSet(DOMAIN c) /\ DOMAIN c = 0..(Cardinality(DOMAIN c) - 1)

ASSUME TargetsAssumption ==
  /\ \A c \in Images : IsTarget(c)
  /\ \A d \in Disks : IsTarget(Contents[d])
  /\ "image" \notin Disks /\ None \notin Disks \cup {"image"}
ASSUME ChunkAssumption == Chunk \in Nat /\ Chunk >= Block
ASSUME BoundsAssumption == MaxVerifies \in Nat /\ MaxChanges \in Nat

VARIABLES
  phase,        \* the screen
  mode,         \* "image" or "install"
  reference,    \* an image was built when the screen was opened
  pending,      \* the disk chosen, across the sudo password
  skip,         \* the flag shared with the worker
  steps,        \* the checklist, as far as the worker has sent it
  message,      \* the verdict on the Done screen
  channel,      \* the verdict, until drained
  job,          \* the worker
  image,        \* the built image
  pulled,       \* disks that are gone
  verifies,     \* verifications started so far
  changes,      \* disks pulled and images rebuilt so far
  target,       \* history: what the last worker was started on
  disturbed     \* history: something failed or changed under it

screenVars == <<phase, mode, reference, pending, skip, message>>
worldVars == <<image, pulled, changes>>
vars == <<screenVars, steps, channel, job, worldVars, verifies, target,
          disturbed>>

Verdicts == {"pass", "fail", "error"}
StepState == {"pending", "running", "ok", "skipped", "fail"}
StepIndex == 0..4

NoJob == [at |-> "none", compare |-> FALSE, reader |-> Opened("file", 0),
          found |-> {}, issues |-> {}, done |-> 0, total |-> 0, imgLen |-> 0,
          filled |-> 0, buf |-> <<>>, devHash |-> <<>>, imgHash |-> <<>>]

Content(t) == IF t = "image" THEN image ELSE Contents[t]
SizeOf(t) == IF Content(t) = None THEN 0 ELSE Cardinality(DOMAIN Content(t))

TypeOK ==
  /\ phase \in {"home", "devices", "sudoPass", "running", "done"}
  /\ mode \in {"image", "install"}
  /\ reference \in BOOLEAN
  /\ pending \in Disks \cup {None}
  /\ skip \in BOOLEAN
  /\ steps \in [StepIndex -> StepState]
  /\ message \in Verdicts \cup {"none"}
  /\ channel \in Verdicts \cup {"none"}
  /\ DOMAIN job = DOMAIN NoJob
  /\ job.at \in {"none", "open", "gpt", "boot", "ukis", "luks", "whole",
                 "chunk", "device", "image"}
  /\ job.found \subseteq {"esp", "store"}
  /\ job.issues \subseteq {"gpt", "count", "esp", "store", "fat", "boot",
                           "ukis", "luks", "small", "differ"}
  /\ job.done \in 0..job.total
  /\ job.filled \in 0..Chunk
  /\ DOMAIN job.buf = 0..(job.filled - 1)
  /\ image \in Images \cup {None}
  /\ pulled \subseteq Disks
  /\ verifies \in 0..MaxVerifies
  /\ changes \in 0..MaxChanges
  /\ target \in Disks \cup {"image", None}
  /\ (phase = "running") = (job.at # "none" \/ channel # "none")
  /\ phase = "running" => target # None
  /\ disturbed \in BOOLEAN

Init ==
  /\ phase = "home"
  /\ mode = "image"
  /\ reference = FALSE
  /\ pending = None
  /\ skip = FALSE
  /\ steps = [i \in StepIndex |-> "pending"]
  /\ message = "none"
  /\ channel = "none"
  /\ job = NoJob
  /\ image \in Images \cup {None}
  /\ pulled = {}
  /\ verifies = 0
  /\ changes = 0
  /\ target = None
  /\ disturbed = FALSE

-----------------------------------------------------------------------------
(* The screen.                                                             *)

Spawn(t, compare, kind) ==
  /\ verifies < MaxVerifies
  /\ verifies' = verifies + 1
  /\ phase' = "running"
  /\ job' = [NoJob EXCEPT !.at = "open", !.compare = compare,
                          !.reader = Opened(kind, 0)]
  /\ target' = t
  /\ disturbed' = FALSE

\* new_image: the checks start at once, or there is no image.
OpenImage ==
  /\ phase = "home"
  /\ mode' = "image"
  /\ \/ image # None /\ Spawn("image", FALSE, "file") /\ UNCHANGED message
     \/ /\ image = None
        /\ phase' = "done"
        /\ message' = "error"
        /\ UNCHANGED <<job, verifies, target, disturbed>>
  /\ UNCHANGED <<reference, pending, skip, steps, channel, worldVars>>

\* new_install.
OpenInstall ==
  /\ phase = "home"
  /\ mode' = "install"
  /\ phase' = "devices"
  /\ reference' = (image # None)
  /\ UNCHANGED <<pending, skip, message, steps, channel, job, worldVars, verifies,
                 target, disturbed>>

\* arm_install, with a fresh skip flag.
ArmInstall(d, kind) ==
  /\ skip' = FALSE
  /\ Spawn(d, reference, kind)
  /\ UNCHANGED <<mode, reference, message, steps, channel, worldVars>>

AskPassword ==
  /\ phase' = "sudoPass"
  /\ UNCHANGED <<mode, reference, skip, message, steps, channel, job, worldVars,
                 verifies, target, disturbed>>

\* Mutant: the disk is not kept while the password is asked for.
ChooseDisk_Forgotten(d) ==
  /\ phase = "devices"
  /\ \/ ArmInstall(d, "file")
     \/ AskPassword
  /\ UNCHANGED pending

\* Root, or a user without sudo, reads directly; another is asked for the sudo
\* password.
ChooseDisk(d) ==
  /\ phase = "devices"
  /\ \/ ArmInstall(d, "file") /\ UNCHANGED pending
     \/ AskPassword /\ pending' = d

\* The password is accepted; sudo has gone; or it fails.  A wrong password asks
\* again.
Authenticate ==
  /\ phase = "sudoPass"
  /\ \/ ArmInstall(pending, "sudo") /\ UNCHANGED pending
     \/ ArmInstall(pending, "file") /\ UNCHANGED pending
     \/ /\ phase' = "done"
        /\ message' = "error"
        /\ UNCHANGED <<mode, reference, pending, skip, steps, channel, job,
                       worldVars, verifies, target, disturbed>>

\* The screen is dropped, with its fields.
DropScreen ==
  /\ phase' = "home"
  /\ mode' = "image"
  /\ reference' = FALSE
  /\ pending' = None
  /\ skip' = FALSE
  /\ steps' = [i \in StepIndex |-> "pending"]
  /\ message' = "none"
  /\ target' = None
  /\ disturbed' = FALSE

\* Esc, and the Enter that closes a verdict.
Leave ==
  \/ /\ phase = "sudoPass"
     /\ phase' = "devices"
     /\ UNCHANGED <<mode, reference, pending, skip, message, steps, channel, job,
                    worldVars, verifies, target, disturbed>>
  \/ /\ phase \in {"devices", "done"}
     /\ DropScreen
     /\ UNCHANGED <<channel, job, worldVars, verifies>>

\* 's'.
Waive ==
  /\ phase = "running" /\ mode = "install"
  /\ skip' = TRUE
  /\ UNCHANGED <<phase, mode, reference, pending, message, steps, channel, job,
                 worldVars, verifies, target, disturbed>>

Drain ==
  /\ phase = "running" /\ channel # "none"
  /\ phase' = "done"
  /\ message' = channel
  /\ channel' = "none"
  /\ UNCHANGED <<mode, reference, pending, skip, steps, job, worldVars, verifies,
                 target, disturbed>>

\* Ctrl+C: the process and its threads are gone; nothing was written.
CtrlC ==
  /\ phase # "home"
  /\ DropScreen
  /\ job' = NoJob
  /\ channel' = "none"
  /\ UNCHANGED <<worldVars, verifies>>

ScreenStep ==
  \/ OpenImage \/ OpenInstall
  \/ \E d \in Disks : ChooseDisk(d)
  \/ Authenticate \/ Leave \/ Waive \/ CtrlC

-----------------------------------------------------------------------------
(* The worker, run_verify.                                                 *)

quiet == <<screenVars, worldVars, verifies, target>>

At(step) == job.at = step

Readable == target = "image" \/ target \notin pulled

\* The worker ends.
Return(verdict) == job' = NoJob /\ channel' = verdict

\* An operation fails though nothing above says it must.
Fault == Return("error") /\ disturbed' = TRUE

\* What a clone of the handle, with a cache of its own, reads at an offset.
Peek(off) ==
  Read(SeekTo(Opened(job.reader.kind, job.reader.len), off),
       Content(target), SizeOf(target), 1)

\* What is there is one of these.
Finds(off, cells) == Readable /\ Peek(off).n = 1 /\ Peek(off).bytes[0] \in cells

Open ==
  /\ At("open")
  /\ \/ /\ Readable
        /\ job' = [job EXCEPT !.at = "gpt",
                     !.reader = Opened(job.reader.kind, SizeOf(target))]
        /\ steps' = [steps EXCEPT ![0] = "running"]
        /\ UNCHANGED <<channel, disturbed>>
     \/ Fault /\ UNCHANGED steps
  /\ UNCHANGED quiet

\* What the partition table has, and what is wrong with it.
Partitions ==
  IF ~Finds(GptAt, {"both", "extra", "noEsp", "noStore"})
  THEN [found |-> {}, issues |-> {"gpt"}]
  ELSE LET gpt == Peek(GptAt).bytes[0]
       IN [found |-> {p \in {"esp", "store"} :
                        ~(p = "esp" /\ gpt = "noEsp")
                        /\ ~(p = "store" /\ gpt = "noStore")},
           issues |-> {i \in {"count", "esp", "store"} :
                         \/ i = "count" /\ gpt = "extra"
                         \/ i = "esp" /\ gpt = "noEsp"
                         \/ i = "store" /\ gpt = "noStore"}]

CheckGpt ==
  /\ At("gpt")
  /\ \/ \E p \in {Partitions} :
        LET esp == "esp" \in p.found
        IN /\ job' = [job EXCEPT !.at = IF esp THEN "boot" ELSE "luks",
                                 !.found = p.found, !.issues = p.issues]
           /\ steps' = [steps EXCEPT
                ![0] = IF p.issues = {} THEN "ok" ELSE "fail",
                ![1] = IF esp THEN "running" ELSE "skipped",
                ![2] = IF esp THEN @ ELSE "skipped"]
           /\ UNCHANGED <<channel, disturbed>>
     \/ Fault /\ UNCHANGED steps
  /\ UNCHANGED quiet

\* The file system is mounted in the window over the partition.
EspWindow == WindowRead(EspAt, 1, 0, 1).off

CheckBoot ==
  /\ At("boot")
  /\ \/ /\ Finds(EspWindow, {"full", "noLoader", "noUkis"})
        /\ LET ok == Finds(EspWindow, {"full", "noUkis"})
           IN /\ job' = [job EXCEPT !.at = "ukis",
                           !.issues = IF ok THEN @ ELSE @ \cup {"boot"}]
              /\ steps' = [steps EXCEPT ![1] = IF ok THEN "ok" ELSE "fail",
                                        ![2] = "running"]
        /\ UNCHANGED <<channel, disturbed>>
     \/ /\ ~Finds(EspWindow, {"full", "noLoader", "noUkis"})
        /\ job' = [job EXCEPT !.at = "luks", !.issues = @ \cup {"fat"}]
        /\ steps' = [steps EXCEPT ![1] = "fail", ![2] = "skipped"]
        /\ UNCHANGED <<channel, disturbed>>
     \/ Fault /\ UNCHANGED steps
  /\ UNCHANGED quiet

CheckUkis ==
  /\ At("ukis")
  /\ LET ok == Finds(EspWindow, {"full", "noLoader"})
     IN /\ job' = [job EXCEPT !.at = "luks",
                     !.issues = IF ok THEN @ ELSE @ \cup {"ukis"}]
        /\ steps' = [steps EXCEPT ![2] = IF ok THEN "ok" ELSE "fail"]
  /\ UNCHANGED <<channel, disturbed, quiet>>

SkipLuks ==
  /\ At("luks") /\ "store" \notin job.found
  /\ job' = [job EXCEPT !.at = "whole"]
  /\ steps' = [steps EXCEPT ![3] = "skipped"]
  /\ UNCHANGED <<channel, disturbed, quiet>>

\* The handle itself is moved to the store and read.  An error, or the end of
\* the target, ends the whole run.
CheckLuks ==
  /\ At("luks") /\ "store" \in job.found
  /\ \E answer \in {Read(SeekTo(job.reader, StoreAt), Content(target),
                          SizeOf(target), 1)} :
        \/ /\ Readable /\ answer.n = 1
           /\ LET ok == answer.bytes[0] = "luks2"
              IN /\ job' = [job EXCEPT !.at = "whole", !.reader = answer.reader,
                              !.issues = IF ok THEN @ ELSE @ \cup {"luks"}]
                 /\ steps' = [steps EXCEPT ![3] = IF ok THEN "ok" ELSE "fail"]
           /\ UNCHANGED channel
        \/ /\ ~Readable \/ answer.n = 0
           /\ Return("error")
           /\ steps' = [steps EXCEPT ![3] = "running"]
  /\ UNCHANGED <<disturbed, quiet>>

HashImage ==
  /\ At("whole") /\ target = "image"
  /\ job' = [job EXCEPT !.at = "chunk", !.reader = SeekTo(@, 0),
                        !.total = job.reader.len]
  /\ steps' = [steps EXCEPT ![4] = "running"]
  /\ UNCHANGED <<channel, disturbed, quiet>>

\* Without an image there is nothing to compare with.
SkipCompare ==
  /\ At("whole") /\ target # "image" /\ ~job.compare
  /\ Return(IF job.issues = {} THEN "pass" ELSE "fail")
  /\ steps' = [steps EXCEPT ![4] = "skipped"]
  /\ UNCHANGED <<disturbed, quiet>>

\* The image is measured and opened now, the device is rewound.
StartCompare ==
  /\ At("whole") /\ target # "image" /\ job.compare
  /\ \/ /\ job' = [job EXCEPT
             !.at = "chunk",
             !.reader = SeekTo(@, 0),
             !.imgLen = SizeOf("image"),
             !.total = Least(SizeOf("image"), job.reader.len),
             !.issues = IF job.reader.len < SizeOf("image")
                        THEN @ \cup {"small"} ELSE @]
        /\ UNCHANGED <<channel, disturbed>>
     \/ Fault
  /\ steps' = [steps EXCEPT ![4] = "running"]
  /\ UNCHANGED quiet

\* Mutant: a compare that was cut short is settled like any other.
WaiveCompare_Settled ==
  /\ At("chunk") /\ job.done < job.total
  /\ target # "image" /\ skip
  /\ Return(IF job.issues = {} THEN "pass" ELSE "fail")
  /\ steps' = [steps EXCEPT ![4] = "ok"]
  /\ UNCHANGED <<disturbed, quiet>>

\* The flag is looked at before each chunk.
WaiveCompare ==
  /\ At("chunk") /\ job.done < job.total
  /\ target # "image" /\ skip
  /\ Return(IF job.issues = {} THEN "pass" ELSE "fail")
  /\ steps' = [steps EXCEPT ![4] = "skipped"]
  /\ UNCHANGED <<disturbed, quiet>>

NextChunk ==
  /\ At("chunk") /\ job.done < job.total
  /\ target = "image" \/ ~skip
  /\ job' = [job EXCEPT !.at = "device", !.filled = 0, !.buf = <<>>]
  /\ UNCHANGED <<steps, channel, disturbed, quiet>>

Want == Least(Chunk, job.total - job.done)

\* buf, followed by the bytes of a read.
Filled(answer) ==
  [i \in 0..(job.filled + answer.n - 1) |->
     IF i < job.filled THEN job.buf[i] ELSE answer.bytes[i - job.filled]]

\* read_exact: one read after the other until the buffer is full.
ReadDevice ==
  /\ At("device")
  /\ \E answer \in {Read(job.reader, Content(target), SizeOf(target),
                          Want - job.filled)} :
     LET full == job.filled + answer.n = Want
         hash == full /\ target = "image"
     IN \/ /\ Readable /\ answer.n > 0
           /\ job' = [job EXCEPT
                !.reader = answer.reader,
                !.filled = @ + answer.n,
                !.buf = Filled(answer),
                !.at = IF hash THEN "chunk" ELSE IF full THEN "image" ELSE @,
                !.done = IF hash THEN @ + Want ELSE @,
                !.devHash = IF hash THEN Append(@, Filled(answer)) ELSE @]
           /\ UNCHANGED channel
        \/ (~Readable \/ answer.n = 0) /\ Return("error")
  /\ UNCHANGED <<steps, disturbed, quiet>>

\* The same range of the image, then both digests are fed.
ReadImage ==
  /\ At("image")
  /\ \/ /\ job.done + Want <= SizeOf("image")
        /\ job' = [job EXCEPT
             !.at = "chunk", !.done = @ + Want,
             !.devHash = Append(@, job.buf),
             !.imgHash = Append(@, Slice(image, job.done, Want))]
        /\ UNCHANGED channel
     \/ job.done + Want > SizeOf("image") /\ Return("error")
  /\ UNCHANGED <<steps, disturbed, quiet>>

\* Mutant: one more, empty, chunk at the end.
Settle_OffByOne ==
  /\ At("chunk") /\ job.done = job.total
  /\ UNCHANGED <<steps, channel, disturbed, quiet>>
  /\ job' = [job EXCEPT !.filled = 0, !.buf = <<>>]

\* All is hashed.
Settle ==
  /\ At("chunk") /\ job.done = job.total
  /\ LET same == target = "image" \/ job.devHash = job.imgHash
         long == target = "image" \/ job.reader.len >= job.imgLen
         issues == IF same THEN job.issues ELSE job.issues \cup {"differ"}
     IN /\ steps' = [steps EXCEPT ![4] = IF same /\ long THEN "ok" ELSE "fail"]
        /\ Return(IF issues = {} THEN "pass" ELSE "fail")
  /\ UNCHANGED <<disturbed, quiet>>

WorkerStep ==
  \/ Open \/ CheckGpt \/ CheckBoot \/ CheckUkis \/ SkipLuks \/ CheckLuks
  \/ HashImage \/ SkipCompare \/ StartCompare
  \/ WaiveCompare \/ NextChunk \/ ReadDevice \/ ReadImage \/ Settle

-----------------------------------------------------------------------------
(* The world.                                                              *)

Pull(d) ==
  /\ changes < MaxChanges
  /\ d \notin pulled
  /\ pulled' = pulled \cup {d}
  /\ changes' = changes + 1
  /\ disturbed' = (disturbed \/ target = d)
  /\ UNCHANGED <<screenVars, steps, channel, job, image, verifies, target>>

\* Another process builds: the image is written over in place.
Rebuild ==
  /\ changes < MaxChanges
  /\ image' \in Images
  /\ changes' = changes + 1
  /\ disturbed' = (phase # "home")
  /\ UNCHANGED <<screenVars, steps, channel, job, pulled, verifies, target>>

-----------------------------------------------------------------------------

Next == ScreenStep \/ Drain \/ WorkerStep \/ (\E d \in Disks : Pull(d)) \/ Rebuild

\* The worker thread runs and the main loop drains every frame.
Spec == Init /\ [][Next]_vars /\ WF_vars(WorkerStep) /\ WF_vars(Drain)

-----------------------------------------------------------------------------
(* Properties.                                                             *)

\* "Is this actually a bootable nixnas stick?"
Bootable(t) ==
  /\ StoreAt < SizeOf(t)
  /\ Content(t)[GptAt] = "both"
  /\ Content(t)[EspAt] = "full"
  /\ Content(t)[StoreAt] = "luks2"

\* The disk starts with the image.
Carries(t) ==
  /\ SizeOf("image") <= SizeOf(t)
  /\ \A i \in DOMAIN image : Content(t)[i] = image[i]

\* A pass is earned: the target is bootable, and a flashed disk that has an image
\* to compare with carries all of it unless the compare was waived, however the
\* reads were cut into chunks and cached and whenever the waiver came, as long as
\* nobody changed disk or image meanwhile.
PassIsEarned ==
  phase = "done" /\ message = "pass" /\ ~disturbed =>
    /\ Bootable(target)
    /\ mode = "install" /\ reference /\ (steps[4] = "ok" \/ ~skip) => Carries(target)

\* No false alarm: a target that does not pass, though nothing failed and
\* nothing changed, has a defect.
NoFalseAlarm ==
  phase = "done" /\ target # None /\ message \in {"fail", "error"} /\ ~disturbed =>
    \/ ~Bootable(target)
    \/ mode = "install" /\ reference /\ ~Carries(target)

\* A verification ends, also when the disk is pulled or the image shrinks.
VerifyEnds == phase = "running" ~> phase # "running"

=============================================================================
