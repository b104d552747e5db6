------------------------------- MODULE Build --------------------------------
(***************************************************************************)
(* BUILD: the two screens that build an image, "Build image"               *)
(* (tui/src/ui/build.rs) and "Build & flash" (tui/src/ui/buildflash.rs),   *)
(* and the pipeline both spawn (tui/src/build.rs).                         *)
(*                                                                         *)
(* A process of the tool is its pid: the secret files carry the pid in     *)
(* their name and are created with O_EXCL, so they are private to it, also *)
(* after it died and left them behind.  The link to the image script and   *)
(* the image carry no pid: every process that builds beside the same       *)
(* config, and every command a killed process left running, shares them.   *)
(*                                                                         *)
(* Of an image the model keeps the passphrase of its store, the passphrase *)
(* its console hash was derived from, its size and whether it is whole.    *)
(* The flash at the end of "Build & flash" is one step here; Flash.tla is  *)
(* the worker behind it.  What the screen keeps of its target is a name    *)
(* and a size, and what is plugged in under a name may change.             *)
(***************************************************************************)
EXTENDS Naturals

CONSTANTS
  Pids,           \* processes of the tool
  Passphrases,    \* what an operator may type
  Names,          \* names of devices, as in /dev/<name>
  Disks,          \* whole disks
  Bytes,          \* their sizes
  MinBytes,       \* MIN_IMAGE_BYTES: smaller sticks are refused
  MinimalBytes,   \* size of the minimal reusable image
  FixedBytes,     \* size of the flake's own image
  None,           \* no passphrase, no disk
  MaxBuilds       \* bound: builds spawned in a behaviour

ASSUME BytesAssumption ==
  /\ Bytes \in [Disks -> Nat \ {0}]
  /\ {MinBytes, MinimalBytes, FixedBytes} \subseteq Nat \ {0}
ASSUME NoneAssumption == None \notin Names \cup Disks \cup Passphrases
ASSUME NoPassphraseIsAState == {"absent", "partial"} \cap Passphrases = {}
ASSUME MaxBuildsAssumption == MaxBuilds \in Nat

VARIABLES
  stage,      \* where the screen of a process is
  flow,       \* the screen is "Build & flash"
  picked,     \* the name of its target
  first,      \* first entry of the passphrase
  ask,        \* size of the image to build; in "Build & flash", of its target
  built,      \* size of the built image when it was looked at, 0: none
  job,        \* the pipeline and its arguments
  verdict,    \* its terminal event, until drained
  key,        \* pid -> the passphrase file
  hash,       \* pid -> the console hash file
  pki,        \* pid -> the directory of Secure Boot keys
  link,       \* size the linked image script builds, 0: no link
  image,      \* the .raw beside the config
  stick,      \* disk -> the image flashed onto it
  plugged,    \* name -> the disk that is plugged in under it
  ghosts,     \* commands that outlived their process
  builds,     \* builds spawned so far
  asked,      \* history: what the current build of a process was asked for
  meant,      \* history: the disk that was measured, while it stays plugged in
  contended,  \* history: another command wrote to link, image or disk meanwhile
  leaked      \* history: a write failed or the process died over a secret

screenVars == <<stage, flow, picked, first, ask, built>>
workerVars == <<job, verdict>>
secretVars == <<key, hash, pki, leaked>>
sharedVars == <<link, image, contended>>
diskVars == <<plugged, meant>>
vars == <<screenVars, workerVars, secretVars, sharedVars, diskVars, stick,
          ghosts, builds, asked>>


Sizes == {Bytes[d] : d \in Disks} \cup {MinimalBytes, FixedBytes}
Images == [pass: Passphrases, auth: Passphrases, size: Sizes, whole: BOOLEAN]
NoImage == [pass |-> None, auth |-> None, size |-> 0, whole |-> FALSE]

Reviewing == {"review", "backupAsk", "confirm", "sudo"}
Entering == {"unavailable", "pick", "passFirst", "passConfirm"}
\* An image this process asked for is being built, looked at or flashed.
Busy == {"building", "flashing", "doneOk"} \cup Reviewing

WorkerSteps == {"nix", "createKey", "writeKey", "createHash",
                "writeHash", "pkiDir", "pkiKeys", "launch", "script", "find"}
NoJob == [at |-> "none", pass |-> None, size |-> 0, sops |-> FALSE,
          guards |-> {}, script |-> 0]
NoAsk == [pass |-> None, size |-> 0]

TypeOK ==
  /\ stage \in [Pids -> {"down", "home", "doneFail"}
                          \cup Entering \cup Busy]
  /\ flow \in [Pids -> BOOLEAN]
  /\ picked \in [Pids -> Names \cup {None}]
  /\ first \in [Pids -> Passphrases \cup {None}]
  /\ ask \in [Pids -> Sizes \cup {0}]
  /\ built \in [Pids -> Sizes \cup {0}]
  /\ job \in [Pids -> [at: WorkerSteps \cup {"none"},
                       pass: Passphrases \cup {None}, size: Sizes \cup {0},
                       sops: BOOLEAN, guards: SUBSET {"key", "hash", "pki"},
                       script: Sizes \cup {0}]]
  /\ verdict \in [Pids -> {"none", "ok", "error"}]
  /\ key \in [Pids -> Passphrases \cup {"absent", "partial"}]
  /\ hash \in [Pids -> Passphrases \cup {"absent", "partial"}]
  /\ pki \in [Pids -> {"absent", "dir", "keys"}]
  /\ link \in Sizes \cup {0}
  /\ image \in Images \cup {NoImage}
  /\ stick \in [Disks -> Images \cup {NoImage}]
  /\ plugged \in [Names -> Disks \cup {None}]
  /\ meant \in [Pids -> Disks \cup {None}]
  /\ ghosts \subseteq [kind: {"nix", "script"}, pid: Pids, size: Sizes]
  /\ builds \in 0..MaxBuilds
  /\ asked \in [Pids -> [pass: Passphrases \cup {None}, size: Sizes \cup {0}]]
  /\ contended \in [Pids -> BOOLEAN]
  /\ leaked \in [Pids -> BOOLEAN]

Init ==
  /\ stage = [p \in Pids |-> "down"]
  /\ flow = [p \in Pids |-> FALSE]
  /\ picked = [p \in Pids |-> None]
  /\ first = [p \in Pids |-> None]
  /\ ask = [p \in Pids |-> 0]
  /\ built = [p \in Pids |-> 0]
  /\ job = [p \in Pids |-> NoJob]
  /\ verdict = [p \in Pids |-> "none"]
  /\ key = [p \in Pids |-> "absent"]
  /\ hash = [p \in Pids |-> "absent"]
  /\ pki = [p \in Pids |-> "absent"]
  /\ link = 0
  /\ image = NoImage
  /\ stick = [d \in Disks |-> NoImage]
  /\ plugged = [n \in Names |-> None]
  /\ meant = [p \in Pids |-> None]
  /\ ghosts = {}
  /\ builds = 0
  /\ asked = [p \in Pids |-> NoAsk]
  /\ contended = [p \in Pids |-> FALSE]
  /\ leaked = [p \in Pids |-> FALSE]

-----------------------------------------------------------------------------
(* The screens.                                                            *)

worldVars == <<workerVars, secretVars, sharedVars, diskVars, stick, ghosts,
               builds, asked>>

Goto(p, from, to) ==
  /\ stage[p] \in from
  /\ stage' = [stage EXCEPT ![p] = to]

\* The screen is dropped: its fields with it.
Leave(p, from, to) ==
  /\ Goto(p, from, to)
  /\ flow' = [flow EXCEPT ![p] = FALSE]
  /\ picked' = [picked EXCEPT ![p] = None]
  /\ first' = [first EXCEPT ![p] = None]
  /\ ask' = [ask EXCEPT ![p] = 0]
  /\ built' = [built EXCEPT ![p] = 0]
  /\ asked' = [asked EXCEPT ![p] = NoAsk]
  /\ meant' = [meant EXCEPT ![p] = None]
  /\ contended' = [contended EXCEPT ![p] = FALSE]

Start(p) ==
  /\ Goto(p, {"down"}, "home")
  /\ UNCHANGED <<flow, picked, first, ask, built, worldVars>>

\* Bound: no dialogue is gone through that cannot end in a build any more.
MayBuild == builds < MaxBuilds

\* BuildScreen::new: the minimal image when host_attr is set, else the fixed.
OpenBuild(p) ==
  /\ MayBuild
  /\ Goto(p, {"home"}, "passFirst")
  /\ \E s \in {MinimalBytes, FixedBytes} : ask' = [ask EXCEPT ![p] = s]
  /\ UNCHANGED <<flow, picked, first, built, worldVars>>

\* BuildFlowScreen::new: needs host_attr.
OpenFlow(p) ==
  /\ MayBuild
  /\ \E to \in {"pick", "unavailable"} : Goto(p, {"home"}, to)
  /\ flow' = [flow EXCEPT ![p] = TRUE]
  /\ UNCHANGED <<picked, first, ask, built, worldVars>>

\* Mutant: the size is that of the listing, which may be of an earlier disk.
PickDevice_AsListed(p, n) ==
  /\ plugged[n] # None
  /\ Goto(p, {"pick"}, "passFirst")
  /\ picked' = [picked EXCEPT ![p] = n]
  /\ \E d \in Disks : Bytes[d] >= MinBytes /\ ask' = [ask EXCEPT ![p] = Bytes[d]]
  /\ meant' = [meant EXCEPT ![p] = plugged[n]]
  /\ UNCHANGED <<flow, first, built, workerVars, secretVars, sharedVars, plugged,
                 stick, ghosts, builds, asked>>

\* The device is measured now, and its name and size are kept.  An unknown or
\* too small size is an error line on the same screen.
PickDevice(p, n) ==
  /\ MayBuild
  /\ plugged[n] # None /\ Bytes[plugged[n]] >= MinBytes
  /\ Goto(p, {"pick"}, "passFirst")
  /\ picked' = [picked EXCEPT ![p] = n]
  /\ ask' = [ask EXCEPT ![p] = Bytes[plugged[n]]]
  /\ meant' = [meant EXCEPT ![p] = plugged[n]]
  /\ UNCHANGED <<flow, first, built, workerVars, secretVars, sharedVars, plugged,
                 stick, ghosts, builds, asked>>

EnterFirst(p, s) ==
  /\ MayBuild
  /\ Goto(p, {"passFirst"}, "passConfirm")
  /\ first' = [first EXCEPT ![p] = s]
  /\ UNCHANGED <<flow, picked, ask, built, worldVars>>

Mismatch(p) ==
  /\ Goto(p, {"passConfirm"}, "passFirst")
  /\ first' = [first EXCEPT ![p] = None]
  /\ UNCHANGED <<flow, picked, ask, built, worldVars>>

\* Mutant: the entry is taken out of the screen before it is handed over.
Spawn_TakenFirst(p) ==
  /\ MayBuild
  /\ Goto(p, {"passConfirm"}, "building")
  /\ first' = [first EXCEPT ![p] = None]
  /\ job' = [job EXCEPT ![p] = [NoJob EXCEPT !.at = "nix", !.pass = first'[p],
                                            !.size = ask[p]]]
  /\ builds' = builds + 1
  /\ asked' = [asked EXCEPT ![p] = [pass |-> first[p], size |-> ask[p]]]
  /\ contended' = [contended EXCEPT ![p] = FALSE]
  /\ UNCHANGED <<flow, picked, ask, built, verdict, secretVars, link, image,
                 diskVars, stick, ghosts>>

\* The entries match: the pipeline starts with the passphrase, a copy of the
\* config (which may name a Secure Boot bundle) and the size.
Spawn(p) ==
  /\ MayBuild
  /\ Goto(p, {"passConfirm"}, "building")
  /\ first' = [first EXCEPT ![p] = None]
  /\ \E sops \in BOOLEAN :
       job' = [job EXCEPT ![p] = [NoJob EXCEPT !.at = "nix",
                 !.pass = first[p], !.size = ask[p], !.sops = sops]]
  /\ builds' = builds + 1
  /\ asked' = [asked EXCEPT ![p] = [pass |-> first[p], size |-> ask[p]]]
  /\ contended' = [contended EXCEPT ![p] = FALSE]
  /\ UNCHANGED <<flow, picked, ask, built, verdict, secretVars, link,
                 image, diskVars, stick, ghosts>>

\* Esc; inert while a worker runs.
Back(p) ==
  \/ /\ Leave(p, Entering \cup {"review", "doneOk", "doneFail"}, "home")
     /\ UNCHANGED <<job, verdict, secretVars, link, image, plugged, stick,
                    ghosts, builds>>
  \/ /\ Goto(p, Reviewing \ {"review"}, "review")
     /\ UNCHANGED <<flow, picked, first, ask, built, worldVars>>

\* drain_events: the terminal event comes last.  "Build & flash" looks at the
\* size of the built image now.
Drain(p) ==
  /\ verdict' = [verdict EXCEPT ![p] = "none"]
  /\ \/ /\ verdict[p] = "ok"
        /\ Goto(p, {"building"}, IF flow[p] THEN "review" ELSE "doneOk")
        /\ built' = [built EXCEPT ![p] = image.size]
     \/ /\ verdict[p] = "error"
        /\ Goto(p, {"building"}, "doneFail")
        /\ UNCHANGED built
  /\ UNCHANGED <<flow, picked, first, ask, job, secretVars, sharedVars,
                 diskVars, stick, ghosts, builds, asked>>

\* exact_fit_note: the size taken when the build ended against the one that was
\* taken when the device was picked.
AcceptReview(p) ==
  /\ Goto(p, {"review"}, "backupAsk")
  /\ built[p] <= ask[p]
  /\ UNCHANGED <<flow, picked, first, ask, built, worldVars>>

AnswerBackup(p) ==
  /\ Goto(p, {"backupAsk"}, "confirm")
  /\ UNCHANGED <<flow, picked, first, ask, built, worldVars>>

\* The name of the picked device, typed: root flashes, a user is asked for the
\* sudo password, without sudo it ends.
TypeName(p) ==
  /\ \/ Goto(p, {"confirm"}, "flashing")
     \/ Goto(p, {"confirm"}, "sudo")
     \/ Goto(p, {"confirm", "sudo"}, "doneFail")
     \/ Goto(p, {"sudo"}, "flashing")
  /\ UNCHANGED <<flow, picked, first, ask, built, worldVars>>

\* Whoever else is busy with an image can no longer be sure of it.
Contend(p) ==
  contended' = [q \in Pids |->
                  contended[q] \/ (q # p /\ stage[q] \in Busy)]

\* The flash worker opens the image by its path and the device by its name now:
\* whatever disk is there is written, if the image fits.
Flash(p) ==
  /\ stage[p] = "flashing"
  /\ LET d == plugged[picked[p]] IN
       \/ /\ d # None /\ image.size <= Bytes[d]
          /\ stick' = [stick EXCEPT ![d] = image]
          /\ Goto(p, {"flashing"}, "doneOk")
       \/ /\ \/ UNCHANGED stick
             \/ d # None /\ stick' = [stick EXCEPT ![d] = [image EXCEPT !.whole = FALSE]]
          /\ Goto(p, {"flashing"}, "doneFail")
  /\ Contend(p)
  /\ UNCHANGED <<flow, picked, first, ask, built, workerVars, secretVars, link,
                 image, diskVars, ghosts, builds, asked>>

ScreenStep(p) ==
  \/ Start(p) \/ OpenBuild(p) \/ OpenFlow(p)
  \/ \E n \in Names : PickDevice(p, n)
  \/ \E s \in Passphrases : EnterFirst(p, s)
  \/ Mismatch(p) \/ Spawn(p) \/ Back(p)
  \/ AcceptReview(p) \/ AnswerBackup(p) \/ TypeName(p)

-----------------------------------------------------------------------------
(* The pipeline, run_pipeline.                                             *)

quiet == <<screenVars, diskVars, stick, builds, asked>>

At(p, step) == job[p].at = step

\* Mutant: the guard of the key directory is dropped where it is made.
Return_PkiKept(p, answer) ==
  /\ job' = [job EXCEPT ![p] = NoJob]
  /\ verdict' = [verdict EXCEPT ![p] = answer]
  /\ LET shred(file, name) ==
           [file EXCEPT ![p] = IF name \in job[p].guards THEN "absent" ELSE @]
     IN /\ key' = shred(key, "key")
        /\ hash' = shred(hash, "hash")
  /\ UNCHANGED <<pki, leaked>>

\* The guards of the secrets written so far run before the verdict is sent.
Return(p, answer) ==
  /\ job' = [job EXCEPT ![p] = NoJob]
  /\ verdict' = [verdict EXCEPT ![p] = answer]
  /\ LET shred(file, name) ==
           [file EXCEPT ![p] = IF name \in job[p].guards THEN "absent" ELSE @]
     IN /\ key' = shred(key, "key")
        /\ hash' = shred(hash, "hash")
        /\ pki' = shred(pki, "pki")
  /\ UNCHANGED leaked

\* Mutant: the status of nix build is not looked at.
NixBuild_Unchecked(p) ==
  /\ At(p, "nix")
  /\ \/ link' = job[p].size /\ Contend(p)
     \/ link # 0 /\ UNCHANGED <<link, contended>>
  /\ job' = [job EXCEPT ![p].at = "createKey"]
  /\ UNCHANGED <<verdict, secretVars, image, ghosts, quiet>>

\* nix build --out-link: the link is replaced at the end, or not at all.
NixBuild(p) ==
  /\ At(p, "nix")
  /\ \/ /\ link' = job[p].size
        /\ Contend(p)
        /\ job' = [job EXCEPT ![p].at = "createKey"]
        /\ UNCHANGED <<verdict, secretVars>>
     \/ Return(p, "error") /\ UNCHANGED <<link, contended>>
  /\ UNCHANGED <<image, ghosts, quiet>>

\* Mutant: create, which empties a file that is there.
CreateKey_Truncates(p) ==
  /\ At(p, "createKey")
  /\ key' = [key EXCEPT ![p] = "partial"]
  /\ job' = [job EXCEPT ![p].at = "writeKey"]
  /\ UNCHANGED <<verdict, hash, pki, leaked, sharedVars, ghosts, quiet>>

\* create_new: a file left by an earlier process of this pid is an error.
CreateKey(p) ==
  /\ At(p, "createKey")
  /\ \/ /\ key[p] = "absent"
        /\ key' = [key EXCEPT ![p] = "partial"]
        /\ job' = [job EXCEPT ![p].at = "writeKey"]
        /\ UNCHANGED <<verdict, hash, pki, leaked>>
     \/ Return(p, "error")
  /\ UNCHANGED <<sharedVars, ghosts, quiet>>

\* The guard exists only once the write went well.
WriteKey(p) ==
  /\ At(p, "writeKey")
  /\ \/ /\ key' = [key EXCEPT ![p] = job[p].pass]
        /\ job' = [job EXCEPT ![p].at = "createHash",
                        ![p].guards = @ \cup {"key"}]
        /\ UNCHANGED <<verdict, hash, pki, leaked>>
     \/ /\ job' = [job EXCEPT ![p] = NoJob]
        /\ verdict' = [verdict EXCEPT ![p] = "error"]
        /\ leaked' = [leaked EXCEPT ![p] = TRUE]
        /\ UNCHANGED <<key, hash, pki>>
  /\ UNCHANGED <<sharedVars, ghosts, quiet>>

\* mkpasswd, then create_new.
CreateHash(p) ==
  /\ At(p, "createHash")
  /\ \/ /\ hash[p] = "absent"
        /\ hash' = [hash EXCEPT ![p] = "partial"]
        /\ job' = [job EXCEPT ![p].at = "writeHash"]
        /\ UNCHANGED <<verdict, key, pki, leaked>>
     \/ Return(p, "error")
  /\ UNCHANGED <<sharedVars, ghosts, quiet>>

WriteHash(p) ==
  /\ At(p, "writeHash")
  /\ \/ /\ hash' = [hash EXCEPT ![p] = job[p].pass]
        /\ job' = [job EXCEPT ![p].at = "pkiDir", ![p].guards = @ \cup {"hash"}]
        /\ UNCHANGED <<verdict, key, pki, leaked>>
     \/ /\ job' = [job EXCEPT ![p] = NoJob]
        /\ verdict' = [verdict EXCEPT ![p] = "error"]
        /\ key' = [key EXCEPT ![p] = "absent"]
        /\ leaked' = [leaked EXCEPT ![p] = TRUE]
        /\ UNCHANGED <<hash, pki>>
  /\ UNCHANGED <<sharedVars, ghosts, quiet>>

SkipPki(p) ==
  /\ At(p, "pkiDir") /\ ~job[p].sops
  /\ job' = [job EXCEPT ![p].at = "launch"]
  /\ UNCHANGED <<verdict, secretVars, sharedVars, ghosts, quiet>>

\* create_dir refuses a directory that exists; the guard comes before the keys,
\* and a directory that cannot be restricted is left behind empty.
MakePkiDir(p) ==
  /\ At(p, "pkiDir") /\ job[p].sops
  /\ \/ /\ pki[p] = "absent"
        /\ pki' = [pki EXCEPT ![p] = "dir"]
        /\ job' = [job EXCEPT ![p].at = "pkiKeys", ![p].guards = @ \cup {"pki"}]
        /\ UNCHANGED <<verdict, key, hash, leaked>>
     \/ /\ pki[p] = "absent"
        /\ pki' = [pki EXCEPT ![p] = "dir"]
        /\ job' = [job EXCEPT ![p] = NoJob]
        /\ verdict' = [verdict EXCEPT ![p] = "error"]
        /\ key' = [key EXCEPT ![p] = "absent"]
        /\ hash' = [hash EXCEPT ![p] = "absent"]
        /\ leaked' = [leaked EXCEPT ![p] = TRUE]
     \/ Return(p, "error")
  /\ UNCHANGED <<sharedVars, ghosts, quiet>>

\* sops, tar, and the check that the bundle is complete.
DecryptPki(p) ==
  /\ At(p, "pkiKeys")
  /\ \/ /\ pki' = [pki EXCEPT ![p] = "keys"]
        /\ job' = [job EXCEPT ![p].at = "launch"]
        /\ UNCHANGED <<verdict, key, hash, leaked>>
     \/ Return(p, "error")
  /\ UNCHANGED <<sharedVars, ghosts, quiet>>

\* The link is resolved now, long after it was made.
LaunchScript(p) ==
  /\ At(p, "launch")
  /\ \/ /\ job' = [job EXCEPT ![p].at = "script", ![p].script = link]
        /\ UNCHANGED <<verdict, secretVars>>
     \/ Return(p, "error")
  /\ UNCHANGED <<sharedVars, ghosts, quiet>>

\* What a script of that size makes of the secret files of process p.
Make(p, size) ==
  IF key[p] \in Passphrases /\ hash[p] \in Passphrases
  THEN [pass |-> key[p], auth |-> hash[p], size |-> size, whole |-> TRUE]
  ELSE image

\* The script writes nixnas.raw; one that fails may leave part of it.
FinishScript(p) ==
  /\ At(p, "script")
  /\ \/ /\ image' = Make(p, job[p].script)
        /\ job' = [job EXCEPT ![p].at = "find"]
        /\ Contend(p)
        /\ UNCHANGED <<verdict, secretVars>>
     \/ /\ Return(p, "error")
        /\ \/ /\ image' = [Make(p, job[p].script) EXCEPT !.whole = FALSE]
              /\ Contend(p)
           \/ UNCHANGED <<image, contended>>
  /\ UNCHANGED <<link, ghosts, quiet>>

FindRaw(p) ==
  /\ At(p, "find")
  /\ \/ /\ image # NoImage
        /\ Return(p, "ok")
     \/ Return(p, "error")
  /\ UNCHANGED <<sharedVars, ghosts, quiet>>

WorkerStep(p) ==
  \/ NixBuild(p) \/ CreateKey(p) \/ WriteKey(p)
  \/ CreateHash(p) \/ WriteHash(p)
  \/ SkipPki(p) \/ MakePkiDir(p) \/ DecryptPki(p)
  \/ LaunchScript(p) \/ FinishScript(p) \/ FindRaw(p)

-----------------------------------------------------------------------------
(* Leaving, and what is left.                                              *)

Held(p) == key[p] # "absent" \/ hash[p] # "absent" \/ pki[p] # "absent"

\* Ctrl+C, or the quit of the menu.  No guard runs and no child is reaped: a
\* nix build or an image script goes on.
Quit(p) ==
  /\ Leave(p, {"home", "doneFail"} \cup Entering \cup Busy, "down")
  /\ job' = [job EXCEPT ![p] = NoJob]
  /\ verdict' = [verdict EXCEPT ![p] = "none"]
  /\ leaked' = [leaked EXCEPT ![p] = @ \/ Held(p)]
  /\ ghosts' = ghosts \cup
       {g \in [kind: {"nix", "script"}, pid: {p}, size: Sizes] :
          \/ g.kind = "nix" /\ At(p, "nix") /\ g.size = job[p].size
          \/ g.kind = "script" /\ At(p, "script") /\ g.size = job[p].script}
  /\ UNCHANGED <<key, hash, pki, link, image, plugged, stick, builds>>

\* A command that outlived its process ends, or dies of the closed pipe.
GhostEnds(g) ==
  /\ ghosts' = ghosts \ {g}
  /\ \/ UNCHANGED sharedVars
     \/ /\ g.kind = "nix" /\ link' = g.size
        /\ contended' = [q \in Pids |-> contended[q] \/ stage[q] \in Busy]
        /\ UNCHANGED image
     \/ /\ g.kind = "script" /\ image' = Make(g.pid, g.size)
        /\ contended' = [q \in Pids |-> contended[q] \/ stage[q] \in Busy]
        /\ UNCHANGED link
  /\ UNCHANGED <<screenVars, workerVars, secretVars, diskVars, stick, builds, asked>>

\* A disk is pulled, or another one is plugged in and gets the name.
Plug(n, d) ==
  /\ d # plugged[n]
  /\ d # None => \A m \in Names : plugged[m] # d
  /\ plugged' = [plugged EXCEPT ![n] = d]
  /\ meant' = [p \in Pids |-> IF picked[p] = n THEN None ELSE meant[p]]
  /\ UNCHANGED <<screenVars, workerVars, secretVars, sharedVars, stick, ghosts,
                 builds, asked>>

-----------------------------------------------------------------------------

Next ==
  \/ \E p \in Pids : ScreenStep(p) \/ Drain(p) \/ Flash(p) \/ WorkerStep(p)
  \/ \E p \in Pids : Quit(p)
  \/ \E g \in ghosts : GhostEnds(g)
  \/ \E n \in Names, d \in Disks \cup {None} : Plug(n, d)

Spec == Init /\ [][Next]_vars

-----------------------------------------------------------------------------
(* Properties.                                                             *)

\* Whatever a process does next, the secrets of its build are gone when the
\* screen says how the build ended, unless a write of theirs failed or the
\* process was killed over them.
SecretsGoneWhenReported ==
  \A p \in Pids :
    stage[p] # "building" /\ ~leaked[p] => ~Held(p)

Asked(p) == [pass |-> asked[p].pass, auth |-> asked[p].pass,
             size |-> asked[p].size, whole |-> TRUE]

\* An image that is reported as built is the one that was asked for: the store
\* opens with the passphrase typed, the console with the same one, and its size
\* is the one asked; unless something else wrote the link or the image.
ImageIsTheOneAsked ==
  \A p \in Pids :
    /\ stage[p] \in Busy \ {"building"}
    /\ ~contended[p]
    => image = Asked(p)

\* "Build & flash" ends well only when the image it built is on a disk, and if the
\* disk it measured has stayed where it was, on that one, which the image fills
\* exactly.  A disk that was exchanged for another is not noticed (arm_flash).
FlowFlashesItsBuild ==
  \A p \in Pids :
    flow[p] /\ stage[p] = "doneOk" /\ ~contended[p] =>
      /\ \E d \in Disks : stick[d] = Asked(p)
      /\ meant[p] # None =>
           stick[meant[p]] = Asked(p) /\ asked[p].size = Bytes[meant[p]]

\* Whoever wrote it and whatever ran beside it, an image has the passphrase file
\* and the console hash of one build: a script that outlived its process never
\* finds the secrets of a later process of the same pid.
NoMixedImage ==
  /\ image.pass = image.auth
  /\ \A d \in Disks : stick[d].pass = stick[d].auth

\* "Zero + remove the secret temp files, regardless of success or failure": no
\* secret of a process is left when it has reported a build.
SecretsAlwaysRemoved ==
  \A p \in Pids : stage[p] \in {"doneOk", "doneFail"} => ~Held(p)

=============================================================================
