---------------------------- MODULE BuildProofs -----------------------------
(* The safety of a build for any number of processes, disks, passphrases    *)
(* and builds, each process and each command that outlived one free to act *)
(* between any two steps of another.                                       *)
EXTENDS Build, TLAPS

Jobs == [at: WorkerSteps \cup {"none"}, pass: Passphrases \cup {None},
         size: Sizes \cup {0}, sops: BOOLEAN,
         guards: SUBSET {"key", "hash", "pki"}, script: Sizes \cup {0}]

\* The steps with the link made, the passphrase file written, the hash written.
Linked == {"createKey", "writeKey", "createHash", "writeHash", "pkiDir",
           "pkiKeys", "launch"}
Keyed == {"createHash", "writeHash", "pkiDir", "pkiKeys", "launch", "script"}
Hashed == {"pkiDir", "pkiKeys", "launch", "script"}

\* A pipeline, or its verdict, is there only while the screen shows it building,
\* and builds what the screen was asked for.
WorkerIsShown(p) ==
  /\ job[p].at = "none" => job[p] = NoJob
  /\ job[p].at # "none" =>
       /\ stage[p] = "building" /\ verdict[p] = "none"
       /\ job[p].pass = asked[p].pass /\ asked[p].pass \in Passphrases
       /\ job[p].size = asked[p].size /\ asked[p].size \in Sizes
  /\ verdict[p] # "none" => stage[p] = "building"

\* A secret that lies about without a guard is being written.
Guarded(p) ==
  ~leaked[p] =>
    /\ key[p] # "absent" => "key" \in job[p].guards \/ job[p].at = "writeKey"
    /\ hash[p] # "absent" => "hash" \in job[p].guards \/ job[p].at = "writeHash"
    /\ pki[p] # "absent" => "pki" \in job[p].guards

\* What the next step finds: a link, a script, a guard over the key directory,
\* the secrets of this build.
Prepared(p) ==
  /\ job[p].at \in Linked => link \in Sizes
  /\ job[p].at = "script" => job[p].script \in Sizes
  /\ job[p].at = "pkiKeys" => "pki" \in job[p].guards
  /\ job[p].at \in Keyed => key[p] = asked[p].pass
  /\ job[p].at \in Hashed => hash[p] = asked[p].pass

\* As long as nobody else wrote link or image, they are of this build.
Own(p) ==
  ~contended[p] =>
    /\ job[p].at \in Linked => link = asked[p].size
    /\ job[p].at = "script" => job[p].script = asked[p].size
    /\ job[p].at = "find" \/ verdict[p] = "ok" \/ stage[p] \in Busy \ {"building"} =>
         image = Asked(p)

\* What the screen has gathered: a passphrase, a size, in "Build & flash" a name.
Gathered(p) ==
  /\ stage[p] \in {"down", "home"} => ~flow[p]
  /\ stage[p] = "passConfirm" => first[p] \in Passphrases
  /\ stage[p] \in {"passFirst", "passConfirm"} \cup Busy =>
       ask[p] \in Sizes /\ (flow[p] => picked[p] \in Names)
  /\ stage[p] \in Busy => asked[p].size = ask[p]

\* The disk that was measured is the one under the name that was picked, until
\* it is pulled, and the size is its size.
Targeted(p) ==
  /\ stage[p] \in {"down", "home"} => meant[p] = None
  /\ meant[p] # None =>
       picked[p] \in Names /\ plugged[picked[p]] = meant[p] /\ ask[p] = Bytes[meant[p]]

Flashed(p) ==
  flow[p] /\ stage[p] = "doneOk" /\ ~contended[p] =>
    \E d \in Disks : stick[d] = Asked(p) /\ (meant[p] # None => d = meant[p])

Inv(p) ==
  /\ WorkerIsShown(p) /\ Guarded(p) /\ Prepared(p) /\ Own(p)
  /\ Gathered(p) /\ Targeted(p) /\ Flashed(p)

IInv == TypeOK /\ \A p \in Pids : Inv(p)

-----------------------------------------------------------------------------
(* What a step leaves alone.                                               *)

Private(q) == <<stage[q], flow[q], picked[q], first[q], ask[q], built[q], job[q],
                verdict[q], key[q], hash[q], pki[q], leaked[q], asked[q],
                meant[q]>>

\* A step of somebody else, as process q sees it: link, image and stick change
\* under a build or a flash only if q is told.
Elsewhere(q) ==
  /\ UNCHANGED <<Private(q), plugged>>
  /\ contended[q] => contended'[q]
  /\ stage[q] \in Busy /\ ~contended'[q] => UNCHANGED <<link, image, stick>>
  /\ link \in Sizes => link' \in Sizes

LEMMA ElsewhereKeeps ==
  ASSUME NEW q, Inv(q), Elsewhere(q) PROVE Inv(q)'
<1> USE DEF Elsewhere, Private
<1>1. WorkerIsShown(q)' /\ Guarded(q)' /\ Gathered(q)' /\ Targeted(q)'
  BY DEF Inv, WorkerIsShown, Guarded, Gathered, Targeted
<1>2. Prepared(q)'
  BY DEF Inv, Prepared
<1>3. Own(q)'
  BY DEF Inv, WorkerIsShown, Own, Asked, Busy, Linked
<1>4. Flashed(q)'
  BY DEF Inv, Flashed, Asked, Busy
<1> QED
  BY <1>1, <1>2, <1>3, <1>4 DEF Inv

-----------------------------------------------------------------------------
(* The steps of the screen.                                                *)

LEMMA Others ==
  ASSUME TypeOK, NEW p \in Pids, NEW q \in Pids, q # p,
         ScreenStep(p) \/ Drain(p) \/ Flash(p) \/ WorkerStep(p) \/ Quit(p),
         IInv
  PROVE  Elsewhere(q)
<1> USE DEF Elsewhere, Private
<1>2. CASE ScreenStep(p)
  <2> USE DEF Goto, Leave, TypeOK, workerVars, secretVars, sharedVars, diskVars, worldVars
  <2>1. CASE Start(p) \/ OpenBuild(p) \/ OpenFlow(p) \/ (\E n \in Names : PickDevice(p, n))
    BY <2>1 DEF Start, OpenBuild, OpenFlow, PickDevice
  <2>2. CASE (\E s \in Passphrases : EnterFirst(p, s)) \/ Mismatch(p)
    BY <2>2 DEF EnterFirst, Mismatch
  <2>3. CASE Spawn(p)
    BY <2>3 DEF Spawn
  <2>4. CASE Back(p)
    BY <2>4 DEF Back
  <2>5. CASE AcceptReview(p) \/ AnswerBackup(p) \/ TypeName(p)
    BY <2>5 DEF AcceptReview, AnswerBackup, TypeName
  <2> QED
    BY <1>2, <2>1, <2>2, <2>3, <2>4, <2>5 DEF ScreenStep
<1>3. CASE Drain(p)
  BY <1>3 DEF Drain, Goto, TypeOK, secretVars, sharedVars, diskVars
<1>4. CASE Flash(p)
  BY <1>4 DEF Flash, Goto, Contend, TypeOK, workerVars, secretVars, diskVars
<1>5. CASE WorkerStep(p)
  <2> USE DEF TypeOK, quiet, screenVars, secretVars, sharedVars, Return, diskVars
  <2>0. Contend(p) => contended'[q] = (contended[q] \/ stage[q] \in Busy)
    BY DEF Contend
  <2>1. CASE NixBuild(p)
    <3>1. job[p].size \in Sizes
      BY <2>1 DEF NixBuild, At, IInv, Inv, WorkerIsShown
    <3>2. /\ UNCHANGED <<stage, flow, picked, first, ask, built, image, stick, asked, diskVars>>
          /\ job'[q] = job[q] /\ verdict'[q] = verdict[q] /\ leaked'[q] = leaked[q]
          /\ key'[q] = key[q] /\ hash'[q] = hash[q] /\ pki'[q] = pki[q]
      BY <2>1 DEF NixBuild
    <3>3. \/ link' = job[p].size /\ Contend(p)
          \/ UNCHANGED <<link, contended>>
      BY <2>1 DEF NixBuild
    <3> QED
      BY <2>0, <3>1, <3>2, <3>3
  <2>2. CASE CreateKey(p) \/ WriteKey(p)
    BY <2>2 DEF CreateKey, WriteKey
  <2>3. CASE CreateHash(p) \/ WriteHash(p)
    BY <2>3 DEF CreateHash, WriteHash
  <2>4. CASE SkipPki(p) \/ MakePkiDir(p) \/ DecryptPki(p)
    BY <2>4 DEF SkipPki, MakePkiDir, DecryptPki
  <2>5. CASE LaunchScript(p) \/ FindRaw(p)
    BY <2>5 DEF LaunchScript, FindRaw
  <2>6. CASE FinishScript(p)
    <3>1. /\ UNCHANGED <<stage, flow, picked, first, ask, built, link, stick, asked, diskVars>>
          /\ job'[q] = job[q] /\ verdict'[q] = verdict[q] /\ leaked'[q] = leaked[q]
          /\ key'[q] = key[q] /\ hash'[q] = hash[q] /\ pki'[q] = pki[q]
      BY <2>6 DEF FinishScript
    <3>2. Contend(p) \/ UNCHANGED <<image, contended>>
      BY <2>6 DEF FinishScript
    <3> QED
      BY <2>0, <3>1, <3>2
  <2> QED
    BY <1>5, <2>1, <2>2, <2>3, <2>4, <2>5, <2>6 DEF WorkerStep
<1>6. CASE Quit(p)
  BY <1>6 DEF Quit, Leave, Goto, TypeOK
<1> QED
  BY <1>2, <1>3, <1>4, <1>5, <1>6

-----------------------------------------------------------------------------
(* Types.                                                                  *)

Stages == {"down", "home", "doneFail"} \cup Entering \cup Busy
Contents == Passphrases \cup {"absent", "partial"}

ScreenType ==
  /\ stage \in [Pids -> Stages]
  /\ flow \in [Pids -> BOOLEAN]
  /\ picked \in [Pids -> Names \cup {None}]
  /\ first \in [Pids -> Passphrases \cup {None}]
  /\ ask \in [Pids -> Sizes \cup {0}]
  /\ built \in [Pids -> Sizes \cup {0}]
AskedType ==
  /\ asked \in [Pids -> [pass: Passphrases \cup {None}, size: Sizes \cup {0}]]
  /\ builds \in 0..MaxBuilds
DiskType ==
  /\ plugged \in [Names -> Disks \cup {None}]
  /\ meant \in [Pids -> Disks \cup {None}]
WorkerType ==
  /\ job \in [Pids -> Jobs]
  /\ verdict \in [Pids -> {"none", "ok", "error"}]
SecretType ==
  /\ key \in [Pids -> Contents]
  /\ hash \in [Pids -> Contents]
  /\ pki \in [Pids -> {"absent", "dir", "keys"}]
  /\ leaked \in [Pids -> BOOLEAN]
SharedType ==
  /\ link \in Sizes \cup {0}
  /\ image \in Images \cup {NoImage}
  /\ stick \in [Disks -> Images \cup {NoImage}]
  /\ ghosts \subseteq [kind: {"nix", "script"}, pid: Pids, size: Sizes]
  /\ contended \in [Pids -> BOOLEAN]

LEMMA TypeParts ==
  TypeOK <=> /\ ScreenType /\ AskedType /\ DiskType
             /\ WorkerType /\ SecretType /\ SharedType
BY DEF TypeOK, ScreenType, AskedType, DiskType, WorkerType, SecretType,
       SharedType, Stages, Contents, Jobs

LEMMA JobsAreJobs ==
  ASSUME job \in [Pids -> Jobs], NEW p \in Pids, NEW to \in WorkerSteps,
         NEW g \in {"key", "hash", "pki"}, NEW s \in Sizes \cup {0}
  PROVE  /\ [job EXCEPT ![p] = NoJob] \in [Pids -> Jobs]
         /\ [job EXCEPT ![p].at = to] \in [Pids -> Jobs]
         /\ [job EXCEPT ![p].at = to, ![p].guards = @ \cup {g}] \in [Pids -> Jobs]
         /\ [job EXCEPT ![p].at = to, ![p].script = s] \in [Pids -> Jobs]
<1>1. NoJob \in Jobs
  BY DEF NoJob, Jobs
<1> QED
  BY <1>1 DEF Jobs

LEMMA TornImage == ASSUME NEW i \in Images PROVE [i EXCEPT !.whole = FALSE] \in Images
BY Zenon DEF Images

LEMMA TornIsImage ==
  ASSUME NEW i \in Images \cup {NoImage}
  PROVE  [i EXCEPT !.whole = FALSE] \in Images \cup {NoImage}
<1>1. NoImage = [x \in DOMAIN NoImage |-> NoImage[x]] /\ NoImage.whole = FALSE
  BY DEF NoImage
<1>2. \A f, S : f = [x \in S |-> f[x]] /\ f.whole = FALSE => [f EXCEPT !.whole = FALSE] = f
  OBVIOUS
<1> QED
  BY <1>1, <1>2, TornImage

LEMMA ScreenTypes ==
  ASSUME IInv, NEW p \in Pids, ScreenStep(p) \/ Drain(p) \/ Flash(p) PROVE TypeOK'
<1>0. ScreenType /\ AskedType /\ DiskType /\ WorkerType /\ SecretType /\ SharedType
  BY TypeParts DEF IInv
<1> DEFINE World == AskedType /\ DiskType /\ WorkerType /\ SecretType /\ SharedType
<1>a. ASSUME ScreenType', World' PROVE TypeOK'
  BY <1>a, TypeParts, PTL
<1>b. UNCHANGED worldVars => World'
  BY <1>0 DEF worldVars, workerVars, secretVars, sharedVars, diskVars, AskedType, DiskType,
              WorkerType, SecretType, SharedType
<1> HIDE DEF World
<1>1. MinimalBytes \in Sizes /\ FixedBytes \in Sizes /\ \A d \in Disks : Bytes[d] \in Sizes
  BY DEF Sizes
<1> USE <1>0, <1>1, <1>a, <1>b DEF Goto, ScreenType, Stages, Busy, Entering, Reviewing
<1>2. CASE Start(p) \/ AcceptReview(p) \/ AnswerBackup(p)
  BY <1>2 DEF Start, AcceptReview, AnswerBackup
<1>3. CASE TypeName(p)
  BY <1>3 DEF TypeName
<1>4. CASE OpenBuild(p)
  BY <1>4 DEF OpenBuild
<1>5. CASE OpenFlow(p)
  BY <1>5 DEF OpenFlow
<1>6. CASE (\E n \in Names : PickDevice(p, n))
  <2>1. PICK n \in Names : PickDevice(p, n)
    BY <1>6
  <2>2. plugged[n] \in Disks
    BY <2>1 DEF PickDevice, DiskType
  <2>3. ScreenType'
    BY <2>1, <2>2 DEF PickDevice
  <2>4. DiskType'
    BY <2>1, <2>2 DEF PickDevice, DiskType
  <2>5. AskedType' /\ WorkerType' /\ SecretType' /\ SharedType'
    BY <2>1 DEF PickDevice, AskedType, WorkerType, SecretType, SharedType, workerVars,
                secretVars, sharedVars
  <2> QED
    BY <2>3, <2>4, <2>5 DEF World
<1>7. CASE (\E s \in Passphrases : EnterFirst(p, s)) \/ Mismatch(p)
  BY <1>7 DEF EnterFirst, Mismatch
<1>8. CASE Spawn(p)
  <2>1. ScreenType'
    BY <1>8 DEF Spawn
  <2>2. AskedType'
    BY <1>8, MaxBuildsAssumption DEF Spawn, MayBuild, AskedType
  <2>3. WorkerType'
    <3>1. first[p] \in Passphrases
      BY <1>8 DEF Spawn, IInv, Inv, Gathered
    <3>2. \A sops \in BOOLEAN :
            [NoJob EXCEPT !.at = "nix", !.pass = first[p], !.size = ask[p],
                          !.sops = sops] \in Jobs
      BY DEF NoJob, Jobs, WorkerSteps
    <3> QED
      BY <1>8, <3>2 DEF Spawn, WorkerType
  <2>4. DiskType'
    BY <1>8 DEF Spawn, diskVars, DiskType
  <2>5. SecretType' /\ SharedType'
    BY <1>8 DEF Spawn, secretVars, SecretType, SharedType
  <2> QED
    BY <2>1, <2>2, <2>3, <2>4, <2>5 DEF World
<1>9. CASE Back(p)
  <2>1. ScreenType'
    BY <1>9 DEF Back, Leave
  <2>2. UNCHANGED worldVars \/ Leave(p, Entering \cup {"review", "doneOk", "doneFail"}, "home")
    BY <1>9 DEF Back
  <2>3. CASE Leave(p, Entering \cup {"review", "doneOk", "doneFail"}, "home")
            /\ UNCHANGED <<job, verdict, secretVars, link, image, plugged, stick, ghosts,
                           builds>>
    <3>1. DiskType'
      BY <2>3 DEF Leave, DiskType
    <3>2. AskedType' /\ WorkerType' /\ SecretType' /\ SharedType'
      BY <2>3 DEF Leave, NoAsk, AskedType, WorkerType, SecretType, SharedType, secretVars
    <3> QED
      BY <2>1, <3>1, <3>2 DEF World
  <2> QED
    BY <1>9, <2>1, <2>3 DEF Back
<1>10. CASE Drain(p)
  <2>1. ScreenType'
    BY <1>10 DEF Drain, SharedType, Images, NoImage
  <2>2. World'
    BY <1>10 DEF Drain, World, AskedType, DiskType, WorkerType, SecretType, SharedType,
                 secretVars, sharedVars, diskVars
  <2> QED
    BY <2>1, <2>2
<1>11. CASE Flash(p)
  <2>1. ScreenType'
    BY <1>11 DEF Flash
  <2>2. SharedType'
    <3>1. [image EXCEPT !.whole = FALSE] \in Images \cup {NoImage}
      BY TornIsImage DEF SharedType
    <3>2. stick' \in [Disks -> Images \cup {NoImage}]
      BY <1>11, <3>1 DEF Flash, SharedType
    <3>3. contended' \in [Pids -> BOOLEAN]
      BY <1>11 DEF Flash, Contend
    <3> QED
      BY <1>11, <3>2, <3>3 DEF Flash, SharedType
  <2>3. AskedType' /\ DiskType' /\ WorkerType' /\ SecretType'
    BY <1>11 DEF Flash, AskedType, DiskType, WorkerType, SecretType, workerVars, secretVars,
                 diskVars
  <2> QED
    BY <2>1, <2>2, <2>3 DEF World
<1> QED
  BY <1>2, <1>3, <1>4, <1>5, <1>6, <1>7, <1>8, <1>9, <1>10, <1>11 DEF ScreenStep

\* A step of the pipeline as far as types go: it moves on, with a further guard
\* or with a script, or it is over.
LEMMA ReturnTypes ==
  ASSUME SecretType, WorkerType, NEW p \in Pids, NEW v \in {"ok", "error"}, Return(p, v)
  PROVE  SecretType' /\ WorkerType'
<1>1. job' \in [Pids -> Jobs]
  <2>1. NoJob \in Jobs
    BY DEF NoJob, Jobs
  <2> QED
    BY <2>1 DEF Return, WorkerType
<1> QED
  BY <1>1 DEF Return, WorkerType, SecretType, Contents

LEMMA WorkerTypes ==
  ASSUME IInv, NEW p \in Pids, WorkerStep(p) PROVE TypeOK'
<1>0. ScreenType /\ AskedType /\ DiskType /\ WorkerType /\ SecretType /\ SharedType
  BY TypeParts DEF IInv
<1> DEFINE Moving == WorkerType /\ SecretType /\ SharedType
<1>a. UNCHANGED quiet /\ Moving' => TypeOK'
  <2>1. UNCHANGED quiet => ScreenType' /\ AskedType' /\ DiskType'
    BY <1>0 DEF quiet, screenVars, diskVars, ScreenType, AskedType, DiskType
  <2> QED
    BY <2>1, TypeParts, PTL DEF quiet
<1>b. job[p].size \in Sizes \/ job[p].at = "none"
  BY DEF IInv, Inv, WorkerIsShown
<1> USE <1>0
<1>r. \A v \in {"ok", "error"} : Return(p, v) => SecretType' /\ WorkerType'
  BY ReturnTypes
<1>c. Contend(p) => contended' \in [Pids -> BOOLEAN]
  BY DEF Contend
<1>m. \A i \in Sizes : Make(p, i) \in Images \cup {NoImage}
  BY DEF Make, SharedType, Images
<1>e. [job EXCEPT ![p] = NoJob] \in [Pids -> Jobs]
  BY JobsAreJobs DEF WorkerType, WorkerSteps
<1>j. \A to \in WorkerSteps : [job EXCEPT ![p].at = to] \in [Pids -> Jobs]
  BY JobsAreJobs DEF WorkerType
<1>g. \A to \in WorkerSteps, g \in {"key", "hash", "pki"} :
        [job EXCEPT ![p].at = to, ![p].guards = @ \cup {g}] \in [Pids -> Jobs]
  BY JobsAreJobs DEF WorkerType
<1>s. \A to \in WorkerSteps, s \in Sizes \cup {0} :
        [job EXCEPT ![p].at = to, ![p].script = s] \in [Pids -> Jobs]
  BY JobsAreJobs DEF WorkerType
<1> HIDE <1>0
<1> USE DEF WorkerSteps
<1>2. CASE NixBuild(p)
  <2>1. CASE Return(p, "error") /\ UNCHANGED <<link, contended>>
    BY <1>0, <1>2, <1>a, <1>r, <2>1 DEF NixBuild, SharedType, quiet
  <2>2. CASE Contend(p) /\ link' = job[p].size /\ job' = [job EXCEPT ![p].at = "createKey"]
             /\ UNCHANGED <<verdict, secretVars>>
    <3>1. SharedType'
      BY <1>0, <1>2, <1>b, <1>c, <2>2 DEF NixBuild, At, SharedType, quiet
    <3>4. WorkerType'
      BY <1>0, <1>j, <2>2 DEF WorkerType
    <3>5. SecretType'
      BY <1>0, <2>2 DEF SecretType, secretVars
    <3> QED
      BY <1>2, <1>a, <3>1, <3>4, <3>5 DEF NixBuild
  <2> QED
    BY <1>2, <2>1, <2>2 DEF NixBuild
<1>3. CASE CreateKey(p)
  <2>1. SharedType'
    BY <1>0, <1>3 DEF CreateKey, SharedType, sharedVars, quiet
  <2>w. WorkerType'
    BY <1>0, <1>3, <1>r, <1>j DEF CreateKey, WorkerType
  <2>k. SecretType'
    BY <1>0, <1>3, <1>r DEF CreateKey, SecretType, Contents
  <2> QED
    BY <1>3, <1>a, <2>1, <2>w, <2>k DEF CreateKey
<1>4. CASE WriteKey(p)
  <2>1. SharedType'
    BY <1>0, <1>4 DEF WriteKey, SharedType, sharedVars, quiet
  <2>2. job[p].pass \in Passphrases
    BY <1>4 DEF WriteKey, At, IInv, Inv, WorkerIsShown
  <2>j. [job EXCEPT ![p].at = "createHash", ![p].guards = @ \cup {"key"}] \in [Pids -> Jobs]
    BY <1>g, Zenon
  <2>w. WorkerType'
    BY <1>0, <1>4, <1>e, <2>j DEF WriteKey, WorkerType
  <2>k. SecretType'
    BY <1>0, <1>4, <2>2 DEF WriteKey, SecretType, Contents
  <2> QED
    BY <1>4, <1>a, <2>1, <2>w, <2>k DEF WriteKey
<1>5. CASE CreateHash(p)
  <2>1. SharedType'
    BY <1>0, <1>5 DEF CreateHash, SharedType, sharedVars, quiet
  <2>w. WorkerType'
    BY <1>0, <1>5, <1>r, <1>j DEF CreateHash, WorkerType
  <2>k. SecretType'
    BY <1>0, <1>5, <1>r DEF CreateHash, SecretType, Contents
  <2> QED
    BY <1>5, <1>a, <2>1, <2>w, <2>k DEF CreateHash
<1>6. CASE WriteHash(p)
  <2>1. SharedType'
    BY <1>0, <1>6 DEF WriteHash, SharedType, sharedVars, quiet
  <2>2. job[p].pass \in Passphrases
    BY <1>6 DEF WriteHash, At, IInv, Inv, WorkerIsShown
  <2>j. [job EXCEPT ![p].at = "pkiDir", ![p].guards = @ \cup {"hash"}] \in [Pids -> Jobs]
    BY <1>g, Zenon
  <2>w. WorkerType'
    BY <1>0, <1>6, <1>e, <2>j DEF WriteHash, WorkerType
  <2>k. SecretType'
    BY <1>0, <1>6, <2>2 DEF WriteHash, SecretType, Contents
  <2> QED
    BY <1>6, <1>a, <2>1, <2>w, <2>k DEF WriteHash
<1>7. CASE SkipPki(p)
  <2>1. SharedType'
    BY <1>0, <1>7 DEF SkipPki, SharedType, sharedVars, quiet
  <2>w. WorkerType'
    BY <1>0, <1>7, <1>j DEF SkipPki, WorkerType
  <2>k. SecretType'
    BY <1>0, <1>7 DEF SkipPki, SecretType, Contents, secretVars
  <2> QED
    BY <1>7, <1>a, <2>1, <2>w, <2>k DEF SkipPki
<1>8. CASE MakePkiDir(p)
  <2>1. SharedType'
    BY <1>0, <1>8 DEF MakePkiDir, SharedType, sharedVars, quiet
  <2>j. [job EXCEPT ![p].at = "pkiKeys", ![p].guards = @ \cup {"pki"}] \in [Pids -> Jobs]
    BY <1>g, Zenon
  <2>w. WorkerType'
    BY <1>0, <1>8, <1>r, <1>e, <2>j DEF MakePkiDir, WorkerType
  <2>k. SecretType'
    BY <1>0, <1>8, <1>r DEF MakePkiDir, SecretType, Contents
  <2> QED
    BY <1>8, <1>a, <2>1, <2>w, <2>k DEF MakePkiDir
<1>9. CASE DecryptPki(p)
  <2>1. SharedType'
    BY <1>0, <1>9 DEF DecryptPki, SharedType, sharedVars, quiet
  <2>w. WorkerType'
    BY <1>0, <1>9, <1>r, <1>j DEF DecryptPki, WorkerType
  <2>k. SecretType'
    BY <1>0, <1>9, <1>r DEF DecryptPki, SecretType, Contents
  <2> QED
    BY <1>9, <1>a, <2>1, <2>w, <2>k DEF DecryptPki
<1>10. CASE LaunchScript(p)
  <2>1. SharedType'
    BY <1>0, <1>10 DEF LaunchScript, SharedType, sharedVars, quiet
  <2>j. [job EXCEPT ![p].at = "script", ![p].script = link] \in [Pids -> Jobs]
    <3>1. link \in Sizes \cup {0}
      BY <1>0 DEF SharedType
    <3> QED
      BY <1>s, <3>1, Zenon
  <2>w. WorkerType'
    <3>1. CASE Return(p, "error")
      BY <1>r, <3>1
    <3>2. CASE /\ job' = [job EXCEPT ![p].at = "script", ![p].script = link]
               /\ UNCHANGED verdict
      <4>1. job' \in [Pids -> Jobs]
        BY <2>j, <3>2, Zenon
      <4> QED
        BY <1>0, <3>2, <4>1 DEF WorkerType
    <3> QED
      BY <1>10, <3>1, <3>2 DEF LaunchScript
  <2>k. SecretType'
    BY <1>0, <1>10, <1>r DEF LaunchScript, SecretType, Contents, secretVars
  <2> QED
    BY <1>10, <1>a, <2>1, <2>w, <2>k DEF LaunchScript
<1>11. CASE FinishScript(p)
  <2>1. job[p].script \in Sizes
    BY <1>11 DEF FinishScript, At, IInv, Inv, Prepared
  <2>2. image' \in Images \cup {NoImage}
    BY <1>0, <1>11, <1>m, <2>1, TornIsImage DEF FinishScript, SharedType
  <2>3. contended' \in [Pids -> BOOLEAN]
    BY <1>0, <1>11, <1>c DEF FinishScript, SharedType
  <2>4. SharedType'
    BY <1>0, <1>11, <2>2, <2>3 DEF FinishScript, SharedType, quiet
  <2>w. WorkerType'
    BY <1>0, <1>11, <1>r, <1>j DEF FinishScript, WorkerType
  <2>k. SecretType'
    BY <1>0, <1>11, <1>r DEF FinishScript, SecretType, Contents, secretVars
  <2> QED
    BY <1>11, <1>a, <2>4, <2>w, <2>k DEF FinishScript
<1>12. CASE FindRaw(p)
  <2>1. SharedType'
    BY <1>0, <1>12 DEF FindRaw, SharedType, sharedVars, quiet
  <2>2. WorkerType' /\ SecretType'
    BY <1>12, <1>r DEF FindRaw
  <2> QED
    BY <1>12, <1>a, <2>1, <2>2 DEF FindRaw
<1> QED
  BY <1>2, <1>3, <1>4, <1>5, <1>6, <1>7, <1>8, <1>9, <1>10, <1>11, <1>12 DEF WorkerStep

LEMMA LeavingTypes ==
  ASSUME IInv PROVE
    /\ \A p \in Pids : Quit(p) => TypeOK'
    /\ \A g \in ghosts : GhostEnds(g) => TypeOK'
    /\ \A n \in Names, d \in Disks \cup {None} : Plug(n, d) => TypeOK'
    /\ UNCHANGED vars => TypeOK'
<1>0. ScreenType /\ AskedType /\ DiskType /\ WorkerType /\ SecretType /\ SharedType
  BY TypeParts DEF IInv
<1>1. ASSUME NEW p \in Pids, Quit(p) PROVE TypeOK'
  <2>1. ScreenType'
    BY <1>0, <1>1 DEF Quit, Leave, Goto, ScreenType, Stages
  <2>2. AskedType'
    BY <1>0, <1>1 DEF Quit, Leave, NoAsk, AskedType
  <2>3. DiskType'
    BY <1>0, <1>1 DEF Quit, Leave, DiskType
  <2>4. WorkerType'
    BY <1>0, <1>1, JobsAreJobs DEF Quit, WorkerType, WorkerSteps
  <2>5. SecretType'
    BY <1>0, <1>1 DEF Quit, SecretType, Held
  <2>6. SharedType'
    BY <1>0, <1>1 DEF Quit, Leave, SharedType
  <2> QED
    BY <2>1, <2>2, <2>3, <2>4, <2>5, <2>6, TypeParts, PTL
<1>2. ASSUME NEW g \in ghosts, GhostEnds(g) PROVE TypeOK'
  <2>1. g.size \in Sizes /\ g.pid \in Pids
    BY <1>0 DEF SharedType
  <2>2. Make(g.pid, g.size) \in Images \cup {NoImage}
    BY <1>0, <2>1 DEF Make, SharedType, Images
  <2>3. contended' \in [Pids -> BOOLEAN]
    BY <1>0, <1>2 DEF GhostEnds, SharedType, sharedVars
  <2>4. SharedType'
    BY <1>0, <1>2, <2>1, <2>2, <2>3 DEF GhostEnds, SharedType, sharedVars
  <2>5. ScreenType' /\ AskedType' /\ DiskType' /\ WorkerType' /\ SecretType'
    BY <1>0, <1>2 DEF GhostEnds, screenVars, workerVars, secretVars, diskVars, ScreenType, AskedType,
                      DiskType, WorkerType, SecretType
  <2> QED
    BY <2>4, <2>5, TypeParts, PTL
<1>3. ASSUME NEW n \in Names, NEW d \in Disks \cup {None}, Plug(n, d) PROVE TypeOK'
  <2>1. DiskType'
    BY <1>0, <1>3 DEF Plug, DiskType
  <2>2. ScreenType' /\ AskedType' /\ WorkerType' /\ SecretType' /\ SharedType'
    BY <1>0, <1>3 DEF Plug, screenVars, workerVars, secretVars, sharedVars, ScreenType,
                      AskedType, WorkerType, SecretType, SharedType
  <2> QED
    BY <2>1, <2>2, TypeParts, PTL
<1>4. UNCHANGED vars => TypeOK'
  BY DEF IInv, vars, screenVars, workerVars, secretVars, sharedVars, diskVars, TypeOK
<1> QED
  BY <1>1, <1>2, <1>3, <1>4

LEMMA TypeStep == IInv /\ [Next]_vars => TypeOK'
BY ScreenTypes, WorkerTypes, LeavingTypes DEF Next

-----------------------------------------------------------------------------
(* What a process does itself.                                             *)

\* A step of the screen alone, away from a build.
LEMMA EnteringKeeps ==
  ASSUME IInv, NEW p \in Pids,
         \/ Start(p) \/ OpenBuild(p) \/ OpenFlow(p)
         \/ \E n \in Names : PickDevice(p, n)
         \/ \E s \in Passphrases : EnterFirst(p, s)
         \/ Mismatch(p) \/ AcceptReview(p) \/ AnswerBackup(p) \/ TypeName(p)
  PROVE  Inv(p)'
<1>0. TypeOK /\ Inv(p)
  BY DEF IInv
<1> DEFINE Moves == /\ UNCHANGED <<workerVars, secretVars, sharedVars, plugged, stick,
                                   ghosts, builds, asked>>
                    /\ stage[p] # "building" /\ stage'[p] # "building"
                    /\ stage'[p] \in Busy => stage[p] \in Busy
                    /\ stage'[p] # "doneOk"
<1>1. Moves
  BY <1>0 DEF Start, OpenBuild, OpenFlow, PickDevice, EnterFirst, Mismatch, AcceptReview,
              AnswerBackup, TypeName, Goto, TypeOK, Busy, Reviewing, worldVars, diskVars
<1> USE DEF workerVars, secretVars, sharedVars
<1>2. WorkerIsShown(p)'
  BY <1>0, <1>1 DEF Inv, WorkerIsShown
<1>3. Guarded(p)'
  BY <1>0, <1>1 DEF Inv, Guarded
<1>4. Prepared(p)'
  BY <1>0, <1>1 DEF Inv, Prepared
<1>5. Own(p)'
  BY <1>0, <1>1, <1>2 DEF Inv, WorkerIsShown, Own, Asked
<1>6. Flashed(p)'
  BY <1>1 DEF Flashed
<1>7. Gathered(p)'
  <2> USE <1>0 DEF Inv, Gathered, Goto, TypeOK, Busy, Reviewing
  <2> HIDE DEF workerVars, secretVars, sharedVars
  <2>0. asked' = asked
    BY <1>1
  <2>1. CASE Start(p) \/ OpenBuild(p)
    BY <2>0, <2>1 DEF Start, OpenBuild, Sizes
  <2>2. CASE OpenFlow(p)
    BY <2>0, <2>2 DEF OpenFlow
  <2>3. CASE \E n \in Names : PickDevice(p, n)
    BY <2>0, <2>3 DEF PickDevice, Sizes
  <2>4. CASE (\E s \in Passphrases : EnterFirst(p, s)) \/ Mismatch(p)
    BY <2>0, <2>4 DEF EnterFirst, Mismatch
  <2>5. CASE AcceptReview(p) \/ AnswerBackup(p) \/ TypeName(p)
    BY <2>0, <2>5 DEF AcceptReview, AnswerBackup, TypeName
  <2> QED
    BY <2>1, <2>2, <2>3, <2>4, <2>5
<1>8. Targeted(p)'
  <2> USE <1>0 DEF Inv, Targeted, Goto, TypeOK, worldVars, diskVars
  <2>1. CASE Start(p) \/ OpenBuild(p) \/ OpenFlow(p)
    BY <2>1 DEF Start, OpenBuild, OpenFlow
  <2>2. CASE \E n \in Names : PickDevice(p, n)
    BY <2>2 DEF PickDevice
  <2>3. CASE (\E s \in Passphrases : EnterFirst(p, s)) \/ Mismatch(p)
    BY <2>3 DEF EnterFirst, Mismatch
  <2>4. CASE AcceptReview(p) \/ AnswerBackup(p) \/ TypeName(p)
    BY <2>4 DEF AcceptReview, AnswerBackup, TypeName
  <2> QED
    BY <2>1, <2>2, <2>3, <2>4
<1> QED
  BY <1>2, <1>3, <1>4, <1>5, <1>6, <1>7, <1>8 DEF Inv

LEMMA SpawnKeeps == ASSUME IInv, NEW p \in Pids, Spawn(p) PROVE Inv(p)'
<1>0. TypeOK /\ Inv(p) /\ stage[p] = "passConfirm" /\ job[p] = NoJob /\ verdict[p] = "none"
  BY DEF IInv, Inv, WorkerIsShown, Spawn, Goto
<1>1. /\ job'[p].at = "nix" /\ job'[p].guards = {} /\ job'[p].pass = first[p]
      /\ job'[p].size = ask[p]
      /\ stage'[p] = "building" /\ verdict' = verdict
      /\ asked'[p] = [pass |-> first[p], size |-> ask[p]]
      /\ UNCHANGED <<flow, picked, ask, key, hash, pki, leaked, plugged, meant>>
  BY <1>0 DEF Spawn, Goto, TypeOK, NoJob, secretVars, diskVars
<1>2. WorkerIsShown(p)'
  BY <1>0, <1>1 DEF Inv, Gathered, WorkerIsShown
<1>3. Guarded(p)'
  BY <1>0, <1>1 DEF Inv, Guarded, NoJob
<1>4. Prepared(p)'
  BY <1>1 DEF Prepared, Linked, Keyed, Hashed
<1>5. Own(p)'
  BY <1>0, <1>1 DEF Own, Linked, Busy, Reviewing
<1>6. Gathered(p)' /\ Targeted(p)' /\ Flashed(p)'
  BY <1>0, <1>1 DEF Inv, Gathered, Targeted, Flashed
<1> QED
  BY <1>2, <1>3, <1>4, <1>5, <1>6 DEF Inv

LEMMA LeavingKeeps == ASSUME IInv, NEW p \in Pids, Back(p) \/ Quit(p) PROVE Inv(p)'
<1>0. TypeOK /\ Inv(p)
  BY DEF IInv
<1>1. CASE Back(p) /\ stage'[p] = "home"
  <2>1. /\ stage[p] # "building" /\ ~flow'[p] /\ meant'[p] = None
        /\ UNCHANGED <<job, verdict, key, hash, pki, leaked>>
    BY <1>0, <1>1 DEF Back, Leave, Goto, TypeOK, Entering, Reviewing, secretVars
  <2>2. job[p] = NoJob /\ verdict[p] = "none"
    BY <1>0, <2>1 DEF Inv, WorkerIsShown
  <2> QED
    BY <1>0, <1>1, <2>1, <2>2
    DEF Inv, WorkerIsShown, Guarded, Prepared, Own, Gathered, Targeted, Flashed, NoJob, Busy, Reviewing,
        Linked, Keyed, Hashed
<1>2. CASE Back(p) /\ stage'[p] # "home"
  <2>1. /\ stage[p] \in Reviewing /\ stage'[p] = "review"
        /\ UNCHANGED <<flow, picked, first, ask, built, worldVars>>
    BY <1>0, <1>2 DEF Back, Leave, Goto, TypeOK, Reviewing
  <2> QED
    BY <1>0, <2>1
    DEF Inv, WorkerIsShown, Guarded, Prepared, Own, Gathered, Targeted, Flashed, Asked, Busy, Reviewing,
        worldVars, workerVars, secretVars, sharedVars, diskVars
<1>3. CASE Quit(p)
  <2>1. /\ job'[p] = NoJob /\ verdict'[p] = "none" /\ stage'[p] = "down" /\ ~flow'[p] /\ meant'[p] = None
        /\ leaked'[p] = (leaked[p] \/ Held(p))
        /\ UNCHANGED <<key, hash, pki>>
    BY <1>0, <1>3 DEF Quit, Leave, Goto, TypeOK
  <2>2. Guarded(p)'
    <3>1. leaked'[p] \/ (key[p] = "absent" /\ hash[p] = "absent" /\ pki[p] = "absent")
      BY <2>1, Zenon DEF Held
    <3> QED
      BY <2>1, <3>1 DEF Guarded
  <2> QED
    BY <2>1, <2>2 DEF Inv, WorkerIsShown, Prepared, Own, Gathered, Targeted, Flashed, NoJob,
                      Busy, Reviewing, Linked, Keyed, Hashed
<1> QED
  BY <1>1, <1>2, <1>3

LEMMA DrainKeeps == ASSUME IInv, NEW p \in Pids, Drain(p) PROVE Inv(p)'
<1>0. TypeOK /\ Inv(p) /\ stage[p] = "building" /\ verdict[p] # "none" /\ job[p] = NoJob
  BY DEF IInv, Inv, WorkerIsShown, Drain, Goto
<1>1. /\ \/ verdict[p] = "ok" /\ stage'[p] \in {"review", "doneOk"}
              /\ (stage'[p] = "doneOk" => ~flow[p])
         \/ stage'[p] = "doneFail"
      /\ verdict'[p] = "none"
      /\ UNCHANGED <<flow, picked, first, ask, job, secretVars, sharedVars, diskVars,
                     stick, asked>>
  BY <1>0 DEF Drain, Goto, TypeOK
<1> QED
  BY <1>0, <1>1
  DEF Inv, WorkerIsShown, Guarded, Prepared, Own, Gathered, Targeted, Flashed, Asked, Busy, Reviewing,
      secretVars, sharedVars, diskVars, NoJob, Linked, Keyed, Hashed

LEMMA FlashKeeps == ASSUME IInv, NEW p \in Pids, Flash(p) PROVE Inv(p)'
<1>0. TypeOK /\ Inv(p) /\ stage[p] = "flashing"
  BY DEF IInv, Flash
<1>1. /\ UNCHANGED <<flow, picked, first, ask, workerVars, secretVars, link, image, asked,
                     diskVars>>
      /\ stage'[p] \in {"doneOk", "doneFail"}
      /\ contended'[p] = contended[p]
  BY <1>0 DEF Flash, Goto, Contend, TypeOK
<1>2. stage'[p] = "doneOk" /\ flow[p] =>
        \E d \in Disks : stick'[d] = image /\ (meant[p] # None => d = meant[p])
  <2> SUFFICES ASSUME stage'[p] = "doneOk", flow[p]
               PROVE  LET d == plugged[picked[p]] IN
                        d \in Disks /\ stick'[d] = image /\ (meant[p] # None => d = meant[p])
    OBVIOUS
  <2>1. picked[p] \in Names /\ plugged[picked[p]] \in Disks \cup {None}
    BY <1>0 DEF Inv, Gathered, Busy, TypeOK
  <2>2. plugged[picked[p]] # None /\ stick' = [stick EXCEPT ![plugged[picked[p]]] = image]
    BY <1>0 DEF Flash, Goto, TypeOK
  <2> QED
    BY <1>0, <2>1, <2>2 DEF Inv, Targeted, TypeOK
<1> QED
  BY <1>0, <1>1, <1>2
  DEF Inv, WorkerIsShown, Guarded, Prepared, Own, Gathered, Targeted, Flashed, Asked, Busy, Reviewing,
      workerVars, secretVars, diskVars, NoJob, Linked, Keyed, Hashed

\* A pipeline stays within the screen that shows it.
LEMMA PipelineKeeps ==
  ASSUME NEW p, Inv(p), UNCHANGED quiet,
         WorkerIsShown(p)', Guarded(p)', Prepared(p)', Own(p)',
         contended'[p] = contended[p], stage[p] = "building"
  PROVE  Inv(p)'
BY DEF Inv, Gathered, Targeted, Flashed, Asked, quiet, screenVars, diskVars

\* The guards leave nothing behind that was not leaked.
LEMMA ReturnKeeps ==
  ASSUME IInv, NEW p \in Pids, NEW v \in {"ok", "error"}, Return(p, v), UNCHANGED quiet,
         job[p].at \notin {"none", "writeKey", "writeHash"},
         v = "ok" => job[p].at = "find" /\ UNCHANGED image,
         contended'[p] = contended[p]
  PROVE  Inv(p)'
<1>0. TypeOK /\ Inv(p) /\ stage[p] = "building"
  BY DEF IInv, Inv, WorkerIsShown
<1>1. /\ job'[p] = NoJob /\ verdict'[p] = v /\ leaked' = leaked
      /\ key'[p] = IF "key" \in job[p].guards THEN "absent" ELSE key[p]
      /\ hash'[p] = IF "hash" \in job[p].guards THEN "absent" ELSE hash[p]
      /\ pki'[p] = IF "pki" \in job[p].guards THEN "absent" ELSE pki[p]
  BY <1>0 DEF Return, TypeOK
<1>2. WorkerIsShown(p)'
  BY <1>0, <1>1 DEF WorkerIsShown, quiet, screenVars, NoJob
<1>3. Guarded(p)'
  BY <1>0, <1>1 DEF Inv, Guarded
<1>4. Prepared(p)'
  BY <1>1 DEF Prepared, NoJob, Linked, Keyed, Hashed
<1>5. Own(p)'
  BY <1>0, <1>1 DEF Inv, Own, Asked, NoJob, Linked, Busy, Reviewing, quiet, screenVars
<1> QED
  BY <1>0, <1>2, <1>3, <1>4, <1>5, PipelineKeeps

LEMMA WorkerKeeps == ASSUME IInv, NEW p \in Pids, WorkerStep(p) PROVE Inv(p)'
<1>0. TypeOK /\ Inv(p)
  BY DEF IInv
<1>1. job[p].at # "none" /\ stage[p] = "building" /\ verdict[p] = "none" /\ UNCHANGED quiet
  BY <1>0 DEF WorkerStep, At, NixBuild, CreateKey, WriteKey, CreateHash, WriteHash, SkipPki,
              MakePkiDir, DecryptPki, LaunchScript, FinishScript, FindRaw, Inv, WorkerIsShown
<1>2. Contend(p) => contended'[p] = contended[p]
  BY <1>0 DEF Contend, TypeOK
<1>3. ASSUME Return(p, "error"), job[p].at \notin {"none", "writeKey", "writeHash"},
             contended'[p] = contended[p]
      PROVE  Inv(p)'
  BY <1>1, <1>3, ReturnKeeps
<1>4. ASSUME WorkerIsShown(p)', Guarded(p)', Prepared(p)', Own(p)',
             contended'[p] = contended[p]
      PROVE  Inv(p)'
  BY <1>0, <1>1, <1>4, PipelineKeeps
<1>5. job[p].pass = asked[p].pass /\ asked[p].pass \in Passphrases
      /\ job[p].size = asked[p].size /\ asked[p].size \in Sizes
  BY <1>0, <1>1 DEF Inv, WorkerIsShown
<1> DEFINE MovesTo(to) == /\ job'[p].at = to /\ verdict'[p] = verdict[p]
                          /\ job'[p].pass = job[p].pass /\ job'[p].size = job[p].size
<1>6. \A to \in WorkerSteps : MovesTo(to) => WorkerIsShown(p)'
  BY <1>1, <1>5 DEF WorkerIsShown, WorkerSteps, quiet, screenVars
<1> USE DEF At
<1>7. CASE NixBuild(p)
  <2>1. CASE Return(p, "error") /\ UNCHANGED contended
    BY <1>3, <1>7, <2>1 DEF NixBuild
  <2>2. CASE Contend(p) /\ link' = job[p].size /\ job' = [job EXCEPT ![p].at = "createKey"]
             /\ UNCHANGED <<verdict, secretVars>>
    <3>1. MovesTo("createKey") /\ job'[p].guards = job[p].guards /\ UNCHANGED secretVars
      BY <1>0, <2>2 DEF TypeOK
    <3>2. WorkerIsShown(p)'
      BY <1>6, <3>1 DEF WorkerSteps
    <3>3. Guarded(p)'
      BY <1>0, <1>7, <3>1 DEF NixBuild, Inv, Guarded, secretVars
    <3>4. Prepared(p)' /\ Own(p)'
      BY <1>1, <1>5, <2>2, <3>1 DEF Prepared, Own, Linked, Keyed, Hashed, Busy, quiet, screenVars
    <3> QED
      BY <1>2, <1>4, <2>2, <3>2, <3>3, <3>4
  <2> QED
    BY <1>7, <2>1, <2>2 DEF NixBuild
<1>8. CASE CreateKey(p)
  <2>1. CASE Return(p, "error")
    BY <1>3, <1>8, <2>1 DEF CreateKey, sharedVars
  <2>2. CASE job' = [job EXCEPT ![p].at = "writeKey"] /\ UNCHANGED <<verdict, hash, pki, leaked>>
    <3>1. MovesTo("writeKey") /\ job'[p].guards = job[p].guards
      BY <1>0, <2>2 DEF TypeOK
    <3>2. WorkerIsShown(p)'
      BY <1>6, <3>1 DEF WorkerSteps
    <3>3. Guarded(p)'
      BY <1>0, <1>8, <2>2, <3>1 DEF CreateKey, Inv, Guarded
    <3>4. Prepared(p)' /\ Own(p)'
      BY <1>0, <1>1, <1>8, <2>2, <3>1
      DEF CreateKey, Inv, Prepared, Own, Linked, Keyed, Hashed, Busy, quiet, screenVars, sharedVars
    <3> QED
      BY <1>4, <1>8, <3>2, <3>3, <3>4 DEF CreateKey, sharedVars
  <2> QED
    BY <1>8, <2>1, <2>2 DEF CreateKey
<1>9. CASE WriteKey(p)
  <2>1. CASE job' = [job EXCEPT ![p] = NoJob]
             /\ verdict' = [verdict EXCEPT ![p] = "error"]
             /\ leaked' = [leaked EXCEPT ![p] = TRUE]
    <3>1. job'[p] = NoJob /\ verdict'[p] = "error" /\ leaked'[p]
      BY <1>0, <2>1 DEF TypeOK
    <3> QED
      BY <1>1, <1>4, <1>9, <3>1 DEF WriteKey, WorkerIsShown, Guarded, Prepared, Own, NoJob,
         Linked, Keyed, Hashed, Busy, Reviewing, quiet, screenVars, sharedVars
  <2>2. CASE /\ key' = [key EXCEPT ![p] = job[p].pass]
             /\ job' = [job EXCEPT ![p].at = "createHash", ![p].guards = @ \cup {"key"}]
             /\ UNCHANGED <<verdict, hash, pki, leaked>>
    <3>1. MovesTo("createHash") /\ job'[p].guards = job[p].guards \cup {"key"}
      BY <1>0, <2>2 DEF TypeOK
    <3>2. WorkerIsShown(p)'
      BY <1>6, <3>1 DEF WorkerSteps
    <3>3. Guarded(p)'
      BY <1>0, <1>9, <2>2, <3>1 DEF WriteKey, Inv, Guarded
    <3>4. Prepared(p)' /\ Own(p)'
      BY <1>0, <1>1, <1>5, <1>9, <2>2, <3>1 DEF WriteKey, TypeOK, Inv, Prepared, Own, Linked,
         Keyed, Hashed, Busy, Reviewing, quiet, screenVars, sharedVars
    <3> QED
      BY <1>4, <1>9, <3>2, <3>3, <3>4 DEF WriteKey, sharedVars
  <2> QED
    BY <1>9, <2>1, <2>2 DEF WriteKey
<1>10. CASE CreateHash(p)
  <2>1. CASE Return(p, "error")
    BY <1>3, <1>10, <2>1 DEF CreateHash, sharedVars
  <2>2. CASE job' = [job EXCEPT ![p].at = "writeHash"] /\ UNCHANGED <<verdict, key, pki, leaked>>
    <3>1. MovesTo("writeHash") /\ job'[p].guards = job[p].guards
      BY <1>0, <2>2 DEF TypeOK
    <3>2. WorkerIsShown(p)'
      BY <1>6, <3>1 DEF WorkerSteps
    <3>3. Guarded(p)'
      BY <1>0, <1>10, <2>2, <3>1 DEF CreateHash, Inv, Guarded
    <3>4. Prepared(p)' /\ Own(p)'
      BY <1>0, <1>1, <1>10, <2>2, <3>1 DEF CreateHash, Inv, Prepared, Own, Linked, Keyed,
         Hashed, Busy, Reviewing, quiet, screenVars, sharedVars
    <3> QED
      BY <1>4, <1>10, <3>2, <3>3, <3>4 DEF CreateHash, sharedVars
  <2> QED
    BY <1>10, <2>1, <2>2 DEF CreateHash
<1>11. CASE WriteHash(p)
  <2>1. CASE job' = [job EXCEPT ![p] = NoJob]
             /\ verdict' = [verdict EXCEPT ![p] = "error"]
             /\ leaked' = [leaked EXCEPT ![p] = TRUE]
    <3>1. job'[p] = NoJob /\ verdict'[p] = "error" /\ leaked'[p]
      BY <1>0, <2>1 DEF TypeOK
    <3> QED
      BY <1>1, <1>4, <1>11, <3>1 DEF WriteHash, WorkerIsShown, Guarded, Prepared, Own, NoJob,
         Linked, Keyed, Hashed, Busy, Reviewing, quiet, screenVars, sharedVars
  <2>2. CASE /\ hash' = [hash EXCEPT ![p] = job[p].pass]
             /\ job' = [job EXCEPT ![p].at = "pkiDir", ![p].guards = @ \cup {"hash"}]
             /\ UNCHANGED <<verdict, key, pki, leaked>>
    <3>1. MovesTo("pkiDir") /\ job'[p].guards = job[p].guards \cup {"hash"}
      BY <1>0, <2>2 DEF TypeOK
    <3>2. WorkerIsShown(p)'
      BY <1>6, <3>1 DEF WorkerSteps
    <3>3. Guarded(p)'
      BY <1>0, <1>11, <2>2, <3>1 DEF WriteHash, Inv, Guarded
    <3>4. Prepared(p)' /\ Own(p)'
      BY <1>0, <1>1, <1>5, <1>11, <2>2, <3>1 DEF WriteHash, TypeOK, Inv, Prepared, Own, Linked,
         Keyed, Hashed, Busy, Reviewing, quiet, screenVars, sharedVars
    <3> QED
      BY <1>4, <1>11, <3>2, <3>3, <3>4 DEF WriteHash, sharedVars
  <2> QED
    BY <1>11, <2>1, <2>2 DEF WriteHash
<1>12. CASE SkipPki(p)
  <2>1. MovesTo("launch") /\ job'[p].guards = job[p].guards /\ UNCHANGED secretVars
    BY <1>0, <1>12 DEF SkipPki, TypeOK
  <2>2. WorkerIsShown(p)'
    BY <1>6, <2>1 DEF WorkerSteps
  <2>3. Guarded(p)'
    BY <1>0, <1>12, <2>1 DEF SkipPki, Inv, Guarded, secretVars
  <2>4. Prepared(p)' /\ Own(p)'
    BY <1>0, <1>1, <1>12, <2>1 DEF SkipPki, Inv, Prepared, Own, Linked, Keyed, Hashed, Busy,
       Reviewing, quiet, screenVars, secretVars, sharedVars
  <2> QED
    BY <1>4, <1>12, <2>2, <2>3, <2>4 DEF SkipPki, sharedVars
<1>13. CASE MakePkiDir(p)
  <2>1. CASE Return(p, "error")
    BY <1>3, <1>13, <2>1 DEF MakePkiDir, sharedVars
  <2>2. CASE job' = [job EXCEPT ![p] = NoJob]
             /\ verdict' = [verdict EXCEPT ![p] = "error"]
             /\ leaked' = [leaked EXCEPT ![p] = TRUE]
    <3>1. job'[p] = NoJob /\ verdict'[p] = "error" /\ leaked'[p]
      BY <1>0, <2>2 DEF TypeOK
    <3> QED
      BY <1>1, <1>4, <1>13, <3>1 DEF MakePkiDir, WorkerIsShown, Guarded, Prepared, Own, NoJob,
         Linked, Keyed, Hashed, Busy, Reviewing, quiet, screenVars, sharedVars
  <2>3. CASE /\ job' = [job EXCEPT ![p].at = "pkiKeys", ![p].guards = @ \cup {"pki"}]
             /\ UNCHANGED <<verdict, key, hash, leaked>>
    <3>1. MovesTo("pkiKeys") /\ job'[p].guards = job[p].guards \cup {"pki"}
      BY <1>0, <2>3 DEF TypeOK
    <3>2. WorkerIsShown(p)'
      BY <1>6, <3>1 DEF WorkerSteps
    <3>3. Guarded(p)'
      BY <1>0, <1>13, <2>3, <3>1 DEF MakePkiDir, Inv, Guarded
    <3>4. Prepared(p)' /\ Own(p)'
      BY <1>0, <1>1, <1>13, <2>3, <3>1 DEF MakePkiDir, Inv, Prepared, Own, Linked, Keyed,
         Hashed, Busy, Reviewing, quiet, screenVars, sharedVars
    <3> QED
      BY <1>4, <1>13, <3>2, <3>3, <3>4 DEF MakePkiDir, sharedVars
  <2> QED
    BY <1>13, <2>1, <2>2, <2>3 DEF MakePkiDir
<1>14. CASE DecryptPki(p)
  <2>1. CASE Return(p, "error")
    BY <1>3, <1>14, <2>1 DEF DecryptPki, sharedVars
  <2>2. CASE /\ pki' = [pki EXCEPT ![p] = "keys"] /\ job' = [job EXCEPT ![p].at = "launch"]
             /\ UNCHANGED <<verdict, key, hash, leaked>>
    <3>1. MovesTo("launch") /\ job'[p].guards = job[p].guards
      BY <1>0, <2>2 DEF TypeOK
    <3>2. WorkerIsShown(p)'
      BY <1>6, <3>1 DEF WorkerSteps
    <3>3. Guarded(p)'
      BY <1>0, <1>14, <2>2, <3>1 DEF DecryptPki, Inv, Guarded, Prepared
    <3>4. Prepared(p)' /\ Own(p)'
      BY <1>0, <1>1, <1>14, <2>2, <3>1 DEF DecryptPki, Inv, Prepared, Own, Linked, Keyed,
         Hashed, Busy, Reviewing, quiet, screenVars, sharedVars
    <3> QED
      BY <1>4, <1>14, <3>2, <3>3, <3>4 DEF DecryptPki, sharedVars
  <2> QED
    BY <1>14, <2>1, <2>2 DEF DecryptPki
<1>15. CASE LaunchScript(p)
  <2>1. CASE Return(p, "error")
    BY <1>3, <1>15, <2>1 DEF LaunchScript, sharedVars
  <2>2. CASE /\ job' = [job EXCEPT ![p].at = "script", ![p].script = link]
             /\ UNCHANGED <<verdict, secretVars>>
    <3>1. MovesTo("script") /\ job'[p].guards = job[p].guards /\ job'[p].script = link
      BY <1>0, <2>2 DEF TypeOK
    <3>2. WorkerIsShown(p)'
      BY <1>6, <3>1 DEF WorkerSteps
    <3>3. Guarded(p)'
      BY <1>0, <1>15, <2>2, <3>1 DEF LaunchScript, Inv, Guarded, secretVars
    <3>4. Prepared(p)' /\ Own(p)'
      BY <1>0, <1>1, <1>15, <2>2, <3>1 DEF LaunchScript, Inv, Prepared, Own, Linked, Keyed,
         Hashed, Busy, Reviewing, quiet, screenVars, secretVars, sharedVars
    <3> QED
      BY <1>4, <1>15, <3>2, <3>3, <3>4 DEF LaunchScript, sharedVars
  <2> QED
    BY <1>15, <2>1, <2>2 DEF LaunchScript
<1>16. CASE FinishScript(p)
  <2>1. CASE Return(p, "error") /\ (Contend(p) \/ UNCHANGED contended)
    BY <1>2, <1>3, <1>16, <2>1 DEF FinishScript
  <2>2. CASE /\ image' = Make(p, job[p].script) /\ job' = [job EXCEPT ![p].at = "find"]
             /\ Contend(p) /\ UNCHANGED <<verdict, secretVars>>
    <3>1. MovesTo("find") /\ job'[p].guards = job[p].guards
      BY <1>0, <2>2 DEF TypeOK
    <3>2. WorkerIsShown(p)'
      BY <1>6, <3>1 DEF WorkerSteps
    <3>3. Guarded(p)'
      BY <1>0, <1>16, <2>2, <3>1 DEF FinishScript, Inv, Guarded, secretVars
    <3>4. image' = [pass |-> asked[p].pass, auth |-> asked[p].pass,
                    size |-> job[p].script, whole |-> TRUE]
      BY <1>0, <1>5, <1>16, <2>2 DEF FinishScript, Make, Inv, Prepared, Keyed, Hashed
    <3>5. Prepared(p)' /\ Own(p)'
      BY <1>0, <1>1, <1>2, <1>16, <2>2, <3>1, <3>4 DEF FinishScript, Inv, Prepared, Own, Asked,
         Linked, Keyed, Hashed, Busy, Reviewing, quiet, screenVars
    <3> QED
      BY <1>2, <1>4, <2>2, <3>2, <3>3, <3>5
  <2> QED
    BY <1>16, <2>1, <2>2 DEF FinishScript
<1>17. CASE FindRaw(p)
  <2>1. CASE Return(p, "error")
    BY <1>3, <1>17, <2>1 DEF FindRaw, sharedVars
  <2>2. CASE Return(p, "ok")
    BY <1>1, <1>17, <2>2, ReturnKeeps DEF FindRaw, sharedVars
  <2> QED
    BY <1>17, <2>1, <2>2 DEF FindRaw
<1> QED
  BY <1>7, <1>8, <1>9, <1>10, <1>11, <1>12, <1>13, <1>14, <1>15, <1>16, <1>17 DEF WorkerStep

\* A command that outlived its process contends with everybody busy.
LEMMA GhostElsewhere ==
  ASSUME TypeOK, NEW g \in ghosts, GhostEnds(g), NEW q \in Pids PROVE Elsewhere(q)
<1>1. g.size \in Sizes
  BY DEF TypeOK
<1>2. CASE UNCHANGED sharedVars
  BY <1>2 DEF GhostEnds, Elsewhere, Private, screenVars, workerVars, secretVars, diskVars, sharedVars
<1>3. CASE contended' = [r \in Pids |-> contended[r] \/ stage[r] \in Busy]
           /\ (link' = link \/ link' = g.size)
  <2>1. contended'[q] = (contended[q] \/ stage[q] \in Busy)
    BY <1>3
  <2> QED
    BY <1>1, <1>3, <2>1
    DEF GhostEnds, Elsewhere, Private, screenVars, workerVars, secretVars, diskVars
<1> QED
  BY <1>2, <1>3 DEF GhostEnds

\* A disk that is pulled or exchanged is no longer the one that was measured.
LEMMA PlugKeeps ==
  ASSUME IInv, NEW n \in Names, NEW d \in Disks \cup {None}, Plug(n, d), NEW q \in Pids
  PROVE  Inv(q)'
<1>0. TypeOK /\ Inv(q)
  BY DEF IInv
<1>1. /\ UNCHANGED <<screenVars, workerVars, secretVars, sharedVars, stick, asked>>
      /\ meant'[q] = meant[q] \/ meant'[q] = None
      /\ meant'[q] # None => picked[q] # n
      /\ \A m \in Names \ {n} : plugged'[m] = plugged[m]
  BY <1>0 DEF Plug, TypeOK
<1> USE DEF screenVars, workerVars, secretVars, sharedVars
<1>2. WorkerIsShown(q)' /\ Guarded(q)' /\ Prepared(q)' /\ Gathered(q)'
  BY <1>0, <1>1 DEF Inv, WorkerIsShown, Guarded, Prepared, Gathered
<1>3. Own(q)'
  BY <1>0, <1>1 DEF Inv, Own, Asked
<1>4. Targeted(q)'
  BY <1>0, <1>1 DEF Inv, Targeted
<1>5. Flashed(q)'
  BY <1>0, <1>1 DEF Inv, Flashed, Asked
<1> QED
  BY <1>2, <1>3, <1>4, <1>5 DEF Inv

LEMMA StartsWell == Init => IInv
<1> SUFFICES ASSUME Init PROVE IInv
  OBVIOUS
<1>1. TypeOK
  BY MaxBuildsAssumption
  DEF Init, TypeOK, NoJob, NoAsk, NoImage
<1>2. \A p \in Pids : Inv(p)
  BY DEF Init, Inv, WorkerIsShown, Guarded, Prepared, Own, Gathered, Targeted, Flashed, NoJob,
         Linked, Keyed, Hashed, Busy, Reviewing
<1> QED
  BY <1>1, <1>2 DEF IInv

LEMMA StaysWell == IInv /\ [Next]_vars => IInv'
<1> SUFFICES ASSUME IInv, [Next]_vars PROVE \A p \in Pids : Inv(p)'
  BY TypeStep DEF IInv
<1>0. TypeOK /\ \A p \in Pids : Inv(p)
  BY DEF IInv
<1>1. ASSUME NEW p \in Pids,
             ScreenStep(p) \/ Drain(p) \/ Flash(p) \/ WorkerStep(p) \/ Quit(p),
             NEW q \in Pids
      PROVE  Inv(q)'
  <2>1. CASE q = p
    BY <1>1, <2>1, EnteringKeeps, SpawnKeeps, LeavingKeeps, DrainKeeps, FlashKeeps, WorkerKeeps
    DEF ScreenStep
  <2>2. CASE q # p
    BY <1>0, <1>1, <2>2, Others, ElsewhereKeeps
  <2> QED
    BY <2>1, <2>2
<1>2. ASSUME NEW g \in ghosts, GhostEnds(g), NEW q \in Pids PROVE Inv(q)'
  BY <1>0, <1>2, GhostElsewhere, ElsewhereKeeps
<1>3. ASSUME NEW n \in Names, NEW d \in Disks \cup {None}, Plug(n, d), NEW q \in Pids
      PROVE  Inv(q)'
  BY <1>3, PlugKeeps
<1>4. CASE UNCHANGED vars
  BY <1>0, <1>4, ElsewhereKeeps
  DEF Elsewhere, Private, vars, screenVars, workerVars, secretVars, sharedVars, diskVars
<1> QED
  BY <1>1, <1>2, <1>3, <1>4 DEF Next

LEMMA AlwaysWell == Spec => []IInv
BY StartsWell, StaysWell, PTL DEF Spec

-----------------------------------------------------------------------------
(* The theorems.                                                           *)

\* Every variable keeps its type: the screens, the pipelines, the secret files
\* and the image both kinds of build share.
THEOREM TypeCorrect == Spec => []TypeOK
<1>1. IInv => TypeOK
  BY DEF IInv
<1> QED
  BY <1>1, AlwaysWell, PTL

\* However a build ended, also by a failing step or after another instance was
\* at work, none of its secrets is left once the screen has left "building",
\* unless a write of theirs failed or the process was killed over them.
THEOREM SecretsAreGone == Spec => []SecretsGoneWhenReported
<1>1. IInv => SecretsGoneWhenReported
  BY DEF IInv, Inv, WorkerIsShown, Guarded, SecretsGoneWhenReported, Held, NoJob
<1> QED
  BY <1>1, AlwaysWell, PTL

\* An image reported as built opens with the passphrase that was typed, on disk
\* and on the console, and has the size that was asked for, as long as no other
\* command wrote the link or the image.
THEOREM ImageIsAsked == Spec => []ImageIsTheOneAsked
<1>1. IInv => ImageIsTheOneAsked
  BY DEF IInv, Inv, Own, ImageIsTheOneAsked
<1> QED
  BY <1>1, AlwaysWell, PTL

\* "Build & flash" ends well only with the image it built on a disk, as long as no
\* other command wrote the link or the image or that disk; if the disk it measured
\* has stayed under its name it is that one, and the image fills it exactly.
THEOREM FlowIsItsBuild == Spec => []FlowFlashesItsBuild
<1>1. IInv => FlowFlashesItsBuild
  BY DEF IInv, Inv, Flashed, Gathered, Targeted, FlowFlashesItsBuild, Asked, Busy
<1> QED
  BY <1>1, AlwaysWell, PTL

-----------------------------------------------------------------------------
(* An image has the two secrets of one build.                              *)

\* A console hash that is complete lies beside the passphrase file it was
\* derived with: no new passphrase file is written while it is there, and no
\* guard removes that file and leaves the hash.
Paired(p) ==
  /\ hash[p] \in Passphrases => key[p] = hash[p]
  /\ job[p].at \in {"writeKey", "createHash", "writeHash"} => hash[p] \notin Passphrases
  /\ "key" \in job[p].guards /\ hash[p] \in Passphrases => "hash" \in job[p].guards

Pairs == NoMixedImage /\ \A p \in Pids : Paired(p)

LEMMA MadeOfAPair ==
  ASSUME NEW p, Paired(p), NEW s, image.pass = image.auth
  PROVE  Make(p, s).pass = Make(p, s).auth
BY DEF Make, Paired

LEMMA TornIsOfAPair ==
  ASSUME NEW i \in Images \cup {NoImage}, i.pass = i.auth
  PROVE  [i EXCEPT !.whole = FALSE].pass = [i EXCEPT !.whole = FALSE].auth
BY DEF Images, NoImage

LEMMA ReturnPairs ==
  ASSUME TypeOK, NEW p \in Pids, Paired(p), NEW v, Return(p, v) PROVE Paired(p)'
<1>1. /\ job'[p] = NoJob
      /\ key'[p] = IF "key" \in job[p].guards THEN "absent" ELSE key[p]
      /\ hash'[p] = IF "hash" \in job[p].guards THEN "absent" ELSE hash[p]
  BY DEF Return, TypeOK
<1> QED
  BY <1>1, NoPassphraseIsAState DEF Paired, NoJob

LEMMA WorkerPairs ==
  ASSUME IInv, NEW p \in Pids, Paired(p), WorkerStep(p) PROVE Paired(p)'
<1>0. TypeOK /\ Prepared(p) /\ WorkerIsShown(p)
  BY DEF IInv, Inv
<1>1. \A v \in {"ok", "error"} : Return(p, v) => Paired(p)'
  BY <1>0, ReturnPairs
<1> DEFINE Moves(to, g) == job'[p].at = to /\ job'[p].guards = job[p].guards \cup g
<1>2. \A to \in WorkerSteps \ {"writeKey", "createHash", "writeHash"} :
        Moves(to, {}) /\ UNCHANGED <<key, hash>> => Paired(p)'
  BY DEF Paired
<1> USE <1>0 DEF At, TypeOK
<1>3. CASE NixBuild(p)
  <2>1. CASE Return(p, "error")
    BY <1>1, <2>1
  <2>2. CASE job' = [job EXCEPT ![p].at = "createKey"] /\ UNCHANGED secretVars
    BY <1>2, <2>2 DEF WorkerSteps, secretVars
  <2> QED
    BY <1>3, <2>1, <2>2 DEF NixBuild
<1>4. CASE CreateKey(p)
  <2>1. CASE Return(p, "error")
    BY <1>1, <2>1
  <2>2. CASE /\ key[p] = "absent" /\ key' = [key EXCEPT ![p] = "partial"]
             /\ job' = [job EXCEPT ![p].at = "writeKey"] /\ UNCHANGED hash
    <3>1. hash[p] \notin Passphrases
      BY <2>2, NoPassphraseIsAState DEF Paired
    <3> QED
      BY <2>2, <3>1 DEF Paired
  <2> QED
    BY <1>4, <2>1, <2>2 DEF CreateKey
<1>5. CASE WriteKey(p)
  <2>1. hash'[p] = hash[p] /\ hash[p] \notin Passphrases
    BY <1>5 DEF WriteKey, Paired
  <2> QED
    BY <2>1 DEF Paired
<1>6. CASE CreateHash(p)
  <2>1. CASE Return(p, "error")
    BY <1>1, <2>1
  <2>2. CASE hash' = [hash EXCEPT ![p] = "partial"]
    BY <2>2, NoPassphraseIsAState DEF Paired
  <2> QED
    BY <1>6, <2>1, <2>2 DEF CreateHash
<1>7. CASE WriteHash(p)
  <2>1. CASE job' = [job EXCEPT ![p] = NoJob] /\ UNCHANGED hash
    BY <1>7, <2>1 DEF WriteHash, Paired, NoJob
  <2>2. CASE /\ hash' = [hash EXCEPT ![p] = job[p].pass]
             /\ job' = [job EXCEPT ![p].at = "pkiDir", ![p].guards = @ \cup {"hash"}]
             /\ UNCHANGED key
    <3>1. key[p] = job[p].pass
      BY <1>7 DEF WriteHash, Prepared, Keyed, WorkerIsShown
    <3>2. hash'[p] = job[p].pass /\ key'[p] = key[p] /\ Moves("pkiDir", {"hash"})
      BY <2>2
    <3> QED
      BY <3>1, <3>2 DEF Paired
  <2> QED
    BY <1>7, <2>1, <2>2 DEF WriteHash
<1>8. CASE SkipPki(p)
  BY <1>2, <1>8 DEF SkipPki, WorkerSteps, secretVars
<1>9. CASE MakePkiDir(p)
  <2>1. CASE Return(p, "error")
    BY <1>1, <2>1
  <2>2. CASE hash' = [hash EXCEPT ![p] = "absent"] /\ job' = [job EXCEPT ![p] = NoJob]
    BY <2>2, NoPassphraseIsAState DEF Paired, NoJob
  <2>3. CASE /\ job' = [job EXCEPT ![p].at = "pkiKeys", ![p].guards = @ \cup {"pki"}]
             /\ UNCHANGED <<key, hash>>
    BY <2>3 DEF Paired
  <2> QED
    BY <1>9, <2>1, <2>2, <2>3 DEF MakePkiDir
<1>10. CASE DecryptPki(p)
  <2>1. CASE Return(p, "error")
    BY <1>1, <2>1
  <2>2. CASE job' = [job EXCEPT ![p].at = "launch"] /\ UNCHANGED <<key, hash>>
    BY <1>2, <2>2 DEF WorkerSteps
  <2> QED
    BY <1>10, <2>1, <2>2 DEF DecryptPki
<1>11. CASE LaunchScript(p)
  <2>1. CASE Return(p, "error")
    BY <1>1, <2>1
  <2>2. CASE job' = [job EXCEPT ![p].at = "script", ![p].script = link]
             /\ UNCHANGED secretVars
    BY <1>2, <2>2 DEF WorkerSteps, secretVars
  <2> QED
    BY <1>11, <2>1, <2>2 DEF LaunchScript
<1>12. CASE FinishScript(p)
  <2>1. CASE Return(p, "error")
    BY <1>1, <2>1
  <2>2. CASE job' = [job EXCEPT ![p].at = "find"] /\ UNCHANGED secretVars
    BY <1>2, <2>2 DEF WorkerSteps, secretVars
  <2> QED
    BY <1>12, <2>1, <2>2 DEF FinishScript
<1>13. CASE FindRaw(p)
  BY <1>1, <1>13 DEF FindRaw
<1> QED
  BY <1>3, <1>4, <1>5, <1>6, <1>7, <1>8, <1>9, <1>10, <1>11, <1>12, <1>13 DEF WorkerStep

LEMMA StaysPaired == IInv /\ Pairs /\ [Next]_vars => Pairs'
<1> SUFFICES ASSUME IInv, Pairs, [Next]_vars PROVE Pairs'
  OBVIOUS
<1>0. TypeOK /\ NoMixedImage /\ \A p \in Pids : Paired(p)
  BY DEF IInv, Pairs
<1>1. ASSUME NEW q, Paired(q), UNCHANGED <<key[q], hash[q], job[q]>> PROVE Paired(q)'
  BY <1>1 DEF Paired
<1>2. UNCHANGED <<image, stick>> => NoMixedImage'
  BY <1>0 DEF NoMixedImage
<1>3. ASSUME NEW p \in Pids, ScreenStep(p) PROVE Pairs'
  <2>1. /\ UNCHANGED <<key, hash, image, stick>>
        /\ \/ job'[p] = job[p]
           \/ job'[p].guards = {} /\ job'[p].at = "nix"
    <3>1. CASE Spawn(p)
      BY <1>0, <3>1 DEF Spawn, secretVars, TypeOK, NoJob
    <3>2. CASE Back(p)
      BY <3>2 DEF Back, secretVars, sharedVars, worldVars, workerVars
    <3>3. CASE \E n \in Names : PickDevice(p, n)
      BY <3>3 DEF PickDevice, secretVars, sharedVars, workerVars
    <3>4. CASE UNCHANGED worldVars
      BY <3>4 DEF secretVars, sharedVars, worldVars, workerVars
    <3> QED
      BY <1>3, <3>1, <3>2, <3>3, <3>4 DEF ScreenStep, Start, OpenBuild, OpenFlow, EnterFirst,
         Mismatch, AcceptReview, AnswerBackup, TypeName
  <2>2. Paired(p)'
    BY <1>0, <2>1 DEF Paired
  <2>3. \A q \in Pids \ {p} : Paired(q)'
    BY <1>0, <1>1, <1>3, Others DEF Elsewhere, Private
  <2> QED
    BY <1>2, <2>1, <2>2, <2>3 DEF Pairs
<1>4. ASSUME NEW p \in Pids, Drain(p) PROVE Pairs'
  BY <1>0, <1>1, <1>2, <1>4 DEF Drain, secretVars, sharedVars, Pairs
<1>5. ASSUME NEW p \in Pids, Flash(p) PROVE Pairs'
  <2>1. \A q \in Pids : Paired(q)'
    BY <1>0, <1>1, <1>5 DEF Flash, workerVars, secretVars
  <2>2. [image EXCEPT !.whole = FALSE].pass = [image EXCEPT !.whole = FALSE].auth
    BY <1>0, TornIsOfAPair DEF NoMixedImage, TypeOK
  <2>3. \A d \in Disks : stick'[d] \in {stick[d], image, [image EXCEPT !.whole = FALSE]}
    BY <1>0, <1>5 DEF Flash, TypeOK
  <2>4. NoMixedImage'
    <3>1. image' = image
      BY <1>5 DEF Flash
    <3> QED
      BY <1>0, <2>2, <2>3, <3>1 DEF NoMixedImage
  <2> QED
    BY <2>1, <2>4 DEF Pairs
<1>6. ASSUME NEW p \in Pids, WorkerStep(p) PROVE Pairs'
  <2>1. Paired(p)'
    BY <1>0, <1>6, WorkerPairs
  <2>2. \A q \in Pids \ {p} : Paired(q)'
    BY <1>0, <1>1, <1>6, Others DEF Elsewhere, Private
  <2>3. \/ image' = image
        \/ image' = Make(p, job[p].script)
        \/ image' = [Make(p, job[p].script) EXCEPT !.whole = FALSE]
    BY <1>6 DEF WorkerStep, NixBuild, CreateKey, WriteKey, CreateHash, WriteHash, SkipPki,
       MakePkiDir, DecryptPki, LaunchScript, FinishScript, FindRaw, sharedVars
  <2>4. stick' = stick
    BY <1>6 DEF WorkerStep, NixBuild, CreateKey, WriteKey, CreateHash, WriteHash, SkipPki,
       MakePkiDir, DecryptPki, LaunchScript, FinishScript, FindRaw, quiet
  <2>5. Make(p, job[p].script).pass = Make(p, job[p].script).auth
    BY <1>0, MadeOfAPair DEF NoMixedImage
  <2>6. image' # image => Make(p, job[p].script) \in Images \cup {NoImage}
    <3>1. image' # image => job[p].script \in Sizes
      BY <1>6 DEF WorkerStep, NixBuild, CreateKey, WriteKey, CreateHash, WriteHash, SkipPki,
         MakePkiDir, DecryptPki, LaunchScript, FinishScript, FindRaw, sharedVars, At, IInv, Inv,
         Prepared
    <3> QED
      BY <1>0, <3>1 DEF Make, Images, TypeOK
  <2>7. image'.pass = image'.auth
    <3>1. image' # image => [Make(p, job[p].script) EXCEPT !.whole = FALSE].pass
                            = [Make(p, job[p].script) EXCEPT !.whole = FALSE].auth
      BY <2>5, <2>6, TornIsOfAPair
    <3> QED
      BY <1>0, <2>3, <2>5, <3>1 DEF NoMixedImage
  <2> QED
    BY <1>0, <2>1, <2>2, <2>4, <2>7 DEF Pairs, NoMixedImage
<1>7. ASSUME NEW p \in Pids, Quit(p) PROVE Pairs'
  <2>1. /\ UNCHANGED <<key, hash, image, stick>> /\ job'[p].guards = {} /\ job'[p].at = "none"
    BY <1>0, <1>7 DEF Quit, NoJob, TypeOK
  <2>2. \A q \in Pids \ {p} : Paired(q)'
    BY <1>0, <1>1, <1>7, Others DEF Elsewhere, Private
  <2> QED
    BY <1>0, <1>2, <2>1, <2>2 DEF Pairs, Paired
<1>8. ASSUME NEW g \in ghosts, GhostEnds(g) PROVE Pairs'
  <2>1. \A q \in Pids : Paired(q)'
    BY <1>0, <1>1, <1>8 DEF GhostEnds, workerVars, secretVars
  <2>2. stick' = stick /\ (image' = image \/ image' = Make(g.pid, g.size))
    BY <1>8 DEF GhostEnds, sharedVars
  <2>3. Make(g.pid, g.size).pass = Make(g.pid, g.size).auth
    BY <1>0, MadeOfAPair DEF NoMixedImage, TypeOK
  <2> QED
    BY <1>0, <2>1, <2>2, <2>3 DEF Pairs, NoMixedImage
<1>9. ASSUME UNCHANGED <<key, hash, job, image, stick>> PROVE Pairs'
  BY <1>0, <1>1, <1>2, <1>9 DEF Pairs
<1>10. ASSUME NEW n \in Names, NEW d \in Disks \cup {None}, Plug(n, d) PROVE Pairs'
  BY <1>9, <1>10 DEF Plug, workerVars, secretVars, sharedVars
<1>11. CASE UNCHANGED vars
  BY <1>9, <1>11 DEF vars, workerVars, secretVars, sharedVars
<1> QED
  BY <1>3, <1>4, <1>5, <1>6, <1>7, <1>8, <1>10, <1>11 DEF Next

\* An image beside the config or on a disk opens with one passphrase, in the store
\* and on the console: also one written by a script that outlived its process,
\* whatever a later process of the same pid is at.
THEOREM ImagesAreOfOneBuild == Spec => []NoMixedImage
<1>1. Init => Pairs
  BY NoPassphraseIsAState DEF Init, Pairs, Paired, NoMixedImage, NoImage, NoJob
<1>2. Pairs => NoMixedImage
  BY DEF Pairs
<1> QED
  BY <1>1, <1>2, StaysPaired, AlwaysWell, PTL DEF Spec

=============================================================================
