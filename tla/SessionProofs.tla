--------------------------- MODULE SessionProofs ---------------------------
(***************************************************************************)
(* The session logs, for any number of sessions, actions, runs and events: *)
(* TypeOK, LogTellsThePane and ExitChoiceHolds.                            *)
(*                                                                         *)
(* The directory is a sequence in the order of the last write. What the    *)
(* properties need of it is which names it has, which runs they belong to  *)
(* and how many lines they have, so the first lemmas say what each         *)
(* operation does to these and the rest never looks at a position again.   *)
(***************************************************************************)
EXTENDS Session, FiniteSetTheorems, SequenceTheorems, TLAPS

LogName == [action : Actions, second : Seconds, n : Nat]
LogFile == [name : LogName, run : Nat, lines : Nat]

\* A directory: no two logs have one name, no two belong to one run.
IsDir(d) ==
  /\ d \in Seq(LogFile)
  /\ \A i, j \in 1 .. Len(d) : d[i].name = d[j].name \/ d[i].run = d[j].run => i = j

\* Which name belongs to which run.
Pairs(d) == {<<d[i].name, d[i].run>> : i \in 1 .. Len(d)}

Named(q) == {q[k] : k \in DOMAIN q}

-----------------------------------------------------------------------------
(* The invariant.                                                          *)

\* One entry of each for a session, whatever is in it.
ChoiceTypes ==
  /\ how \in [Sessions -> {"none", "clean", "keep", "quit", "killed"}]
  /\ DOMAIN doomed = Sessions /\ DOMAIN seen = Sessions /\ DOMAIN newest = Sessions

Types ==
  /\ IsDir(dir)
  /\ runs \in Seq(Run) /\ Len(runs) <= MaxRuns
  /\ screen \in [Sessions -> {"home", "running", "after", "prompt", "leaving", "exited"}]
  /\ at \in [Sessions -> {"drain", "flush", "key"}]
  /\ files \in [Sessions -> Seq(LogName)]
  /\ ChoiceTypes
  /\ InDir(dir) \subseteq DOMAIN runs
  /\ \A x \in removed : x[1] \in Sessions /\ x[3] \in DOMAIN runs

\* The run on the screen is the last of its session.
IsCurrent(s, r) == r \in RunsOf(s) /\ \A q \in RunsOf(s) : q <= r

ScreenIsSound(s) ==
  /\ at[s] = "drain" => screen[s] = "running"
  /\ at[s] = "flush" => screen[s] \in {"running", "after"}
  /\ screen[s] \in {"running", "after"} => \E r \in RunsOf(s) : IsCurrent(s, r)
  /\ screen[s] # "leaving" => DOMAIN doomed[s] = {}
  /\ screen[s] = "leaving" => how[s] \in {"clean", "keep"}
  /\ how[s] = "none" <=> screen[s] \in {"home", "running", "after", "prompt"}

Screens == \A s \in Sessions : ScreenIsSound(s)

Here(r) == screen[runs[r].by] = "running" /\ IsCurrent(runs[r].by, r)

\* What the lines of a run, its log and its worker have to do with each other.
RunIsSound(r) ==
  /\ runs[r].due <= 1 + runs[r].sent
  /\ runs[r].open => runs[r].logged /\ Here(r)
  /\ Here(r) /\ ~runs[r].ended => runs[r].sent <= MaxEvents
  /\ Here(r) /\ runs[r].logged /\ ~runs[r].err => runs[r].open
  /\ runs[r].logged /\ r \notin InDir(dir) => \E x \in removed : x[3] = r

LogIsSound(r) ==
  /\ runs[r].logged
  /\ LinesOf(dir, r) <= runs[r].due
  /\ ~runs[r].err => runs[r].drawn <= LinesOf(dir, r)
  /\ ~runs[r].err /\ ~runs[r].open /\ screen[runs[r].by] # "exited"
       => LinesOf(dir, r) = runs[r].due

RunsAreSound == \A r \in DOMAIN runs : RunIsSound(r)
LogsAreSound == \A r \in InDir(dir) : LogIsSound(r)

\* The names a session holds are the ones of its own logs, as long as nobody has
\* removed one of these.
Holds(s, q) ==
  /\ \A k, m \in DOMAIN q : q[k] = q[m] => k = m
  /\ \A k \in DOMAIN q : \E p \in Pairs(dir) : p[1] = q[k] /\ runs[p[2]].by = s

FilesAreKnown(s) == \A p \in Pairs(dir) : runs[p[2]].by = s => p[1] \in Named(files[s])
SeenIsKnown(s) ==
  /\ seen[s] \subseteq DOMAIN runs /\ newest[s] \subseteq DOMAIN runs
  /\ how[s] = "none" => seen[s] = {} /\ newest[s] = {}
CleanIsComplete(s) ==
  how[s] = "clean" => \A p \in Pairs(dir) : p[2] \in seen[s] => p[1] \in Named(doomed[s])
CleanIsHonest(s) ==
  ~Robbed(s) =>
    /\ how[s] = "none" => Holds(s, files[s])
    /\ how[s] = "clean" => Holds(s, doomed[s])
    /\ \A x \in removed : x[1] = s /\ x[2] = "clean" => runs[x[3]].by = s
\* What a session has seen and has not on its list, or no longer.
Left(s) ==
  {r \in seen[s] : \E p \in Pairs(dir) : p[2] = r /\ p[1] \notin Named(doomed[s])}
KeepCounts(s) == how[s] = "keep" => Cardinality(Left(s)) <= Retain
NewestIsSafe(s) ==
  /\ \A r \in newest[s] \ InDir(dir) : \E x \in removed : x[1] # s /\ x[3] = r
  /\ \A p \in Pairs(dir) : p[2] \in newest[s] => p[1] \notin Named(doomed[s])

ChoiceIsSound(s) ==
  /\ FilesAreKnown(s) /\ SeenIsKnown(s)
  /\ CleanIsComplete(s) /\ CleanIsHonest(s) /\ KeepCounts(s) /\ NewestIsSafe(s)
ChoicesAreSound == \A s \in Sessions : ChoiceIsSound(s)

SessionInv == Types /\ Screens /\ RunsAreSound /\ LogsAreSound /\ ChoicesAreSound

-----------------------------------------------------------------------------
(* What the operations on a directory do.                                  *)

LEMMA DirIsSeq ==
  ASSUME NEW d, IsDir(d)
  PROVE  /\ d \in Seq(LogFile) /\ Len(d) \in Nat /\ DOMAIN d = 1 .. Len(d)
         /\ \A i \in 1 .. Len(d) : /\ d[i] \in LogFile
                                   /\ d[i].name \in LogName
                                   /\ d[i].run \in Nat /\ d[i].lines \in Nat
         /\ Names(d) = {p[1] : p \in Pairs(d)}
         /\ InDir(d) = {p[2] : p \in Pairs(d)}
<1>1. d \in Seq(LogFile)
  BY DEF IsDir
<1>2. Len(d) \in Nat /\ DOMAIN d = 1 .. Len(d)
  BY <1>1, LenProperties
<1>3. \A i \in 1 .. Len(d) : d[i] \in LogFile
  BY <1>1, ElementOfSeq
<1>4. \A i \in 1 .. Len(d) : d[i].name \in LogName /\ d[i].run \in Nat /\ d[i].lines \in Nat
  BY <1>3 DEF LogFile
<1>5. \A i \in 1 .. Len(d) : \E p \in Pairs(d) : p[1] = d[i].name /\ p[2] = d[i].run
  <2> TAKE i \in 1 .. Len(d)
  <2>1. <<d[i].name, d[i].run>> \in Pairs(d)
    BY DEF Pairs
  <2> WITNESS <<d[i].name, d[i].run>> \in Pairs(d)
  <2> QED
    OBVIOUS
<1>6. \A p \in Pairs(d) : \E i \in 1 .. Len(d) : p[1] = d[i].name /\ p[2] = d[i].run
  BY DEF Pairs
<1>7. Names(d) = {p[1] : p \in Pairs(d)}
  <2>1. \A x \in Names(d) : \E i \in 1 .. Len(d) : x = d[i].name
    BY <1>2 DEF Names
  <2>2. \A i \in 1 .. Len(d) : d[i].name \in Names(d)
    BY <1>2 DEF Names
  <2>3. ASSUME NEW x \in Names(d) PROVE x \in {p[1] : p \in Pairs(d)}
    <3>1. PICK i \in 1 .. Len(d) : x = d[i].name
      BY <2>1
    <3>2. PICK p \in Pairs(d) : p[1] = d[i].name
      BY <1>5
    <3> QED
      BY <3>1, <3>2
  <2>4. ASSUME NEW p \in Pairs(d) PROVE p[1] \in Names(d)
    <3>1. PICK i \in 1 .. Len(d) : p[1] = d[i].name
      BY <1>6
    <3> QED
      BY <2>2, <3>1
  <2> QED
    BY <2>3, <2>4
<1>8. InDir(d) = {p[2] : p \in Pairs(d)}
  <2>1. \A x \in InDir(d) : \E i \in 1 .. Len(d) : x = d[i].run
    BY <1>2 DEF InDir
  <2>2. \A i \in 1 .. Len(d) : d[i].run \in InDir(d)
    BY <1>2 DEF InDir
  <2>3. ASSUME NEW x \in InDir(d) PROVE x \in {p[2] : p \in Pairs(d)}
    <3>1. PICK i \in 1 .. Len(d) : x = d[i].run
      BY <2>1
    <3>2. PICK p \in Pairs(d) : p[2] = d[i].run
      BY <1>5
    <3> QED
      BY <3>1, <3>2
  <2>4. ASSUME NEW p \in Pairs(d) PROVE p[2] \in InDir(d)
    <3>1. PICK i \in 1 .. Len(d) : p[2] = d[i].run
      BY <1>6
    <3> QED
      BY <2>2, <3>1
  <2> QED
    BY <2>3, <2>4
<1> QED
  BY <1>1, <1>2, <1>3, <1>4, <1>7, <1>8

LEMMA PairsDiffer ==
  ASSUME NEW d, IsDir(d), NEW p \in Pairs(d), NEW q \in Pairs(d),
         p[1] = q[1] \/ p[2] = q[2]
  PROVE  p = q
BY DEF IsDir, Pairs

\* There are as many names as logs, and as many runs.
LEMMA DirIsCounted ==
  ASSUME NEW d, IsDir(d)
  PROVE  /\ IsFiniteSet(Names(d)) /\ Cardinality(Names(d)) = Len(d)
         /\ IsFiniteSet(InDir(d)) /\ Cardinality(InDir(d)) = Len(d)
<1>1. Len(d) \in Nat /\ DOMAIN d = 1 .. Len(d)
  BY DirIsSeq
<1>2. IsFiniteSet(1 .. Len(d)) /\ Cardinality(1 .. Len(d)) = Len(d)
  <2>1. IsFiniteSet(1 .. Len(d)) /\ Cardinality(1 .. Len(d)) = IF 1 > Len(d) THEN 0 ELSE Len(d) - 1 + 1
    BY <1>1, FS_Interval
  <2> QED
    BY <1>1, <2>1
<1>3. IsFiniteSet(Names(d)) /\ Cardinality(Names(d)) = Len(d)
  <2> DEFINE f == [i \in 1 .. Len(d) |-> d[i].name]
  <2>1. f \in Surjection(1 .. Len(d), Names(d))
    BY <1>1 DEF Surjection, Names
  <2>2. f \in Injection(1 .. Len(d), Names(d))
    BY <1>1 DEF Injection, IsInjective, Names, IsDir
  <2> QED
    BY <1>2, <2>1, <2>2, FS_Surjection
<1>4. IsFiniteSet(InDir(d)) /\ Cardinality(InDir(d)) = Len(d)
  <2> DEFINE f == [i \in 1 .. Len(d) |-> d[i].run]
  <2>1. f \in Surjection(1 .. Len(d), InDir(d))
    BY <1>1 DEF Surjection, InDir
  <2>2. f \in Injection(1 .. Len(d), InDir(d))
    BY <1>1 DEF Injection, IsInjective, InDir, IsDir
  <2> QED
    BY <1>2, <2>1, <2>2, FS_Surjection
<1> QED
  BY <1>3, <1>4

LEMMA LinesAt ==
  ASSUME NEW d, IsDir(d), NEW i \in 1 .. Len(d)
  PROVE  d[i].run \in InDir(d) /\ LinesOf(d, d[i].run) = d[i].lines
<1>1. DOMAIN d = 1 .. Len(d)
  BY DirIsSeq
<1>2. d[i].run \in InDir(d)
  BY <1>1 DEF InDir
<1>3. \A j \in DOMAIN d : d[j].run = d[i].run => j = i
  BY <1>1 DEF IsDir
<1>4. (CHOOSE j \in DOMAIN d : d[j].run = d[i].run) = i
  BY <1>1, <1>3
<1> QED
  BY <1>2, <1>4 DEF LinesOf

LEMMA LinesAreNat ==
  ASSUME NEW d, IsDir(d), NEW r
  PROVE  LinesOf(d, r) \in Nat
<1>1. CASE r \in InDir(d)
  <2>1. PICK i \in 1 .. Len(d) : d[i].run = r
    BY <1>1, DirIsSeq DEF InDir
  <2> QED
    BY <2>1, LinesAt, DirIsSeq
<1>2. CASE r \notin InDir(d)
  BY <1>2 DEF LinesOf
<1> QED
  BY <1>1, <1>2

LEMMA OneIsTaken ==
  ASSUME NEW S, NEW d \in Seq(S), NEW i \in 1 .. Len(d)
  PROVE  /\ RemoveAt(d, i) \in Seq(S)
         /\ Len(RemoveAt(d, i)) = Len(d) - 1
         /\ \A k \in 1 .. Len(d) - 1 : RemoveAt(d, i)[k] = IF k < i THEN d[k] ELSE d[k + 1]
<1> DEFINE a == SubSeq(d, 1, i - 1)
           b == SubSeq(d, i + 1, Len(d))
<1>1. Len(d) \in Nat /\ i \in Int /\ \A k \in 1 .. Len(d) : d[k] \in S
  BY LenProperties, ElementOfSeq
<1>2. /\ a \in Seq(S) /\ Len(a) = i - 1
      /\ \A k \in 1 .. i - 1 : a[k] = d[k]
  <2>1. \A k \in 1 .. i - 1 : d[k] \in S
    BY <1>1
  <2>2. /\ a \in Seq(S)
        /\ Len(a) = IF 1 <= i - 1 THEN (i - 1) - 1 + 1 ELSE 0
        /\ \A k \in 1 .. (i - 1) - 1 + 1 : a[k] = d[1 + k - 1]
    BY <1>1, <2>1, SubSeqProperties
  <2> QED
    BY <1>1, <2>2
<1>3. /\ b \in Seq(S) /\ Len(b) = Len(d) - i
      /\ \A k \in 1 .. Len(d) - i : b[k] = d[i + k]
  <2>1. \A k \in i + 1 .. Len(d) : d[k] \in S
    BY <1>1
  <2>2. /\ b \in Seq(S)
        /\ Len(b) = IF i + 1 <= Len(d) THEN Len(d) - (i + 1) + 1 ELSE 0
        /\ \A k \in 1 .. Len(d) - (i + 1) + 1 : b[k] = d[(i + 1) + k - 1]
    BY <1>1, <2>1, SubSeqProperties
  <2> QED
    BY <1>1, <2>2
<1> HIDE DEF a, b
<1>4. /\ a \o b \in Seq(S) /\ Len(a \o b) = Len(a) + Len(b)
      /\ \A k \in 1 .. Len(a) + Len(b) :
           (a \o b)[k] = IF k <= Len(a) THEN a[k] ELSE b[k - Len(a)]
  BY <1>2, <1>3, ConcatProperties
<1>5. RemoveAt(d, i) = a \o b
  BY DEF RemoveAt, a, b
<1>6. ASSUME NEW k \in 1 .. Len(d) - 1
      PROVE  (a \o b)[k] = IF k < i THEN d[k] ELSE d[k + 1]
  <2>1. CASE k < i
    BY <1>1, <1>2, <1>3, <1>4, <2>1
  <2>2. CASE ~(k < i)
    <3>1. k - (i - 1) \in 1 .. Len(d) - i /\ i + (k - (i - 1)) = k + 1
      BY <1>1, <2>2
    <3>2. k \in 1 .. Len(a) + Len(b) /\ ~(k <= Len(a))
      BY <1>1, <1>2, <1>3, <2>2
    <3>3. (a \o b)[k] = b[k - (i - 1)]
      BY <1>2, <1>4, <3>2
    <3>4. b[k - (i - 1)] = d[k + 1]
      BY <1>3, <3>1
    <3> QED
      BY <2>2, <3>3, <3>4
  <2> QED
    BY <2>1, <2>2
<1> QED
  BY <1>1, <1>2, <1>3, <1>4, <1>5, <1>6

\* A log that is written becomes the last, and stays the same log.
LEMMA OneIsMoved ==
  ASSUME NEW d, IsDir(d), NEW i \in 1 .. Len(d), NEW e \in LogFile,
         e.name = d[i].name, e.run = d[i].run
  PROVE  LET m == Append(RemoveAt(d, i), e)
         IN  /\ IsDir(m) /\ Len(m) = Len(d) /\ Pairs(m) = Pairs(d)
             /\ \A r : LinesOf(m, r) = IF r = e.run THEN e.lines ELSE LinesOf(d, r)
<1> DEFINE q == RemoveAt(d, i)
           m == Append(q, e)
           at0(k) == IF k = Len(d) THEN i ELSE IF k < i THEN k ELSE k + 1
           from(j) == IF j = i THEN Len(d) ELSE IF j < i THEN j ELSE j - 1
<1>1. d \in Seq(LogFile) /\ Len(d) \in Nat
  BY DirIsSeq
<1>2. /\ q \in Seq(LogFile) /\ Len(q) = Len(d) - 1
      /\ \A k \in 1 .. Len(d) - 1 : q[k] = IF k < i THEN d[k] ELSE d[k + 1]
  BY <1>1, OneIsTaken
<1> HIDE DEF q
<1>3. /\ m \in Seq(LogFile) /\ Len(m) = Len(d)
      /\ \A k \in 1 .. Len(d) - 1 : m[k] = q[k]
      /\ m[Len(d)] = e
  <2>1. /\ m \in Seq(LogFile) /\ Len(m) = Len(q) + 1
        /\ \A k \in 1 .. Len(q) : m[k] = q[k]
        /\ m[Len(q) + 1] = e
    BY <1>2, AppendProperties
  <2> QED
    BY <1>1, <1>2, <2>1
<1> HIDE DEF m
<1>4. \A k \in 1 .. Len(d) :
        /\ at0(k) \in 1 .. Len(d) /\ from(at0(k)) = k
        /\ m[k].name = d[at0(k)].name /\ m[k].run = d[at0(k)].run
        /\ at0(k) # i => m[k] = d[at0(k)]
  BY <1>1, <1>2, <1>3
<1>5. \A j \in 1 .. Len(d) : from(j) \in 1 .. Len(d) /\ at0(from(j)) = j
  BY <1>1
<1>6. IsDir(m)
  <2> SUFFICES ASSUME NEW k \in 1 .. Len(d), NEW l \in 1 .. Len(d),
                      m[k].name = m[l].name \/ m[k].run = m[l].run
               PROVE  k = l
    BY <1>3 DEF IsDir
  <2>1. at0(k) = at0(l)
    <3>1. /\ at0(k) \in 1 .. Len(d) /\ m[k].name = d[at0(k)].name /\ m[k].run = d[at0(k)].run
          /\ at0(l) \in 1 .. Len(d) /\ m[l].name = d[at0(l)].name /\ m[l].run = d[at0(l)].run
      BY <1>4
    <3> HIDE DEF at0
    <3> QED
      BY <3>1 DEF IsDir
  <2> QED
    BY <1>4, <2>1
<1>7. Pairs(m) = Pairs(d)
  <2>1. ASSUME NEW k \in 1 .. Len(d) PROVE <<m[k].name, m[k].run>> \in Pairs(d)
    BY <1>4 DEF Pairs
  <2>2. ASSUME NEW j \in 1 .. Len(d) PROVE <<d[j].name, d[j].run>> \in Pairs(m)
    <3>1. from(j) \in 1 .. Len(m) /\ m[from(j)].name = d[j].name /\ m[from(j)].run = d[j].run
      BY <1>3, <1>4, <1>5
    <3> HIDE DEF from
    <3> QED
      BY <3>1 DEF Pairs
  <2> QED
    BY <1>3, <2>1, <2>2 DEF Pairs
<1>8. InDir(m) = InDir(d)
  BY <1>6, <1>7, DirIsSeq
<1>9. ASSUME NEW r PROVE LinesOf(m, r) = IF r = e.run THEN e.lines ELSE LinesOf(d, r)
  <2>1. CASE r = e.run
    <3>1. Len(d) \in 1 .. Len(m) /\ m[Len(d)].run = r
      BY <1>1, <1>3, <2>1
    <3> QED
      BY <1>3, <1>6, <2>1, <3>1, LinesAt
  <2>2. CASE r # e.run /\ r \in InDir(d)
    <3>1. PICK j \in 1 .. Len(d) : d[j].run = r
      BY <2>2, DirIsSeq DEF InDir
    <3>2. /\ from(j) \in 1 .. Len(m) /\ m[from(j)] = d[j]
      BY <1>3, <1>4, <1>5, <2>2, <3>1
    <3>3. LinesOf(m, m[from(j)].run) = m[from(j)].lines /\ LinesOf(d, d[j].run) = d[j].lines
      BY <1>6, <3>2, LinesAt
    <3> QED
      BY <2>2, <3>1, <3>2, <3>3
  <2>3. CASE r # e.run /\ r \notin InDir(d)
    BY <1>8, <2>3 DEF LinesOf
  <2> QED
    BY <2>1, <2>2, <2>3
<1> QED
  BY <1>3, <1>6, <1>7, <1>9 DEF m, q

LEMMA WrittenIs ==
  ASSUME NEW d, IsDir(d), NEW r, NEW n \in Nat
  PROVE  /\ IsDir(Written(d, r, n)) /\ Len(Written(d, r, n)) = Len(d)
         /\ Pairs(Written(d, r, n)) = Pairs(d)
         /\ \A q : LinesOf(Written(d, r, n), q) =
                     IF q = r /\ r \in InDir(d) THEN n ELSE LinesOf(d, q)
<1>1. CASE r \notin InDir(d) \/ LinesOf(d, r) = n
  BY <1>1 DEF Written
<1>2. CASE ~(r \notin InDir(d) \/ LinesOf(d, r) = n)
  <2> DEFINE i == CHOOSE j \in DOMAIN d : d[j].run = r
             e == [d[i] EXCEPT !.lines = n]
  <2>1. DOMAIN d = 1 .. Len(d)
    BY DirIsSeq
  <2>2. i \in 1 .. Len(d) /\ d[i].run = r
    BY <1>2, <2>1 DEF InDir
  <2>3. Written(d, r, n) = Append(RemoveAt(d, i), e)
    BY <1>2 DEF Written
  <2> HIDE DEF i
  <2>4. d[i] \in LogFile
    BY <2>2, DirIsSeq
  <2>5. e \in LogFile /\ e.name = d[i].name /\ e.run = r /\ e.lines = n
    BY <2>2, <2>4 DEF LogFile
  <2> HIDE DEF e
  <2> QED
    BY <1>2, <2>2, <2>3, <2>5, OneIsMoved
<1> QED
  BY <1>1, <1>2

LEMMA SpilledIs ==
  ASSUME NEW d, IsDir(d), NEW r, NEW due \in Nat, NEW m \in Spilled(d, r, due)
  PROVE  /\ IsDir(m) /\ Len(m) = Len(d) /\ Pairs(m) = Pairs(d)
         /\ \A q : q # r => LinesOf(m, q) = LinesOf(d, q)
         /\ r \in InDir(d) => LinesOf(m, r) \in LinesOf(d, r) .. due
<1> DEFINE low == IF r \in InDir(d) THEN LinesOf(d, r) ELSE due
<1>1. low \in Nat
  BY LinesAreNat
<1>2. PICK n \in low .. due : m = Written(d, r, n)
  BY DEF Spilled
<1>3. n \in Nat
  BY <1>1, <1>2
<1> QED
  BY <1>2, <1>3, WrittenIs

LEMMA WithoutIs ==
  ASSUME NEW d, IsDir(d), NEW name
  PROVE  /\ IsDir(Without(d, name))
         /\ Pairs(Without(d, name)) = {p \in Pairs(d) : p[1] # name}
         /\ \A r \in InDir(Without(d, name)) : LinesOf(Without(d, name), r) = LinesOf(d, r)
<1> DEFINE named == {i \in DOMAIN d : d[i].name = name}
<1>0. d \in Seq(LogFile) /\ Len(d) \in Nat /\ DOMAIN d = 1 .. Len(d)
  BY DirIsSeq
<1>1. CASE named = {}
  <2>1. Without(d, name) = d
    BY <1>1 DEF Without
  <2>2. \A p \in Pairs(d) : p[1] # name
    BY <1>0, <1>1 DEF Pairs
  <2> QED
    BY <2>1, <2>2
<1>2. CASE named # {}
  <2> DEFINE i == CHOOSE j \in named : TRUE
             m == RemoveAt(d, i)
             to(j) == IF j < i THEN j ELSE j - 1
  <2>1. i \in 1 .. Len(d) /\ d[i].name = name
    BY <1>0, <1>2
  <2>2. Without(d, name) = m
    BY <1>2 DEF Without
  <2> HIDE DEF i
  <2>3. /\ m \in Seq(LogFile) /\ Len(m) = Len(d) - 1
        /\ \A k \in 1 .. Len(d) - 1 : m[k] = IF k < i THEN d[k] ELSE d[k + 1]
    BY <1>0, <2>1, OneIsTaken
  <2> HIDE DEF m
  <2>4. IsDir(m)
    <3> SUFFICES ASSUME NEW k \in 1 .. Len(d) - 1, NEW l \in 1 .. Len(d) - 1,
                        m[k].name = m[l].name \/ m[k].run = m[l].run
                 PROVE  k = l
      BY <2>3 DEF IsDir
    <3>1. (IF k < i THEN k ELSE k + 1) = (IF l < i THEN l ELSE l + 1)
      BY <1>0, <2>1, <2>3 DEF IsDir
    <3> QED
      BY <1>0, <2>1, <3>1
  <2>5. \A j \in 1 .. Len(d) : d[j].name = name => j = i
    BY <2>1 DEF IsDir
  <2>6. ASSUME NEW k \in 1 .. Len(d) - 1
        PROVE  \E j \in 1 .. Len(d) : j # i /\ m[k] = d[j]
    BY <1>0, <2>1, <2>3
  <2>7. ASSUME NEW j \in 1 .. Len(d), j # i
        PROVE  to(j) \in 1 .. Len(d) - 1 /\ m[to(j)] = d[j]
    BY <1>0, <2>1, <2>3, <2>7
  <2>8. Pairs(m) = {p \in Pairs(d) : p[1] # name}
    <3>1. ASSUME NEW p \in Pairs(m) PROVE p \in Pairs(d) /\ p[1] # name
      <4>1. PICK k \in 1 .. Len(d) - 1 : p = <<m[k].name, m[k].run>>
        BY <2>3 DEF Pairs
      <4>2. PICK j \in 1 .. Len(d) : j # i /\ m[k] = d[j]
        BY <2>6
      <4> QED
        BY <2>5, <4>1, <4>2 DEF Pairs
    <3>2. ASSUME NEW p \in Pairs(d), p[1] # name PROVE p \in Pairs(m)
      <4>1. PICK j \in 1 .. Len(d) : p = <<d[j].name, d[j].run>>
        BY DEF Pairs
      <4>2. j # i
        BY <2>1, <3>2, <4>1
      <4>3. to(j) \in 1 .. Len(m) /\ m[to(j)] = d[j]
        BY <2>3, <2>7, <4>2
      <4> HIDE DEF to
      <4> QED
        BY <4>1, <4>3 DEF Pairs
    <3> QED
      BY <3>1, <3>2
  <2>9. ASSUME NEW r \in InDir(m) PROVE LinesOf(m, r) = LinesOf(d, r)
    <3>1. PICK k \in 1 .. Len(m) : m[k].run = r
      BY <2>4, DirIsSeq DEF InDir
    <3>2. PICK j \in 1 .. Len(d) : m[k] = d[j]
      BY <2>3, <2>6
    <3>3. LinesOf(m, m[k].run) = m[k].lines /\ LinesOf(d, d[j].run) = d[j].lines
      BY <2>4, LinesAt
    <3> QED
      BY <3>1, <3>2, <3>3
  <2> QED
    BY <2>2, <2>4, <2>8, <2>9
<1> QED
  BY <1>1, <1>2

LEMMA AppendedIs ==
  ASSUME NEW d, IsDir(d), NEW e \in LogFile, e.name \notin Names(d), e.run \notin InDir(d)
  PROVE  /\ IsDir(Append(d, e))
         /\ Pairs(Append(d, e)) = Pairs(d) \cup {<<e.name, e.run>>}
         /\ \A r : LinesOf(Append(d, e), r) = IF r = e.run THEN e.lines ELSE LinesOf(d, r)
<1> DEFINE m == Append(d, e)
<1>1. d \in Seq(LogFile) /\ Len(d) \in Nat /\ DOMAIN d = 1 .. Len(d)
  BY DirIsSeq
<1>2. /\ m \in Seq(LogFile) /\ Len(m) = Len(d) + 1
      /\ \A k \in 1 .. Len(d) : m[k] = d[k]
      /\ m[Len(d) + 1] = e
  BY <1>1, AppendProperties
<1> HIDE DEF m
<1>3. \A i \in 1 .. Len(d) : d[i].name # e.name /\ d[i].run # e.run
  BY <1>1 DEF Names, InDir
<1>4. \A k \in 1 .. Len(m) : k = Len(d) + 1 \/ k \in 1 .. Len(d)
  BY <1>1, <1>2
<1>5. IsDir(m)
  BY <1>2, <1>3, <1>4 DEF IsDir
<1>6. Pairs(m) = Pairs(d) \cup {<<e.name, e.run>>}
  <2>1. \A k \in 1 .. Len(d) : k \in 1 .. Len(m)
    BY <1>1, <1>2
  <2>2. Len(d) + 1 \in 1 .. Len(m)
    BY <1>1, <1>2
  <2> QED
    BY <1>2, <1>4, <2>1, <2>2 DEF Pairs
<1>7. ASSUME NEW r PROVE LinesOf(m, r) = IF r = e.run THEN e.lines ELSE LinesOf(d, r)
  <2>1. CASE r = e.run
    <3>1. Len(d) + 1 \in 1 .. Len(m) /\ m[Len(d) + 1].run = r
      BY <1>1, <1>2, <2>1
    <3> QED
      BY <1>2, <1>5, <2>1, <3>1, LinesAt
  <2>2. CASE r # e.run /\ r \in InDir(d)
    <3>1. PICK j \in 1 .. Len(d) : d[j].run = r
      BY <1>1, <2>2 DEF InDir
    <3>2. j \in 1 .. Len(m) /\ m[j] = d[j]
      BY <1>1, <1>2
    <3> QED
      BY <1>5, <2>2, <3>1, <3>2, LinesAt
  <2>3. CASE r # e.run /\ r \notin InDir(d)
    <3>1. r \notin InDir(m)
      BY <1>5, <1>6, <2>3, DirIsSeq
    <3> QED
      BY <2>3, <3>1 DEF LinesOf
  <2> QED
    BY <2>1, <2>2, <2>3
<1> QED
  BY <1>5, <1>6, <1>7 DEF m

-----------------------------------------------------------------------------
(* The runs.                                                               *)

LEMMA RunsAreTyped ==
  ASSUME Types
  PROVE  /\ runs \in Seq(Run) /\ Len(runs) \in Nat /\ DOMAIN runs = 1 .. Len(runs)
         /\ \A r \in DOMAIN runs : r \in Nat /\ runs[r] \in Run
         /\ \A s : RunsOf(s) \subseteq DOMAIN runs
<1>1. runs \in Seq(Run)
  BY DEF Types
<1>2. Len(runs) \in Nat /\ DOMAIN runs = 1 .. Len(runs)
  BY <1>1, LenProperties
<1>3. \A r \in 1 .. Len(runs) : runs[r] \in Run
  BY <1>1, ElementOfSeq
<1> QED
  BY <1>1, <1>2, <1>3 DEF RunsOf

LEMMA CurrentIs ==
  ASSUME Types, NEW s, NEW r, IsCurrent(s, r)
  PROVE  r \in DOMAIN runs /\ runs[r].by = s /\ Current(s) = r
<1>1. \A q \in RunsOf(s) : q \in Nat
  BY RunsAreTyped
<1>2. ASSUME NEW q \in RunsOf(s), \A z \in RunsOf(s) : z <= q
      PROVE  q = r
  BY <1>1, <1>2 DEF IsCurrent
<1> QED
  BY <1>2 DEF IsCurrent, Current, RunsOf

\* What is known of the run on a screen.
LEMMA OnScreen ==
  ASSUME SessionInv, NEW s \in Sessions, screen[s] \in {"running", "after"}
  PROVE  /\ IsCurrent(s, Current(s)) /\ Current(s) \in DOMAIN runs
         /\ runs[Current(s)] \in Run /\ runs[Current(s)].by = s
         /\ RunIsSound(Current(s))
         /\ Current(s) \in InDir(dir) => LogIsSound(Current(s))
<1>1. PICK r \in RunsOf(s) : IsCurrent(s, r)
  BY DEF SessionInv, Screens, ScreenIsSound
<1>2. Current(s) = r /\ r \in DOMAIN runs /\ runs[r].by = s
  BY <1>1, CurrentIs DEF SessionInv
<1> QED
  BY <1>1, <1>2, RunsAreTyped DEF SessionInv, RunsAreSound, LogsAreSound

\* One run changes and stays its session's.
LEMMA OneRunChanges ==
  ASSUME Types, NEW r \in DOMAIN runs, NEW x \in Run, x.by = runs[r].by,
         runs' = [runs EXCEPT ![r] = x]
  PROVE  /\ runs' \in Seq(Run) /\ Len(runs') = Len(runs) /\ DOMAIN runs' = DOMAIN runs
         /\ runs'[r] = x
         /\ \A q \in DOMAIN runs : q # r => runs'[q] = runs[q]
         /\ \A q \in DOMAIN runs : runs'[q].by = runs[q].by
         /\ \A s : RunsOf(s)' = RunsOf(s)
         /\ \A s, q : IsCurrent(s, q)' <=> IsCurrent(s, q)
<1>1. /\ runs' \in Seq(Run) /\ Len(runs') = Len(runs)
      /\ \A j \in 1 .. Len(runs) : runs'[j] = IF j = r THEN x ELSE runs[j]
  <2>1. runs \in Seq(Run) /\ r \in 1 .. Len(runs)
    BY RunsAreTyped
  <2> QED
    BY <2>1, ExceptSeq
<1>2. DOMAIN runs' = DOMAIN runs /\ DOMAIN runs = 1 .. Len(runs)
  BY RunsAreTyped
<1>3. \A q \in DOMAIN runs : runs'[q].by = runs[q].by
  BY <1>1, <1>2
<1>4. ASSUME NEW s PROVE RunsOf(s)' = RunsOf(s)
  BY <1>2, <1>3 DEF RunsOf
<1>5. ASSUME NEW s, NEW q PROVE IsCurrent(s, q)' <=> IsCurrent(s, q)
  BY <1>4 DEF IsCurrent
<1> QED
  BY <1>1, <1>2, <1>3, <1>4, <1>5

\* A session begins another run.
LEMMA OneRunBegins ==
  ASSUME Types, NEW s \in Sessions, NEW log \in BOOLEAN, BeginRun(s, log)
  PROVE  /\ runs' \in Seq(Run) /\ Len(runs') = Len(runs) + 1 /\ Len(runs') <= MaxRuns
         /\ DOMAIN runs' = DOMAIN runs \cup {Len(runs) + 1} /\ Len(runs) + 1 \notin DOMAIN runs
         /\ \A q \in DOMAIN runs : runs'[q] = runs[q]
         /\ runs'[Len(runs) + 1] = NewRun(s, log)
         /\ \A q : IsCurrent(s, q)' <=> q = Len(runs) + 1
         /\ Len(runs) + 1 \in RunsOf(s)'
         /\ \A o, q : o # s => (IsCurrent(o, q)' <=> IsCurrent(o, q))
<1>1. /\ runs \in Seq(Run) /\ Len(runs) \in Nat /\ DOMAIN runs = 1 .. Len(runs)
  BY RunsAreTyped
<1>2. NewRun(s, log) \in Run /\ NewRun(s, log).by = s
  BY Bounds DEF NewRun, Run
<1>3. /\ runs' \in Seq(Run) /\ Len(runs') = Len(runs) + 1
      /\ \A q \in 1 .. Len(runs) : runs'[q] = runs[q]
      /\ runs'[Len(runs) + 1] = NewRun(s, log)
  BY <1>1, <1>2, AppendProperties DEF BeginRun
<1>4. DOMAIN runs' = 1 .. Len(runs) + 1
  BY <1>3, LenProperties
<1>5. Len(runs) + 1 <= MaxRuns
  BY <1>1, Bounds DEF BeginRun
<1>6. DOMAIN runs' = DOMAIN runs \cup {Len(runs) + 1} /\ Len(runs) + 1 \notin DOMAIN runs
  BY <1>1, <1>4
<1>7. RunsOf(s)' = RunsOf(s) \cup {Len(runs) + 1}
  BY <1>1, <1>2, <1>3, <1>6 DEF RunsOf
<1>8. \A q : IsCurrent(s, q)' <=> q = Len(runs) + 1
  BY <1>1, <1>7 DEF IsCurrent, RunsOf
<1>9. ASSUME NEW o, NEW q, o # s PROVE IsCurrent(o, q)' <=> IsCurrent(o, q)
  <2>1. RunsOf(o)' = RunsOf(o)
    BY <1>1, <1>2, <1>3, <1>6, <1>9 DEF RunsOf
  <2> QED
    BY <2>1 DEF IsCurrent
<1> QED
  BY <1>1, <1>3, <1>5, <1>6, <1>7, <1>8, <1>9

-----------------------------------------------------------------------------
(* What is not touched stays sound.                                        *)

StaysChosen(s) ==
  /\ how'[s] = how[s] /\ doomed'[s] = doomed[s]
  /\ seen'[s] = seen[s] /\ newest'[s] = newest[s]

LEMMA SameScreen ==
  ASSUME NEW s, ScreenIsSound(s), at'[s] = at[s], screen'[s] = screen[s],
         how'[s] = how[s], doomed'[s] = doomed[s],
         \A r : IsCurrent(s, r)' <=> IsCurrent(s, r)
  PROVE  ScreenIsSound(s)'
BY DEF ScreenIsSound, IsCurrent

LEMMA SameRun ==
  ASSUME NEW r, RunIsSound(r), runs'[r] = runs[r], Here(r)' <=> Here(r),
         removed \subseteq removed',
         r \in InDir(dir) => r \in InDir(dir') \/ \E x \in removed' : x[3] = r
  PROVE  RunIsSound(r)'
BY DEF RunIsSound

LEMMA SameLog ==
  ASSUME NEW r, LogIsSound(r), runs'[r] = runs[r], LinesOf(dir', r) = LinesOf(dir, r),
         screen[runs[r].by] = "exited" => screen'[runs[r].by] = "exited"
  PROVE  LogIsSound(r)'
BY DEF LogIsSound

LEMMA ChoiceFrame ==
  ASSUME Types, NEW s, ChoiceIsSound(s),
         IsDir(dir'), Pairs(dir') = Pairs(dir), DOMAIN runs \subseteq DOMAIN runs',
         \A q \in DOMAIN runs : runs'[q].by = runs[q].by,
         removed' = removed, files'[s] = files[s]
  PROVE  /\ Names(dir') = Names(dir) /\ InDir(dir') = InDir(dir)
         /\ \A p \in Pairs(dir) : p[2] \in DOMAIN runs /\ runs'[p[2]].by = runs[p[2]].by
         /\ \A x \in removed : runs'[x[3]].by = runs[x[3]].by
         /\ Robbed(s)' <=> Robbed(s)
         /\ FilesAreKnown(s)'
         /\ \A q : Holds(s, q)' <=> Holds(s, q)
<1>1. Names(dir') = Names(dir) /\ InDir(dir') = InDir(dir)
  BY DirIsSeq DEF Types
<1>2. \A p \in Pairs(dir) : p[2] \in DOMAIN runs /\ runs'[p[2]].by = runs[p[2]].by
  <2>1. \A p \in Pairs(dir) : p[2] \in InDir(dir)
    BY DirIsSeq DEF Types
  <2> QED
    BY <2>1 DEF Types
<1>3. \A x \in removed : runs'[x[3]].by = runs[x[3]].by
  BY DEF Types
<1>4. Robbed(s)' <=> Robbed(s)
  BY <1>3 DEF Robbed
<1>5. FilesAreKnown(s)'
  BY <1>2 DEF ChoiceIsSound, FilesAreKnown
<1>6. \A q : Holds(s, q)' <=> Holds(s, q)
  BY <1>2 DEF Holds
<1> QED
  BY <1>1, <1>2, <1>3, <1>4, <1>5, <1>6

LEMMA FewerAreLeft ==
  ASSUME Types, NEW s, Cardinality(Left(s)) <= Retain, NEW S, S \subseteq Left(s)
  PROVE  Cardinality(S) <= Retain
<1>1. Left(s) \subseteq InDir(dir) /\ IsFiniteSet(InDir(dir))
  BY DirIsSeq, DirIsCounted DEF Types, Left
<1>2. IsFiniteSet(Left(s)) /\ IsFiniteSet(S)
  BY <1>1, FS_Subset
<1>3. Cardinality(S) <= Cardinality(Left(s))
  BY <1>2, FS_Subset
<1>4. Cardinality(S) \in Nat /\ Cardinality(Left(s)) \in Nat
  BY <1>2, FS_CardinalityType
<1> QED
  BY <1>3, <1>4, SomeAreKept

LEMMA SameChoice ==
  ASSUME Types, NEW s, ChoiceIsSound(s),
         IsDir(dir'), Pairs(dir') = Pairs(dir), DOMAIN runs \subseteq DOMAIN runs',
         \A q \in DOMAIN runs : runs'[q].by = runs[q].by,
         removed' = removed, files'[s] = files[s], StaysChosen(s)
  PROVE  ChoiceIsSound(s)'
<1>1. /\ Names(dir') = Names(dir) /\ InDir(dir') = InDir(dir)
      /\ \A p \in Pairs(dir) : p[2] \in DOMAIN runs /\ runs'[p[2]].by = runs[p[2]].by
      /\ \A x \in removed : runs'[x[3]].by = runs[x[3]].by
      /\ Robbed(s)' <=> Robbed(s)
      /\ FilesAreKnown(s)'
      /\ \A q : Holds(s, q)' <=> Holds(s, q)
  BY ChoiceFrame
<1>2. CleanIsComplete(s)' /\ SeenIsKnown(s)'
  BY <1>1 DEF ChoiceIsSound, CleanIsComplete, SeenIsKnown, StaysChosen
<1>3. CleanIsHonest(s)'
  BY <1>1 DEF ChoiceIsSound, CleanIsHonest, StaysChosen
<1>4. KeepCounts(s)'
  <2>1. Left(s)' = Left(s)
    BY DEF Left, StaysChosen
  <2> QED
    BY <2>1 DEF ChoiceIsSound, KeepCounts, StaysChosen
<1>5. NewestIsSafe(s)'
  BY <1>1 DEF ChoiceIsSound, NewestIsSafe, StaysChosen
<1> QED
  BY <1>1, <1>2, <1>3, <1>4, <1>5 DEF ChoiceIsSound

-----------------------------------------------------------------------------
(* The steps.                                                              *)

LEMMA SessionInit == Init => SessionInv
<1> SUFFICES ASSUME Init PROVE SessionInv
  OBVIOUS
<1>1. dir = <<>> /\ Len(dir) = 0 /\ dir \in Seq(LogFile)
  BY DEF Init
<1>2. IsDir(dir) /\ Pairs(dir) = {} /\ InDir(dir) = {} /\ Names(dir) = {}
  BY <1>1 DEF IsDir, Pairs, InDir, Names
<1>3. runs \in Seq(Run) /\ Len(runs) = 0 /\ DOMAIN runs = {}
  BY DEF Init
<1>4. \A s \in Sessions : /\ screen[s] = "home" /\ at[s] = "key" /\ how[s] = "none"
                          /\ files[s] = <<>> /\ DOMAIN files[s] = {}
                          /\ DOMAIN doomed[s] = {} /\ seen[s] = {} /\ newest[s] = {}
  BY DEF Init
<1>5. Types
  <2>1. Len(runs) <= MaxRuns
    BY <1>3, Bounds
  <2>2. files \in [Sessions -> Seq(LogName)] /\ ChoiceTypes
    BY DEF Init, ChoiceTypes
  <2> QED
    BY <1>2, <1>3, <2>1, <2>2 DEF Types, Init
<1>6. Screens
  BY <1>4 DEF Screens, ScreenIsSound
<1>7. RunsAreSound /\ LogsAreSound
  BY <1>2, <1>3 DEF RunsAreSound, LogsAreSound
<1>8. ASSUME NEW s \in Sessions PROVE ChoiceIsSound(s)
  <2>1. removed = {}
    BY DEF Init
  <2> QED
    BY <1>2, <1>4, <2>1 DEF ChoiceIsSound, FilesAreKnown, CleanIsComplete, CleanIsHonest,
       Holds, KeepCounts, NewestIsSafe, SeenIsKnown
<1> QED
  BY <1>5, <1>6, <1>7, <1>8 DEF SessionInv, ChoicesAreSound

\* A step of session s that changes its run on the screen and writes its log.
WriterStep(s, x) ==
  /\ screen[s] \in {"running", "after"}
  /\ x \in Run /\ x.by = s /\ runs' = [runs EXCEPT ![Current(s)] = x]
  /\ IsDir(dir') /\ Pairs(dir') = Pairs(dir)
  /\ \A q : q # Current(s) => LinesOf(dir', q) = LinesOf(dir, q)
  /\ \A o \in Sessions \ {s} : /\ screen'[o] = screen[o] /\ at'[o] = at[o]
                              /\ StaysChosen(o)
  /\ UNCHANGED <<files, removed>>

LEMMA WriterKeeps ==
  ASSUME SessionInv, NEW s \in Sessions, NEW x, WriterStep(s, x)
  PROVE  /\ runs' \in Seq(Run) /\ Len(runs') <= MaxRuns /\ DOMAIN runs' = DOMAIN runs
         /\ runs'[Current(s)] = x /\ Names(dir') = Names(dir) /\ InDir(dir') = InDir(dir)
         /\ \A o, q : IsCurrent(o, q)' <=> IsCurrent(o, q)
         /\ \A q \in DOMAIN runs' : q # Current(s) => RunIsSound(q)'
         /\ \A q \in InDir(dir') : q # Current(s) => LogIsSound(q)'
         /\ \A o \in Sessions \ {s} : ScreenIsSound(o)' /\ ChoiceIsSound(o)'
         /\ StaysChosen(s) => ChoiceIsSound(s)'
<1> DEFINE r == Current(s)
<1>0. Types
  BY DEF SessionInv
<1>1. IsCurrent(s, r) /\ r \in DOMAIN runs /\ runs[r].by = s
  BY OnScreen DEF WriterStep
<1> HIDE DEF r
<1>2. runs' = [runs EXCEPT ![r] = x] /\ x \in Run /\ x.by = s
  BY DEF WriterStep, r
<1>3. /\ runs' \in Seq(Run) /\ Len(runs') = Len(runs) /\ DOMAIN runs' = DOMAIN runs
      /\ runs'[r] = x
      /\ \A q \in DOMAIN runs : q # r => runs'[q] = runs[q]
      /\ \A q \in DOMAIN runs : runs'[q].by = runs[q].by
      /\ \A o, q : IsCurrent(o, q)' <=> IsCurrent(o, q)
  BY <1>0, <1>1, <1>2, OneRunChanges
<1>4. IsDir(dir) /\ IsDir(dir') /\ Pairs(dir') = Pairs(dir)
  BY <1>0 DEF Types, WriterStep
<1>5. Names(dir') = Names(dir) /\ InDir(dir') = InDir(dir)
  BY <1>4, DirIsSeq
<1>6. \A q \in DOMAIN runs : q # r => RunIsSound(q)'
  <2> SUFFICES ASSUME NEW q \in DOMAIN runs, q # r PROVE RunIsSound(q)'
    OBVIOUS
  <2>1. RunIsSound(q) /\ runs'[q] = runs[q] /\ runs[q].by \in Sessions
    BY <1>0, <1>3, RunsAreTyped DEF SessionInv, RunsAreSound, Run
  <2>2. ~IsCurrent(s, q)
    BY <1>0, <1>1, CurrentIs DEF r
  <2>3. Here(q)' <=> Here(q)
    <3>1. CASE runs[q].by = s
      BY <1>3, <2>1, <2>2, <3>1 DEF Here
    <3>2. CASE runs[q].by # s
      BY <1>3, <2>1, <3>2 DEF Here, WriterStep
    <3> QED
      BY <3>1, <3>2
  <2> QED
    BY <1>5, <2>1, <2>3, SameRun DEF WriterStep
<1>7. \A q \in InDir(dir) : q # r => LogIsSound(q)'
  <2> SUFFICES ASSUME NEW q \in InDir(dir), q # r PROVE LogIsSound(q)'
    OBVIOUS
  <2>1. q \in DOMAIN runs
    BY <1>0 DEF Types
  <2>2. LogIsSound(q) /\ runs'[q] = runs[q] /\ runs[q].by \in Sessions
    BY <1>0, <1>3, <2>1, RunsAreTyped DEF SessionInv, LogsAreSound, Run
  <2>3. screen[runs[q].by] = "exited" => screen'[runs[q].by] = "exited"
    BY <2>2 DEF WriterStep
  <2>4. LinesOf(dir', q) = LinesOf(dir, q)
    BY DEF WriterStep, r
  <2> QED
    BY <2>2, <2>3, <2>4, SameLog
<1>8. ASSUME NEW o \in Sessions \ {s} PROVE ScreenIsSound(o)' /\ ChoiceIsSound(o)'
  <2>1. ScreenIsSound(o) /\ ChoiceIsSound(o)
    BY DEF SessionInv, Screens, ChoicesAreSound
  <2>2. ScreenIsSound(o)'
    BY <1>3, <2>1, SameScreen DEF WriterStep, StaysChosen
  <2>3. ChoiceIsSound(o)'
    BY <1>0, <1>3, <1>4, <2>1, SameChoice DEF WriterStep
  <2> QED
    BY <2>2, <2>3
<1>9. ASSUME StaysChosen(s) PROVE ChoiceIsSound(s)'
  <2>1. ChoiceIsSound(s)
    BY DEF SessionInv, ChoicesAreSound
  <2> QED
    BY <1>0, <1>3, <1>4, <1>9, <2>1, SameChoice DEF WriterStep
<1> QED
  BY <1>0, <1>3, <1>5, <1>6, <1>7, <1>8, <1>9 DEF Types, r

\* From there the invariant follows, if the step is right about its own session.
LEMMA WriterIsRight ==
  ASSUME SessionInv, NEW s \in Sessions, NEW x, WriterStep(s, x), NEW r, r = Current(s),
         screen' \in [Sessions -> {"home", "running", "after", "prompt", "leaving", "exited"}],
         at' \in [Sessions -> {"drain", "flush", "key"}],
         ChoiceTypes', ScreenIsSound(s)', RunIsSound(r)',
         r \in InDir(dir) => LogIsSound(r)',
         ChoiceIsSound(s)' \/ StaysChosen(s)
  PROVE  SessionInv'
<1>1. /\ runs' \in Seq(Run) /\ Len(runs') <= MaxRuns /\ DOMAIN runs' = DOMAIN runs
      /\ InDir(dir') = InDir(dir)
      /\ \A q \in DOMAIN runs' : q # r => RunIsSound(q)'
      /\ \A q \in InDir(dir') : q # r => LogIsSound(q)'
      /\ \A o \in Sessions \ {s} : ScreenIsSound(o)' /\ ChoiceIsSound(o)'
      /\ ChoiceIsSound(s)'
  BY WriterKeeps
<1>2. Types'
  BY <1>1 DEF SessionInv, Types, WriterStep
<1>3. Screens' /\ ChoicesAreSound'
  BY <1>1 DEF Screens, ChoicesAreSound
<1>4. RunsAreSound' /\ LogsAreSound'
  BY <1>1 DEF RunsAreSound, LogsAreSound
<1> QED
  BY <1>2, <1>3, <1>4 DEF SessionInv

\* The facts about the run on the screen that the writers start from.
LEMMA RunOnScreen ==
  ASSUME SessionInv, NEW s \in Sessions, NEW r, r = Current(s),
         screen[s] \in {"running", "after"}
  PROVE  /\ IsCurrent(s, r) /\ r \in DOMAIN runs /\ runs[r] \in Run /\ runs[r].by = s
         /\ runs[r].sent \in 0 .. MaxEvents + 1 /\ runs[r].ended \in BOOLEAN
         /\ runs[r].due \in 1 .. MaxEvents + 2 /\ runs[r].drawn \in 0 .. MaxEvents + 2
         /\ runs[r].logged \in BOOLEAN /\ runs[r].open \in BOOLEAN /\ runs[r].err \in BOOLEAN
         /\ Here(r) <=> screen[s] = "running"
         /\ RunIsSound(r) /\ (r \in InDir(dir) => LogIsSound(r))
         /\ IsDir(dir) /\ LinesOf(dir, r) \in Nat /\ how[s] = "none"
<1>1. /\ IsCurrent(s, r) /\ r \in DOMAIN runs /\ runs[r] \in Run /\ runs[r].by = s
      /\ RunIsSound(r) /\ (r \in InDir(dir) => LogIsSound(r))
  BY OnScreen
<1>2. Here(r) <=> screen[s] = "running"
  BY <1>1 DEF Here
<1>3. IsDir(dir) /\ LinesOf(dir, r) \in Nat
  BY LinesAreNat DEF SessionInv, Types
<1>4. how[s] = "none"
  BY DEF SessionInv, Screens, ScreenIsSound
<1> QED
  BY <1>1, <1>2, <1>3, <1>4 DEF Run

LEMMA WorkerSendsKeeps ==
  ASSUME SessionInv, NEW s \in Sessions, WorkerSends(s)
  PROVE  SessionInv'
<1>1. PICK r : r = Current(s)
  OBVIOUS
<1>2. screen[s] = "running" /\ ~runs[r].ended
  BY <1>1 DEF WorkerSends
<1>3. PICK last \in BOOLEAN :
        /\ last \/ runs[r].sent < MaxEvents
        /\ runs' = [runs EXCEPT ![r].sent = @ + 1, ![r].ended = last]
  BY <1>1 DEF WorkerSends
<1>4. /\ IsCurrent(s, r) /\ r \in DOMAIN runs /\ runs[r] \in Run /\ runs[r].by = s
      /\ runs[r].sent \in 0 .. MaxEvents + 1
      /\ runs[r].due \in 1 .. MaxEvents + 2
      /\ Here(r) /\ RunIsSound(r) /\ (r \in InDir(dir) => LogIsSound(r)) /\ IsDir(dir)
  BY <1>1, <1>2, RunOnScreen
<1> DEFINE x == [runs[r] EXCEPT !.sent = @ + 1, !.ended = last]
<1>5. runs[r].sent <= MaxEvents /\ MaxEvents \in Nat
  BY <1>2, <1>4, Bounds DEF RunIsSound
<1>6. /\ x \in Run /\ x.by = s /\ x.sent = runs[r].sent + 1 /\ x.ended = last
      /\ x.due = runs[r].due /\ x.open = runs[r].open /\ x.logged = runs[r].logged
      /\ x.err = runs[r].err /\ x.drawn = runs[r].drawn
  <2>1. runs[r].sent + 1 \in 0 .. MaxEvents + 1
    BY <1>4, <1>5
  <2>2. x \in Run
    BY <1>4, <2>1 DEF Run
  <2>3. x.sent = runs[r].sent + 1 /\ x.by = s /\ x.due = runs[r].due /\ x.drawn = runs[r].drawn
    BY <1>4 DEF Run
  <2>4. x.ended = last
    BY <1>4 DEF Run
  <2>5. x.open = runs[r].open /\ x.logged = runs[r].logged /\ x.err = runs[r].err
    BY <1>4 DEF Run
  <2> QED
    BY <2>2, <2>3, <2>4, <2>5
<1>7. runs' = [runs EXCEPT ![r] = x]
  BY <1>3, <1>4
<1> HIDE DEF x
<1>8. UNCHANGED <<dir, screen, at, files, doomed, how, seen, newest, removed>>
  BY DEF WorkerSends, ui, leave
<1>9. WriterStep(s, x) /\ StaysChosen(s)
  BY <1>1, <1>2, <1>4, <1>6, <1>7, <1>8 DEF WriterStep, StaysChosen
<1>10. /\ \A o, q : IsCurrent(o, q)' <=> IsCurrent(o, q)
       /\ runs'[r] = x /\ InDir(dir') = InDir(dir)
  BY <1>1, <1>9, WriterKeeps
<1>11. Here(r)' /\ ScreenIsSound(s)'
  BY <1>2, <1>4, <1>6, <1>8, <1>10, SameScreen DEF Here, SessionInv, Screens
<1>12. RunIsSound(r)'
  BY <1>3, <1>4, <1>5, <1>6, <1>8, <1>10, <1>11 DEF RunIsSound
<1>13. r \in InDir(dir) => LogIsSound(r)'
  BY <1>4, <1>6, <1>8, <1>10 DEF LogIsSound
<1> QED
  BY <1>1, <1>8, <1>9, <1>11, <1>12, <1>13, WriterIsRight DEF SessionInv, Types, ChoiceTypes

LEMMA DrainKeeps ==
  ASSUME SessionInv, NEW s \in Sessions, Drain(s)
  PROVE  SessionInv'
<1>1. PICK r : r = Current(s)
  OBVIOUS
<1>2. screen[s] = "running"
  BY DEF Drain
<1>3. /\ IsCurrent(s, r) /\ r \in DOMAIN runs /\ runs[r] \in Run /\ runs[r].by = s
      /\ runs[r].sent \in 0 .. MaxEvents + 1 /\ runs[r].ended \in BOOLEAN
      /\ runs[r].due \in 1 .. MaxEvents + 2 /\ runs[r].drawn \in 0 .. MaxEvents + 2
      /\ runs[r].open \in BOOLEAN
      /\ Here(r) /\ RunIsSound(r) /\ (r \in InDir(dir) => LogIsSound(r)) /\ IsDir(dir)
      /\ LinesOf(dir, r) \in Nat
  BY <1>1, <1>2, RunOnScreen
<1>4. MaxEvents \in Nat
  BY Bounds
<1> DEFINE due == 1 + runs[r].sent
           over == runs[r].ended
           kept == [runs[r] EXCEPT !.due = due, !.open = @ /\ ~over]
           failed == [kept EXCEPT !.open = FALSE, !.err = TRUE]
<1>5. /\ screen' = [screen EXCEPT ![s] = IF over THEN "after" ELSE "running"]
      /\ at' = [at EXCEPT ![s] = "flush"]
      /\ UNCHANGED <<files, doomed, how, seen, newest, removed>>
  BY <1>1 DEF Drain, Show, leave
<1>6. PICK x \in {kept, failed} :
        /\ runs' = [runs EXCEPT ![r] = x]
        /\ \/ x = kept /\ ~runs[r].open /\ dir' = dir
           \/ x = kept /\ runs[r].open /\ over /\ dir' = Written(dir, r, due)
           \/ x = kept /\ runs[r].open /\ ~over /\ dir' \in Spilled(dir, r, due)
           \/ x = failed /\ runs[r].open /\ dir' = dir
  BY <1>1 DEF Drain
<1>7. due \in 1 .. MaxEvents + 2 /\ due \in Nat /\ runs[r].due <= due
  BY <1>3, <1>4 DEF RunIsSound
<1>8. /\ x \in Run /\ x.by = s /\ x.sent = runs[r].sent /\ x.ended = over
      /\ x.due = due /\ x.drawn = runs[r].drawn /\ x.logged = runs[r].logged
      /\ x = kept => x.open = (runs[r].open /\ ~over) /\ x.err = runs[r].err
      /\ x = failed => ~x.open /\ x.err
  BY <1>3, <1>7 DEF Run
<1> HIDE DEF kept, failed
<1>9. /\ IsDir(dir') /\ Pairs(dir') = Pairs(dir)
      /\ \A q : q # r => LinesOf(dir', q) = LinesOf(dir, q)
      /\ r \in InDir(dir) =>
           /\ dir' = Written(dir, r, due) => LinesOf(dir', r) = due
           /\ dir' \in Spilled(dir, r, due) => LinesOf(dir', r) \in LinesOf(dir, r) .. due
  <2>1. CASE dir' = Written(dir, r, due)
    BY <1>3, <1>7, <2>1, WrittenIs, SpilledIs
  <2>2. CASE dir' \in Spilled(dir, r, due) /\ dir' # Written(dir, r, due)
    BY <1>3, <1>7, <2>2, SpilledIs
  <2>3. CASE dir' = dir /\ dir' # Written(dir, r, due) /\ dir' \notin Spilled(dir, r, due)
    BY <1>3, <2>3
  <2> QED
    BY <1>6, <2>1, <2>2, <2>3
<1>10. WriterStep(s, x) /\ StaysChosen(s)
  BY <1>1, <1>2, <1>5, <1>6, <1>8, <1>9 DEF WriterStep, SessionInv, Types, StaysChosen
<1>11. /\ \A o, q : IsCurrent(o, q)' <=> IsCurrent(o, q)
       /\ runs'[r] = x /\ InDir(dir') = InDir(dir)
  BY <1>1, <1>10, WriterKeeps
<1>12. /\ screen'[s] = IF over THEN "after" ELSE "running"
       /\ at'[s] = "flush" /\ how'[s] = how[s] /\ doomed'[s] = doomed[s]
       /\ screen' \in [Sessions -> {"home", "running", "after", "prompt", "leaving", "exited"}]
       /\ at' \in [Sessions -> {"drain", "flush", "key"}]
  BY <1>5 DEF SessionInv, Types
<1>13. ScreenIsSound(s)'
  BY <1>2, <1>11, <1>12 DEF ScreenIsSound, IsCurrent, SessionInv, Screens
<1>14. Here(r)' <=> ~over
  BY <1>3, <1>8, <1>11, <1>12 DEF Here
<1>15. RunIsSound(r)'
  <2>1. /\ runs'[r].due = 1 + runs'[r].sent /\ runs'[r].ended = over
        /\ runs'[r].logged = runs[r].logged /\ removed' = removed /\ InDir(dir') = InDir(dir)
        /\ runs'[r].sent \in Nat
    BY <1>3, <1>4, <1>5, <1>8, <1>11
  <2>2. runs'[r].open => runs[r].open /\ ~over
    BY <1>6, <1>8, <1>11
  <2>3. ~over /\ runs[r].open => runs'[r].open \/ runs'[r].err
    BY <1>6, <1>8, <1>11
  <2>4. ~over /\ ~runs[r].open => (runs'[r].err <=> runs[r].err)
    BY <1>6, <1>8, <1>11
  <2>5. ~over => runs[r].sent <= MaxEvents /\ runs'[r].sent = runs[r].sent
    BY <1>3, <1>8, <1>11 DEF RunIsSound
  <2> QED
    BY <1>3, <1>14, <2>1, <2>2, <2>3, <2>4, <2>5 DEF RunIsSound
<1>16. ASSUME r \in InDir(dir) PROVE LogIsSound(r)'
  BY <1>3, <1>6, <1>7, <1>8, <1>9, <1>11, <1>16 DEF LogIsSound, RunIsSound
<1> QED
  BY <1>1, <1>5, <1>10, <1>12, <1>13, <1>15, <1>16, WriterIsRight
     DEF SessionInv, Types, ChoiceTypes

LEMMA FlushKeeps ==
  ASSUME SessionInv, NEW s \in Sessions, Flush(s)
  PROVE  SessionInv'
<1>1. PICK r : r = Current(s)
  OBVIOUS
<1>2. screen[s] \in {"running", "after"}
  BY DEF Flush, SessionInv, Screens, ScreenIsSound
<1>3. /\ IsCurrent(s, r) /\ r \in DOMAIN runs /\ runs[r] \in Run /\ runs[r].by = s
      /\ runs[r].due \in 1 .. MaxEvents + 2 /\ runs[r].drawn \in 0 .. MaxEvents + 2
      /\ Here(r) <=> screen[s] = "running"
      /\ RunIsSound(r) /\ (r \in InDir(dir) => LogIsSound(r)) /\ IsDir(dir)
      /\ LinesOf(dir, r) \in Nat
  BY <1>1, <1>2, RunOnScreen
<1> DEFINE shown == [runs[r] EXCEPT !.drawn = runs[r].due]
           failed == [shown EXCEPT !.err = TRUE]
<1>4. /\ screen' = [screen EXCEPT ![s] = screen[s]]
      /\ at' = [at EXCEPT ![s] = "key"]
      /\ UNCHANGED <<files, doomed, how, seen, newest, removed>>
  BY DEF Flush, Show, leave
<1>5. PICK x \in {shown, failed} :
        /\ runs' = [runs EXCEPT ![r] = x]
        /\ \/ x = shown /\ runs[r].open /\ dir' = Written(dir, r, runs[r].due)
           \/ x = shown /\ ~runs[r].open /\ dir' = dir
           \/ x = failed /\ runs[r].open /\ dir' = dir
  BY <1>1 DEF Flush
<1>6. /\ x \in Run /\ x.by = s /\ x.sent = runs[r].sent /\ x.ended = runs[r].ended
      /\ x.due = runs[r].due /\ x.drawn = runs[r].due /\ x.logged = runs[r].logged
      /\ x.open = runs[r].open
      /\ x = shown => x.err = runs[r].err
      /\ x = failed => x.err
  <2>1. runs[r].due \in 0 .. MaxEvents + 2
    BY <1>3, Bounds
  <2>2. x \in Run
    <3>1. shown \in Run
      BY <1>3, <2>1 DEF Run
    <3> QED
      BY <3>1 DEF Run
  <2>3. /\ x.by = s /\ x.sent = runs[r].sent
        /\ x.due = runs[r].due /\ x.drawn = runs[r].due
    BY <1>3 DEF Run
  <2>4. /\ x.ended = runs[r].ended /\ x.logged = runs[r].logged /\ x.open = runs[r].open
    BY <1>3 DEF Run
  <2>5. (x = shown => x.err = runs[r].err) /\ (x = failed => x.err)
    BY <1>3 DEF Run
  <2> QED
    BY <2>2, <2>3, <2>4, <2>5
<1> HIDE DEF shown, failed
<1>7. runs[r].due \in Nat
  BY <1>3, Bounds
<1>8. /\ IsDir(dir') /\ Pairs(dir') = Pairs(dir)
      /\ \A q : q # r => LinesOf(dir', q) = LinesOf(dir, q)
      /\ r \in InDir(dir) /\ dir' = Written(dir, r, runs[r].due)
           => LinesOf(dir', r) = runs[r].due
  <2>1. CASE dir' = Written(dir, r, runs[r].due)
    BY <1>3, <1>7, <2>1, WrittenIs
  <2>2. CASE dir' = dir /\ dir' # Written(dir, r, runs[r].due)
    BY <1>3, <2>2
  <2> QED
    BY <1>5, <2>1, <2>2
<1>9. WriterStep(s, x) /\ StaysChosen(s)
  BY <1>1, <1>2, <1>4, <1>5, <1>6, <1>8 DEF WriterStep, SessionInv, Types, StaysChosen
<1>10. /\ \A o, q : IsCurrent(o, q)' <=> IsCurrent(o, q)
       /\ runs'[r] = x /\ InDir(dir') = InDir(dir)
  BY <1>1, <1>9, WriterKeeps
<1>11. /\ screen'[s] = screen[s] /\ at'[s] = "key"
       /\ how'[s] = how[s] /\ doomed'[s] = doomed[s]
       /\ screen' \in [Sessions -> {"home", "running", "after", "prompt", "leaving", "exited"}]
       /\ at' \in [Sessions -> {"drain", "flush", "key"}]
  BY <1>4 DEF SessionInv, Types
<1>12. ScreenIsSound(s)'
  BY <1>2, <1>10, <1>11 DEF ScreenIsSound, IsCurrent, SessionInv, Screens
<1>13. Here(r)' <=> Here(r)
  BY <1>3, <1>6, <1>10, <1>11 DEF Here
<1>14. RunIsSound(r)'
  <2>1. /\ runs'[r].due = runs[r].due /\ runs'[r].sent = runs[r].sent
        /\ runs'[r].ended = runs[r].ended /\ runs'[r].logged = runs[r].logged
        /\ runs'[r].open = runs[r].open /\ removed' = removed
    BY <1>4, <1>6, <1>10
  <2>2. runs'[r].err = runs[r].err \/ runs'[r].err
    BY <1>6, <1>10
  <2> QED
    BY <1>3, <1>10, <1>13, <2>1, <2>2 DEF RunIsSound
<1>15. ASSUME r \in InDir(dir) PROVE LogIsSound(r)'
  <2>1. LogIsSound(r) /\ screen[s] # "exited"
    BY <1>2, <1>3, <1>15
  <2>2. CASE x = shown /\ runs[r].open /\ dir' = Written(dir, r, runs[r].due)
    <3>1. LinesOf(dir', r) = runs[r].due
      BY <1>8, <1>15, <2>2
    <3>2. runs'[r].due = runs[r].due /\ runs'[r].drawn = runs[r].due
      BY <1>6, <1>10
    <3>3. runs'[r].logged
      BY <1>6, <1>10, <2>1 DEF LogIsSound
    <3> QED
      BY <1>7, <3>1, <3>2, <3>3 DEF LogIsSound
  <2>3. CASE x = shown /\ ~runs[r].open /\ dir' = dir
    BY <1>3, <1>6, <1>7, <1>10, <2>1, <2>3 DEF LogIsSound
  <2>4. CASE x = failed /\ dir' = dir
    BY <1>6, <1>10, <2>1, <2>4 DEF LogIsSound
  <2> QED
    BY <1>5, <2>2, <2>3, <2>4
<1> QED
  BY <1>1, <1>4, <1>9, <1>11, <1>12, <1>14, <1>15, WriterIsRight
     DEF SessionInv, Types, ChoiceTypes

\* What a session that leaves unasked is left with.
LEMMA StoppedIsSound ==
  ASSUME Types, NEW s, ChoiceIsSound(s),
         IsDir(dir'), Pairs(dir') = Pairs(dir), DOMAIN runs \subseteq DOMAIN runs',
         \A q \in DOMAIN runs : runs'[q].by = runs[q].by,
         removed' = removed, files'[s] = files[s],
         how'[s] \in {"quit", "killed"}, DOMAIN doomed'[s] = {},
         seen'[s] = {}, newest'[s] = {}
  PROVE  ChoiceIsSound(s)'
<1>1. /\ Names(dir') = Names(dir) /\ InDir(dir') = InDir(dir)
      /\ \A x \in removed : runs'[x[3]].by = runs[x[3]].by
      /\ Robbed(s)' <=> Robbed(s)
      /\ FilesAreKnown(s)'
  BY ChoiceFrame
<1>3. CleanIsComplete(s)' /\ KeepCounts(s)' /\ SeenIsKnown(s)'
  BY DEF CleanIsComplete, KeepCounts, SeenIsKnown
<1>4. CleanIsHonest(s)'
  BY <1>1 DEF ChoiceIsSound, CleanIsHonest
<1>5. NewestIsSafe(s)'
  BY DEF NewestIsSafe
<1> QED
  BY <1>1, <1>3, <1>4, <1>5 DEF ChoiceIsSound

\* A step that leaves the runs as they are and the logs where they belong.
LEMMA QuietKeeps ==
  ASSUME SessionInv, NEW s \in Sessions, screen[s] # "exited",
         UNCHANGED <<runs, files, removed>>,
         IsDir(dir'), Pairs(dir') = Pairs(dir), \A r : LinesOf(dir', r) = LinesOf(dir, r),
         screen' \in [Sessions -> {"home", "running", "after", "prompt", "leaving", "exited"}],
         at' \in [Sessions -> {"drain", "flush", "key"}],
         ChoiceTypes',
         \A o \in Sessions \ {s} : /\ screen'[o] = screen[o] /\ at'[o] = at[o]
                                   /\ StaysChosen(o),
         screen'[s] = "running" <=> screen[s] = "running",
         ScreenIsSound(s)',
         ChoiceIsSound(s)' \/ StaysChosen(s)
  PROVE  SessionInv'
<1>0. Types /\ IsDir(dir)
  BY DEF SessionInv, Types
<1>1. Names(dir') = Names(dir) /\ InDir(dir') = InDir(dir)
  BY <1>0, DirIsSeq
<1>2. \A o, q : IsCurrent(o, q)' <=> IsCurrent(o, q)
  BY DEF IsCurrent, RunsOf
<1>3. Types'
  BY <1>1 DEF SessionInv, Types
<1>4. ASSUME NEW o \in Sessions PROVE ScreenIsSound(o)' /\ ChoiceIsSound(o)'
  <2>1. ScreenIsSound(o) /\ ChoiceIsSound(o)
    BY DEF SessionInv, Screens, ChoicesAreSound
  <2>2. CASE o # s
    <3>1. ScreenIsSound(o)'
      BY <1>2, <2>1, <2>2, SameScreen DEF StaysChosen
    <3>2. ChoiceIsSound(o)'
      BY <1>0, <2>1, <2>2, SameChoice
    <3> QED
      BY <3>1, <3>2
  <2>3. CASE o = s
    <3>1. StaysChosen(s) => ChoiceIsSound(s)'
      BY <1>0, <2>1, <2>3, SameChoice
    <3> QED
      BY <2>3, <3>1
  <2> QED
    BY <2>2, <2>3
<1>5. \A q \in DOMAIN runs : runs[q].by \in Sessions
  BY <1>0, RunsAreTyped DEF Run
<1>6. ASSUME NEW r \in DOMAIN runs PROVE RunIsSound(r)'
  <2>1. Here(r)' <=> Here(r)
    BY <1>2, <1>5 DEF Here
  <2> QED
    BY <1>1, <2>1, SameRun DEF SessionInv, RunsAreSound
<1>7. ASSUME NEW r \in InDir(dir) PROVE LogIsSound(r)'
  <2>1. r \in DOMAIN runs
    BY <1>0 DEF Types
  <2>2. LogIsSound(r) /\ runs[r].by \in Sessions
    BY <1>5, <2>1 DEF SessionInv, LogsAreSound
  <2>3. screen[runs[r].by] = "exited" => screen'[runs[r].by] = "exited"
    BY <2>2
  <2> QED
    BY <2>2, <2>3, SameLog
<1> QED
  BY <1>1, <1>3, <1>4, <1>6, <1>7 DEF SessionInv, Screens, ChoicesAreSound, RunsAreSound,
     LogsAreSound

LEMMA MenuKeeps ==
  ASSUME SessionInv, NEW s \in Sessions, NoKey(s) \/ Back(s) \/ RequestQuit(s) \/ Clean(s)
  PROVE  SessionInv'
<1>0. /\ Types /\ ScreenIsSound(s) /\ ChoiceIsSound(s) /\ IsDir(dir)
      /\ screen \in [Sessions -> {"home", "running", "after", "prompt", "leaving", "exited"}]
      /\ at \in [Sessions -> {"drain", "flush", "key"}]
      /\ ChoiceTypes /\ how \in [Sessions -> {"none", "clean", "keep", "quit", "killed"}]
      /\ DOMAIN doomed = Sessions /\ DOMAIN seen = Sessions /\ DOMAIN newest = Sessions
  BY DEF SessionInv, Types, Screens, ChoicesAreSound, ChoiceTypes
<1>1. UNCHANGED <<dir, runs, files, newest, removed>>
  BY DEF NoKey, Back, RequestQuit, Clean, leave
<1>2. \A r : (IsCurrent(s, r)' <=> IsCurrent(s, r))
  BY <1>1 DEF IsCurrent, RunsOf
<1>3. CASE NoKey(s)
  <2>1. /\ UNCHANGED <<screen, how, doomed, seen>> /\ at' = [at EXCEPT ![s] = "drain"]
        /\ screen[s] = "running"
    BY <1>3 DEF NoKey, leave
  <2>2. ScreenIsSound(s)'
    BY <1>0, <1>2, <2>1 DEF ScreenIsSound, IsCurrent
  <2> QED
    BY <1>0, <1>1, <2>1, <2>2, QuietKeeps DEF StaysChosen, ChoiceTypes
<1>4. CASE Back(s)
  <2>1. /\ UNCHANGED <<how, doomed, seen>> /\ screen[s] = "after"
        /\ screen' = [screen EXCEPT ![s] = "home"] /\ at' = [at EXCEPT ![s] = "key"]
    BY <1>4 DEF Back, Show, leave
  <2>2. ScreenIsSound(s)'
    BY <1>0, <2>1 DEF ScreenIsSound
  <2> QED
    BY <1>0, <1>1, <2>1, <2>2, QuietKeeps DEF StaysChosen, ChoiceTypes
<1>5. CASE RequestQuit(s)
  <2>1. CASE files[s] # <<>>
    <3>1. /\ UNCHANGED <<how, doomed, seen>> /\ screen[s] = "home"
          /\ screen' = [screen EXCEPT ![s] = "prompt"] /\ at' = [at EXCEPT ![s] = "key"]
      BY <1>5, <2>1 DEF RequestQuit, Show
    <3>2. ScreenIsSound(s)'
      BY <1>0, <3>1 DEF ScreenIsSound
    <3> QED
      BY <1>0, <1>1, <3>1, <3>2, QuietKeeps DEF StaysChosen, ChoiceTypes
  <2>2. CASE files[s] = <<>>
    <3>1. /\ UNCHANGED <<doomed, seen>> /\ screen[s] = "home" /\ how' = [how EXCEPT ![s] = "quit"]
          /\ screen' = [screen EXCEPT ![s] = "exited"] /\ at' = [at EXCEPT ![s] = "key"]
      BY <1>5, <2>2 DEF RequestQuit, Show, Choice
    <3>2. ScreenIsSound(s)' /\ DOMAIN doomed'[s] = {} /\ how[s] = "none" /\ how'[s] = "quit"
      BY <1>0, <3>1 DEF ScreenIsSound
    <3>3. ChoiceIsSound(s)'
      <4>1. seen'[s] = {} /\ newest'[s] = {}
        BY <1>0, <1>1, <3>1, <3>2 DEF ChoiceIsSound, SeenIsKnown
      <4> QED
        BY <1>0, <1>1, <3>2, <4>1, StoppedIsSound
    <3> QED
      BY <1>0, <1>1, <3>1, <3>2, <3>3, QuietKeeps DEF StaysChosen, ChoiceTypes
  <2> QED
    BY <2>1, <2>2
<1>6. CASE Clean(s)
  <2>1. /\ screen[s] = "prompt" /\ how' = [how EXCEPT ![s] = "clean"]
        /\ doomed' = [doomed EXCEPT ![s] = files[s]]
        /\ seen' = [seen EXCEPT ![s] = RunsOf(s)]
        /\ screen' = [screen EXCEPT ![s] = "leaving"] /\ at' = [at EXCEPT ![s] = "key"]
    BY <1>6 DEF Clean, Show, Choice
  <2>2. /\ ScreenIsSound(s)' /\ how[s] = "none" /\ how'[s] = "clean"
        /\ doomed'[s] = files[s] /\ seen'[s] = RunsOf(s) /\ ChoiceTypes'
    BY <1>0, <1>1, <2>1 DEF ScreenIsSound, ChoiceTypes
  <2>3. newest[s] = {}
    BY <1>0, <2>2 DEF ChoiceIsSound, SeenIsKnown
  <2>4. /\ \A p \in Pairs(dir) : runs'[p[2]].by = runs[p[2]].by
        /\ Robbed(s)' <=> Robbed(s)
        /\ FilesAreKnown(s)'
        /\ \A q : Holds(s, q)' <=> Holds(s, q)
    BY <1>0, <1>1, ChoiceFrame
  <2>5. CleanIsComplete(s)'
    <3>1. \A r \in RunsOf(s) : runs[r].by = s
      BY DEF RunsOf
    <3> QED
      BY <1>1, <2>2, <2>4, <3>1 DEF CleanIsComplete, FilesAreKnown
  <2>6. CleanIsHonest(s)'
    BY <1>0, <1>1, <2>2, <2>4 DEF ChoiceIsSound, CleanIsHonest
  <2>7. KeepCounts(s)' /\ NewestIsSafe(s)' /\ SeenIsKnown(s)'
    BY <1>1, <2>2, <2>3 DEF KeepCounts, NewestIsSafe, SeenIsKnown, RunsOf
  <2>8. ChoiceIsSound(s)'
    BY <2>4, <2>5, <2>6, <2>7 DEF ChoiceIsSound
  <2> QED
    BY <1>0, <1>1, <2>1, <2>2, <2>8, QuietKeeps DEF StaysChosen
<1> QED
  BY <1>3, <1>4, <1>5, <1>6

LEMMA RestIsCounted ==
  ASSUME NEW n \in Nat, NEW i \in 1 .. n
  PROVE  IsFiniteSet(i + 1 .. n) /\ Cardinality(i + 1 .. n) = n - i
<1>1. i + 1 \in Int /\ n \in Int /\ i <= n
  OBVIOUS
<1>2. /\ IsFiniteSet(i + 1 .. n)
      /\ Cardinality(i + 1 .. n) = IF i + 1 > n THEN 0 ELSE n - (i + 1) + 1
  BY <1>1, FS_Interval
<1>3. (IF i + 1 > n THEN 0 ELSE n - (i + 1) + 1) = n - i
  BY <1>1
<1> QED
  BY <1>2, <1>3

\* What is kept of a listing, and that what is not is not of the newest Retain: there
\* are Retain newer ones in the listing, so as many after it in the directory.
LEMMA KeptAreFew ==
  ASSUME IsDir(dir), NEW listed \in SUBSET DOMAIN dir, NEW out \in Surplus(listed),
         \A i \in out, j \in listed \ out : i < j
  PROVE  /\ IsFiniteSet({dir[i].run : i \in listed \ out})
         /\ Cardinality({dir[i].run : i \in listed \ out}) <= Retain
         /\ \A i \in out : ~(Len(dir) < i + Retain)
<1> DEFINE I == listed \ out
           T == {dir[i].run : i \in I}
           f == [i \in I |-> dir[i].run]
<1>1. Len(dir) \in Nat /\ Retain \in Nat /\ DOMAIN dir = 1 .. Len(dir)
  BY DirIsSeq, SomeAreKept
<1>2. out \subseteq listed /\ Cardinality(I) <= Retain /\ (out # {} => Cardinality(I) = Retain)
  BY DEF Surplus
<1>3. IsFiniteSet(1 .. Len(dir)) /\ IsFiniteSet(I)
  <2>1. IsFiniteSet(1 .. Len(dir))
    BY <1>1, FS_Interval
  <2> QED
    BY <1>1, <2>1, FS_Subset
<1>4. f \in Surjection(I, T)
  BY DEF Surjection
<1>5. IsFiniteSet(T) /\ Cardinality(T) <= Cardinality(I)
  BY <1>3, <1>4, FS_Surjection
<1>6. Cardinality(T) <= Retain
  <2>1. Cardinality(T) \in Nat /\ Cardinality(I) \in Nat
    BY <1>3, <1>5, FS_CardinalityType
  <2> HIDE DEF I, T
  <2> QED
    BY <1>1, <1>2, <1>5, <2>1
<1>7. ASSUME NEW i \in out, Len(dir) < i + Retain PROVE FALSE
  <2> DEFINE J == i + 1 .. Len(dir)
  <2>1. i \in 1 .. Len(dir)
    BY <1>1, <1>2
  <2>2. IsFiniteSet(J) /\ Cardinality(J) = Len(dir) - i
    BY <1>1, <2>1, RestIsCounted
  <2>3. I \subseteq J
    BY <1>1, <2>1
  <2>4. Cardinality(I) <= Cardinality(J)
    BY <2>2, <2>3, FS_Subset
  <2>5. Cardinality(I) = Retain
    BY <1>2
  <2> HIDE DEF I, J
  <2> QED
    BY <1>1, <1>7, <2>1, <2>2, <2>4, <2>5
<1> QED
  BY <1>5, <1>6, <1>7

LEMMA KeepKeeps ==
  ASSUME SessionInv, NEW s \in Sessions, Keep(s)
  PROVE  SessionInv'
<1>0. /\ Types /\ ScreenIsSound(s) /\ ChoiceIsSound(s) /\ IsDir(dir) /\ ChoiceTypes
      /\ screen \in [Sessions -> {"home", "running", "after", "prompt", "leaving", "exited"}]
      /\ at \in [Sessions -> {"drain", "flush", "key"}]
      /\ InDir(dir) \subseteq DOMAIN runs
  BY DEF SessionInv, Types, Screens, ChoicesAreSound
<1>1. Len(dir) \in Nat /\ DOMAIN dir = 1 .. Len(dir)
  BY <1>0, DirIsSeq
<1>2. PICK listed, out :
        /\ listed \in SUBSET DOMAIN dir /\ out \in Surplus(listed)
        /\ (\A i \in out, j \in listed \ out : i < j) /\ Listed(s, listed, out)
  BY DEF Keep
<1> DEFINE q == [i \in out |-> dir[i].name]
           last == {j \in DOMAIN dir : Len(dir) < j + Retain}
           T == {dir[i].run : i \in listed \ out}
<1>3. /\ screen[s] = "prompt" /\ how' = [how EXCEPT ![s] = "keep"]
      /\ doomed' = [doomed EXCEPT ![s] = q]
      /\ seen' = [seen EXCEPT ![s] = {dir[i].run : i \in listed}]
      /\ newest' = [newest EXCEPT ![s] = {dir[i].run : i \in last}]
      /\ screen' = [screen EXCEPT ![s] = "leaving"] /\ at' = [at EXCEPT ![s] = "key"]
      /\ UNCHANGED <<dir, runs, files, removed>>
  BY <1>2 DEF Listed, Show, Choice
<1>4. /\ IsFiniteSet(T) /\ Cardinality(T) <= Retain
      /\ \A i \in out : ~(Len(dir) < i + Retain)
  BY <1>0, <1>2, KeptAreFew
<1>5. out \subseteq listed /\ listed \subseteq DOMAIN dir
  BY <1>2 DEF Surplus
<1> HIDE DEF q, last, T
<1>6. /\ ScreenIsSound(s)' /\ how[s] = "none" /\ how'[s] = "keep" /\ doomed'[s] = q
      /\ seen'[s] = {dir[i].run : i \in listed} /\ newest'[s] = {dir[i].run : i \in last}
      /\ ChoiceTypes'
  BY <1>0, <1>3 DEF ScreenIsSound, ChoiceTypes
<1>7. /\ Robbed(s)' <=> Robbed(s)
      /\ FilesAreKnown(s)'
  BY <1>0, <1>3, ChoiceFrame
<1>8. /\ \A i \in out : dir[i].name \in Named(q)
      /\ \A x \in Named(q) : \E i \in out : x = dir[i].name
  BY DEF Named, q
<1>9. CleanIsComplete(s)' /\ CleanIsHonest(s)'
  BY <1>0, <1>3, <1>6, <1>7 DEF ChoiceIsSound, CleanIsComplete, CleanIsHonest
<1>10. SeenIsKnown(s)'
  <2>1. \A i \in DOMAIN dir : dir[i].run \in DOMAIN runs
    BY <1>0 DEF InDir
  <2> QED
    BY <1>3, <1>5, <1>6, <2>1 DEF SeenIsKnown, last
<1>11. KeepCounts(s)'
  <2>1. Left(s)' \subseteq T
    <3> SUFFICES ASSUME NEW i \in listed, NEW p \in Pairs(dir), p[2] = dir[i].run,
                        p[1] \notin Named(q)
                 PROVE  dir[i].run \in T
      BY <1>3, <1>6 DEF Left
    <3>1. i \in 1 .. Len(dir)
      BY <1>1, <1>5
    <3>2. p[1] = dir[i].name
      BY <1>0, <3>1 DEF Pairs, IsDir
    <3>3. i \notin out
      BY <1>8, <3>2
    <3> QED
      BY <3>3 DEF T
  <2>2. Cardinality(Left(s)') <= Cardinality(T) /\ IsFiniteSet(Left(s)')
    BY <1>4, <2>1, FS_Subset
  <2>3. Cardinality(Left(s)') \in Nat /\ Cardinality(T) \in Nat
    BY <1>4, <2>2, FS_CardinalityType
  <2>4. Cardinality(Left(s)') <= Retain
    BY <1>4, <2>2, <2>3, SomeAreKept
  <2> QED
    BY <2>4 DEF KeepCounts
<1>12. NewestIsSafe(s)'
  <2>1. \A r \in newest'[s] : r \in InDir(dir)
    BY <1>6 DEF InDir, last
  <2>2. ASSUME NEW p \in Pairs(dir), p[2] \in newest'[s], p[1] \in Named(q) PROVE FALSE
    <3>1. PICK j \in 1 .. Len(dir) : Len(dir) < j + Retain /\ p[2] = dir[j].run
      BY <1>1, <1>6, <2>2 DEF last
    <3>2. PICK i \in out : p[1] = dir[i].name
      BY <1>8, <2>2
    <3>3. PICK k \in 1 .. Len(dir) : p = <<dir[k].name, dir[k].run>>
      BY DEF Pairs
    <3>4. k = j
      BY <1>0, <3>1, <3>3 DEF IsDir
    <3>5. k = i
      BY <1>0, <1>1, <1>5, <3>2, <3>3 DEF IsDir
    <3> QED
      BY <1>4, <3>1, <3>4, <3>5
  <2> QED
    BY <1>3, <1>6, <2>1, <2>2 DEF NewestIsSafe
<1>13. ChoiceIsSound(s)'
  BY <1>7, <1>9, <1>10, <1>11, <1>12 DEF ChoiceIsSound
<1>14. \A o \in Sessions \ {s} : /\ screen'[o] = screen[o] /\ at'[o] = at[o]
                                 /\ StaysChosen(o)
  BY <1>0, <1>3 DEF StaysChosen, ChoiceTypes
<1>15. /\ screen' \in [Sessions -> {"home", "running", "after", "prompt", "leaving", "exited"}]
       /\ at' \in [Sessions -> {"drain", "flush", "key"}]
       /\ screen[s] # "exited" /\ (screen'[s] = "running" <=> screen[s] = "running")
  BY <1>0, <1>3
<1> QED
  BY <1>0, <1>3, <1>6, <1>13, <1>14, <1>15, QuietKeeps

LEMMA LeaveKeeps ==
  ASSUME SessionInv, NEW s \in Sessions, Leave(s)
  PROVE  SessionInv'
<1>0. /\ Types /\ ScreenIsSound(s) /\ ChoiceIsSound(s) /\ IsDir(dir)
      /\ screen \in [Sessions -> {"home", "running", "after", "prompt", "leaving", "exited"}]
      /\ at \in [Sessions -> {"drain", "flush", "key"}]
  BY DEF SessionInv, Types, Screens, ChoicesAreSound
<1>1. /\ screen[s] = "leaving" /\ DOMAIN doomed[s] = {}
      /\ screen' = [screen EXCEPT ![s] = "exited"] /\ at' = [at EXCEPT ![s] = "key"]
      /\ UNCHANGED <<runs, files, doomed, how, seen, newest, removed>>
  BY DEF Leave, Show, leave
<1>2. ScreenIsSound(s)'
  BY <1>0, <1>1 DEF ScreenIsSound
<1>3. dir' = dir \/ \E i \in DOMAIN dir : dir' = Append(RemoveAt(dir, i), dir[i])
  BY DEF Leave
<1>4. IsDir(dir') /\ Pairs(dir') = Pairs(dir) /\ \A r : LinesOf(dir', r) = LinesOf(dir, r)
  <2>1. CASE dir' = dir
    BY <1>0, <2>1
  <2>2. ASSUME NEW i \in DOMAIN dir, dir' = Append(RemoveAt(dir, i), dir[i])
        PROVE  /\ IsDir(dir') /\ Pairs(dir') = Pairs(dir)
               /\ \A r : LinesOf(dir', r) = LinesOf(dir, r)
    <3>1. i \in 1 .. Len(dir) /\ dir[i] \in LogFile
      BY <1>0, DirIsSeq
    <3>2. LinesOf(dir, dir[i].run) = dir[i].lines
      BY <1>0, <3>1, LinesAt
    <3> QED
      BY <1>0, <2>2, <3>1, <3>2, OneIsMoved
  <2> QED
    BY <1>3, <2>1, <2>2
<1> QED
  BY <1>0, <1>1, <1>2, <1>4, QuietKeeps DEF Types, StaysChosen, ChoiceTypes

LEMMA KillKeeps ==
  ASSUME SessionInv, NEW s \in Sessions, Kill(s)
  PROVE  SessionInv'
<1>0. /\ Types /\ ScreenIsSound(s) /\ ChoiceIsSound(s) /\ IsDir(dir)
      /\ screen \in [Sessions -> {"home", "running", "after", "prompt", "leaving", "exited"}]
      /\ at \in [Sessions -> {"drain", "flush", "key"}]
      /\ ChoiceTypes
  BY DEF SessionInv, Types, Screens, ChoicesAreSound
<1>1. /\ screen[s] # "exited" /\ how' = [how EXCEPT ![s] = "killed"]
      /\ doomed' = [doomed EXCEPT ![s] = <<>>]
      /\ seen' = [seen EXCEPT ![s] = {}] /\ newest' = [newest EXCEPT ![s] = {}]
      /\ screen' = [screen EXCEPT ![s] = "exited"] /\ at' = [at EXCEPT ![s] = "key"]
      /\ UNCHANGED <<files, removed>>
  BY DEF Kill, Show, Choice
<1>2. /\ ScreenIsSound(s)' /\ how'[s] = "killed" /\ screen'[s] = "exited"
      /\ DOMAIN doomed'[s] = {} /\ seen'[s] = {} /\ newest'[s] = {}
      /\ ChoiceTypes' /\ \A o \in Sessions \ {s} : StaysChosen(o)
      /\ screen' \in [Sessions -> {"home", "running", "after", "prompt", "leaving", "exited"}]
      /\ at' \in [Sessions -> {"drain", "flush", "key"}]
  BY <1>0, <1>1 DEF ScreenIsSound, ChoiceTypes, StaysChosen
<1>3. CASE screen[s] # "running"
  <2>1. UNCHANGED <<dir, runs>>
    BY <1>3 DEF Kill
  <2>2. ChoiceIsSound(s)'
    BY <1>0, <1>1, <1>2, <2>1, StoppedIsSound
  <2> QED
    BY <1>0, <1>1, <1>2, <1>3, <2>1, <2>2, QuietKeeps DEF Types
<1>4. CASE screen[s] = "running"
  <2>1. PICK r : r = Current(s)
    OBVIOUS
  <2>2. /\ IsCurrent(s, r) /\ r \in DOMAIN runs /\ runs[r] \in Run /\ runs[r].by = s
        /\ runs[r].due \in 1 .. MaxEvents + 2 /\ runs[r].drawn \in 0 .. MaxEvents + 2
        /\ RunIsSound(r) /\ (r \in InDir(dir) => LogIsSound(r))
        /\ LinesOf(dir, r) \in Nat
    BY <1>4, <2>1, RunOnScreen
  <2> DEFINE x == [runs[r] EXCEPT !.open = FALSE, !.ended = FALSE, !.sent = runs[r].due - 1]
  <2>3. /\ runs' = [runs EXCEPT ![r] = x]
        /\ dir' \in IF runs[r].open THEN Spilled(dir, r, runs[r].due) ELSE {dir}
    BY <1>4, <2>1 DEF Kill
  <2>4. /\ x \in Run /\ x.by = s /\ x.sent = runs[r].due - 1 /\ ~x.ended
        /\ x.due = runs[r].due /\ x.drawn = runs[r].drawn /\ x.logged = runs[r].logged
        /\ ~x.open /\ x.err = runs[r].err
    <3>1. runs[r].due - 1 \in 0 .. MaxEvents + 1
      BY <2>2, Bounds
    <3>2. x \in Run
      BY <2>2, <3>1 DEF Run
    <3>3. /\ x.by = s /\ x.sent = runs[r].due - 1 /\ x.due = runs[r].due
          /\ x.drawn = runs[r].drawn
      BY <2>2 DEF Run
    <3>4. ~x.ended /\ ~x.open /\ x.logged = runs[r].logged /\ x.err = runs[r].err
      BY <2>2 DEF Run
    <3> QED
      BY <3>2, <3>3, <3>4
  <2> HIDE DEF x
  <2>5. runs[r].due \in Nat
    BY <2>2, Bounds
  <2>6. /\ IsDir(dir') /\ Pairs(dir') = Pairs(dir)
        /\ \A q : q # r => LinesOf(dir', q) = LinesOf(dir, q)
        /\ r \in InDir(dir) => LinesOf(dir', r) \in LinesOf(dir, r) .. runs[r].due
    <3>1. CASE dir' \in Spilled(dir, r, runs[r].due)
      BY <1>0, <2>5, <3>1, SpilledIs
    <3>2. CASE dir' = dir /\ dir' \notin Spilled(dir, r, runs[r].due)
      BY <1>0, <2>2, <2>5, <3>2 DEF LogIsSound
    <3> QED
      BY <2>3, <3>1, <3>2
  <2>7. WriterStep(s, x)
    BY <1>0, <1>1, <1>2, <1>4, <2>1, <2>3, <2>4, <2>6 DEF WriterStep
  <2>8. /\ \A o, q : IsCurrent(o, q)' <=> IsCurrent(o, q)
        /\ runs'[r] = x /\ InDir(dir') = InDir(dir) /\ DOMAIN runs' = DOMAIN runs
    BY <2>1, <2>7, WriterKeeps
  <2>9. \A q \in DOMAIN runs : runs'[q].by = runs[q].by
    BY <1>0, <2>2, <2>3, <2>4, OneRunChanges
  <2>10. ChoiceIsSound(s)'
    BY <1>0, <1>1, <1>2, <2>6, <2>8, <2>9, StoppedIsSound
  <2>11. ~Here(r)'
    BY <1>2, <2>4, <2>8 DEF Here
  <2>12. RunIsSound(r)'
    BY <1>1, <2>2, <2>4, <2>5, <2>8, <2>11 DEF RunIsSound
  <2>13. ASSUME r \in InDir(dir) PROVE LogIsSound(r)'
    <3>1. /\ runs'[r].logged /\ runs'[r].due = runs[r].due /\ runs'[r].drawn = runs[r].drawn
          /\ LinesOf(dir', r) \in LinesOf(dir, r) .. runs[r].due
          /\ screen'[runs'[r].by] = "exited"
      BY <1>2, <2>2, <2>4, <2>6, <2>8, <2>13 DEF LogIsSound
    <3>2. ~runs'[r].err => runs[r].drawn <= LinesOf(dir, r)
      BY <2>2, <2>4, <2>8, <2>13 DEF LogIsSound
    <3> QED
      BY <2>2, <2>5, <3>1, <3>2 DEF LogIsSound
  <2> QED
    BY <1>2, <2>1, <2>7, <2>10, <2>12, <2>13, WriterIsRight
<1> QED
  BY <1>3, <1>4

\* A session goes from the menu or from a panel to a run of its own.
LEMMA OnceBegun ==
  ASSUME SessionInv, NEW s \in Sessions, NEW log \in BOOLEAN, BeginRun(s, log),
         NEW m, m = Len(runs) + 1,
         UNCHANGED <<how, doomed>>,
         removed' = removed, InDir(dir) \subseteq InDir(dir'),
         \A q \in InDir(dir) : LinesOf(dir', q) = LinesOf(dir, q)
  PROVE  /\ Screens'
         /\ \A q \in DOMAIN runs : RunIsSound(q)'
         /\ \A q \in InDir(dir) : LogIsSound(q)'
         /\ Here(m)'
<1>0. Types /\ \A o \in Sessions : ScreenIsSound(o)
  BY DEF SessionInv, Screens
<1>1. /\ DOMAIN runs' = DOMAIN runs \cup {m} /\ m \notin DOMAIN runs
      /\ \A q \in DOMAIN runs : runs'[q] = runs[q]
      /\ runs'[m] = NewRun(s, log)
      /\ \A q : IsCurrent(s, q)' <=> q = m
      /\ m \in RunsOf(s)'
      /\ \A o, q : o # s => (IsCurrent(o, q)' <=> IsCurrent(o, q))
  BY <1>0, OneRunBegins
<1>2. /\ screen[s] \in {"home", "after"}
      /\ screen' = [screen EXCEPT ![s] = "running"] /\ at' = [at EXCEPT ![s] = "drain"]
  BY DEF BeginRun, Show
<1>3. /\ screen'[s] = "running" /\ at'[s] = "drain"
      /\ \A o \in Sessions \ {s} : screen'[o] = screen[o] /\ at'[o] = at[o]
  BY <1>0, <1>2 DEF Types
<1>4. ASSUME NEW o \in Sessions PROVE ScreenIsSound(o)'
  <2>1. CASE o = s
    <3>1. IsCurrent(s, m)' /\ m \in RunsOf(s)'
      BY <1>1
    <3>2. how'[s] = "none" /\ DOMAIN doomed'[s] = {}
      BY <1>0, <1>2 DEF ScreenIsSound
    <3>3. \E q \in RunsOf(s)' : IsCurrent(s, q)'
      BY <3>1
    <3> QED
      BY <1>3, <2>1, <3>2, <3>3 DEF ScreenIsSound
  <2>2. CASE o # s
    BY <1>0, <1>1, <1>3, <2>2, SameScreen
  <2> QED
    BY <2>1, <2>2
<1>5. ASSUME NEW q \in DOMAIN runs PROVE RunIsSound(q)'
  <2>1. RunIsSound(q) /\ runs'[q] = runs[q] /\ runs[q].by \in Sessions /\ q # m
    BY <1>0, <1>1, RunsAreTyped DEF SessionInv, RunsAreSound, Run
  <2>2. Here(q)' <=> Here(q)
    <3>1. CASE runs[q].by = s
      BY <1>1, <1>2, <2>1, <3>1 DEF Here
    <3>2. CASE runs[q].by # s
      BY <1>1, <1>3, <2>1, <3>2 DEF Here
    <3> QED
      BY <3>1, <3>2
  <2> QED
    BY <2>1, <2>2, SameRun
<1>6. ASSUME NEW q \in InDir(dir) PROVE LogIsSound(q)'
  <2>1. q \in DOMAIN runs
    BY <1>0 DEF Types
  <2>2. LogIsSound(q) /\ runs'[q] = runs[q] /\ runs[q].by \in Sessions
    BY <1>0, <1>1, <2>1, RunsAreTyped DEF SessionInv, LogsAreSound, Run
  <2>3. screen[runs[q].by] = "exited" => screen'[runs[q].by] = "exited"
    BY <1>2, <1>3, <2>2
  <2> QED
    BY <2>2, <2>3, SameLog
<1>7. Here(m)'
  <2>1. IsCurrent(s, m)' /\ runs'[m].by = s
    BY <1>1 DEF NewRun
  <2> QED
    BY <1>3, <2>1 DEF Here
<1> QED
  BY <1>4, <1>5, <1>6, <1>7 DEF Screens

LEMMA BeginWithoutKeeps ==
  ASSUME SessionInv, NEW s \in Sessions, BeginWithout(s)
  PROVE  SessionInv'
<1>0. Types /\ IsDir(dir)
  BY DEF SessionInv, Types
<1>1. PICK m : m = Len(runs) + 1
  OBVIOUS
<1>2. /\ BeginRun(s, FALSE)
      /\ UNCHANGED <<dir, files, doomed, how, seen, newest, removed>>
  BY DEF BeginWithout, leave
<1>3. /\ Screens'
      /\ \A q \in DOMAIN runs : RunIsSound(q)'
      /\ \A q \in InDir(dir) : LogIsSound(q)'
      /\ Here(m)'
  BY <1>1, <1>2, OnceBegun
<1>4. /\ runs' \in Seq(Run) /\ Len(runs') <= MaxRuns
      /\ DOMAIN runs' = DOMAIN runs \cup {m} /\ m \notin DOMAIN runs
      /\ \A q \in DOMAIN runs : runs'[q] = runs[q]
      /\ runs'[m] = NewRun(s, FALSE)
  BY <1>0, <1>1, <1>2, OneRunBegins
<1>5. RunIsSound(m)'
  <2>1. /\ runs'[m].due = 1 /\ runs'[m].sent = 0 /\ ~runs'[m].open /\ ~runs'[m].logged
    BY <1>4 DEF NewRun
  <2> QED
    BY <2>1, Bounds DEF RunIsSound
<1>6. RunsAreSound' /\ LogsAreSound'
  BY <1>2, <1>3, <1>4, <1>5 DEF RunsAreSound, LogsAreSound
<1>7. ASSUME NEW o \in Sessions PROVE ChoiceIsSound(o)'
  BY <1>0, <1>2, <1>4, SameChoice DEF SessionInv, ChoicesAreSound, StaysChosen
<1>8. Types'
  <2>1. /\ screen' \in [Sessions -> {"home", "running", "after", "prompt", "leaving", "exited"}]
        /\ at' \in [Sessions -> {"drain", "flush", "key"}]
    BY <1>0, <1>2 DEF BeginRun, Show, Types
  <2> QED
    BY <1>0, <1>2, <1>4, <2>1 DEF Types, ChoiceTypes
<1> QED
  BY <1>3, <1>6, <1>7, <1>8 DEF SessionInv, ChoicesAreSound

LEMMA OneMorePair ==
  ASSUME NEW d, IsDir(d), NEW m, IsDir(m), NEW z \in Pairs(m), Pairs(m) = Pairs(d) \cup {z}
  PROVE  Names(m) = Names(d) \cup {z[1]} /\ InDir(m) = InDir(d) \cup {z[2]}
<1>1. /\ Names(d) = {p[1] : p \in Pairs(d)} /\ Names(m) = {p[1] : p \in Pairs(m)}
      /\ InDir(d) = {p[2] : p \in Pairs(d)} /\ InDir(m) = {p[2] : p \in Pairs(m)}
  BY DirIsSeq
<1> QED
  BY <1>1

\* What a new log, under a name that was free, means to each session.
LEMMA NewLogIsHeld ==
  ASSUME Types, NEW s \in Sessions, NEW o \in Sessions, ChoiceIsSound(o), how[s] = "none",
         NEW m, m \notin DOMAIN runs,
         DOMAIN runs' = DOMAIN runs \cup {m}, runs'[m].by = s,
         \A q \in DOMAIN runs : runs'[q] = runs[q],
         NEW name \in LogName, name \notin Names(dir),
         IsDir(dir'), Pairs(dir') = Pairs(dir) \cup {<<name, m>>},
         files'[s] = Append(files[s], name), o # s => files'[o] = files[o],
         UNCHANGED <<doomed, how, seen, newest, removed>>
  PROVE  ChoiceIsSound(o)'
<1>1. IsDir(dir) /\ files[o] \in Seq(LogName) /\ m \notin seen[o] /\ m \notin newest[o]
  BY DEF Types, ChoiceIsSound, SeenIsKnown
<1>2. Names(dir') = Names(dir) \cup {name} /\ InDir(dir') = InDir(dir) \cup {m}
  <2>1. PICK z : z = <<name, m>>
    OBVIOUS
  <2>2. z \in Pairs(dir') /\ Pairs(dir') = Pairs(dir) \cup {z} /\ z[1] = name /\ z[2] = m
    BY <2>1
  <2> QED
    BY <1>1, <2>2, OneMorePair
<1>3. \A p \in Pairs(dir) : /\ p[1] \in Names(dir) /\ p[2] \in DOMAIN runs
                            /\ runs'[p[2]].by = runs[p[2]].by
  BY <1>1, DirIsSeq DEF Types
<1>4. \A x \in removed : runs'[x[3]].by = runs[x[3]].by
  BY DEF Types
<1>5. Robbed(o)' <=> Robbed(o)
  BY <1>4 DEF Robbed
<1>6. \A p \in Pairs(dir') : p \in Pairs(dir) \/ (p[1] = name /\ p[2] = m)
  OBVIOUS
<1>7. /\ files[s] \in Seq(LogName) /\ Len(files[s]) \in Nat
      /\ Len(files'[s]) = Len(files[s]) + 1
      /\ \A k \in 1 .. Len(files[s]) : files'[s][k] = files[s][k]
      /\ files'[s][Len(files[s]) + 1] = name
      /\ DOMAIN files[s] = 1 .. Len(files[s]) /\ DOMAIN files'[s] = 1 .. Len(files'[s])
  <2>1. files[s] \in Seq(LogName)
    BY DEF Types
  <2> QED
    BY <2>1, AppendProperties, LenProperties
<1>8. Named(files'[s]) = Named(files[s]) \cup {name}
  <2>1. \A k \in 1 .. Len(files'[s]) : k \in 1 .. Len(files[s]) \/ k = Len(files[s]) + 1
    BY <1>7
  <2>2. Len(files[s]) + 1 \in 1 .. Len(files'[s])
        /\ \A k \in 1 .. Len(files[s]) : k \in 1 .. Len(files'[s])
    BY <1>7
  <2> QED
    BY <1>7, <2>1, <2>2 DEF Named
<1>9. FilesAreKnown(o)'
  <2>1. FilesAreKnown(o)
    BY DEF ChoiceIsSound
  <2>2. \A p \in Pairs(dir') : runs'[p[2]].by = o => p[1] \in Named(files'[o])
    BY <1>3, <1>6, <1>8, <2>1 DEF FilesAreKnown
  <2> QED
    BY <2>2 DEF FilesAreKnown
<1>10. CleanIsComplete(o)'
  <2> SUFFICES ASSUME how[o] = "clean"
               PROVE  \A p \in Pairs(dir') : p[2] \in seen[o] => p[1] \in Named(doomed[o])
    BY DEF CleanIsComplete
  <2> QED
    BY <1>1, <1>6 DEF ChoiceIsSound, CleanIsComplete
<1>11. ASSUME NEW q, Holds(o, q) PROVE Holds(o, q)'
  <2>1. \A k \in DOMAIN q : \E p \in Pairs(dir') : p[1] = q[k] /\ runs'[p[2]].by = o
    BY <1>3, <1>11 DEF Holds
  <2> QED
    BY <1>11, <2>1 DEF Holds
<1>12. ASSUME NEW q, q = files'[s], o = s, Holds(s, files[s]) PROVE Holds(s, q)'
  <2>1. \A k \in 1 .. Len(q) : k \in 1 .. Len(files[s]) \/ k = Len(files[s]) + 1
    BY <1>7, <1>12
  <2>2. \A k \in 1 .. Len(files[s]) :
          /\ q[k] = files[s][k] /\ q[k] \in Names(dir)
          /\ \E p \in Pairs(dir) : p[1] = q[k] /\ runs[p[2]].by = s
    <3>1. \A k \in 1 .. Len(files[s]) :
            \E p \in Pairs(dir) : p[1] = files[s][k] /\ runs[p[2]].by = s
      BY <1>7, <1>12 DEF Holds
    <3>2. \A k \in 1 .. Len(files[s]) : q[k] = files[s][k]
      BY <1>7, <1>12
    <3> QED
      BY <1>3, <3>1, <3>2
  <2>3. q[Len(files[s]) + 1] = name
    BY <1>7, <1>12
  <2>4. ASSUME NEW k \in 1 .. Len(q), NEW l \in 1 .. Len(q), q[k] = q[l] PROVE k = l
    BY <1>12, <2>1, <2>2, <2>3, <2>4 DEF Holds
  <2>5. ASSUME NEW k \in 1 .. Len(q) PROVE \E p \in Pairs(dir') : p[1] = q[k] /\ runs'[p[2]].by = s
    <3>1. CASE k \in 1 .. Len(files[s])
      BY <1>3, <2>2, <3>1
    <3>2. CASE k = Len(files[s]) + 1
      <4>1. <<name, m>> \in Pairs(dir')
        OBVIOUS
      <4>2. <<name, m>>[1] = q[k] /\ runs'[<<name, m>>[2]].by = s
        BY <2>3, <3>2
      <4> QED
        BY <4>1, <4>2
    <3> QED
      BY <2>1, <3>1, <3>2
  <2> QED
    BY <1>7, <1>12, <2>4, <2>5 DEF Holds
<1>13. CleanIsHonest(o)'
  <2>1. CleanIsHonest(o)
    BY DEF ChoiceIsSound
  <2>2. ASSUME ~Robbed(o)', how'[o] = "none" PROVE Holds(o, files[o])'
    <3>1. PICK q : q = files'[o]
      OBVIOUS
    <3>2. Holds(o, files[o])
      BY <1>5, <2>1, <2>2 DEF CleanIsHonest
    <3>3. Holds(o, q)'
      BY <1>11, <1>12, <3>1, <3>2
    <3> QED
      BY <3>1, <3>3
  <2>3. ASSUME ~Robbed(o)', how'[o] = "clean" PROVE Holds(o, doomed[o])'
    <3>1. PICK q : q = doomed[o]
      OBVIOUS
    <3>2. Holds(o, q)'
      BY <1>5, <1>11, <2>1, <2>3, <3>1 DEF CleanIsHonest
    <3> QED
      BY <3>1, <3>2
  <2>4. ~Robbed(o)' =>
          \A x \in removed' : x[1] = o /\ x[2] = "clean" => runs'[x[3]].by = o
    BY <1>4, <1>5, <2>1 DEF CleanIsHonest
  <2> QED
    BY <2>2, <2>3, <2>4 DEF CleanIsHonest
<1>14. KeepCounts(o)'
  <2>1. Left(o)' = Left(o)
    BY <1>1, <1>6 DEF Left
  <2> QED
    BY <2>1 DEF ChoiceIsSound, KeepCounts
<1>15. NewestIsSafe(o)' /\ SeenIsKnown(o)'
  BY <1>1, <1>2, <1>6 DEF ChoiceIsSound, NewestIsSafe, SeenIsKnown
<1> QED
  BY <1>9, <1>10, <1>13, <1>14, <1>15 DEF ChoiceIsSound

LEMMA BeginKeeps ==
  ASSUME SessionInv, NEW s \in Sessions, NEW a \in Actions, NEW t \in Seconds, Begin(s, a, t)
  PROVE  SessionInv'
<1>0. Types /\ IsDir(dir) /\ files \in [Sessions -> Seq(LogName)]
  BY DEF SessionInv, Types
<1>1. PICK m : m = Len(runs) + 1
  OBVIOUS
<1>2. PICK n \in Free(a, t) : MadeLog(s, Name(a, t, n))
  BY DEF Begin
<1>3. PICK name : name = Name(a, t, n)
  OBVIOUS
<1>4. name \in LogName /\ name \notin Names(dir)
  BY <1>2, <1>3, SomeName DEF Free, Name, LogName
<1> DEFINE e == [name |-> name, run |-> m, lines |-> 0]
<1>5. /\ BeginRun(s, TRUE)
      /\ dir' = Append(dir, e)
      /\ files' = [files EXCEPT ![s] = Append(files[s], name)]
      /\ UNCHANGED <<doomed, how, seen, newest, removed>>
  BY <1>1, <1>2, <1>3 DEF Begin, MadeLog, leave
<1>6. /\ runs' \in Seq(Run) /\ Len(runs') <= MaxRuns
      /\ DOMAIN runs' = DOMAIN runs \cup {m} /\ m \notin DOMAIN runs
      /\ \A q \in DOMAIN runs : runs'[q] = runs[q]
      /\ runs'[m] = NewRun(s, TRUE)
  BY <1>0, <1>1, <1>5, OneRunBegins
<1>7. e \in LogFile /\ e.name = name /\ e.run = m /\ e.lines = 0 /\ m \notin InDir(dir)
  <2>1. m \in Nat
    BY <1>0, <1>1, RunsAreTyped
  <2> QED
    BY <1>0, <1>4, <1>6, <2>1 DEF LogFile, Types
<1> HIDE DEF e
<1>8. /\ IsDir(dir') /\ Pairs(dir') = Pairs(dir) \cup {<<name, m>>}
      /\ \A r : LinesOf(dir', r) = IF r = m THEN 0 ELSE LinesOf(dir, r)
  BY <1>0, <1>4, <1>5, <1>7, AppendedIs
<1>9. InDir(dir') = InDir(dir) \cup {m}
  <2>1. PICK z : z = <<name, m>>
    OBVIOUS
  <2>2. z \in Pairs(dir') /\ Pairs(dir') = Pairs(dir) \cup {z} /\ z[1] = name /\ z[2] = m
        /\ IsDir(dir')
    BY <1>8, <2>1
  <2> QED
    BY <1>0, <2>2, OneMorePair
<1>10. /\ Screens'
       /\ \A q \in DOMAIN runs : RunIsSound(q)'
       /\ \A q \in InDir(dir) : LogIsSound(q)'
       /\ Here(m)'
  BY <1>1, <1>5, <1>7, <1>8, <1>9, OnceBegun
<1>11. /\ runs'[m].due = 1 /\ runs'[m].sent = 0 /\ runs'[m].drawn = 0 /\ runs'[m].by = s
       /\ runs'[m].open /\ runs'[m].logged /\ ~runs'[m].err
  BY <1>6 DEF NewRun
<1>12. RunIsSound(m)' /\ LogIsSound(m)'
  <2>1. RunIsSound(m)'
    BY <1>9, <1>10, <1>11, Bounds DEF RunIsSound
  <2>2. LinesOf(dir', m) = 0
    BY <1>8
  <2>3. LogIsSound(m)'
    BY <1>11, <2>2 DEF LogIsSound
  <2> QED
    BY <2>1, <2>3
<1>13. RunsAreSound' /\ LogsAreSound'
  BY <1>6, <1>9, <1>10, <1>12 DEF RunsAreSound, LogsAreSound
<1>14. how[s] = "none"
  BY <1>5 DEF BeginRun, SessionInv, Screens, ScreenIsSound
<1>15. ASSUME NEW o \in Sessions PROVE ChoiceIsSound(o)'
  <2>1. files'[s] = Append(files[s], name) /\ (o # s => files'[o] = files[o])
    BY <1>0, <1>5
  <2>2. ChoiceIsSound(o)
    BY DEF SessionInv, ChoicesAreSound
  <2> QED
    BY <1>0, <1>4, <1>5, <1>6, <1>8, <1>11, <1>14, <2>1, <2>2, NewLogIsHeld
<1>16. Types'
  <2>1. /\ screen' \in [Sessions -> {"home", "running", "after", "prompt", "leaving", "exited"}]
        /\ at' \in [Sessions -> {"drain", "flush", "key"}]
    BY <1>0, <1>5 DEF BeginRun, Show, Types
  <2>2. files' \in [Sessions -> Seq(LogName)]
    <3>1. Append(files[s], name) \in Seq(LogName)
      BY <1>0, <1>4, AppendProperties
    <3> QED
      BY <1>0, <1>5, <3>1
  <2> QED
    BY <1>0, <1>5, <1>6, <1>8, <1>9, <2>1, <2>2 DEF Types, ChoiceTypes
<1> QED
  BY <1>10, <1>13, <1>15, <1>16 DEF SessionInv, ChoicesAreSound

\* The names of a list are the one taken off it and those of the rest.
LEMMA OneIsTakenOff ==
  ASSUME NEW q, NEW i \in DOMAIN q, NEW z, z = [j \in DOMAIN q \ {i} |-> q[j]]
  PROVE  /\ DOMAIN z = DOMAIN q \ {i} /\ \A j \in DOMAIN z : z[j] = q[j]
         /\ Named(q) = {q[i]} \cup Named(z)
BY DEF Named

\* The run that goes with a name.
LEMMA GoneIs ==
  ASSUME NEW d, IsDir(d), NEW name
  PROVE  /\ \A p \in Pairs(d) : p[1] = name => p[2] \in InDir(d) \ InDir(Without(d, name))
         /\ \A r \in InDir(d) \ InDir(Without(d, name)) :
              \E p \in Pairs(d) : p[1] = name /\ p[2] = r
<1> DEFINE w == Without(d, name)
<1>1. /\ IsDir(w) /\ Pairs(w) = {p \in Pairs(d) : p[1] # name}
      /\ InDir(d) = {p[2] : p \in Pairs(d)} /\ InDir(w) = {p[2] : p \in Pairs(w)}
  BY WithoutIs, DirIsSeq
<1> HIDE DEF w
<1>2. ASSUME NEW p \in Pairs(d), p[1] = name PROVE p[2] \in InDir(d) \ InDir(w)
  <2>1. ASSUME p[2] \in InDir(w) PROVE FALSE
    <3>1. PICK q \in Pairs(w) : q[2] = p[2]
      BY <1>1, <2>1
    <3>2. q \in Pairs(d) /\ q[1] # name
      BY <1>1
    <3>3. q = p
      BY <3>1, <3>2, PairsDiffer
    <3> QED
      BY <1>2, <3>2, <3>3
  <2> QED
    BY <1>1, <2>1
<1>3. ASSUME NEW r \in InDir(d) \ InDir(w) PROVE \E p \in Pairs(d) : p[1] = name /\ p[2] = r
  BY <1>1
<1> QED
  BY <1>2, <1>3 DEF w

\* What RemoveOne does to session s and its directory.
LEMMA RemoveOneIs ==
  ASSUME SessionInv, NEW s \in Sessions, RemoveOne(s)
  PROVE  \E i, h :
           /\ i \in DOMAIN doomed[s]
           /\ screen[s] = "leaving" /\ h = doomed[s][i] /\ ChoiceTypes'
           /\ DOMAIN doomed'[s] = DOMAIN doomed[s] \ {i}
           /\ \A j \in DOMAIN doomed'[s] : doomed'[s][j] = doomed[s][j]
           /\ Named(doomed[s]) = {h} \cup Named(doomed'[s])
           /\ \A o \in Sessions \ {s} : StaysChosen(o)
           /\ UNCHANGED <<runs, screen, at, files, how, newest>>
           /\ LET gone == InDir(dir) \ InDir(Without(dir, h))
              IN  \/ /\ dir' = Without(dir, h)
                     /\ removed' = removed \cup {<<s, how[s], r>> : r \in gone}
                     /\ UNCHANGED seen
                  \/ /\ seen'[s] = seen[s] \ gone
                     /\ UNCHANGED <<dir, removed>>
<1>0. ChoiceTypes
  BY DEF SessionInv, Types
<1>1. PICK i \in DOMAIN doomed[s] :
        /\ doomed' = [doomed EXCEPT ![s] = [j \in DOMAIN doomed[s] \ {i} |-> doomed[s][j]]]
        /\ LET gone == InDir(dir) \ InDir(Without(dir, doomed[s][i]))
           IN  \/ /\ dir' = Without(dir, doomed[s][i])
                  /\ removed' = removed \cup {<<s, how[s], r>> : r \in gone}
                  /\ UNCHANGED seen
               \/ /\ seen' = [seen EXCEPT ![s] = seen[s] \ gone]
                  /\ UNCHANGED <<dir, removed>>
  BY DEF RemoveOne
<1>2. screen[s] = "leaving" /\ UNCHANGED <<runs, screen, at, files, how, newest>>
  BY DEF RemoveOne, ui
<1>3. /\ doomed'[s] = [j \in DOMAIN doomed[s] \ {i} |-> doomed[s][j]]
      /\ DOMAIN doomed' = Sessions /\ \A o \in Sessions \ {s} : doomed'[o] = doomed[o]
  BY <1>0, <1>1 DEF ChoiceTypes
<1>4. /\ DOMAIN seen' = Sessions /\ \A o \in Sessions \ {s} : seen'[o] = seen[o]
  BY <1>0, <1>1 DEF ChoiceTypes
<1>5. ChoiceTypes' /\ \A o \in Sessions \ {s} : StaysChosen(o)
  BY <1>0, <1>2, <1>3, <1>4 DEF ChoiceTypes, StaysChosen
<1>6. PICK h : h = doomed[s][i]
  OBVIOUS
<1>7. /\ DOMAIN doomed'[s] = DOMAIN doomed[s] \ {i}
      /\ \A j \in DOMAIN doomed'[s] : doomed'[s][j] = doomed[s][j]
      /\ Named(doomed[s]) = {h} \cup Named(doomed'[s])
  BY <1>3, <1>6, OneIsTakenOff
<1>8. seen' = [seen EXCEPT ![s] = seen[s] \ (InDir(dir) \ InDir(Without(dir, h)))]
        => seen'[s] = seen[s] \ (InDir(dir) \ InDir(Without(dir, h)))
  BY <1>0 DEF ChoiceTypes
<1>9. LET gone == InDir(dir) \ InDir(Without(dir, h))
      IN  \/ /\ dir' = Without(dir, h)
             /\ removed' = removed \cup {<<s, how[s], r>> : r \in gone}
             /\ UNCHANGED seen
          \/ /\ seen'[s] = seen[s] \ gone
             /\ UNCHANGED <<dir, removed>>
  BY <1>1, <1>6, <1>8
<1> QED
  BY <1>2, <1>5, <1>6, <1>7, <1>9

\* The names that are left are held as before.
LEMMA RestIsHeld ==
  ASSUME Types, NEW s \in Sessions, NEW q, Holds(s, q), NEW i \in DOMAIN q, NEW z,
         DOMAIN z = DOMAIN q \ {i}, \A j \in DOMAIN z : z[j] = q[j],
         \A p \in Pairs(dir) : p[1] # q[i] => p \in Pairs(dir'), runs' = runs
  PROVE  Holds(s, z)'
<1>1. \A j \in DOMAIN z : z[j] # q[i]
  BY DEF Holds
<1>2. \A j, k \in DOMAIN z : z[j] = z[k] => j = k
  BY DEF Holds
<1>3. \A j \in DOMAIN z : \E p \in Pairs(dir') : p[1] = z[j] /\ runs'[p[2]].by = s
  BY <1>1 DEF Holds
<1> QED
  BY <1>2, <1>3 DEF Holds

\* A log that cannot be removed is one the session cannot answer for.
LEMMA RefusalIsSound ==
  ASSUME SessionInv, NEW s \in Sessions, screen[s] = "leaving",
         NEW i \in DOMAIN doomed[s], NEW h, h = doomed[s][i],
         DOMAIN doomed'[s] = DOMAIN doomed[s] \ {i},
         \A j \in DOMAIN doomed'[s] : doomed'[s][j] = doomed[s][j],
         Named(doomed[s]) = {h} \cup Named(doomed'[s]),
         seen'[s] = seen[s] \ (InDir(dir) \ InDir(Without(dir, h))),
         UNCHANGED <<dir, removed, runs, files, how, newest>>
  PROVE  ChoiceIsSound(s)'
<1>0. Types /\ IsDir(dir) /\ ChoiceIsSound(s) /\ how[s] \in {"clean", "keep"}
  BY DEF SessionInv, Types, ChoicesAreSound, Screens, ScreenIsSound
<1>1. /\ FilesAreKnown(s)' /\ (Robbed(s)' <=> Robbed(s))
      /\ \A q : Holds(s, q)' <=> Holds(s, q)
  BY <1>0, ChoiceFrame
<1>2. \A p \in Pairs(dir) : p[2] \in seen'[s] => p[2] \in seen[s] /\ p[1] # h
  BY <1>0, GoneIs
<1>3. SeenIsKnown(s)' /\ CleanIsComplete(s)'
  BY <1>0, <1>2 DEF ChoiceIsSound, SeenIsKnown, CleanIsComplete
<1>4. CleanIsHonest(s)'
  <2>1. ASSUME NEW q, q = doomed'[s], Holds(s, doomed[s]) PROVE Holds(s, q)'
    <3>1. DOMAIN q = DOMAIN doomed[s] \ {i} /\ \A j \in DOMAIN q : q[j] = doomed[s][j]
      BY <2>1
    <3>2. \A p \in Pairs(dir) : p[1] # doomed[s][i] => p \in Pairs(dir')
      OBVIOUS
    <3> QED
      BY <1>0, <2>1, <3>1, <3>2, RestIsHeld
  <2>2. ASSUME ~Robbed(s)', how'[s] = "clean" PROVE Holds(s, doomed[s])'
    <3>1. PICK q : q = doomed'[s]
      OBVIOUS
    <3>2. Holds(s, doomed[s])
      BY <1>0, <1>1, <2>2 DEF ChoiceIsSound, CleanIsHonest
    <3>3. Holds(s, q)'
      BY <2>1, <3>1, <3>2
    <3> QED
      BY <3>1, <3>3
  <2>3. ~Robbed(s)' => \A x \in removed' : x[1] = s /\ x[2] = "clean" => runs'[x[3]].by = s
    BY <1>0, <1>1 DEF ChoiceIsSound, CleanIsHonest
  <2>4. how'[s] # "none"
    BY <1>0
  <2> QED
    BY <2>2, <2>3, <2>4 DEF CleanIsHonest
<1>5. KeepCounts(s)'
  <2> SUFFICES ASSUME how[s] = "keep" PROVE Cardinality(Left(s)') <= Retain
    BY DEF KeepCounts
  <2>1. Cardinality(Left(s)) <= Retain
    BY <1>0 DEF ChoiceIsSound, KeepCounts
  <2>2. Left(s)' \subseteq Left(s)
    BY <1>2 DEF Left
  <2> QED
    BY <1>0, <2>1, <2>2, FewerAreLeft
<1>6. NewestIsSafe(s)'
  BY <1>0 DEF ChoiceIsSound, NewestIsSafe
<1> QED
  BY <1>1, <1>3, <1>4, <1>5, <1>6 DEF ChoiceIsSound

\* What the removal of a log, whoever does it, means to each session.
LEMMA RemovalIsSound ==
  ASSUME SessionInv, NEW s \in Sessions, NEW o \in Sessions, screen[s] = "leaving",
         NEW i \in DOMAIN doomed[s], NEW h, h = doomed[s][i],
         DOMAIN doomed'[s] = DOMAIN doomed[s] \ {i},
         \A j \in DOMAIN doomed'[s] : doomed'[s][j] = doomed[s][j],
         Named(doomed[s]) = {h} \cup Named(doomed'[s]),
         o # s => doomed'[o] = doomed[o],
         dir' = Without(dir, h),
         removed' = removed \cup {<<s, how[s], r>> : r \in InDir(dir) \ InDir(dir')},
         UNCHANGED <<runs, files, how, seen, newest>>
  PROVE  ChoiceIsSound(o)'
<1>0. Types /\ IsDir(dir) /\ ChoiceIsSound(o) /\ ChoiceIsSound(s) /\ how[s] \in {"clean", "keep"}
  BY DEF SessionInv, Types, ChoicesAreSound, Screens, ScreenIsSound
<1>1. IsDir(dir') /\ Pairs(dir') = {p \in Pairs(dir) : p[1] # h}
  BY <1>0, WithoutIs
<1>2. /\ \A p \in Pairs(dir) : p[1] = h => p[2] \in InDir(dir) \ InDir(dir')
      /\ \A r \in InDir(dir) \ InDir(dir') : \E p \in Pairs(dir) : p[1] = h /\ p[2] = r
  BY <1>0, GoneIs
<1>3. ASSUME NEW r \in InDir(dir) \ InDir(dir')
      PROVE  \E x \in removed' : x[1] = s /\ x[2] = how[s] /\ x[3] = r
  <2>1. <<s, how[s], r>> \in removed'
    OBVIOUS
  <2> QED
    BY <2>1
<1>4. /\ removed \subseteq removed'
      /\ \A x \in removed' : x \in removed \/
           (x[1] = s /\ x[2] = how[s] /\ x[3] \in InDir(dir) \ InDir(dir'))
  OBVIOUS
<1>5. ~Robbed(o)' => ~Robbed(o)
  BY <1>4 DEF Robbed
<1>6. Named(doomed'[o]) \subseteq Named(doomed[o])
      /\ (\A x \in Named(doomed[o]) : x \in Named(doomed'[o]) \/ x = h)
  BY <1>0
<1>7. FilesAreKnown(o)' /\ SeenIsKnown(o)'
  BY <1>0, <1>1 DEF ChoiceIsSound, FilesAreKnown, SeenIsKnown
<1>8. CleanIsComplete(o)'
  BY <1>0, <1>1, <1>6 DEF ChoiceIsSound, CleanIsComplete
<1>9. KeepCounts(o)'
  <2> SUFFICES ASSUME how[o] = "keep" PROVE Cardinality(Left(o)') <= Retain
    BY DEF KeepCounts
  <2>1. Cardinality(Left(o)) <= Retain
    BY <1>0 DEF ChoiceIsSound, KeepCounts
  <2>2. Left(o)' \subseteq Left(o)
    BY <1>1, <1>6 DEF Left
  <2> QED
    BY <1>0, <2>1, <2>2, FewerAreLeft
<1>10. NewestIsSafe(o)'
  <2>1. NewestIsSafe(o)
    BY <1>0 DEF ChoiceIsSound
  <2>2. ASSUME NEW r \in newest[o] \ InDir(dir')
        PROVE  \E x \in removed' : x[1] # o /\ x[3] = r
    <3>1. CASE r \notin InDir(dir)
      BY <1>4, <2>1, <3>1 DEF NewestIsSafe
    <3>2. CASE r \in InDir(dir)
      <4>1. PICK p \in Pairs(dir) : p[1] = h /\ p[2] = r
        BY <1>2, <2>2, <3>2
      <4>2. o # s
        BY <2>1, <4>1 DEF NewestIsSafe
      <4> QED
        BY <1>3, <2>2, <3>2, <4>2
    <3> QED
      BY <3>1, <3>2
  <2>3. \A p \in Pairs(dir') : p[2] \in newest[o] => p[1] \notin Named(doomed'[o])
    BY <1>1, <1>6, <2>1 DEF NewestIsSafe
  <2> QED
    BY <2>2, <2>3 DEF NewestIsSafe
<1>11. ASSUME ~Robbed(o)', NEW q, Holds(o, q), o # s PROVE Holds(o, q)'
  <2>1. ASSUME NEW k \in DOMAIN q
        PROVE  \E p \in Pairs(dir') : p[1] = q[k] /\ runs[p[2]].by = o
    <3>1. PICK p \in Pairs(dir) : p[1] = q[k] /\ runs[p[2]].by = o
      BY <1>11 DEF Holds
    <3>2. p[1] # h
      BY <1>2, <1>3, <1>11, <3>1 DEF Robbed
    <3> QED
      BY <1>1, <3>1, <3>2
  <2> QED
    BY <1>11, <2>1 DEF Holds
<1>12. ASSUME NEW q, q = doomed'[s], Holds(s, doomed[s]) PROVE Holds(s, q)'
  <2>1. DOMAIN q = DOMAIN doomed[s] \ {i} /\ \A j \in DOMAIN q : q[j] = doomed[s][j]
    BY <1>12
  <2>2. \A p \in Pairs(dir) : p[1] # doomed[s][i] => p \in Pairs(dir')
    BY <1>1
  <2>3. runs' = runs /\ i \in DOMAIN doomed[s]
    OBVIOUS
  <2>4. \A j \in DOMAIN q : q[j] # doomed[s][i]
    BY <1>12, <2>1 DEF Holds
  <2>5. \A j, k \in DOMAIN q : q[j] = q[k] => j = k
    BY <1>12, <2>1 DEF Holds
  <2>6. \A j \in DOMAIN q : \E p \in Pairs(dir') : p[1] = q[j] /\ runs'[p[2]].by = s
    BY <1>12, <2>1, <2>2, <2>3, <2>4 DEF Holds
  <2> QED
    BY <2>5, <2>6 DEF Holds
<1>13. CleanIsHonest(o)'
  <2>1. CleanIsHonest(o)
    BY <1>0 DEF ChoiceIsSound
  <2> SUFFICES ASSUME ~Robbed(o)'
               PROVE  /\ how'[o] = "none" => Holds(o, files[o])'
                      /\ how'[o] = "clean" => Holds(o, doomed[o])'
                      /\ \A x \in removed' : x[1] = o /\ x[2] = "clean" => runs'[x[3]].by = o
    BY DEF CleanIsHonest
  <2>2. ASSUME how'[o] = "none" PROVE Holds(o, files[o])'
    <3>1. PICK q : q = files[o]
      OBVIOUS
    <3>2. o # s /\ Holds(o, q)
      BY <1>0, <1>5, <2>1, <2>2, <3>1 DEF CleanIsHonest
    <3>3. Holds(o, q)'
      BY <1>11, <3>2
    <3> QED
      BY <3>1, <3>3
  <2>3. ASSUME how'[o] = "clean" PROVE Holds(o, doomed[o])'
    <3>1. Holds(o, doomed[o])
      BY <1>5, <2>1, <2>3 DEF CleanIsHonest
    <3>2. PICK q : q = doomed'[o]
      OBVIOUS
    <3>3. CASE o = s
      <4>1. Holds(s, q)'
        BY <1>12, <3>1, <3>2, <3>3
      <4> QED
        BY <3>2, <3>3, <4>1
    <3>4. CASE o # s
      <4>1. q = doomed[o]
        BY <3>2, <3>4
      <4>2. Holds(o, q)'
        BY <1>11, <3>1, <3>4, <4>1
      <4> QED
        BY <3>2, <4>2
    <3> QED
      BY <3>3, <3>4
  <2>4. ASSUME NEW x \in removed', x[1] = o, x[2] = "clean" PROVE runs'[x[3]].by = o
    <3>1. CASE x \in removed
      BY <1>5, <2>1, <2>4, <3>1 DEF CleanIsHonest
    <3>2. CASE x \notin removed
      <4>1. o = s /\ how[s] = "clean" /\ x[3] \in InDir(dir) \ InDir(dir')
        BY <1>4, <2>4, <3>2
      <4>2. PICK p \in Pairs(dir) : p[1] = h /\ p[2] = x[3]
        BY <1>2, <4>1
      <4>3. Holds(s, doomed[s])
        BY <1>5, <2>1, <4>1 DEF CleanIsHonest
      <4>4. PICK z \in Pairs(dir) : z[1] = h /\ runs[z[2]].by = s
        BY <4>3 DEF Holds
      <4>5. z = p
        BY <1>0, <4>2, <4>4, PairsDiffer
      <4> QED
        BY <4>1, <4>2, <4>4, <4>5
    <3> QED
      BY <3>1, <3>2
  <2> QED
    BY <2>2, <2>3, <2>4
<1> QED
  BY <1>7, <1>8, <1>9, <1>10, <1>13 DEF ChoiceIsSound

LEMMA RemoveOneKeeps ==
  ASSUME SessionInv, NEW s \in Sessions, RemoveOne(s)
  PROVE  SessionInv'
<1>0. Types /\ IsDir(dir) /\ \A o \in Sessions : ScreenIsSound(o)
  BY DEF SessionInv, Types, Screens
<1>1. PICK i, h :
        /\ i \in DOMAIN doomed[s]
        /\ screen[s] = "leaving" /\ h = doomed[s][i] /\ ChoiceTypes'
        /\ DOMAIN doomed'[s] = DOMAIN doomed[s] \ {i}
        /\ \A j \in DOMAIN doomed'[s] : doomed'[s][j] = doomed[s][j]
        /\ Named(doomed[s]) = {h} \cup Named(doomed'[s])
        /\ \A o \in Sessions \ {s} : StaysChosen(o)
        /\ UNCHANGED <<runs, screen, at, files, how, newest>>
        /\ LET gone == InDir(dir) \ InDir(Without(dir, h))
           IN  \/ /\ dir' = Without(dir, h)
                  /\ removed' = removed \cup {<<s, how[s], r>> : r \in gone}
                  /\ UNCHANGED seen
               \/ /\ seen'[s] = seen[s] \ gone
                  /\ UNCHANGED <<dir, removed>>
  BY RemoveOneIs
<1>2. \A o, q : IsCurrent(o, q)' <=> IsCurrent(o, q)
  BY <1>1 DEF IsCurrent, RunsOf
<1>3. ScreenIsSound(s)'
  BY <1>0, <1>1 DEF ScreenIsSound
<1>4. CASE seen'[s] = seen[s] \ (InDir(dir) \ InDir(Without(dir, h))) /\ UNCHANGED <<dir, removed>>
  <2>1. ChoiceIsSound(s)'
    BY <1>1, <1>4, RefusalIsSound
  <2> QED
    BY <1>0, <1>1, <1>3, <1>4, <2>1, QuietKeeps DEF Types
<1>5. CASE /\ dir' = Without(dir, h) /\ UNCHANGED seen
           /\ removed' = removed \cup {<<s, how[s], r>> : r \in InDir(dir) \ InDir(dir')}
  <2>1. /\ IsDir(dir') /\ Pairs(dir') = {p \in Pairs(dir) : p[1] # h}
        /\ \A r \in InDir(dir') : LinesOf(dir', r) = LinesOf(dir, r)
    BY <1>0, <1>5, WithoutIs
  <2>2. InDir(dir') \subseteq InDir(dir)
    <3>1. InDir(dir) = {p[2] : p \in Pairs(dir)} /\ InDir(dir') = {p[2] : p \in Pairs(dir')}
      BY <1>0, <2>1, DirIsSeq
    <3> QED
      BY <2>1, <3>1
  <2>3. \A r \in InDir(dir) : r \in InDir(dir') \/ \E x \in removed' : x[3] = r
    <3> SUFFICES ASSUME NEW r \in InDir(dir) \ InDir(dir')
                 PROVE  \E x \in removed' : x[3] = r
      OBVIOUS
    <3>1. <<s, how[s], r>> \in removed'
      BY <1>5
    <3> QED
      BY <3>1
  <2>4. Types'
    <3>1. \A x \in removed' : x[1] \in Sessions /\ x[3] \in DOMAIN runs'
      BY <1>0, <1>1, <1>5 DEF Types
    <3> QED
      BY <1>0, <1>1, <2>1, <2>2, <3>1 DEF Types
  <2>5. ASSUME NEW o \in Sessions PROVE ScreenIsSound(o)' /\ ChoiceIsSound(o)'
    <3>1. o # s => ScreenIsSound(o)'
      BY <1>0, <1>1, <1>2, SameScreen DEF StaysChosen
    <3>2. ChoiceIsSound(o)'
      BY <1>1, <1>5, RemovalIsSound DEF StaysChosen
    <3> QED
      BY <1>3, <3>1, <3>2
  <2>6. ASSUME NEW r \in DOMAIN runs PROVE RunIsSound(r)'
    <3>1. Here(r)' <=> Here(r)
      BY <1>1, <1>2 DEF Here
    <3>2. RunIsSound(r)
      BY DEF SessionInv, RunsAreSound
    <3> QED
      BY <1>1, <1>5, <2>3, <3>1, <3>2, SameRun
  <2>7. ASSUME NEW r \in InDir(dir') PROVE LogIsSound(r)'
    <3>1. LogIsSound(r)
      BY <2>2 DEF SessionInv, LogsAreSound
    <3> QED
      BY <1>1, <2>1, <3>1, SameLog
  <2> QED
    BY <1>1, <2>4, <2>5, <2>6, <2>7 DEF SessionInv, Screens, RunsAreSound, LogsAreSound,
       ChoicesAreSound
<1> QED
  BY <1>1, <1>4, <1>5

-----------------------------------------------------------------------------
(* The theorems.                                                           *)

LEMMA SessionStep == SessionInv /\ [Next]_vars => SessionInv'
<1> SUFFICES ASSUME SessionInv, [Next]_vars PROVE SessionInv'
  OBVIOUS
<1>1. CASE UNCHANGED vars
  <2>1. UNCHANGED <<dir, runs, screen, at, files, doomed, how, seen, newest, removed>>
    BY <1>1 DEF vars, ui, leave
  <2>2. /\ \A s, q : IsCurrent(s, q)' <=> IsCurrent(s, q)
        /\ \A r : Here(r)' <=> Here(r)
    BY <2>1 DEF IsCurrent, RunsOf, Here
  <2>3. Types /\ Types' /\ IsDir(dir')
    BY <2>1 DEF SessionInv, Types, ChoiceTypes
  <2>4. Screens'
    BY <2>1, <2>2, SameScreen DEF SessionInv, Screens
  <2>5. RunsAreSound'
    BY <2>1, <2>2, SameRun DEF SessionInv, RunsAreSound
  <2>6. LogsAreSound'
    BY <2>1, SameLog DEF SessionInv, LogsAreSound
  <2>7. ChoicesAreSound'
    BY <2>1, <2>3, SameChoice DEF SessionInv, ChoicesAreSound, StaysChosen
  <2> QED
    BY <2>3, <2>4, <2>5, <2>6, <2>7 DEF SessionInv
<1>2. ASSUME NEW s \in Sessions,
             \/ WorkerSends(s) \/ Drain(s) \/ Flush(s) \/ NoKey(s)
             \/ (\E a \in Actions, t \in Seconds : Begin(s, a, t)) \/ BeginWithout(s)
             \/ Back(s) \/ RequestQuit(s) \/ Clean(s) \/ Keep(s)
             \/ RemoveOne(s) \/ Leave(s) \/ Kill(s)
      PROVE  SessionInv'
  BY <1>2, WorkerSendsKeeps, DrainKeeps, FlushKeeps, MenuKeeps, BeginKeeps,
     BeginWithoutKeeps, KeepKeeps, RemoveOneKeeps, LeaveKeeps, KillKeeps
<1> QED
  BY <1>1, <1>2 DEF Next

LEMMA SessionIsSound == Spec => []SessionInv
BY SessionInit, SessionStep, PTL DEF Spec

\* The logs, the runs and the screens keep their types: no two logs have one name
\* and no run two logs (create_new of SessionLog::begin), and a writer is open only
\* while its run is on the screen.
THEOREM SessionTypes == Spec => []TypeOK
<1>1. SessionInv => TypeOK
  <2> SUFFICES ASSUME SessionInv PROVE TypeOK
    OBVIOUS
  <2>1. Types /\ IsDir(dir)
    BY DEF SessionInv, Types
  <2>2. Cardinality(Names(dir)) = Len(dir) /\ Cardinality(InDir(dir)) = Len(dir)
    BY <2>1, DirIsCounted
  <2>3. ASSUME NEW s \in Sessions, NEW r \in RunsOf(s), runs[r].open
        PROVE  screen[s] = "running" /\ r = Current(s)
    <3>1. r \in DOMAIN runs /\ runs[r].by = s
      BY DEF RunsOf
    <3>2. Here(r)
      BY <2>3, <3>1 DEF SessionInv, RunsAreSound, RunIsSound
    <3>3. Current(s) = r
      BY <2>1, <3>1, <3>2, CurrentIs DEF Here
    <3> QED
      BY <3>1, <3>2, <3>3 DEF Here
  <2> QED
    BY <2>1, <2>2, <2>3 DEF TypeOK, Types, ChoiceTypes
<1> QED
  BY <1>1, SessionIsSound, PTL

\* What is in a log and what the operator has seen agree at every moment, also
\* after a kill, for every log that was made, met no error and was not removed.
THEOREM LogAndPaneAgree == Spec => []LogTellsThePane
<1>1. SessionInv => LogTellsThePane
  <2> SUFFICES ASSUME SessionInv, NEW r \in DOMAIN runs, runs[r].logged,
                      \A x \in removed : x[3] # r
               PROVE  /\ r \in InDir(dir)
                      /\ LinesOf(dir, r) <= runs[r].due
                      /\ ~runs[r].err => runs[r].drawn <= LinesOf(dir, r)
    BY DEF LogTellsThePane
  <2>1. r \in InDir(dir)
    BY DEF SessionInv, RunsAreSound, RunIsSound
  <2> QED
    BY <2>1 DEF SessionInv, LogsAreSound, LogIsSound
<1> QED
  BY <1>1, SessionIsSound, PTL

\* What the exit prompt promises (clean and keep_and_prune), for any number of
\* sessions over the directory and of logs kept, with any entries missing from the
\* listing and any removal failing. A clean removes no log of another session unless
\* it was robbed itself, and leaves of its own only what could not be removed; of what
\* a keep listed and could remove no more than Retain are left; and the newest Retain
\* of the directory, whoever's, are there unless another session removed them.
THEOREM ExitKeepsItsWord == Spec => []ExitChoiceHolds
<1>1. SessionInv => ExitChoiceHolds
  <2> SUFFICES ASSUME SessionInv PROVE ExitChoiceHolds
    OBVIOUS
  <2>1. Types /\ IsDir(dir) /\ \A s \in Sessions : ScreenIsSound(s) /\ ChoiceIsSound(s)
    BY DEF SessionInv, Types, Screens, ChoicesAreSound
  <2>2. ASSUME NEW x \in removed, x[2] = "clean"
        PROVE  runs[x[3]].by = x[1] \/ Robbed(x[1])
    <3>1. PICK s \in Sessions : x[1] = s
      BY <2>1 DEF Types
    <3>2. CleanIsHonest(s)
      BY <2>1 DEF ChoiceIsSound
    <3>3. ~Robbed(s) => runs[x[3]].by = s
      BY <2>2, <3>1, <3>2 DEF CleanIsHonest
    <3> QED
      BY <3>1, <3>3
  <2>3. ASSUME NEW s \in Sessions, screen[s] = "exited"
        PROVE  /\ how[s] = "clean" => InDir(dir) \cap seen[s] = {}
               /\ how[s] = "keep" =>
                    /\ Cardinality(InDir(dir) \cap seen[s]) <= Retain
                    /\ \A r \in newest[s] \ InDir(dir) : \E x \in removed : x[1] # s /\ x[3] = r
    <3>1. Named(doomed[s]) = {}
      BY <2>1, <2>3 DEF ScreenIsSound, Named
    <3>2. InDir(dir) = {p[2] : p \in Pairs(dir)}
      BY <2>1, DirIsSeq
    <3>3. how[s] = "clean" => InDir(dir) \cap seen[s] = {}
      BY <2>1, <3>1, <3>2 DEF ChoiceIsSound, CleanIsComplete
    <3>4. Left(s) = InDir(dir) \cap seen[s]
      BY <3>1, <3>2 DEF Left
    <3> QED
      BY <2>1, <3>3, <3>4 DEF ChoiceIsSound, KeepCounts, NewestIsSafe
  <2> QED
    BY <2>2, <2>3 DEF ExitChoiceHolds
<1> QED
  BY <1>1, SessionIsSound, PTL
=============================================================================
