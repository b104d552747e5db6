---------------------------- MODULE VerifyProofs ----------------------------
(***************************************************************************)
(* What a read through DevReader returns, for every device, block size and *)
(* position, and that the verdict of Verify is right, for every target,    *)
(* image and chunk.                                                        *)
(***************************************************************************)
EXTENDS Verify, FiniteSetTheorems, TLAPS

Readers(Bytes) ==
  [kind: {"file", "sudo"}, len: Nat, pos: Nat, start: Nat, held: Nat,
   cache: Bytes]

\* Least is one of the two, and above neither.
LEMMA LeastIsLeast ==
  ASSUME NEW a \in Nat, NEW b \in Nat
  PROVE  /\ Least(a, b) \in Nat
         /\ Least(a, b) <= a /\ Least(a, b) <= b
         /\ Least(a, b) \in {a, b}
  BY DEF Least

\* A device has no more than is asked and never less than it could have.
LEMMA AvailableIsThere ==
  ASSUME NEW size \in Nat, NEW off \in Nat, NEW n \in Nat
  PROVE  /\ Available(size, off, n) \in 0..n
         /\ off < size => off + Available(size, off, n) <= size
         /\ off < size /\ n > 0 => Available(size, off, n) > 0
         /\ off >= size => Available(size, off, n) = 0
  BY DEF Available, Least

\* The block a position lies in starts at or before it, less than a block away.
LEMMA BlockOf ==
  ASSUME NEW pos \in Nat
  PROVE  /\ pos - (pos % Block) \in Nat
         /\ pos - (pos % Block) <= pos
         /\ pos < pos - (pos % Block) + Block
<1>1. pos % Block \in 0..(Block - 1)
  BY BlockAssumption
<1>2. pos % Block <= pos
  BY BlockAssumption
<1> QED BY <1>1, <1>2, BlockAssumption

-----------------------------------------------------------------------------
(* One read.                                                               *)

\* What a direct read returns is exact.
LEMMA DirectIsExact ==
  ASSUME NEW Bytes, NEW r \in Readers(Bytes), NEW dev, NEW size \in Nat,
         NEW n \in Nat, NEW want \in 0..n, Coherent(r, dev, size),
         r.pos < size /\ n > 0 => want > 0
  PROVE  /\ IsExact(r, dev, size, n, Direct(r, dev, size, want))
         /\ Coherent(Direct(r, dev, size, want).reader, dev, size)
<1> DEFINE m == Available(size, r.pos, want)
           s == [r EXCEPT !.pos = @ + m]
<1>1. /\ m \in 0..want
      /\ r.pos < size /\ want > 0 => m > 0
      /\ m > 0 => r.pos + m <= size
  <2>1. r.pos \in Nat /\ want \in Nat
    BY DEF Readers
  <2>2. /\ m \in 0..want
        /\ r.pos < size => r.pos + m <= size
        /\ r.pos < size /\ want > 0 => m > 0
        /\ r.pos >= size => m = 0
    BY <2>1, AvailableIsThere
  <2> HIDE DEF m
  <2> QED BY <2>1, <2>2
<1>2. Direct(r, dev, size, want) =
        [n |-> m, bytes |-> Slice(dev, r.pos, m), reader |-> s]
  BY DEF Direct, Answer
<1>3. /\ s.pos = r.pos + m /\ s.len = r.len /\ s.kind = r.kind
      /\ s.start = r.start /\ s.held = r.held /\ s.cache = r.cache
  BY DEF Readers
<1> HIDE DEF m, s
<1>4. IsExact(r, dev, size, n, Direct(r, dev, size, want))
  BY <1>1, <1>2, <1>3 DEF IsExact, Readers
<1>5. Coherent(s, dev, size)
  BY <1>3 DEF Coherent
<1> QED BY <1>2, <1>4, <1>5

\* A refilled cache is coherent and holds the position.
LEMMA RefilledIsCoherent ==
  ASSUME NEW Bytes, NEW r \in Readers(Bytes), NEW dev, NEW size \in Nat,
         r.pos < r.len, r.len <= size
  PROVE  LET f == Refilled(r, dev, size)
         IN /\ Coherent(f, dev, size)
            /\ InCache(f)
            /\ f.start \in Nat /\ f.held \in Nat
            /\ f.pos = r.pos /\ f.len = r.len /\ f.kind = r.kind
<1> DEFINE start == r.pos - (r.pos % Block)
           span == Least(Block, r.len - start)
           n == Available(size, start, span)
           f == [r EXCEPT !.start = start, !.held = n,
                          !.cache = Slice(dev, start, n)]
<1>1. Refilled(r, dev, size) = f
  BY DEF Refilled
<1>2. /\ f.start = start /\ f.held = n /\ f.cache = Slice(dev, start, n)
      /\ f.pos = r.pos /\ f.len = r.len /\ f.kind = r.kind
  BY DEF Readers
<1>3. start \in Nat /\ start <= r.pos /\ r.pos < start + Block
  BY BlockOf DEF Readers
<1>4. /\ span \in Nat /\ span > 0
      /\ r.pos < start + span
      /\ start + span <= size
  BY <1>3, LeastIsLeast, BlockAssumption DEF Readers, Least
<1>5. n = span
  BY <1>3, <1>4 DEF Available, Least, Readers
<1>6. \A i \in 0..(n - 1) : f.cache[i] = dev[start + i]
  BY <1>2 DEF Slice
<1> HIDE DEF start, span, n, f
<1>7. Coherent(f, dev, size)
  BY <1>2, <1>3, <1>4, <1>5, <1>6 DEF Coherent
<1>8. InCache(f)
  BY <1>2, <1>3, <1>4, <1>5 DEF InCache, Readers
<1> QED BY <1>1, <1>2, <1>3, <1>4, <1>5, <1>7, <1>8

\* A read that a coherent cache can answer is exact.
LEMMA FromCacheIsExact ==
  ASSUME NEW r, NEW dev, NEW size \in Nat, NEW n \in Nat, NEW want \in 1..n,
         r = [kind |-> r.kind, len |-> r.len, pos |-> r.pos,
              start |-> r.start, held |-> r.held, cache |-> r.cache],
         r.pos \in Nat, r.start \in Nat, r.held \in Nat,
         Coherent(r, dev, size), InCache(r)
  PROVE  /\ IsExact(r, dev, size, n, FromCache(r, want))
         /\ Coherent(FromCache(r, want).reader, dev, size)
<1> DEFINE offset == r.pos - r.start
           m == Available(r.held, offset, want)
           s == [r EXCEPT !.pos = @ + m]
<1>1. offset \in Nat /\ offset < r.held
  BY DEF InCache
<1>2. m \in 1..want /\ offset + m <= r.held
  BY <1>1, AvailableIsThere
<1>3. FromCache(r, want) =
        [n |-> m, bytes |-> Slice(r.cache, offset, m), reader |-> s]
  BY DEF FromCache, Answer
<1>4. /\ s.pos = r.pos + m /\ s.len = r.len /\ s.kind = r.kind
      /\ s.start = r.start /\ s.held = r.held /\ s.cache = r.cache
      /\ r.pos + m <= size
  BY <1>1, <1>2 DEF Coherent
<1>5. \A i \in 0..(m - 1) : r.cache[offset + i] = dev[r.pos + i]
  <2> TAKE i \in 0..(m - 1)
  <2>1. offset + i \in 0..(r.held - 1)
    BY <1>1, <1>2
  <2>2. r.cache[offset + i] = dev[r.start + (offset + i)]
    BY <2>1 DEF Coherent
  <2>3. r.start + (offset + i) = r.pos + i
    BY <1>1
  <2> QED BY <2>2, <2>3
<1>6. Slice(r.cache, offset, m) = Slice(dev, r.pos, m)
  BY <1>5 DEF Slice
<1> HIDE DEF offset, m, s
<1>7. IsExact(r, dev, size, n, FromCache(r, want))
  BY <1>2, <1>3, <1>4, <1>6 DEF IsExact
<1>8. Coherent(s, dev, size)
  BY <1>4 DEF Coherent
<1> QED BY <1>3, <1>7, <1>8

\* A handle is one, whatever is in its cache.
IsReader(r) == r \in Readers({r.cache})

LEMMA OpenedIsReader ==
  ASSUME NEW kind \in {"file", "sudo"}, NEW len \in Nat, NEW off \in Nat
  PROVE  /\ IsReader(Opened(kind, len))
         /\ IsReader(SeekTo(Opened(kind, len), off))
BY DEF IsReader, Opened, SeekTo, Readers

LEMMA SeekIsReader ==
  ASSUME NEW r, IsReader(r), NEW off \in Nat
  PROVE  IsReader(SeekTo(r, off)) /\ SeekTo(r, off).pos = off /\ SeekTo(r, off).len = r.len
BY DEF IsReader, SeekTo, Readers

\* Even when the device is no longer what it was, a read returns no more bytes than
\* were asked for, and the handle remains one.
LEMMA ReadIsBounded ==
  ASSUME NEW r, IsReader(r), NEW dev, NEW size \in Nat, NEW n \in Nat
  PROVE  LET answer == Read(r, dev, size, n)
         IN /\ answer.n \in 0..n
            /\ DOMAIN answer.bytes = 0..(answer.n - 1)
            /\ IsReader(answer.reader)
            /\ answer.reader.kind = r.kind /\ answer.reader.len = r.len
<1> DEFINE Bounded(a) ==
             /\ a.n \in 0..n /\ DOMAIN a.bytes = 0..(a.n - 1)
             /\ IsReader(a.reader) /\ a.reader.kind = r.kind /\ a.reader.len = r.len
           want == Available(r.len, r.pos, n)
<1>1. ASSUME NEW q, IsReader(q), q.kind = r.kind, q.len = r.len, NEW m \in 0..n,
             NEW bytes, DOMAIN bytes = 0..(m - 1)
      PROVE  Bounded(Answer(q, m, bytes))
  <2>1. /\ [q EXCEPT !.pos = @ + m].cache = q.cache
        /\ [q EXCEPT !.pos = @ + m] \in Readers({q.cache})
        /\ [q EXCEPT !.pos = @ + m].kind = q.kind /\ [q EXCEPT !.pos = @ + m].len = q.len
    BY <1>1 DEF IsReader, Readers
  <2> QED
    BY <1>1, <2>1 DEF Answer, IsReader
<1>2. /\ r.pos \in Nat /\ r.len \in Nat /\ want \in 0..n
      /\ want > 0 => r.pos < r.len
  <2>1. r.pos \in Nat /\ r.len \in Nat
    BY DEF IsReader, Readers
  <2>2. want \in 0..n /\ (r.pos >= r.len => want = 0)
    BY <2>1, AvailableIsThere
  <2> QED
    BY <2>1, <2>2
<1>3. ASSUME NEW m \in 0..n PROVE Bounded(Direct(r, dev, size, m))
  <2>1. m \in Nat /\ m <= n
    OBVIOUS
  <2>2. Available(size, r.pos, m) \in 0..m
    BY <1>2, <2>1, AvailableIsThere
  <2>3. Available(size, r.pos, m) \in 0..n
    BY <2>1, <2>2
  <2> QED
    BY <1>1, <2>3 DEF Direct, Slice
<1>4. ASSUME NEW q, IsReader(q), q.kind = r.kind, q.len = r.len, q.start <= q.pos,
             NEW m \in 0..n
      PROVE  Bounded(FromCache(q, m))
  <2>1. q.pos - q.start \in Nat /\ q.held \in Nat /\ m \in Nat /\ m <= n
    BY <1>4 DEF IsReader, Readers
  <2>2. Available(q.held, q.pos - q.start, m) \in 0..m
    BY <2>1, AvailableIsThere
  <2>3. Available(q.held, q.pos - q.start, m) \in 0..n
    BY <2>1, <2>2
  <2> QED
    BY <1>1, <1>4, <2>3 DEF FromCache, Slice
<1>5. CASE r.kind = "file"
  BY <1>3, <1>5 DEF Read
<1>6. CASE r.kind # "file" /\ want = 0
  <2>1. Bounded(Answer(r, 0, Slice(dev, 0, 0)))
    BY <1>1 DEF Slice
  <2> QED
    BY <1>6, <2>1 DEF Read, ReadSudo
<1>7. CASE r.kind # "file" /\ want > 0 /\ want >= Block
  BY <1>2, <1>3, <1>7 DEF Read, ReadSudo
<1>8. CASE r.kind # "file" /\ want > 0 /\ ~(want >= Block)
  <2> DEFINE f == IF InCache(r) THEN r ELSE Refilled(r, dev, size)
             start == r.pos - (r.pos % Block)
             held == Available(size, start, Least(Block, r.len - start))
  <2>1. start \in Nat /\ start <= r.pos /\ held \in Nat
    <3>1. start \in Nat /\ start <= r.pos
      BY <1>2, BlockOf
    <3>2. Least(Block, r.len - start) \in Nat
      BY <1>2, <1>8, <3>1, BlockAssumption DEF Least
    <3>3. held \in 0..Least(Block, r.len - start)
      BY <3>1, <3>2, AvailableIsThere
    <3> QED
      BY <3>1, <3>2, <3>3
  <2>2. Refilled(r, dev, size) =
          [r EXCEPT !.start = start, !.held = held, !.cache = Slice(dev, start, held)]
    BY DEF Refilled
  <2>3. /\ IsReader(Refilled(r, dev, size))
        /\ Refilled(r, dev, size).kind = r.kind /\ Refilled(r, dev, size).len = r.len
        /\ Refilled(r, dev, size).start = start /\ Refilled(r, dev, size).pos = r.pos
    <3> HIDE DEF start, held
    <3> QED
      BY <2>1, <2>2 DEF IsReader, Readers
  <2>4. IsReader(f) /\ f.kind = r.kind /\ f.len = r.len /\ f.start <= f.pos
    BY <2>1, <2>3 DEF InCache
  <2> HIDE DEF f
  <2>5. Bounded(FromCache(f, want))
    BY <1>2, <1>4, <2>4
  <2>6. Read(r, dev, size, n) = FromCache(f, want)
    BY <1>8 DEF Read, ReadSudo, f
  <2> QED
    BY <2>5, <2>6
<1> QED
  BY <1>2, <1>5, <1>6, <1>7, <1>8

\* SudoReader::read is exact: whatever the position, the request and what an
\* earlier read left in the cache, it returns the bytes the device has there,
\* never none of them before the end, and leaves the cache coherent.
THEOREM ReadIsExact ==
  ASSUME NEW Bytes, NEW r \in Readers(Bytes), NEW dev, NEW size \in Nat,
         NEW n \in Nat, Coherent(r, dev, size), r.len = size
  PROVE  /\ IsExact(r, dev, size, n, Read(r, dev, size, n))
         /\ Coherent(Read(r, dev, size, n).reader, dev, size)
<1> DEFINE want == Available(r.len, r.pos, n)
<1>1. /\ want \in 0..n
      /\ r.pos < size /\ n > 0 => want > 0
      /\ want > 0 => r.pos < r.len
  <2>1. r.pos \in Nat /\ r.len \in Nat
    BY DEF Readers
  <2>2. /\ want \in 0..n
        /\ r.pos < r.len /\ n > 0 => want > 0
        /\ r.pos >= r.len => want = 0
    BY <2>1, AvailableIsThere
  <2> QED BY <2>1, <2>2
<1>2. CASE r.kind = "file"
  BY <1>2, DirectIsExact DEF Read
<1>3. CASE r.kind # "file" /\ want = 0
  <2> DEFINE a == Answer(r, 0, Slice(dev, 0, 0))
  <2>1. Read(r, dev, size, n) = a
    BY <1>3 DEF Read, ReadSudo
  <2>2. a.n = 0 /\ a.bytes = Slice(dev, 0, 0) /\ a.reader = [r EXCEPT !.pos = @ + 0]
    BY DEF Answer
  <2>3. /\ a.reader.pos = r.pos + 0 /\ a.reader.len = r.len
        /\ a.reader.kind = r.kind /\ a.reader.start = r.start
        /\ a.reader.held = r.held /\ a.reader.cache = r.cache
    BY <2>2 DEF Readers
  <2>4. Slice(dev, 0, 0) = Slice(dev, r.pos, 0)
    BY DEF Slice
  <2> HIDE DEF a
  <2>5. IsExact(r, dev, size, n, a)
    BY <1>1, <1>3, <2>2, <2>3, <2>4 DEF IsExact
  <2>6. Coherent(a.reader, dev, size)
    BY <2>3 DEF Coherent
  <2> QED BY <2>1, <2>5, <2>6
<1>4. CASE r.kind # "file" /\ want > 0 /\ want >= Block
  <2>1. Read(r, dev, size, n) = Direct(r, dev, size, want)
    BY <1>4 DEF Read, ReadSudo
  <2> HIDE DEF want
  <2> QED BY <1>1, <1>4, <2>1, DirectIsExact
<1>5. CASE r.kind # "file" /\ want > 0 /\ ~(want >= Block)
  <2> DEFINE f == IF InCache(r) THEN r ELSE Refilled(r, dev, size)
  <2>1. Read(r, dev, size, n) = FromCache(f, want)
    BY <1>5 DEF Read, ReadSudo
  <2>2. /\ Coherent(f, dev, size) /\ InCache(f)
        /\ f.start \in Nat /\ f.held \in Nat
        /\ f.pos = r.pos /\ f.len = r.len /\ f.kind = r.kind
    <3>1. CASE InCache(r)
      BY <3>1 DEF Readers
    <3>2. CASE ~InCache(r)
      BY <3>2, <1>1, <1>5, RefilledIsCoherent DEF Readers
    <3> QED BY <3>1, <3>2
  <2>3. f = [kind |-> f.kind, len |-> f.len, pos |-> f.pos,
             start |-> f.start, held |-> f.held, cache |-> f.cache]
    BY DEF Readers, Refilled
  <2> HIDE DEF f, want
  <2>4. /\ IsExact(f, dev, size, n, FromCache(f, want))
        /\ Coherent(FromCache(f, want).reader, dev, size)
    BY <1>1, <1>5, <2>2, <2>3, FromCacheIsExact DEF Readers
  <2>5. IsExact(r, dev, size, n, FromCache(f, want))
    BY <2>2, <2>4 DEF IsExact
  <2> QED BY <2>1, <2>4, <2>5
<1> QED BY <1>1, <1>2, <1>3, <1>4, <1>5

\* The window never lets a read leave the partition, wherever fatfs has sought
\* to.
THEOREM WindowStaysInside ==
  ASSUME NEW start \in Nat, NEW len \in Nat, NEW pos \in Nat, NEW n \in Nat
  PROVE  LET w == WindowRead(start, len, pos, n)
         IN /\ w.n \in 0..n
            /\ w.n > 0 => w.off >= start /\ w.off + w.n <= start + len
  BY DEF WindowRead, Least

-----------------------------------------------------------------------------
(* The types of the worker's fields.                                       *)

ScreenTypes ==
  /\ phase \in {"home", "devices", "sudoPass", "running", "done"}
  /\ mode \in {"image", "install"}
  /\ reference \in BOOLEAN /\ skip \in BOOLEAN /\ disturbed \in BOOLEAN
  /\ pending \in Disks \cup {None}
  /\ phase = "sudoPass" => pending \in Disks
  /\ message \in Verdicts \cup {"none"}
  /\ channel \in Verdicts \cup {"none"}
  /\ image \in Images \cup {None}
  /\ pulled \subseteq Disks
  /\ verifies \in 0..MaxVerifies /\ changes \in 0..MaxChanges
  /\ target \in Disks \cup {"image", None}

\* A worker runs or has answered as long as the screen waits.
Waiting ==
  /\ phase = "running" <=> job.at # "none" \/ channel # "none"
  /\ channel # "none" => job.at = "none"
  /\ phase = "running" => target # None

Issues == {"gpt", "count", "esp", "store", "fat", "boot", "ukis", "luks", "small", "differ"}

JobTypes ==
  /\ DOMAIN job = DOMAIN NoJob
  /\ job.at \in {"none", "open", "gpt", "boot", "ukis", "luks", "whole",
                 "chunk", "device", "image"}
  /\ job.found \subseteq {"esp", "store"}
  /\ job.issues \subseteq {"gpt", "count", "esp", "store", "fat", "boot",
                           "ukis", "luks", "small", "differ"}
  /\ IsReader(job.reader)
  /\ job.total \in Nat /\ job.imgLen \in Nat /\ job.done \in 0..job.total
  /\ job.filled \in 0..Chunk /\ DOMAIN job.buf = 0..(job.filled - 1)
  /\ \/ job.at \in {"chunk", "device", "image"}
     \/ job.done = 0 /\ job.devHash = <<>> /\ job.imgHash = <<>>
  /\ job.at = "device" => job.done < job.total /\ job.filled < Want
  /\ job.at = "image" => job.done < job.total /\ job.filled = Want

StepTypes == steps \in [StepIndex -> StepState]

TypeInv == ScreenTypes /\ Waiting /\ JobTypes /\ StepTypes

LEMMA TypeInvIsEnough == TypeInv => TypeOK
BY DEF TypeInv, TypeOK, ScreenTypes, Waiting, JobTypes, StepTypes

\* What is on a target has a size, and a cell at each offset below it.
LEMMA SizeIsNat ==
  ASSUME ScreenTypes, NEW t \in Disks \cup {"image"}
  PROVE  /\ SizeOf(t) \in Nat
         /\ Content(t) # None => DOMAIN Content(t) = 0..(SizeOf(t) - 1)
<1>1. CASE Content(t) = None
  BY <1>1 DEF SizeOf
<1>2. CASE Content(t) # None
  <2>1. IsTarget(Content(t))
    BY <1>2, TargetsAssumption DEF Content, ScreenTypes
  <2>2. Cardinality(DOMAIN Content(t)) \in Nat
    BY <2>1, FS_CardinalityType DEF IsTarget
  <2> QED
    BY <1>2, <2>1, <2>2 DEF SizeOf, IsTarget
<1> QED
  BY <1>1, <1>2


LEMMA IdleJob == job = NoJob => JobTypes /\ job.at = "none"
<1> SUFFICES ASSUME job = NoJob PROVE JobTypes /\ job.at = "none"
  OBVIOUS
<1>1. IsReader(job.reader)
  BY OpenedIsReader DEF NoJob
<1>2. DOMAIN job.buf = 0..(job.filled - 1)
  BY DEF NoJob
<1> QED
  BY <1>1, <1>2, ChunkAssumption, BlockAssumption DEF JobTypes, NoJob

LEMMA IdleJobNext == job' = NoJob => JobTypes' /\ job'.at = "none"
<1> SUFFICES ASSUME job' = NoJob PROVE JobTypes' /\ job'.at = "none"
  OBVIOUS
<1>1. IsReader(job'.reader)
  BY OpenedIsReader DEF NoJob
<1>2. DOMAIN job'.buf = 0..(job'.filled - 1)
  BY DEF NoJob
<1> QED
  BY <1>1, <1>2, ChunkAssumption, BlockAssumption DEF JobTypes, NoJob

\* The worker starts with a handle that has not been opened.
LEMMA SpawnTypes ==
  ASSUME ScreenTypes, NEW t \in Disks \cup {"image"}, NEW compare \in BOOLEAN,
         NEW kind \in {"file", "sudo"}, Spawn(t, compare, kind)
  PROVE  JobTypes' /\ job'.at = "open" /\ job'.compare = compare
<1>1. /\ DOMAIN job' = DOMAIN NoJob
      /\ job'.at = "open" /\ job'.compare = compare /\ job'.reader = Opened(kind, 0)
      /\ job'.found = {} /\ job'.issues = {} /\ job'.done = 0 /\ job'.total = 0
      /\ job'.imgLen = 0 /\ job'.filled = 0 /\ job'.buf = <<>>
      /\ job'.devHash = <<>> /\ job'.imgHash = <<>>
  BY DEF Spawn, NoJob
<1>2. IsReader(job'.reader)
  BY <1>1, OpenedIsReader
<1>3. DOMAIN job'.buf = 0..(job'.filled - 1)
  BY <1>1
<1> QED
  BY <1>1, <1>2, <1>3, ChunkAssumption, BlockAssumption DEF JobTypes

\* What a worker's step leaves alone, and how a worker ends.
LEMMA WorkerFrame ==
  ASSUME TypeInv, WorkerStep
  PROVE  /\ UNCHANGED quiet
         /\ job.at # "none" /\ channel = "none" /\ phase = "running"
         /\ \/ channel' = channel /\ job'.at # "none" /\ job'.compare = job.compare
            \/ job' = NoJob /\ channel' \in Verdicts
         /\ disturbed' = disturbed \/ (disturbed' = TRUE /\ channel' = "error")
<1> USE DEF TypeInv, ScreenTypes, Waiting, JobTypes, At, Return, Fault, Verdicts
<1>1. CASE Open
  BY <1>1 DEF Open, NoJob
<1>2. CASE CheckGpt
  BY <1>2 DEF CheckGpt, NoJob
<1>3. CASE CheckBoot
  BY <1>3 DEF CheckBoot, NoJob
<1>4. CASE CheckUkis
  BY <1>4 DEF CheckUkis, NoJob
<1>5. CASE SkipLuks
  BY <1>5 DEF SkipLuks, NoJob
<1>6. CASE CheckLuks
  BY <1>6 DEF CheckLuks, NoJob
<1>7. CASE HashImage
  BY <1>7 DEF HashImage, NoJob
<1>8. CASE SkipCompare
  BY <1>8 DEF SkipCompare, NoJob
<1>9. CASE StartCompare
  BY <1>9 DEF StartCompare, NoJob
<1>10. CASE WaiveCompare
  BY <1>10 DEF WaiveCompare, NoJob
<1>11. CASE NextChunk
  BY <1>11 DEF NextChunk, NoJob
<1>12. CASE ReadDevice
  BY <1>12 DEF ReadDevice, NoJob
<1>13. CASE ReadImage
  BY <1>13 DEF ReadImage, NoJob
<1>14. CASE Settle
  BY <1>14 DEF Settle, NoJob
<1> QED
  BY <1>1, <1>2, <1>3, <1>4, <1>5, <1>6, <1>7, <1>8, <1>9, <1>10, <1>11, <1>12, <1>13, <1>14
     DEF WorkerStep

\* Every check leaves the worker's fields in their types, whatever the target has
\* become meanwhile.
LEMMA WorkerTypes ==
  ASSUME TypeInv, WorkerStep PROVE JobTypes' /\ StepTypes'
<1>0. /\ UNCHANGED quiet /\ target \in Disks \cup {"image"} /\ SizeOf(target) \in Nat
      /\ SizeOf("image") \in Nat
  <2>1. UNCHANGED quiet /\ phase = "running"
    BY WorkerFrame
  <2>2. target \in Disks \cup {"image"}
    BY <2>1 DEF TypeInv, ScreenTypes, Waiting
  <2> QED
    BY <2>1, <2>2, SizeIsNat DEF TypeInv
<1>1. CASE job' = NoJob
  <2>1. StepTypes'
    BY <1>1 DEF WorkerStep, Open, CheckGpt, CheckBoot, CheckUkis, SkipLuks, CheckLuks, HashImage,
       SkipCompare, StartCompare, WaiveCompare, NextChunk, ReadDevice, ReadImage, Settle,
       TypeInv, StepTypes, StepState, StepIndex
  <2>2. JobTypes'
    BY <1>1, IdleJobNext
  <2> QED
    BY <2>1, <2>2
<1> USE DEF TypeInv, JobTypes, StepTypes, At, Return, Fault, StepState, StepIndex
<1>2. CASE Open /\ job' # NoJob
  <2>1. IsReader(Opened(job.reader.kind, SizeOf(target)))
    BY <1>0, OpenedIsReader DEF IsReader, Readers
  <2> QED
    BY <1>2, <2>1 DEF Open, NoJob
<1>a. ASSUME job'.at \in {"boot", "ukis", "luks", "whole"}, DOMAIN job' = DOMAIN NoJob,
             job'.found \subseteq {"esp", "store"}, job'.issues \subseteq Issues,
             IsReader(job'.reader), job'.total = job.total, job'.imgLen = job.imgLen,
             job'.done = job.done, job'.filled = job.filled, job'.buf = job.buf,
             job'.devHash = job.devHash, job'.imgHash = job.imgHash,
             job.at \notin {"chunk", "device", "image"}
      PROVE  JobTypes'
  BY <1>a DEF Issues
<1>b. Want \in Nat /\ Want <= Chunk /\ Want <= job.total - job.done
      /\ (job.done < job.total => Want > 0)
  BY ChunkAssumption, BlockAssumption DEF Want, Least
<1>3. CASE CheckGpt /\ job' # NoJob
  <2>0. job.at = "gpt"
    BY <1>3 DEF CheckGpt
  <2>1. PICK p \in {Partitions} :
          /\ job' = [job EXCEPT !.at = IF "esp" \in p.found THEN "boot" ELSE "luks",
                                !.found = p.found, !.issues = p.issues]
          /\ steps' = [steps EXCEPT ![0] = IF p.issues = {} THEN "ok" ELSE "fail",
                         ![1] = IF "esp" \in p.found THEN "running" ELSE "skipped",
                         ![2] = IF "esp" \in p.found THEN @ ELSE "skipped"]
    BY <1>3 DEF CheckGpt
  <2>2. p.found \subseteq {"esp", "store"} /\ p.issues \subseteq Issues
    BY DEF Partitions, Issues
  <2>3. /\ DOMAIN job' = DOMAIN NoJob /\ job'.at \in {"boot", "luks"}
        /\ job'.found = p.found /\ job'.issues = p.issues
        /\ job'.reader = job.reader /\ job'.total = job.total
        /\ job'.imgLen = job.imgLen /\ job'.done = job.done /\ job'.filled = job.filled
        /\ job'.buf = job.buf /\ job'.devHash = job.devHash /\ job'.imgHash = job.imgHash
    BY <2>1 DEF NoJob
  <2>4. JobTypes'
    BY <1>a, <2>0, <2>2, <2>3
  <2> QED
    BY <2>1, <2>4
<1>4. CASE CheckBoot /\ job' # NoJob
  <2>1. /\ job.at = "boot"
        /\ \E at \in {"ukis", "luks"}, issue \in {"boot", "fat"} :
             \/ job' = [job EXCEPT !.at = at, !.issues = @ \cup {issue}]
             \/ job' = [job EXCEPT !.at = at, !.issues = @]
        /\ StepTypes'
    BY <1>4 DEF CheckBoot
  <2>2. PICK at \in {"ukis", "luks"}, issues \in SUBSET Issues :
          job' = [job EXCEPT !.at = at, !.issues = issues]
    <3>1. \A issue \in {"boot", "fat"} : job.issues \cup {issue} \in SUBSET Issues
      BY DEF Issues
    <3> QED
      BY <2>1, <3>1 DEF Issues
  <2>3. /\ DOMAIN job' = DOMAIN NoJob /\ job'.at = at /\ job'.issues = issues
        /\ job'.found = job.found /\ job'.reader = job.reader /\ job'.total = job.total
        /\ job'.imgLen = job.imgLen /\ job'.done = job.done /\ job'.filled = job.filled
        /\ job'.buf = job.buf /\ job'.devHash = job.devHash /\ job'.imgHash = job.imgHash
    BY <2>2 DEF NoJob
  <2>4. JobTypes'
    BY <1>a, <2>1, <2>3 DEF Issues
  <2> QED
    BY <2>1, <2>4
<1>5. CASE CheckUkis /\ job' # NoJob
  BY <1>5 DEF CheckUkis, NoJob
<1>6. CASE SkipLuks /\ job' # NoJob
  BY <1>6 DEF SkipLuks, NoJob
<1>7. CASE CheckLuks /\ job' # NoJob
  <2> DEFINE answer == Read(SeekTo(job.reader, StoreAt), Content(target), SizeOf(target), 1)
  <2>1. /\ job.at = "luks"
        /\ \E issues \in {job.issues, job.issues \cup {"luks"}} :
             job' = [job EXCEPT !.at = "whole", !.reader = answer.reader, !.issues = issues]
        /\ StepTypes'
    BY <1>7 DEF CheckLuks
  <2>2. IsReader(SeekTo(job.reader, StoreAt))
    BY SeekIsReader DEF StoreAt
  <2>3. IsReader(answer.reader)
    BY <1>0, <2>2, ReadIsBounded
  <2> HIDE DEF answer
  <2>4. /\ DOMAIN job' = DOMAIN NoJob /\ job'.at = "whole"
        /\ job'.issues \in {job.issues, job.issues \cup {"luks"}}
        /\ job'.found = job.found /\ job'.reader = answer.reader /\ job'.total = job.total
        /\ job'.imgLen = job.imgLen /\ job'.done = job.done /\ job'.filled = job.filled
        /\ job'.buf = job.buf /\ job'.devHash = job.devHash /\ job'.imgHash = job.imgHash
    BY <2>1 DEF NoJob
  <2>5. job'.issues \subseteq Issues
    BY <2>4 DEF Issues
  <2>6. JobTypes'
    BY <1>a, <2>1, <2>3, <2>4, <2>5
  <2> QED
    BY <2>1, <2>6
<1>8. CASE HashImage /\ job' # NoJob
  <2>1. /\ job.at = "whole" /\ DOMAIN job' = DOMAIN NoJob /\ job'.at = "chunk"
        /\ job'.reader = SeekTo(job.reader, 0)
        /\ job'.total = job.reader.len /\ job'.imgLen = job.imgLen /\ job'.done = job.done
        /\ job'.found = job.found /\ job'.issues = job.issues
        /\ job'.filled = job.filled /\ job'.buf = job.buf
    BY <1>8 DEF HashImage, NoJob
  <2>2. job.reader.len \in Nat /\ IsReader(SeekTo(job.reader, 0)) /\ job.done = 0
    BY <2>1, SeekIsReader DEF IsReader, Readers
  <2>3. JobTypes'
    BY <2>1, <2>2
  <2> QED
    BY <1>8, <2>3 DEF HashImage
<1>9. CASE StartCompare /\ job' # NoJob
  <2>1. /\ job.at = "whole" /\ DOMAIN job' = DOMAIN NoJob /\ job'.at = "chunk"
        /\ job'.reader = SeekTo(job.reader, 0)
        /\ job'.total = Least(SizeOf("image"), job.reader.len) /\ job'.imgLen = SizeOf("image")
        /\ job'.done = job.done /\ job'.found = job.found
        /\ job'.issues \in {job.issues, job.issues \cup {"small"}}
        /\ job'.filled = job.filled /\ job'.buf = job.buf
    BY <1>9 DEF StartCompare, NoJob
  <2>2. job.reader.len \in Nat /\ IsReader(SeekTo(job.reader, 0)) /\ job.done = 0
    BY <2>1, SeekIsReader DEF IsReader, Readers
  <2>3. job'.total \in Nat /\ job'.imgLen \in Nat
    <3>1. Least(SizeOf("image"), job.reader.len) \in Nat
      BY <1>0, <2>2 DEF Least
    <3> QED
      BY <1>0, <2>1, <3>1
  <2>4. job'.issues \subseteq Issues
    BY <2>1 DEF Issues
  <2>5. JobTypes'
    BY <2>1, <2>2, <2>3, <2>4 DEF Issues
  <2> QED
    BY <1>9, <2>5 DEF StartCompare
<1>10. CASE (SkipCompare \/ WaiveCompare \/ Settle) /\ job' # NoJob
  BY <1>10 DEF SkipCompare, WaiveCompare, Settle
<1>11. CASE NextChunk /\ job' # NoJob
  <2>1. /\ DOMAIN job' = DOMAIN NoJob /\ job'.at = "device" /\ job'.reader = job.reader
        /\ job'.total = job.total /\ job'.imgLen = job.imgLen /\ job'.done = job.done
        /\ job'.found = job.found /\ job'.issues = job.issues
        /\ job'.filled = 0 /\ job'.buf = <<>> /\ job.done < job.total
        /\ UNCHANGED steps
    BY <1>11 DEF NextChunk, NoJob
  <2>2. DOMAIN job'.buf = 0..(job'.filled - 1)
    BY <2>1
  <2>3. Want' = Want /\ Want > 0
    BY <1>b, <2>1 DEF Want
  <2> QED
    BY <2>1, <2>2, <2>3, ChunkAssumption, BlockAssumption
<1>12. CASE ReadDevice /\ job' # NoJob
  <2> DEFINE answer == Read(job.reader, Content(target), SizeOf(target), Want - job.filled)
             full == job.filled + answer.n = Want
             hash == full /\ target = "image"
  <2>1. /\ job.at = "device" /\ answer.n > 0 /\ UNCHANGED steps
        /\ DOMAIN job' = DOMAIN NoJob
        /\ job'.at = IF hash THEN "chunk" ELSE IF full THEN "image" ELSE "device"
        /\ job'.reader = answer.reader /\ job'.total = job.total /\ job'.imgLen = job.imgLen
        /\ job'.done = IF hash THEN job.done + Want ELSE job.done
        /\ job'.found = job.found /\ job'.issues = job.issues
        /\ job'.filled = job.filled + answer.n /\ job'.buf = Filled(answer)
    <3>1. /\ job.at = "device" /\ answer.n > 0 /\ UNCHANGED steps
          /\ job' = [job EXCEPT
               !.reader = answer.reader, !.filled = @ + answer.n, !.buf = Filled(answer),
               !.at = IF hash THEN "chunk" ELSE IF full THEN "image" ELSE @,
               !.done = IF hash THEN @ + Want ELSE @,
               !.devHash = IF hash THEN Append(@, Filled(answer)) ELSE @]
      BY <1>12 DEF ReadDevice
    <3> HIDE DEF answer, hash, full
    <3> QED
      BY <3>1 DEF NoJob
  <2>2. /\ answer.n \in 0..(Want - job.filled) /\ IsReader(answer.reader)
    BY <1>0, <1>b, <2>1, ReadIsBounded
  <2> HIDE DEF answer
  <2>3. DOMAIN Filled(answer) = 0..(job'.filled - 1)
    <3>1. DOMAIN Filled(answer) = 0..(job.filled + answer.n - 1)
      BY DEF Filled
    <3>2. job'.filled = job.filled + answer.n /\ job.filled \in Nat /\ answer.n \in Nat
      BY <1>b, <2>1, <2>2, ChunkAssumption
    <3> QED
      BY <3>1, <3>2
  <2>4. job'.filled \in 0..Want /\ Want <= Chunk /\ Want <= job.total - job.done
    BY <1>b, <2>1, <2>2
  <2>5. CASE hash
    <3>1. job'.at = "chunk" /\ job'.done = job.done + Want
      BY <2>1, <2>5
    <3>2. job'.done \in 0..job'.total /\ job'.filled \in 0..Chunk
      BY <1>b, <2>1, <2>4, <3>1
    <3> HIDE DEF hash, full
    <3> QED
      BY <2>1, <2>2, <2>3, <3>1, <3>2
  <2>6. CASE ~hash
    <3>1. /\ job'.done = job.done /\ job'.at \in {"image", "device"}
          /\ (job'.at = "image" <=> job'.filled = Want)
      BY <2>1, <2>6
    <3>2. Want' = Want
      BY <2>1, <3>1 DEF Want
    <3>a. job'.at = "device" => job'.filled < Want'
      <4>1. job'.at = "device" => job'.filled # Want
        BY <3>1
      <4> QED
        BY <1>b, <2>4, <3>2, <4>1
    <3>b. job'.done < job'.total
      BY <2>1, <3>1
    <3>c. job'.done \in 0..job'.total /\ job'.filled \in 0..Chunk
      BY <1>b, <2>1, <2>4, <3>1, ChunkAssumption
    <3>3. /\ job'.done \in 0..job'.total /\ job'.filled \in 0..Chunk
          /\ job'.at = "device" => job'.filled < Want'
          /\ job'.at = "image" => job'.filled = Want'
          /\ job'.done < job'.total
      BY <3>1, <3>2, <3>a, <3>b, <3>c
    <3> HIDE DEF hash, full
    <3> QED
      BY <2>1, <2>2, <2>3, <3>1, <3>3
  <2> QED
    BY <2>5, <2>6
<1>13. CASE ReadImage /\ job' # NoJob
  <2>1. /\ DOMAIN job' = DOMAIN NoJob /\ job'.at = "chunk" /\ job'.reader = job.reader
        /\ job'.total = job.total /\ job'.imgLen = job.imgLen /\ job'.done = job.done + Want
        /\ job'.found = job.found /\ job'.issues = job.issues
        /\ job'.filled = job.filled /\ job'.buf = job.buf
        /\ UNCHANGED steps
    <3>1. /\ job' = [job EXCEPT !.at = "chunk", !.done = @ + Want,
                                !.devHash = Append(@, job.buf),
                                !.imgHash = Append(@, Slice(image, job.done, Want))]
          /\ UNCHANGED steps
      BY <1>13 DEF ReadImage
    <3> QED
      BY <3>1 DEF NoJob
  <2>2. job'.done \in 0..job'.total
    BY <1>b, <2>1
  <2> QED
    BY <2>1, <2>2
<1> QED
  BY <1>1, <1>2, <1>3, <1>4, <1>5, <1>6, <1>7, <1>8, <1>9, <1>10, <1>11, <1>12, <1>13
     DEF WorkerStep

LEMMA VerifyTypeStep == TypeInv /\ [Next]_vars => TypeInv'
<1> SUFFICES ASSUME TypeInv, [Next]_vars PROVE TypeInv'
  OBVIOUS
<1>1. CASE WorkerStep
  <2>1. /\ UNCHANGED <<phase, mode, reference, pending, skip, message, image, pulled, changes,
                        verifies, target>>
        /\ channel = "none" /\ phase = "running"
    BY <1>1, WorkerFrame DEF quiet, screenVars, worldVars
  <2>a. \/ channel' = channel /\ job'.at # "none"
        \/ job'.at = "none" /\ channel' \in Verdicts
    BY <1>1, WorkerFrame DEF NoJob
  <2>b. disturbed' \in BOOLEAN
    BY <1>1, WorkerFrame, Zenon DEF TypeInv, ScreenTypes
  <2>2. ScreenTypes'
    BY <2>1, <2>a, <2>b DEF TypeInv, ScreenTypes
  <2>3. Waiting'
    BY <2>1, <2>a DEF TypeInv, ScreenTypes, Waiting, Verdicts
  <2> QED
    BY <1>1, <2>2, <2>3, WorkerTypes DEF TypeInv
<1>2. ASSUME NEW t \in Disks \cup {"image"}, NEW compare \in BOOLEAN,
             NEW kind \in {"file", "sudo"}, Spawn(t, compare, kind),
             UNCHANGED <<steps, channel, worldVars>>,
             phase \in {"home", "devices", "sudoPass"},
             mode' \in {"image", "install"}, reference' \in BOOLEAN, skip' \in BOOLEAN,
             pending' \in Disks \cup {None}, message' = message
      PROVE  TypeInv'
  <2>1. JobTypes' /\ job'.at = "open"
    BY <1>2, SpawnTypes DEF TypeInv
  <2>2. ScreenTypes'
    <3>1. /\ phase' = "running" /\ target' = t /\ disturbed' = FALSE
          /\ verifies' \in 0..MaxVerifies
          /\ UNCHANGED <<channel, image, pulled, changes, message>>
      BY <1>2, BoundsAssumption DEF TypeInv, ScreenTypes, Spawn, worldVars
    <3> QED
      BY <1>2, <3>1 DEF TypeInv, ScreenTypes
  <2>3. Waiting'
    BY <1>2, <2>1, TargetsAssumption DEF TypeInv, Waiting, Spawn
  <2> QED
    BY <1>2, <2>1, <2>2, <2>3 DEF TypeInv, StepTypes
<1>3. CASE OpenImage
  <2>1. CASE image # None
    BY <1>2, <1>3, <2>1 DEF OpenImage, TypeInv, ScreenTypes
  <2>2. CASE image = None
    BY <1>3, <2>2 DEF OpenImage, TypeInv, ScreenTypes, Waiting, JobTypes, StepTypes, Want,
       Verdicts, worldVars
  <2> QED
    BY <2>1, <2>2
<1>4. ASSUME NEW d \in Disks, NEW kind \in {"file", "sudo"}, ArmInstall(d, kind),
             phase \in {"devices", "sudoPass"}, pending' = pending
      PROVE  TypeInv'
  BY <1>2, <1>4 DEF ArmInstall, TypeInv, ScreenTypes
<1>5. ASSUME NEW d \in Disks, ChooseDisk(d) PROVE TypeInv'
  <2>1. CASE ArmInstall(d, "file")
    BY <1>4, <1>5, <2>1 DEF ChooseDisk, ArmInstall, Spawn, AskPassword
  <2>2. CASE AskPassword /\ pending' = d
    BY <1>5, <2>2 DEF ChooseDisk, AskPassword, TypeInv, ScreenTypes, Waiting, JobTypes, StepTypes,
       Want, worldVars
  <2> QED
    BY <1>5, <2>1, <2>2 DEF ChooseDisk
<1>6. CASE Authenticate
  <2>1. phase = "sudoPass" /\ pending \in Disks
    BY <1>6 DEF Authenticate, TypeInv, ScreenTypes
  <2>2. CASE (ArmInstall(pending, "sudo") \/ ArmInstall(pending, "file")) /\ pending' = pending
    BY <1>4, <2>1, <2>2
  <2>3. CASE phase' = "done"
    BY <1>6, <2>1, <2>3 DEF Authenticate, ArmInstall, Spawn, TypeInv, ScreenTypes, Waiting,
       JobTypes, StepTypes, Want, Verdicts, worldVars
  <2> QED
    BY <1>6, <2>2, <2>3 DEF Authenticate
<1>7. CASE OpenInstall \/ Waive
  BY <1>7 DEF OpenInstall, Waive, TypeInv, ScreenTypes, Waiting, JobTypes, StepTypes,
     Want, worldVars
<1>8. CASE Leave \/ Drain
  BY <1>8 DEF Leave, DropScreen, Drain, TypeInv, ScreenTypes, Waiting, JobTypes, StepTypes,
     Want, StepIndex, StepState, worldVars
<1>9. CASE CtrlC
  <2>1. JobTypes' /\ job'.at = "none"
    BY <1>9, IdleJobNext DEF CtrlC
  <2> QED
    BY <1>9, <2>1 DEF CtrlC, DropScreen, TypeInv, ScreenTypes, Waiting, StepTypes, StepIndex,
       StepState, worldVars
<1>10. ASSUME NEW d \in Disks, Pull(d) PROVE TypeInv'
  BY <1>10, BoundsAssumption DEF Pull, TypeInv, ScreenTypes, Waiting, JobTypes, StepTypes, Want,
     screenVars
<1>11. CASE Rebuild
  BY <1>11, BoundsAssumption DEF Rebuild, TypeInv, ScreenTypes, Waiting, JobTypes, StepTypes,
     Want, screenVars
<1>12. CASE UNCHANGED vars
  BY <1>12 DEF vars, screenVars, worldVars, TypeInv, ScreenTypes, Waiting, JobTypes, StepTypes,
     Want
<1> QED
  BY <1>1, <1>3, <1>5, <1>6, <1>7, <1>8, <1>9, <1>10, <1>11, <1>12 DEF Next, ScreenStep

LEMMA VerifyInitTypes == Init => TypeInv
<1> SUFFICES ASSUME Init PROVE TypeInv
  OBVIOUS
<1>1. JobTypes /\ job.at = "none"
  BY IdleJob DEF Init
<1>2. ScreenTypes
  <2>1. verifies \in 0..MaxVerifies /\ changes \in 0..MaxChanges
    BY BoundsAssumption DEF Init
  <2> QED
    BY <2>1 DEF Init, ScreenTypes
<1> QED
  BY <1>1, <1>2 DEF Init, TypeInv, Waiting, StepTypes, StepState

\* The screen and its worker stay in their types; in particular the buffer never
\* takes more than a chunk, nor the loop more than it set out to hash, even when the
\* disk goes or the image shrinks under it.
THEOREM VerifyTypes == Spec => []TypeOK
BY VerifyInitTypes, VerifyTypeStep, TypeInvIsEnough, PTL DEF Spec

-----------------------------------------------------------------------------
(* What the screen has chosen.                                             *)

ScreenInv ==
  /\ phase \in {"home", "devices", "sudoPass"} => target = None
  /\ phase \in {"devices", "sudoPass"} => mode = "install"
  /\ phase = "done" /\ target = None => message = "error"
  /\ reference \/ target = "image" => image # None
  /\ target # None => (target = "image" <=> mode = "image")
  /\ job.at # "none" => (job.compare <=> mode = "install" /\ reference)

-----------------------------------------------------------------------------
(* What the worker has found, as long as nothing disturbs it.              *)

GptIsGood == GptAt < SizeOf(target) /\ Content(target)[GptAt] = "both"
EspHas(cells) == EspAt < SizeOf(target) /\ Content(target)[EspAt] \in cells

\* The list of issues is empty exactly when all that was looked at is good.
Findings ==
  /\ job.at \in {"boot", "ukis", "luks"} =>
       (GptIsGood => job.found = {"esp", "store"})
  /\ job.at = "boot" => (job.issues = {} <=> GptIsGood)
  /\ job.at = "ukis" =>
       (job.issues = {} <=> GptIsGood /\ EspHas({"full", "noUkis"}))
  /\ job.at = "luks" => (job.issues = {} <=> GptIsGood /\ EspHas({"full"}))
  /\ job.at = "whole" => (job.issues = {} <=> Bootable(target))
  /\ job.at \in {"chunk", "device", "image"} =>
       (job.issues = {} <=>
          Bootable(target) /\ (target = "image" \/ job.imgLen <= SizeOf(target)))

\* Target and image have the same first n cells.
SameUpTo(n) == \A i \in 0..(n - 1) : Content(target)[i] = image[i]

Chunks ==
  {Slice(c, off, n) : c \in Images \cup {Contents[d] : d \in Disks},
                      off \in Nat, n \in Nat}

\* The reader is where the loop is, the buffer has what the target has there, and
\* the digests agree exactly when what went into them does.
Hashing ==
  /\ job.at = "chunk" => job.reader.pos = job.done
  /\ job.at \in {"device", "image"} =>
       /\ job.reader.pos = job.done + job.filled
       /\ job.buf = Slice(Content(target), job.done, job.filled)
  /\ job.at = "image" => target # "image"
  /\ target = "image" => job.total = SizeOf(target)
  /\ target # "image" =>
       /\ job.compare
       /\ job.imgLen = SizeOf("image")
       /\ job.total = Least(job.imgLen, SizeOf(target))
       /\ job.devHash = job.imgHash <=> SameUpTo(job.done)

Digests ==
  target # "image" => job.devHash \in Seq(Chunks) /\ job.imgHash \in Seq(Chunks)

ReaderIsExact ==
  /\ job.reader.len = SizeOf(target)
  /\ Coherent(job.reader, Content(target), SizeOf(target))

WorkInv ==
  ~disturbed /\ job.at \notin {"none", "open"} =>
    /\ Readable
    /\ ReaderIsExact
    /\ Findings
    /\ job.at \in {"chunk", "device", "image"} => Hashing /\ Digests

-----------------------------------------------------------------------------
(* The verdict.                                                            *)

\* A verdict is right.
IsRight(verdict) ==
  /\ verdict = "pass" =>
       /\ Bootable(target)
       /\ mode = "install" /\ reference /\ (steps[4] = "ok" \/ ~skip) =>
            Carries(target)
  /\ verdict \in {"fail", "error"} =>
       ~Bootable(target) \/ (mode = "install" /\ reference /\ ~Carries(target))

VerdictInv ==
  ~disturbed =>
    /\ channel # "none" => IsRight(channel)
    /\ phase = "done" /\ target # None => IsRight(message)

VerifyInv == TypeInv /\ ScreenInv /\ WorkInv /\ VerdictInv

LEMMA SpawnScreen ==
  ASSUME TypeInv, NEW t \in Disks \cup {"image"}, NEW compare \in BOOLEAN,
         NEW kind \in {"file", "sudo"}, Spawn(t, compare, kind), UNCHANGED image,
         t = "image" <=> mode' = "image", compare <=> mode' = "install" /\ reference',
         reference' \/ t = "image" => image # None
  PROVE  ScreenInv'
<1>1. job'.compare = compare
  BY SpawnTypes DEF TypeInv
<1>2. phase' = "running" /\ target' = t
  BY DEF Spawn
<1>3. t # None
  BY TargetsAssumption
<1> QED
  BY <1>1, <1>2, <1>3 DEF ScreenInv

LEMMA ScreenStepInv == TypeInv /\ ScreenInv /\ [Next]_vars => ScreenInv'
<1> SUFFICES ASSUME TypeInv, ScreenInv, [Next]_vars PROVE ScreenInv'
  OBVIOUS
<1>1. CASE WorkerStep
  <2>1. /\ UNCHANGED <<phase, mode, reference, message, image, target>>
        /\ job'.at # "none" => job'.compare = job.compare /\ job.at # "none"
    BY <1>1, WorkerFrame DEF quiet, screenVars, worldVars, NoJob
  <2> QED
    BY <2>1 DEF ScreenInv
<1>2. CASE OpenImage
  <2>1. CASE image # None
    BY <1>2, <2>1, SpawnScreen DEF OpenImage, worldVars
  <2>2. CASE image = None
    BY <1>2, <2>2 DEF OpenImage, ScreenInv, TypeInv, Waiting, worldVars
  <2> QED
    BY <2>1, <2>2
<1>3. ASSUME NEW d \in Disks, NEW kind \in {"file", "sudo"}, ArmInstall(d, kind),
             phase \in {"devices", "sudoPass"}
      PROVE  ScreenInv'
  <2>1. mode = "install" /\ reference \in BOOLEAN /\ d # "image"
    BY <1>3, TargetsAssumption DEF ScreenInv, TypeInv, ScreenTypes
  <2> QED
    BY <1>3, <2>1, SpawnScreen DEF ArmInstall, ScreenInv, worldVars
<1>4. ASSUME NEW d \in Disks, ChooseDisk(d) PROVE ScreenInv'
  <2>1. CASE ArmInstall(d, "file")
    BY <1>3, <1>4, <2>1 DEF ChooseDisk
  <2>2. CASE AskPassword
    BY <1>4, <2>2 DEF ChooseDisk, AskPassword, ScreenInv, worldVars
  <2> QED
    BY <1>4, <2>1, <2>2 DEF ChooseDisk
<1>5. CASE Authenticate
  <2>1. phase = "sudoPass" /\ pending \in Disks
    BY <1>5 DEF Authenticate, TypeInv, ScreenTypes
  <2>2. CASE ArmInstall(pending, "sudo") \/ ArmInstall(pending, "file")
    BY <1>3, <2>1, <2>2
  <2>3. CASE phase' = "done" /\ message' = "error"
    BY <1>5, <2>1, <2>3 DEF Authenticate, ArmInstall, Spawn, ScreenInv, TypeInv, Waiting, worldVars
  <2> QED
    BY <1>5, <2>2, <2>3 DEF Authenticate
<1>6. CASE OpenInstall
  BY <1>6 DEF OpenInstall, ScreenInv, TypeInv, Waiting, worldVars
<1>7. CASE Leave \/ Waive
  BY <1>7, TargetsAssumption
     DEF Leave, DropScreen, Waive, ScreenInv, TypeInv, Waiting, worldVars
<1>8. CASE Drain
  BY <1>8 DEF Drain, ScreenInv, TypeInv, Waiting, worldVars
<1>9. CASE CtrlC
  BY <1>9, TargetsAssumption DEF CtrlC, DropScreen, ScreenInv, NoJob, worldVars
<1>10. ASSUME NEW d \in Disks, Pull(d) PROVE ScreenInv'
  BY <1>10 DEF Pull, ScreenInv, screenVars
<1>11. CASE Rebuild
  BY <1>11, TargetsAssumption DEF Rebuild, ScreenInv, screenVars, IsTarget
<1>12. CASE UNCHANGED vars
  BY <1>12 DEF vars, screenVars, worldVars, ScreenInv
<1> QED
  BY <1>1, <1>2, <1>4, <1>5, <1>6, <1>7, <1>8, <1>9, <1>10, <1>11, <1>12 DEF Next, ScreenStep

-----------------------------------------------------------------------------
(* An undisturbed worker.                                                  *)

\* What any handle, with whatever it has cached of the target, reads of it.
LEMMA TargetIsRead ==
  ASSUME TypeInv, target \in Disks \cup {"image"}, NEW r, IsReader(r), NEW n \in Nat,
         r.len = SizeOf(target), Coherent(r, Content(target), SizeOf(target))
  PROVE  LET answer == Read(r, Content(target), SizeOf(target), n)
         IN /\ IsExact(r, Content(target), SizeOf(target), n, answer)
            /\ Coherent(answer.reader, Content(target), SizeOf(target))
<1>1. SizeOf(target) \in Nat
  BY SizeIsNat DEF TypeInv
<1> QED
  BY <1>1, ReadIsExact DEF IsReader

\* A check by a clone of the handle sees what is on the target.
LEMMA ChecksSee ==
  ASSUME TypeInv, target \in Disks \cup {"image"}, Readable,
         job.reader.len = SizeOf(target), NEW off \in Nat
  PROVE  /\ Peek(off).n = 1 <=> off < SizeOf(target)
         /\ off < SizeOf(target) => Peek(off).bytes[0] = Content(target)[off]
         /\ \A cells : Finds(off, cells) <=>
              off < SizeOf(target) /\ Content(target)[off] \in cells
<1> DEFINE r == SeekTo(Opened(job.reader.kind, job.reader.len), off)
           answer == Read(r, Content(target), SizeOf(target), 1)
<1>1. SizeOf(target) \in Nat /\ job.reader.kind \in {"file", "sudo"}
  BY SizeIsNat DEF TypeInv, JobTypes, IsReader, Readers
<1>2. IsReader(r) /\ r.len = SizeOf(target) /\ r.pos = off
  BY <1>1, OpenedIsReader DEF SeekTo, Opened
<1>3. Coherent(r, Content(target), SizeOf(target))
  BY <1>1 DEF Coherent, SeekTo, Opened
<1>4. Peek(off) = answer
  BY DEF Peek
<1> HIDE DEF r
<1>5. IsExact(r, Content(target), SizeOf(target), 1, answer)
  BY <1>2, <1>3, TargetIsRead
<1> HIDE DEF answer
<1>6. /\ answer.n \in 0..1 /\ (answer.n = 1 <=> off < SizeOf(target))
      /\ answer.bytes = Slice(Content(target), off, answer.n)
  BY <1>1, <1>2, <1>5 DEF IsExact
<1>7. off < SizeOf(target) => answer.bytes[0] = Content(target)[off]
  BY <1>6 DEF Slice
<1> QED
  BY <1>4, <1>6, <1>7 DEF Finds

\* As long as target and image stay, so does all that is true of them.
LEMMA SameWorld ==
  ASSUME UNCHANGED <<target, image>>
  PROVE  /\ Content(target)' = Content(target) /\ SizeOf(target)' = SizeOf(target)
         /\ SizeOf("image")' = SizeOf("image")
         /\ Bootable(target)' = Bootable(target) /\ GptIsGood' = GptIsGood
         /\ Carries(target)' = Carries(target)
         /\ \A cells : EspHas(cells)' = EspHas(cells)
         /\ \A n : SameUpTo(n)' = SameUpTo(n)
<1>1. Content(target)' = Content(target) /\ Content("image")' = Content("image")
  BY DEF Content
<1>2. SizeOf(target)' = SizeOf(target) /\ SizeOf("image")' = SizeOf("image")
  BY <1>1 DEF SizeOf
<1>3. Bootable(target)' = Bootable(target) /\ GptIsGood' = GptIsGood
  BY <1>1, <1>2 DEF Bootable, GptIsGood
<1>4. Carries(target)' = Carries(target)
  BY <1>1, <1>2 DEF Carries
<1>5. \A cells : EspHas(cells)' = EspHas(cells)
  BY <1>1, <1>2 DEF EspHas
<1>6. \A n : SameUpTo(n)' = SameUpTo(n)
  BY <1>1 DEF SameUpTo
<1> QED
  BY <1>1, <1>2, <1>3, <1>4, <1>5, <1>6

\* The worker is past its opening and nothing has disturbed it.
Undisturbed ==
  /\ TypeInv /\ ScreenInv /\ target \in Disks \cup {"image"}
  /\ Readable /\ ReaderIsExact /\ Findings

\* What the partition table shows is what it has.
LEMMA GptIsJudged ==
  ASSUME Undisturbed, CheckGpt, job' # NoJob, UNCHANGED quiet
  PROVE  Findings' /\ job'.reader = job.reader /\ job'.at \in {"boot", "luks"}
<1>1. PICK p \in {Partitions} :
        job' = [job EXCEPT !.at = IF "esp" \in p.found THEN "boot" ELSE "luks",
                           !.found = p.found, !.issues = p.issues]
  BY DEF CheckGpt, Fault, Return
<1>2. /\ job'.at = IF "esp" \in p.found THEN "boot" ELSE "luks"
      /\ job'.found = p.found /\ job'.issues = p.issues /\ job'.reader = job.reader
  BY <1>1 DEF Undisturbed, TypeInv, JobTypes, NoJob
<1>3. \A cells : Finds(GptAt, cells) <=>
        GptAt < SizeOf(target) /\ Content(target)[GptAt] \in cells
  BY ChecksSee DEF Undisturbed, ReaderIsExact, GptAt
<1>4. GptAt < SizeOf(target) => Peek(GptAt).bytes[0] = Content(target)[GptAt]
  BY ChecksSee DEF Undisturbed, ReaderIsExact, GptAt
<1>5. (p.issues = {} <=> GptIsGood) /\ (GptIsGood => p.found = {"esp", "store"})
  <2>1. CASE ~Finds(GptAt, {"both", "extra", "noEsp", "noStore"})
    <3>1. p.issues = {"gpt"} /\ ~GptIsGood
      BY <1>3, <2>1 DEF Partitions, GptIsGood
    <3> QED
      BY <3>1
  <2>2. CASE Finds(GptAt, {"both", "extra", "noEsp", "noStore"})
    <3> DEFINE gpt == Content(target)[GptAt]
    <3>1. /\ gpt \in {"both", "extra", "noEsp", "noStore"} /\ (GptIsGood <=> gpt = "both")
          /\ Peek(GptAt).bytes[0] = gpt
      BY <1>3, <1>4, <2>2 DEF GptIsGood
    <3>2. p.found = {q \in {"esp", "store"} : ~(q = "esp" /\ gpt = "noEsp")
                                             /\ ~(q = "store" /\ gpt = "noStore")}
      BY <2>2, <3>1 DEF Partitions
    <3>3. p.issues = {i \in {"count", "esp", "store"} : \/ i = "count" /\ gpt = "extra"
                                                        \/ i = "esp" /\ gpt = "noEsp"
                                                        \/ i = "store" /\ gpt = "noStore"}
      BY <2>2, <3>1 DEF Partitions
    <3> HIDE DEF gpt
    <3> QED
      BY <3>1, <3>2, <3>3
  <2> QED
    BY <2>1, <2>2
<1>6. GptIsGood' = GptIsGood /\ \A cells : EspHas(cells)' = EspHas(cells)
  BY SameWorld DEF quiet, worldVars
<1>7. "esp" \notin p.found => ~GptIsGood
  BY <1>5
<1> QED
  BY <1>2, <1>5, <1>6, <1>7 DEF Findings

\* The boot loader and the kernels are found where the ESP has them.
LEMMA EspIsJudged ==
  ASSUME Undisturbed, CheckBoot \/ CheckUkis, job' # NoJob, UNCHANGED quiet
  PROVE  Findings' /\ job'.reader = job.reader /\ job'.at \in {"ukis", "luks"}
<1>1. \A cells : Finds(EspWindow, cells) <=> EspHas(cells)
  BY ChecksSee DEF Undisturbed, ReaderIsExact, EspWindow, WindowRead, EspAt, EspHas
<1>2. GptIsGood' = GptIsGood /\ \A cells : EspHas(cells)' = EspHas(cells)
  BY SameWorld DEF quiet, worldVars
<1>3. EspHas({"full"}) <=> EspHas({"full", "noUkis"}) /\ EspHas({"full", "noLoader"})
  BY DEF EspHas
<1>4. CASE CheckBoot
  <2>1. \/ /\ EspHas({"full", "noLoader", "noUkis"})
           /\ job' = [job EXCEPT !.at = "ukis",
                        !.issues = IF EspHas({"full", "noUkis"}) THEN @ ELSE @ \cup {"boot"}]
        \/ /\ ~EspHas({"full", "noLoader", "noUkis"})
           /\ job' = [job EXCEPT !.at = "luks", !.issues = @ \cup {"fat"}]
    BY <1>1, <1>4 DEF CheckBoot, Fault, Return
  <2>2. job.at = "boot"
    BY <1>4 DEF CheckBoot, At
  <2>3. /\ job'.found = job.found /\ job'.reader = job.reader
        /\ \/ job'.at = "ukis" /\ EspHas({"full", "noUkis"}) /\ job'.issues = job.issues
           \/ /\ job'.at = "ukis" /\ ~EspHas({"full", "noUkis"})
              /\ job'.issues = job.issues \cup {"boot"}
           \/ /\ job'.at = "luks" /\ ~EspHas({"full"})
              /\ job'.issues = job.issues \cup {"fat"}
    BY <2>1 DEF Undisturbed, TypeInv, JobTypes, NoJob, EspHas
  <2> QED
    BY <1>2, <2>2, <2>3 DEF Undisturbed, Findings
<1>5. CASE CheckUkis
  <2>1. job' = [job EXCEPT !.at = "luks",
                  !.issues = IF EspHas({"full", "noLoader"}) THEN @ ELSE @ \cup {"ukis"}]
    BY <1>1, <1>5 DEF CheckUkis
  <2>2. job.at = "ukis"
    BY <1>5 DEF CheckUkis, At
  <2>3. /\ job'.found = job.found /\ job'.reader = job.reader /\ job'.at = "luks"
        /\ job'.issues = IF EspHas({"full", "noLoader"}) THEN job.issues
                         ELSE job.issues \cup {"ukis"}
    BY <2>1 DEF Undisturbed, TypeInv, JobTypes, NoJob
  <2> QED
    BY <1>2, <1>3, <2>2, <2>3 DEF Undisturbed, Findings
<1> QED
  BY <1>4, <1>5

\* The header of the store is read through the handle itself; when that fails, the
\* target ends before the store.
LEMMA StoreIsJudged ==
  ASSUME Undisturbed, SkipLuks \/ CheckLuks
  PROVE  /\ job' # NoJob /\ UNCHANGED quiet => Findings' /\ job'.at = "whole" /\ ReaderIsExact'
         /\ job' = NoJob => channel' = "error" /\ ~Bootable(target)
<1>1. job.at = "luks" /\ (GptIsGood => job.found = {"esp", "store"})
      /\ (job.issues = {} <=> GptIsGood /\ EspHas({"full"}))
  BY DEF Undisturbed, Findings, SkipLuks, CheckLuks, At
<1>2. Bootable(target) <=> GptIsGood /\ EspHas({"full"}) /\ StoreAt < SizeOf(target)
                           /\ Content(target)[StoreAt] = "luks2"
  <2>1. SizeOf(target) \in Nat
    BY SizeIsNat DEF Undisturbed, TypeInv
  <2> QED
    BY <2>1 DEF Bootable, GptIsGood, EspHas, GptAt, EspAt, StoreAt
<1>3. UNCHANGED quiet => /\ Bootable(target)' = Bootable(target)
                         /\ Content(target)' = Content(target) /\ SizeOf(target)' = SizeOf(target)
  BY SameWorld DEF quiet, worldVars
<1>4. CASE SkipLuks
  <2>1. job.found # {"esp", "store"} /\ job' = [job EXCEPT !.at = "whole"]
    BY <1>4 DEF SkipLuks
  <2>2. job'.at = "whole" /\ job'.issues = job.issues /\ job'.reader = job.reader
    BY <2>1 DEF Undisturbed, TypeInv, JobTypes, NoJob
  <2> QED
    BY <1>1, <1>2, <1>3, <2>1, <2>2 DEF Findings, Undisturbed, ReaderIsExact, NoJob
<1>5. CASE CheckLuks
  <2> DEFINE r == SeekTo(job.reader, StoreAt)
             answer == Read(r, Content(target), SizeOf(target), 1)
             ok == answer.bytes[0] = "luks2"
  <2>1. \/ /\ answer.n = 1
           /\ job' = [job EXCEPT !.at = "whole", !.reader = answer.reader,
                                 !.issues = IF ok THEN @ ELSE @ \cup {"luks"}]
        \/ answer.n = 0 /\ job' = NoJob /\ channel' = "error"
    BY <1>5 DEF CheckLuks, Return, Undisturbed
  <2>2. IsReader(r) /\ r.pos = StoreAt /\ r.len = SizeOf(target)
        /\ Coherent(r, Content(target), SizeOf(target))
    <3>1. IsReader(job.reader)
      BY DEF Undisturbed, TypeInv, JobTypes
    <3>2. IsReader(r) /\ r.pos = StoreAt /\ r.len = job.reader.len
      BY <3>1, SeekIsReader DEF StoreAt
    <3>3. r.start = job.reader.start /\ r.held = job.reader.held /\ r.cache = job.reader.cache
      BY <3>1 DEF SeekTo, IsReader, Readers
    <3> QED
      BY <3>2, <3>3 DEF Undisturbed, ReaderIsExact, Coherent
  <2> HIDE DEF r
  <2>3. /\ IsExact(r, Content(target), SizeOf(target), 1, answer)
        /\ Coherent(answer.reader, Content(target), SizeOf(target))
    BY <2>2, TargetIsRead DEF Undisturbed
  <2>4. answer.reader.len = SizeOf(target)
    BY <2>2, <2>3 DEF IsExact
  <2>5. /\ answer.n = 1 => StoreAt < SizeOf(target) /\ answer.bytes[0] = Content(target)[StoreAt]
        /\ answer.n = 0 => ~(StoreAt < SizeOf(target))
    <3>1. SizeOf(target) \in Nat
      BY SizeIsNat DEF Undisturbed, TypeInv
    <3> QED
      BY <2>2, <2>3, <3>1 DEF IsExact, Slice, StoreAt
  <2> HIDE DEF answer
  <2>6. CASE answer.n = 1
    <3>a. job' = [job EXCEPT !.at = "whole", !.reader = answer.reader,
                            !.issues = IF ok THEN @ ELSE @ \cup {"luks"}]
      BY <2>1, <2>6
    <3>b. DOMAIN job = DOMAIN NoJob
      BY DEF Undisturbed, TypeInv, JobTypes
    <3> HIDE DEF ok
    <3>1. /\ job'.at = "whole" /\ job'.reader = answer.reader
          /\ job'.issues = IF ok THEN job.issues ELSE job.issues \cup {"luks"}
          /\ job' # NoJob
      BY <3>a, <3>b DEF NoJob
    <3> USE DEF ok
    <3> QED
      BY <1>1, <1>2, <1>3, <2>3, <2>4, <2>5, <2>6, <3>1 DEF Findings, ReaderIsExact
  <2>7. CASE answer.n = 0
    <3>1. job' = NoJob /\ channel' = "error"
      BY <2>1, <2>7
    <3> QED
      BY <1>2, <2>5, <2>7, <3>1
  <2> QED
    BY <2>1, <2>6, <2>7
<1> QED
  BY <1>4, <1>5

\* A chunk more on both sides agrees when all that was hashed does and the chunk does.
LEMMA DigestsAgree ==
  ASSUME NEW S, NEW a \in Seq(S), NEW b \in Seq(S), NEW x \in S, NEW y \in S
  PROVE  Append(a, x) = Append(b, y) <=> a = b /\ x = y
<1>1. ASSUME Append(a, x) = Append(b, y) PROVE a = b /\ x = y
  <2>1. Len(a) = Len(b)
    BY <1>1
  <2>2. Append(a, x)[Len(a) + 1] = x /\ Append(b, y)[Len(b) + 1] = y
    OBVIOUS
  <2>3. \A i \in 1..Len(a) : Append(a, x)[i] = a[i] /\ Append(b, y)[i] = b[i]
    BY <2>1
  <2> QED
    BY <1>1, <2>1, <2>2, <2>3
<1> QED
  BY <1>1

LEMMA ChunksAgree ==
  ASSUME NEW done \in Nat, NEW n \in Nat
  PROVE  SameUpTo(done) /\ Slice(Content(target), done, n) = Slice(image, done, n)
           <=> SameUpTo(done + n)
<1> DEFINE c == Content(target)
<1>1. ASSUME SameUpTo(done), Slice(c, done, n) = Slice(image, done, n), NEW i \in 0..(done + n - 1)
      PROVE  c[i] = image[i]
  <2>1. CASE i < done
    BY <1>1, <2>1 DEF SameUpTo
  <2>2. CASE i >= done
    <3>1. i - done \in 0..(n - 1) /\ done + (i - done) = i
      BY <2>2
    <3>2. Slice(c, done, n)[i - done] = c[i] /\ Slice(image, done, n)[i - done] = image[i]
      BY <3>1 DEF Slice
    <3> QED
      BY <1>1, <3>2
  <2> QED
    BY <2>1, <2>2
<1>2. ASSUME SameUpTo(done + n)
      PROVE  SameUpTo(done) /\ Slice(c, done, n) = Slice(image, done, n)
  <2>1. \A i \in 0..(n - 1) : c[done + i] = image[done + i]
    BY <1>2 DEF SameUpTo
  <2> QED
    BY <1>2, <2>1 DEF SameUpTo, Slice
<1> QED
  BY <1>1, <1>2 DEF SameUpTo

LEMMA SeekIsExact ==
  ASSUME TypeInv, ReaderIsExact, NEW off \in Nat
  PROVE  LET r == SeekTo(job.reader, off)
         IN /\ r.pos = off /\ r.len = SizeOf(target)
            /\ Coherent(r, Content(target), SizeOf(target))
<1>1. IsReader(job.reader)
  BY DEF TypeInv, JobTypes
<1> QED
  BY <1>1 DEF SeekTo, IsReader, Readers, ReaderIsExact, Coherent

\* The image to compare with is there, and has a size.
LEMMA ImageIsThere ==
  ASSUME TypeInv, ScreenInv, job.at # "none", job.compare
  PROVE  image \in Images /\ Content("image") = image /\ reference /\ mode = "install"
BY DEF TypeInv, ScreenTypes, ScreenInv, Content

\* Hashing starts at the beginning of both.
LEMMA HashingStarts ==
  ASSUME Undisturbed, HashImage \/ StartCompare, job' # NoJob, UNCHANGED quiet
  PROVE  ReaderIsExact' /\ Findings' /\ Hashing' /\ Digests'
<1>1. job.at = "whole" /\ job.done = 0 /\ job.devHash = <<>> /\ job.imgHash = <<>>
      /\ (job.issues = {} <=> Bootable(target)) /\ job.reader.len = SizeOf(target)
  BY DEF Undisturbed, HashImage, StartCompare, At, Findings, TypeInv, JobTypes, ReaderIsExact
<1>2. /\ Bootable(target)' = Bootable(target)
      /\ Content(target)' = Content(target) /\ SizeOf(target)' = SizeOf(target)
      /\ SizeOf("image")' = SizeOf("image") /\ target' = target
  BY SameWorld DEF quiet, worldVars
<1>3. SameUpTo(0)'
  BY DEF SameUpTo
<1>4. SizeOf(target) \in Nat /\ SizeOf("image") \in Nat
  BY SizeIsNat DEF Undisturbed, TypeInv
<1>5. /\ job'.at = "chunk" /\ job'.reader = SeekTo(job.reader, 0) /\ job'.done = 0
      /\ job'.devHash = <<>> /\ job'.imgHash = <<>> /\ job'.compare = job.compare
      /\ \/ target = "image" /\ job'.total = SizeOf(target) /\ job'.issues = job.issues
         \/ /\ target # "image" /\ job.compare
            /\ job'.imgLen = SizeOf("image")
            /\ job'.total = Least(SizeOf("image"), SizeOf(target))
            /\ job'.issues = IF SizeOf(target) < SizeOf("image") THEN job.issues \cup {"small"}
                             ELSE job.issues
  <2>1. CASE HashImage
    BY <1>1, <2>1 DEF HashImage, Undisturbed, TypeInv, JobTypes, NoJob
  <2>2. CASE StartCompare
    <3>1. job' = [job EXCEPT !.at = "chunk", !.reader = SeekTo(@, 0),
                    !.imgLen = SizeOf("image"),
                    !.total = Least(SizeOf("image"), job.reader.len),
                    !.issues = IF job.reader.len < SizeOf("image")
                               THEN @ \cup {"small"} ELSE @]
          /\ target # "image" /\ job.compare
      BY <2>2 DEF StartCompare, Fault, Return
    <3>2. DOMAIN job = DOMAIN NoJob
      BY DEF Undisturbed, TypeInv, JobTypes
    <3> QED
      BY <1>1, <3>1, <3>2 DEF NoJob
  <2> QED
    BY <2>1, <2>2
<1>6. ReaderIsExact' /\ job'.reader.pos = 0
  BY <1>2, <1>5, SeekIsExact DEF Undisturbed, ReaderIsExact
<1>7. Findings'
  <2>1. job'.issues = {} <=> Bootable(target) /\ (target = "image" \/ job'.imgLen <= SizeOf(target))
    <3>1. CASE target = "image"
      BY <1>1, <1>5, <3>1
    <3>2. CASE target # "image" /\ SizeOf(target) < SizeOf("image")
      <4>1. job'.issues # {} /\ ~(job'.imgLen <= SizeOf(target))
        <5>1. job'.issues = job.issues \cup {"small"} /\ job'.imgLen = SizeOf("image")
          BY <1>5, <3>2
        <5> QED
          BY <1>4, <3>2, <5>1
      <4> QED
        BY <3>2, <4>1
    <3>3. CASE target # "image" /\ ~(SizeOf(target) < SizeOf("image"))
      <4>1. job'.issues = job.issues /\ job'.imgLen <= SizeOf(target)
        BY <1>4, <1>5, <3>3
      <4> QED
        BY <1>1, <3>3, <4>1
    <3> QED
      BY <3>1, <3>2, <3>3
  <2> QED
    BY <1>2, <1>5, <2>1 DEF Findings
<1>8. Hashing' /\ Digests'
  BY <1>2, <1>3, <1>5, <1>6 DEF Hashing, Digests
<1> QED
  BY <1>6, <1>7, <1>8

\* A pass of the loop up to the moment its chunk is read on the target.
LEMMA ChunkIsRead ==
  ASSUME Undisturbed, job.at \in {"chunk", "device", "image"}, Hashing, Digests,
         NextChunk \/ ReadDevice, UNCHANGED quiet
  PROVE  job' # NoJob /\ ReaderIsExact' /\ Findings' /\ Hashing' /\ Digests'
<1>0. /\ DOMAIN job = DOMAIN NoJob /\ IsReader(job.reader) /\ job.total \in Nat
      /\ job.done \in 0..job.total /\ job.filled \in Nat
  BY ChunkAssumption DEF Undisturbed, TypeInv, JobTypes
<1>1. /\ Content(target)' = Content(target) /\ SizeOf(target)' = SizeOf(target)
      /\ SizeOf("image")' = SizeOf("image") /\ target' = target
      /\ Bootable(target)' = Bootable(target) /\ \A n : SameUpTo(n)' = SameUpTo(n)
  BY SameWorld DEF quiet, worldVars
<1>2. /\ SizeOf(target) \in Nat /\ SizeOf("image") \in Nat /\ job.total <= SizeOf(target)
  <2>1. SizeOf(target) \in Nat /\ SizeOf("image") \in Nat
    BY SizeIsNat DEF Undisturbed, TypeInv
  <2> QED
    BY <2>1 DEF Hashing, Least
<1>3. Want \in Nat /\ Want <= Chunk /\ Want <= job.total - job.done
      /\ (job.done < job.total => Want > 0)
  BY <1>0, ChunkAssumption, BlockAssumption DEF Want, Least
<1>4. CASE NextChunk
  <2>1. /\ job.at = "chunk" /\ job.done < job.total
        /\ job' = [job EXCEPT !.at = "device", !.filled = 0, !.buf = <<>>]
    BY <1>4 DEF NextChunk, At
  <2>2. /\ job'.at = "device" /\ job'.filled = 0 /\ job'.buf = <<>> /\ job'.done = job.done
        /\ job'.total = job.total /\ job'.imgLen = job.imgLen /\ job'.issues = job.issues
        /\ job'.reader = job.reader /\ job'.compare = job.compare
        /\ job'.devHash = job.devHash /\ job'.imgHash = job.imgHash /\ job' # NoJob
    BY <1>0, <2>1 DEF NoJob
  <2>3. job'.buf = Slice(Content(target)', job'.done, job'.filled)
    BY <2>2 DEF Slice
  <2>4. ReaderIsExact' /\ Findings'
    BY <1>1, <2>1, <2>2 DEF Undisturbed, ReaderIsExact, Findings
  <2>5. Hashing' /\ Digests'
    BY <1>0, <1>1, <2>1, <2>2, <2>3 DEF Hashing, Digests
  <2> QED
    BY <2>2, <2>4, <2>5
<1>5. CASE ReadDevice
  <2> DEFINE want == Want - job.filled
             answer == Read(job.reader, Content(target), SizeOf(target), want)
             full == job.filled + answer.n = Want
             hash == full /\ target = "image"
  <2>1. job.at = "device" /\ want \in Nat /\ want > 0 /\ job.done < job.total
    BY <1>0, <1>3, <1>5 DEF ReadDevice, At, Undisturbed, TypeInv, JobTypes
  <2>2. /\ IsExact(job.reader, Content(target), SizeOf(target), want, answer)
        /\ Coherent(answer.reader, Content(target), SizeOf(target))
    BY <1>0, <2>1, TargetIsRead DEF Undisturbed, ReaderIsExact
  <2>3. /\ job.reader.pos = job.done + job.filled /\ job.reader.len = SizeOf(target)
        /\ job.buf = Slice(Content(target), job.done, job.filled)
    BY <2>1 DEF Hashing, Undisturbed, ReaderIsExact
  <2>a. job.reader.pos < SizeOf(target)
    BY <1>0, <1>2, <1>3, <2>1, <2>3
  <2>4. /\ answer.n \in 1..want /\ answer.reader.pos = job.done + job.filled + answer.n
        /\ answer.reader.len = SizeOf(target)
        /\ answer.bytes = Slice(Content(target), job.done + job.filled, answer.n)
    <3> HIDE DEF answer, want
    <3> QED
      BY <1>2, <2>1, <2>2, <2>3, <2>a DEF IsExact
  <2>5. job' = [job EXCEPT
          !.reader = answer.reader, !.filled = @ + answer.n, !.buf = Filled(answer),
          !.at = IF hash THEN "chunk" ELSE IF full THEN "image" ELSE @,
          !.done = IF hash THEN @ + Want ELSE @,
          !.devHash = IF hash THEN Append(@, Filled(answer)) ELSE @]
    BY <1>5, <2>4 DEF ReadDevice, Undisturbed
  <2> HIDE DEF answer, full, hash
  <2>6. /\ job'.reader = answer.reader /\ job'.filled = job.filled + answer.n
        /\ job'.buf = Filled(answer)
        /\ job'.at = (IF hash THEN "chunk" ELSE IF full THEN "image" ELSE "device")
        /\ job'.done = (IF hash THEN job.done + Want ELSE job.done)
        /\ job'.devHash = (IF hash THEN Append(job.devHash, Filled(answer)) ELSE job.devHash)
        /\ job'.imgHash = job.imgHash /\ job'.total = job.total /\ job'.imgLen = job.imgLen
        /\ job'.issues = job.issues /\ job'.compare = job.compare
    BY <1>0, <2>1, <2>5 DEF NoJob
  <2>7. Filled(answer) = Slice(Content(target), job.done, job.filled + answer.n)
    <3>1. \A i \in 0..(job.filled + answer.n - 1) :
            (IF i < job.filled THEN job.buf[i] ELSE answer.bytes[i - job.filled])
              = Content(target)[job.done + i]
      <4> TAKE i \in 0..(job.filled + answer.n - 1)
      <4>1. CASE i < job.filled
        BY <1>0, <2>3, <2>4, <4>1 DEF Slice
      <4>2. CASE ~(i < job.filled)
        <5>1. i - job.filled \in 0..(answer.n - 1)
              /\ job.done + job.filled + (i - job.filled) = job.done + i
          BY <1>0, <2>4, <4>2
        <5>2. answer.bytes[i - job.filled] = Content(target)[job.done + i]
          BY <2>4, <5>1 DEF Slice
        <5> QED
          BY <4>2, <5>2
      <4> QED
        BY <4>1, <4>2
    <3>2. Filled(answer) =
            [i \in 0..(job.filled + answer.n - 1) |-> Content(target)[job.done + i]]
      BY <3>1 DEF Filled
    <3>3. Slice(Content(target), job.done, job.filled + answer.n) =
            [i \in 0..(job.filled + answer.n - 1) |-> Content(target)[job.done + i]]
      BY <1>0, <2>4 DEF Slice
    <3> QED
      BY <3>2, <3>3, Zenon
  <2>8. ReaderIsExact'
    BY <1>1, <2>2, <2>4, <2>6 DEF ReaderIsExact
  <2>9. job'.at \in {"chunk", "device", "image"} /\ job' # NoJob
    BY <2>6 DEF NoJob
  <2>10. Findings'
    BY <1>1, <2>1, <2>6, <2>9 DEF Undisturbed, Findings
  <2>11. CASE hash
    <3>1. target = "image" /\ job.filled + answer.n = Want
      BY <2>11 DEF hash, full
    <3>2. job'.at = "chunk" /\ job'.done = job.done + Want
      BY <2>6, <2>11
    <3>3. job'.reader.pos = job'.done
      BY <1>0, <1>3, <2>4, <2>6, <3>1, <3>2
    <3> QED
      BY <1>1, <2>6, <2>8, <2>9, <2>10, <3>1, <3>2, <3>3 DEF Hashing, Digests
  <2>12. CASE ~hash
    <3>1. job'.at \in {"device", "image"} /\ job'.done = job.done /\ job'.devHash = job.devHash
          /\ (job'.at = "image" => target # "image")
      BY <2>6, <2>12 DEF hash
    <3>2. job'.reader.pos = job'.done + job'.filled
      BY <1>0, <2>4, <2>6, <3>1
    <3>3. job'.buf = Slice(Content(target)', job'.done, job'.filled)
      BY <1>1, <2>6, <2>7, <3>1
    <3> QED
      BY <1>1, <2>6, <2>8, <2>9, <2>10, <3>1, <3>2, <3>3 DEF Hashing, Digests
  <2> QED
    BY <2>11, <2>12
<1> QED
  BY <1>4, <1>5

\* The rest of the pass: the same range of the image, and both digests.
LEMMA ChunkIsHashed ==
  ASSUME Undisturbed, job.at = "image", Hashing, Digests, ReadImage, UNCHANGED quiet
  PROVE  job' # NoJob /\ ReaderIsExact' /\ Findings' /\ Hashing' /\ Digests'
<1>0. /\ DOMAIN job = DOMAIN NoJob /\ job.total \in Nat /\ job.done \in 0..job.total
      /\ job.filled = Want /\ job.done < job.total
  BY DEF Undisturbed, TypeInv, JobTypes
<1>1. /\ Content(target)' = Content(target) /\ SizeOf(target)' = SizeOf(target)
      /\ SizeOf("image")' = SizeOf("image") /\ target' = target
      /\ Bootable(target)' = Bootable(target) /\ \A n : SameUpTo(n)' = SameUpTo(n)
  BY SameWorld DEF quiet, worldVars
<1>2. /\ target # "image" /\ job.compare /\ job.imgLen = SizeOf("image")
      /\ job.total = Least(job.imgLen, SizeOf(target))
      /\ job.reader.pos = job.done + job.filled
      /\ job.buf = Slice(Content(target), job.done, Want)
      /\ (job.devHash = job.imgHash <=> SameUpTo(job.done))
  BY <1>0 DEF Hashing
<1>3. /\ SizeOf(target) \in Nat /\ SizeOf("image") \in Nat /\ job.total <= SizeOf("image")
  <2>1. SizeOf(target) \in Nat /\ SizeOf("image") \in Nat
    BY SizeIsNat DEF Undisturbed, TypeInv
  <2> QED
    BY <1>2, <2>1 DEF Least
<1>4. Want \in Nat /\ Want <= job.total - job.done
  BY <1>0, ChunkAssumption DEF Want, Least
<1>5. job' = [job EXCEPT !.at = "chunk", !.done = @ + Want,
                         !.devHash = Append(@, job.buf),
                         !.imgHash = Append(@, Slice(image, job.done, Want))]
  BY <1>0, <1>3, <1>4 DEF ReadImage
<1>6. /\ job'.at = "chunk" /\ job'.done = job.done + Want
      /\ job'.devHash = Append(job.devHash, job.buf)
      /\ job'.imgHash = Append(job.imgHash, Slice(image, job.done, Want))
      /\ job'.total = job.total /\ job'.imgLen = job.imgLen /\ job'.issues = job.issues
      /\ job'.reader = job.reader /\ job'.compare = job.compare /\ job' # NoJob
  BY <1>0, <1>5 DEF NoJob
<1>7. job.buf \in Chunks /\ Slice(image, job.done, Want) \in Chunks
  <2>1. image \in Images
    BY <1>2, ImageIsThere DEF Undisturbed
  <2>2. Content(target) \in Images \cup {Contents[d] : d \in Disks}
    BY <1>2 DEF Undisturbed, Content
  <2>3. job.done \in Nat
    BY <1>0
  <2>4. \A c \in Images \cup {Contents[d] : d \in Disks} : Slice(c, job.done, Want) \in Chunks
    BY <1>4, <2>3 DEF Chunks
  <2> QED
    BY <1>2, <2>1, <2>2, <2>4
<1>8. job'.devHash = job'.imgHash <=> SameUpTo(job'.done)
  <2>1. job'.devHash = job'.imgHash <=>
          job.devHash = job.imgHash /\ job.buf = Slice(image, job.done, Want)
    <3>1. job.devHash \in Seq(Chunks) /\ job.imgHash \in Seq(Chunks)
      BY <1>2 DEF Digests
    <3>2. Append(job.devHash, job.buf) = Append(job.imgHash, Slice(image, job.done, Want))
            <=> job.devHash = job.imgHash /\ job.buf = Slice(image, job.done, Want)
      <4> DEFINE a == job.devHash
                 b == job.imgHash
                 x == job.buf
                 y == Slice(image, job.done, Want)
      <4>1. a \in Seq(Chunks) /\ b \in Seq(Chunks) /\ x \in Chunks /\ y \in Chunks
        BY <1>7, <3>1
      <4> HIDE DEF a, b, x, y
      <4>2. Append(a, x) = Append(b, y) <=> a = b /\ x = y
        BY <4>1, DigestsAgree
      <4> QED
        BY <4>2 DEF a, b, x, y
    <3> QED
      BY <1>6, <3>2, Zenon
  <2>2. job.done \in Nat
    BY <1>0
  <2>3. SameUpTo(job.done) /\ Slice(Content(target), job.done, Want) = Slice(image, job.done, Want)
          <=> SameUpTo(job.done + Want)
    BY <1>4, <2>2, ChunksAgree
  <2> QED
    BY <1>2, <1>6, <2>1, <2>3, Zenon
<1>9. ReaderIsExact' /\ Findings'
  BY <1>1, <1>2, <1>6 DEF Undisturbed, ReaderIsExact, Findings
<1>10. Digests'
  BY <1>2, <1>6, <1>7 DEF Digests
<1>11. Hashing'
  BY <1>0, <1>1, <1>2, <1>6, <1>8 DEF Hashing
<1> QED
  BY <1>6, <1>9, <1>10, <1>11

\* What Carries says, as the hashing loop sees it.
LEMMA CarriesIsSame ==
  ASSUME TypeInv, ScreenInv, job.at # "none", job.compare
  PROVE  Carries(target) <=>
           SizeOf("image") <= SizeOf(target) /\ SameUpTo(SizeOf("image"))
<1>1. image \in Images /\ Content("image") = image /\ image # None
  BY ImageIsThere, TargetsAssumption DEF IsTarget
<1>2. DOMAIN image = 0..(SizeOf("image") - 1)
  BY <1>1, SizeIsNat DEF TypeInv
<1> QED
  BY <1>2 DEF Carries, SameUpTo

\* The digests settle it.
LEMMA SettlesRight ==
  ASSUME Undisturbed, job.at = "chunk", Hashing, Settle, UNCHANGED quiet
  PROVE  IsRight(channel)'
<1> DEFINE same == target = "image" \/ job.devHash = job.imgHash
           issues == IF same THEN job.issues ELSE job.issues \cup {"differ"}
<1>1. job.done = job.total /\ channel' = IF issues = {} THEN "pass" ELSE "fail"
  BY DEF Settle, Return
<1>2. issues = {} <=> job.issues = {} /\ same
  OBVIOUS
<1> HIDE DEF issues
<1>3. /\ Bootable(target)' = Bootable(target) /\ Carries(target)' = Carries(target)
      /\ mode' = mode /\ reference' = reference
  BY SameWorld DEF quiet, worldVars, screenVars
<1>4. job.issues = {} <=>
        Bootable(target) /\ (target = "image" \/ job.imgLen <= SizeOf(target))
  BY DEF Undisturbed, Findings
<1>5. CASE target = "image"
  <2>1. mode = "image"
    BY <1>5, TargetsAssumption DEF Undisturbed, ScreenInv
  <2> QED
    BY <1>1, <1>2, <1>3, <1>4, <1>5, <2>1 DEF IsRight
<1>6. CASE target # "image"
  <2>1. /\ job.compare /\ job.imgLen = SizeOf("image")
        /\ job.total = Least(job.imgLen, SizeOf(target))
        /\ (job.devHash = job.imgHash <=> SameUpTo(job.total))
    BY <1>1, <1>6 DEF Hashing
  <2>2. SizeOf("image") \in Nat /\ SizeOf(target) \in Nat
    BY SizeIsNat DEF Undisturbed, TypeInv
  <2>3. mode = "install" /\ reference
    BY <2>1 DEF Undisturbed, ScreenInv
  <2>4. Carries(target) <=> SizeOf("image") <= SizeOf(target) /\ SameUpTo(SizeOf("image"))
    BY <2>1, CarriesIsSame DEF Undisturbed
  <2>5. Carries(target) <=> job.imgLen <= SizeOf(target) /\ SameUpTo(job.total)
    BY <2>1, <2>2, <2>4 DEF Least
  <2>6. issues = {} <=> Bootable(target) /\ Carries(target)
    BY <1>2, <1>4, <1>6, <2>1, <2>5
  <2> QED
    BY <1>1, <1>3, <2>3, <2>6 DEF IsRight
<1> QED
  BY <1>5, <1>6

\* Without the compare, or with what was found before it was waived.
LEMMA WaivesRight ==
  ASSUME Undisturbed, job.at = "chunk" => Hashing, SkipCompare \/ WaiveCompare, UNCHANGED quiet
  PROVE  IsRight(channel)'
<1>1. channel' = IF job.issues = {} THEN "pass" ELSE "fail"
  BY DEF SkipCompare, WaiveCompare, Return
<1>2. /\ Bootable(target)' = Bootable(target) /\ Carries(target)' = Carries(target)
      /\ mode' = mode /\ reference' = reference /\ skip' = skip
  BY SameWorld DEF quiet, worldVars, screenVars
<1>3. CASE SkipCompare
  <2>1. job.issues = {} <=> Bootable(target)
    BY <1>3 DEF SkipCompare, At, Undisturbed, Findings
  <2>2. ~(mode = "install" /\ reference)
    BY <1>3 DEF SkipCompare, At, Undisturbed, ScreenInv
  <2> QED
    BY <1>1, <1>2, <2>1, <2>2 DEF IsRight
<1>4. CASE WaiveCompare
  <2>1. skip /\ steps'[4] = "skipped" /\ target # "image" /\ job.at = "chunk"
    BY <1>4 DEF WaiveCompare, At, Undisturbed, TypeInv, StepTypes, StepIndex
  <2>2. job.issues = {} <=> Bootable(target) /\ job.imgLen <= SizeOf(target)
    BY <2>1 DEF Undisturbed, Findings
  <2>3. job.compare /\ job.imgLen = SizeOf("image")
    BY <2>1 DEF Hashing
  <2>4. mode = "install" /\ reference
    BY <2>1, <2>3 DEF Undisturbed, ScreenInv
  <2>5. Carries(target) => job.imgLen <= SizeOf(target)
    BY <2>3 DEF Carries
  <2> QED
    BY <1>1, <1>2, <2>1, <2>2, <2>4, <2>5 DEF IsRight
<1> QED
  BY <1>3, <1>4

\* What an undisturbed step of the worker comes to.
LEMMA WorkerIsRight ==
  ASSUME TypeInv, ScreenInv, WorkInv, WorkerStep, ~disturbed'
  PROVE  WorkInv' /\ (job' = NoJob => IsRight(channel)')
<1>1. /\ UNCHANGED quiet /\ job.at # "none" /\ ~disturbed /\ target \in Disks \cup {"image"}
  <2>1. UNCHANGED quiet /\ job.at # "none" /\ phase = "running"
    BY WorkerFrame
  <2>2. ~disturbed
    BY WorkerFrame, Zenon
  <2> QED
    BY <2>1, <2>2 DEF TypeInv, ScreenTypes, Waiting
<1>2. Readable' = Readable
  BY <1>1 DEF Readable, quiet, worldVars
<1>3. DOMAIN job = DOMAIN NoJob /\ (job' = NoJob => job'.at = "none")
  BY DEF TypeInv, JobTypes, NoJob
<1>4. CASE Open
  <2>1. /\ Readable /\ job' = [job EXCEPT !.at = "gpt",
                                 !.reader = Opened(job.reader.kind, SizeOf(target))]
    BY <1>4 DEF Open, Fault
  <2>2. job'.at = "gpt" /\ job'.reader = Opened(job.reader.kind, SizeOf(target))
    BY <1>3, <2>1 DEF NoJob
  <2>3. SizeOf(target) \in Nat /\ SizeOf(target)' = SizeOf(target)
    BY <1>1, SizeIsNat, SameWorld DEF TypeInv, quiet, worldVars
  <2>4. ReaderIsExact'
    BY <2>2, <2>3 DEF ReaderIsExact, Coherent, Opened
  <2> QED
    BY <1>2, <1>3, <2>1, <2>2, <2>4 DEF WorkInv, Findings
<1>5. CASE ~Open
  <2>1. job.at # "open"
    BY <1>5 DEF WorkerStep, At, CheckGpt, CheckBoot, CheckUkis, SkipLuks, CheckLuks, HashImage,
       SkipCompare, StartCompare, WaiveCompare, NextChunk, ReadDevice, ReadImage, Settle
  <2>2. Undisturbed /\ (job.at \in {"chunk", "device", "image"} => Hashing /\ Digests)
    BY <1>1, <2>1 DEF WorkInv, Undisturbed
  <2>3. ReaderIsExact /\ job'.reader = job.reader => ReaderIsExact'
    BY <1>1, SameWorld DEF ReaderIsExact, quiet, worldVars
  <2>4. CASE CheckGpt
    <3>1. job' # NoJob
      BY <1>3, <2>4 DEF CheckGpt, Fault, NoJob
    <3> QED
      BY <1>1, <1>2, <2>2, <2>3, <2>4, <3>1, GptIsJudged DEF WorkInv, Undisturbed
  <2>5. CASE CheckBoot \/ CheckUkis
    <3>1. job' # NoJob
      BY <1>3, <2>5 DEF CheckBoot, CheckUkis, Fault, NoJob
    <3> QED
      BY <1>1, <1>2, <2>2, <2>3, <2>5, <3>1, EspIsJudged DEF WorkInv, Undisturbed
  <2>6. CASE SkipLuks \/ CheckLuks
    <3>1. Bootable(target)' = Bootable(target)
      BY <1>1, SameWorld DEF quiet, worldVars
    <3> QED
      BY <1>1, <1>2, <1>3, <2>2, <2>6, <3>1, StoreIsJudged DEF WorkInv, Undisturbed, IsRight
  <2>7. CASE HashImage \/ StartCompare
    <3>1. job' # NoJob
      <4>1. CASE HashImage
        BY <1>3, <4>1 DEF HashImage, NoJob
      <4>2. CASE StartCompare
        <5>1. job' = [job EXCEPT !.at = "chunk", !.reader = SeekTo(@, 0),
                                  !.imgLen = SizeOf("image"),
                                  !.total = Least(SizeOf("image"), job.reader.len),
                                  !.issues = IF job.reader.len < SizeOf("image")
                                               THEN @ \cup {"small"} ELSE @]
          BY <4>2 DEF StartCompare, Fault, Return
        <5>2. job'.at = "chunk"
          BY <1>3, <5>1 DEF NoJob
        <5> QED
          BY <5>2 DEF NoJob
      <4> QED
        BY <2>7, <4>1, <4>2
    <3> QED
      BY <1>1, <1>2, <2>2, <2>7, <3>1, HashingStarts DEF WorkInv, Undisturbed
  <2>8. CASE SkipCompare \/ WaiveCompare \/ Settle
    <3>1. job' = NoJob
      BY <2>8 DEF SkipCompare, WaiveCompare, Settle, Return
    <3>2. Settle => job.at = "chunk"
      BY DEF Settle, At
    <3> QED
      BY <1>1, <1>3, <2>2, <2>8, <3>1, <3>2, WaivesRight, SettlesRight DEF WorkInv
  <2>9. CASE NextChunk \/ ReadDevice
    <3>1. job.at \in {"chunk", "device", "image"}
      BY <2>9 DEF NextChunk, ReadDevice, At
    <3> QED
      BY <1>1, <1>2, <2>2, <2>9, <3>1, ChunkIsRead DEF WorkInv, Undisturbed
  <2>10. CASE ReadImage
    <3>1. job.at = "image"
      BY <2>10 DEF ReadImage, At
    <3> QED
      BY <1>1, <1>2, <2>2, <2>10, <3>1, ChunkIsHashed DEF WorkInv, Undisturbed
  <2> QED
    BY <1>5, <2>4, <2>5, <2>6, <2>7, <2>8, <2>9, <2>10 DEF WorkerStep
<1> QED
  BY <1>4, <1>5

\* What the screen and the world do to the work and to a verdict.
LEMMA OthersAreRight ==
  ASSUME TypeInv, ScreenInv, WorkInv, VerdictInv, [Next]_vars, ~WorkerStep
  PROVE  WorkInv' /\ VerdictInv'
<1>0. /\ phase # "running" => job.at = "none" /\ channel = "none"
      /\ channel # "none" => job.at = "none"
  BY DEF TypeInv, Waiting
<1>1. ASSUME UNCHANGED <<job, target, image, pulled>>, ~disturbed' => ~disturbed PROVE WorkInv'
  BY <1>1, SameWorld DEF WorkInv, Readable, ReaderIsExact, Findings, Hashing, Digests, Want
<1>2. ASSUME UNCHANGED <<target, image, mode, reference, steps>>, skip => skip', NEW v, v' = v,
             IsRight(v)
      PROVE  IsRight(v)'
  BY <1>2, SameWorld DEF IsRight
<1>3. CASE \E d \in Disks \cup {"image"}, compare \in BOOLEAN, kind \in {"file", "sudo"} :
             Spawn(d, compare, kind) /\ channel' = channel /\ phase # "running"
  <2>1. job'.at = "open" /\ phase' = "running" /\ channel' = "none"
    BY <1>0, <1>3, SpawnTypes DEF TypeInv, Spawn
  <2> QED
    BY <2>1 DEF WorkInv, VerdictInv
<1>4. CASE OpenImage
  <2>1. CASE image # None
    BY <1>3, <1>4, <2>1 DEF OpenImage
  <2>2. CASE image = None
    BY <1>0, <1>1, <1>4, <2>2 DEF OpenImage, VerdictInv, ScreenInv, worldVars
  <2> QED
    BY <2>1, <2>2
<1>5. ASSUME NEW d \in Disks, NEW kind \in {"file", "sudo"}, ArmInstall(d, kind),
             phase \in {"devices", "sudoPass"}
      PROVE  WorkInv' /\ VerdictInv'
  BY <1>3, <1>5 DEF ArmInstall, TypeInv, ScreenTypes
<1>6. ASSUME NEW d \in Disks, ChooseDisk(d) PROVE WorkInv' /\ VerdictInv'
  <2>1. CASE ArmInstall(d, "file")
    BY <1>5, <1>6, <2>1 DEF ChooseDisk
  <2>2. CASE AskPassword
    BY <1>0, <1>1, <1>6, <2>2 DEF ChooseDisk, AskPassword, VerdictInv, worldVars
  <2> QED
    BY <1>6, <2>1, <2>2 DEF ChooseDisk
<1>7. CASE Authenticate
  <2>1. phase = "sudoPass" /\ pending \in Disks /\ target = None
    BY <1>7 DEF Authenticate, TypeInv, ScreenTypes, ScreenInv
  <2>2. CASE ArmInstall(pending, "sudo") \/ ArmInstall(pending, "file")
    BY <1>5, <2>1, <2>2
  <2>3. CASE ~(ArmInstall(pending, "sudo") \/ ArmInstall(pending, "file"))
    BY <1>0, <1>1, <1>7, <2>1, <2>3 DEF Authenticate, VerdictInv, worldVars
  <2> QED
    BY <2>2, <2>3
<1>8. CASE OpenInstall
  BY <1>0, <1>1, <1>8 DEF OpenInstall, VerdictInv, worldVars
<1>9. CASE Leave
  <2>1. job.at = "none" /\ channel = "none" /\ job' = job /\ channel' = channel /\ phase' # "done"
    BY <1>0, <1>9 DEF Leave, DropScreen
  <2> QED
    BY <2>1 DEF WorkInv, VerdictInv
<1>10. CASE CtrlC
  BY <1>10 DEF CtrlC, DropScreen, WorkInv, VerdictInv, NoJob
<1>11. CASE Waive
  <2>1. WorkInv'
    BY <1>1, <1>11 DEF Waive, worldVars
  <2>2. VerdictInv'
    BY <1>2, <1>11 DEF Waive, VerdictInv, worldVars
  <2> QED
    BY <2>1, <2>2
<1>12. CASE Drain
  <2>1. WorkInv'
    BY <1>1, <1>12 DEF Drain, worldVars
  <2>2. ~disturbed => IsRight(channel)
    BY <1>12 DEF Drain, VerdictInv
  <2>3. UNCHANGED <<target, image, mode, reference, steps, skip, disturbed>>
        /\ channel' = "none" /\ message' = channel
    BY <1>12 DEF Drain, worldVars
  <2>4. Bootable(target)' = Bootable(target) /\ Carries(target)' = Carries(target)
    BY <2>3, SameWorld
  <2>5. ~disturbed => IsRight(message)'
    BY <2>2, <2>3, <2>4 DEF IsRight
  <2> QED
    BY <2>1, <2>3, <2>5 DEF VerdictInv
<1>13. ASSUME NEW d \in Disks, Pull(d) PROVE WorkInv' /\ VerdictInv'
  <2>1. UNCHANGED <<phase, mode, reference, skip, message, steps, channel, job, image, target>>
        /\ pulled' = pulled \cup {d}
    BY <1>13 DEF Pull, screenVars
  <2>2. ~disturbed' => ~disturbed /\ target # d
    BY <1>13 DEF Pull
  <2>3. ~disturbed' => (Readable' <=> Readable)
    BY <2>1, <2>2 DEF Readable
  <2>4. WorkInv'
    BY <2>1, <2>2, <2>3, SameWorld
       DEF WorkInv, ReaderIsExact, Findings, Hashing, Digests, Want
  <2>5. VerdictInv'
    BY <1>2, <2>1, <2>2 DEF VerdictInv
  <2> QED
    BY <2>4, <2>5
<1>14. CASE Rebuild
  <2>1. UNCHANGED <<phase, channel, job>> /\ (~disturbed' => phase = "home")
    BY <1>14 DEF Rebuild, screenVars
  <2> QED
    BY <1>0, <2>1 DEF WorkInv, VerdictInv
<1>15. CASE UNCHANGED vars
  <2>1. WorkInv'
    BY <1>1, <1>15 DEF vars, worldVars
  <2>2. VerdictInv'
    BY <1>2, <1>15 DEF VerdictInv, vars, screenVars, worldVars
  <2> QED
    BY <2>1, <2>2
<1> QED
  BY <1>4, <1>6, <1>7, <1>8, <1>9, <1>10, <1>11, <1>12, <1>13, <1>14, <1>15 DEF Next, ScreenStep

LEMMA VerifyStep == VerifyInv /\ [Next]_vars => VerifyInv'
<1> SUFFICES ASSUME VerifyInv, [Next]_vars PROVE VerifyInv'
  OBVIOUS
<1>1. TypeInv' /\ ScreenInv'
  BY VerifyTypeStep, ScreenStepInv DEF VerifyInv
<1>2. CASE WorkerStep
  <2>1. WorkInv'
    BY <1>2, WorkerIsRight DEF VerifyInv, WorkInv
  <2>2. VerdictInv'
    <3>1. phase' = "running" /\ (channel' # "none" => job' = NoJob)
      BY <1>2, WorkerFrame DEF VerifyInv, quiet, screenVars
    <3> QED
      BY <1>2, <3>1, WorkerIsRight DEF VerifyInv, VerdictInv
  <2> QED
    BY <1>1, <2>1, <2>2 DEF VerifyInv
<1>3. CASE ~WorkerStep
  BY <1>1, <1>3, OthersAreRight DEF VerifyInv
<1> QED
  BY <1>2, <1>3

LEMMA VerifyInit == Init => VerifyInv
<1> SUFFICES ASSUME Init PROVE VerifyInv
  OBVIOUS
<1>1. ScreenInv /\ WorkInv /\ VerdictInv
  BY TargetsAssumption DEF Init, ScreenInv, WorkInv, VerdictInv, NoJob
<1> QED
  BY <1>1, VerifyInitTypes DEF VerifyInv

\* A pass is earned: when the screen says so and nobody changed disk or image
\* meanwhile, the target is a bootable stick, and a flashed disk carries the whole
\* image, unless there was none or the compare was waived.  That holds for every
\* target and image, however the chunks, the cache and the short reads cut them.
THEOREM VerifyPassIsEarned == Spec => []PassIsEarned
<1>1. VerifyInv => PassIsEarned
  <2> SUFFICES ASSUME VerifyInv, phase = "done", message = "pass", ~disturbed
               PROVE  /\ Bootable(target)
                      /\ mode = "install" /\ reference /\ (steps[4] = "ok" \/ ~skip) =>
                           Carries(target)
    BY DEF PassIsEarned
  <2>1. target # None
    BY DEF VerifyInv, ScreenInv
  <2> QED
    BY <2>1 DEF VerifyInv, VerdictInv, IsRight
<1> QED
  BY <1>1, VerifyInit, VerifyStep, PTL DEF Spec

\* A verdict against a target, or an error, has a cause in the target, when nothing
\* failed or changed meanwhile: the worker never meets the end of what it reads
\* before it has hashed what it set out to.
THEOREM VerifyNoFalseAlarm == Spec => []NoFalseAlarm
<1>1. VerifyInv => NoFalseAlarm
  BY DEF VerifyInv, VerdictInv, IsRight, NoFalseAlarm
<1> QED
  BY <1>1, VerifyInit, VerifyStep, PTL DEF Spec

=============================================================================
