----------------------------- MODULE DevReader ------------------------------
(***************************************************************************)
(* The read-only handle verify works through (tui/src/sudo.rs): a File     *)
(* when the tool is root or reads an image, else a reader that runs one    *)
(* "sudo dd" per read, with a cache of one block for the small reads.      *)
(*                                                                         *)
(* A device is a function from the offsets below its size to what is       *)
(* there.  A handle is a record: its kind, the length measured when it was *)
(* opened, the position, and the cached block: where it starts, how many   *)
(* bytes it has and which.  What a read returns is a count and the bytes.  *)
(***************************************************************************)
EXTENDS Naturals

CONSTANT Block        \* BLOCK: size of the cache, and of the smallest direct read

ASSUME BlockAssumption == Block \in Nat \ {0}

Least(a, b) == IF a <= b THEN a ELSE b

\* The bytes of dev from offset off on, n of them.
Slice(dev, off, n) == [i \in 0..(n - 1) |-> dev[off + i]]

\* How many of n bytes a device of that size has at offset off.
Available(size, off, n) == IF off >= size THEN 0 ELSE Least(n, size - off)

\* The handle, just opened and measured by a seek to the end.
Opened(kind, len) ==
  [kind |-> kind, len |-> len, pos |-> len,
   start |-> 0, held |-> 0, cache |-> Slice(<<>>, 0, 0)]

SeekTo(r, off) == [r EXCEPT !.pos = off]

\* Mutant: the byte after the cached ones counts as cached.
InCache_OffByOne(r) == r.start <= r.pos /\ r.pos <= r.start + r.held

InCache(r) == r.start <= r.pos /\ r.pos < r.start + r.held

\* The block that holds the position, as far as the device has it.
Refilled(r, dev, size) ==
  LET start == r.pos - (r.pos % Block)
      n == Available(size, start, Least(Block, r.len - start))
  IN [r EXCEPT !.start = start, !.held = n, !.cache = Slice(dev, start, n)]

\* n bytes from the position on, and the handle moved past them.
Answer(r, n, bytes) ==
  [n |-> n, bytes |-> bytes, reader |-> [r EXCEPT !.pos = @ + n]]

Direct(r, dev, size, want) ==
  LET n == Available(size, r.pos, want)
  IN Answer(r, n, Slice(dev, r.pos, n))

FromCache(r, want) ==
  LET offset == r.pos - r.start
      n == Available(r.held, offset, want)
  IN Answer(r, n, Slice(r.cache, offset, n))

\* SudoReader::read: at most want bytes, none only at the end.
ReadSudo(r, dev, size, n) ==
  LET want == Available(r.len, r.pos, n)
  IN IF want = 0 THEN Answer(r, 0, Slice(dev, 0, 0))
     ELSE IF want >= Block THEN Direct(r, dev, size, want)
     ELSE FromCache(IF InCache(r) THEN r ELSE Refilled(r, dev, size), want)

Read(r, dev, size, n) ==
  IF r.kind = "file" THEN Direct(r, dev, size, n) ELSE ReadSudo(r, dev, size, n)

\* What the cache holds is what the device has there.
Coherent(r, dev, size) ==
  /\ r.start + r.held <= size
  /\ \A i \in 0..(r.held - 1) : r.cache[i] = dev[r.start + i]

\* The reference: the bytes of the device from the position on, as many as are
\* asked for or a block boundary allows, at least one before the end and none
\* past it.
IsExact(r, dev, size, n, answer) ==
  /\ answer.n \in 0..n
  /\ answer.n > 0 => r.pos + answer.n <= size
  /\ r.pos < size /\ n > 0 => answer.n > 0
  /\ answer.bytes = Slice(dev, r.pos, answer.n)
  /\ answer.reader.pos = r.pos + answer.n
  /\ answer.reader.len = r.len
  /\ answer.reader.kind = r.kind

-----------------------------------------------------------------------------
(* SliceCursor (tui/src/verify.rs): the part of a device fatfs may see.    *)

\* What a read of n bytes at position pos of the window asks of the device.
WindowRead(start, len, pos, n) ==
  [off |-> start + pos, n |-> IF pos >= len THEN 0 ELSE Least(n, len - pos)]

=============================================================================
