---------------------------- MODULE ConsoleRing ----------------------------
(***************************************************************************)
(* The scrollback ring of the serial console (internal/serialconsole       *)
(* ring.go): a fixed buffer written at a moving offset, and a snapshot     *)
(* that puts its bytes back in order.  Power writes it and resets it.      *)
(*                                                                         *)
(* A byte is its ordinal in the console's output, so that a stale byte is  *)
(* told from a fresh one.  `written' is what the ring stands for: every    *)
(* byte since the last reset.                                              *)
(*                                                                         *)
(* A definition called a variant is a later one with a plausible bug:      *)
(* nothing uses it; put in its place, it breaks the properties.            *)
(***************************************************************************)
EXTENDS Integers, Sequences

CONSTANTS Cap,       \* capacity of the ring
          MaxBytes   \* bound on the output of a behaviour

ASSUME CapAssumption == Cap \in Nat \ {0}
ASSUME MaxBytesAssumption == MaxBytes \in Nat

VARIABLES buf,        \* ring.buf
          size,       \* ring.size
          start,      \* ring.start
          totalIn,    \* ring.totalIn
          truncated,  \* ring.truncated
          next,       \* history: ordinal of the next byte of output
          written     \* history: the bytes since the last reset

ringVars == <<buf, size, start, totalIn, truncated, next, written>>

\* newRing
RingInit ==
    /\ buf = [j \in 0 .. Cap - 1 |-> 0]
    /\ size = 0
    /\ start = 0
    /\ totalIn = 0
    /\ truncated = FALSE
    /\ next = 1
    /\ written = <<>>

Least(a, b) == IF a < b THEN a ELSE b

\* copy(b[off:], p): what does not fit is not copied.
CopyAt(b, off, p) ==
    [j \in DOMAIN b |->
       IF j >= off /\ j - off < Len(p) THEN p[j - off + 1] ELSE b[j]]

\* len(p) >= c: only the tail of the data fits.
WriteTail(p) ==
    /\ Len(p) >= Cap
    /\ buf' = CopyAt(buf, 0, SubSeq(p, Len(p) - Cap + 1, Len(p)))
    /\ start' = 0
    /\ size' = Cap
    /\ truncated' = TRUE

\* Variant: the oldest byte is overwritten and still taken for the oldest.
WriteUnadvanced(p) ==
    LET end == (start + size) % Cap
        n   == Least(Len(p), Cap - end)
    IN  /\ Len(p) < Cap
        /\ buf' = CopyAt(CopyAt(buf, end, p), 0, SubSeq(p, n + 1, Len(p)))
        /\ size' = Least(Cap, size + Len(p))
        /\ truncated' = (truncated \/ Len(p) > Cap - size)
        /\ UNCHANGED start

\* The data goes behind the newest byte, and wraps around.
WriteWrapped(p) ==
    LET end  == (start + size) % Cap
        n    == Least(Len(p), Cap - end)
        over == Len(p) - (Cap - size)
    IN  /\ Len(p) < Cap
        /\ buf' = CopyAt(CopyAt(buf, end, p), 0, SubSeq(p, n + 1, Len(p)))
        /\ start' = IF over > 0 THEN (start + over) % Cap ELSE start
        /\ size' = IF over > 0 THEN Cap ELSE size + Len(p)
        /\ truncated' = (truncated \/ over > 0)

\* ring.write(p); the read loop publishes what a Read returned, if anything.
Write(p) ==
    /\ WriteTail(p) \/ WriteWrapped(p)
    /\ totalIn' = totalIn + Len(p)
    /\ next' = next + Len(p)
    /\ written' = written \o p

\* ring.reset: the bytes stay in the buffer, behind the counters.
Reset ==
    /\ size' = 0
    /\ start' = 0
    /\ totalIn' = 0
    /\ truncated' = FALSE
    /\ written' = <<>>
    /\ UNCHANGED <<buf, next>>

\* ring.snapshot(maxBytes): bytes and truncation flag.
Snapshot(maxBytes) ==
    LET n     == IF maxBytes > 0 /\ maxBytes < size THEN maxBytes ELSE size
        begin == (start + (size - n)) % Cap
        first == Least(n, Cap - begin)
    IN  [data |-> [i \in 1 .. n |-> IF i <= first THEN buf[begin + i - 1]
                                                  ELSE buf[i - first - 1]],
         truncated |-> truncated \/ (maxBytes > 0 /\ maxBytes < size)]

-----------------------------------------------------------------------------
\* The ring's fields have their types.
RingTypeOK ==
    /\ buf \in [0 .. Cap - 1 -> 0 .. MaxBytes]
    /\ size \in 0 .. Cap
    /\ start \in 0 .. Cap - 1
    /\ totalIn \in Nat
    /\ truncated \in BOOLEAN

\* The last n elements of s, or all of them.
LastOf(s, n) == SubSeq(s, Len(s) - Least(n, Len(s)) + 1, Len(s))

\* A snapshot is the newest bytes since the last reset, in the order they came
\* out of the target, however the buffer wrapped (snapshot's two copies).
SnapshotIsTail ==
    \A m \in 0 .. Cap + 1 :
      Snapshot(m).data = LastOf(written, IF m = 0 THEN Cap ELSE Least(m, Cap))

\* A reader who got less than the whole log since the last reset is told so.
TruncationReported ==
    \A m \in 0 .. Cap + 1 :
      Len(Snapshot(m).data) < Len(written) => Snapshot(m).truncated
=============================================================================
