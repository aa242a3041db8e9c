--------------------------- MODULE PatternScanner ---------------------------
(***************************************************************************)
(* patternScanner of internal/serialconsole/console.go, the search that    *)
(* WaitForPattern runs over the chunks it receives.  Each chunk is scanned *)
(* with no more than an overlap of what was scanned before it, and most of *)
(* what was scanned is thrown away when it exceeds a window.               *)
(*                                                                         *)
(* Positions count the bytes of the console's output.  The scanner sees it *)
(* from position `from` on, without gaps (Console!FeedHasNoGap), and keeps *)
(* the last `acc` bytes of what it has seen.  The text that matches begins *)
(* behind position match.first and ends at match.last, or will; it matches *)
(* whatever stands before and after it, which a pattern with an anchor     *)
(* does not.  PatternWait gives the scanner the chunks of a Console.        *)
(***************************************************************************)
EXTENDS Integers

CONSTANTS Window,    \* maxPatternWindow
          Overlap,   \* patternScanOverlap
          MaxOutput  \* bound: the console's output is no longer

\* The overlap survives when half of the window is thrown away: 64 KiB, 1 MiB.
Sizes ==
    /\ Window \in Nat /\ Overlap \in Nat /\ MaxOutput \in Nat
    /\ 2 * Overlap <= Window

VARIABLES match,    \* where the text is that matches
          from,     \* where the first chunk since the last reset began
          fed,      \* where the last chunk ended
          acc,      \* len(s.acc)
          scanned,  \* s.scanned
          found     \* scan() has reported the match, and the wait is over

vars == <<match, from, fed, acc, scanned, found>>

\* What is longer may be overlooked, unless it arrives without a cut (comment on
\* patternScanOverlap: boot markers are far shorter).
Matches ==
    {m \in [first : 0 .. MaxOutput, last : 0 .. MaxOutput] :
       m.first < m.last /\ m.last - m.first <= Overlap + 1}

Init ==
    /\ match \in Matches
    /\ from \in 0 .. MaxOutput /\ fed = from
    /\ acc = 0 /\ scanned = 0
    /\ found = FALSE

-----------------------------------------------------------------------------
\* Where in acc the scan begins; a variant that does not look back.
ScanStartBlind == scanned

ScanStart == IF scanned < Overlap THEN 0 ELSE scanned - Overlap

\* How much is kept of len bytes in which nothing was found.
Keep(len) == IF len > Window THEN Window \div 2 ELSE len

\* s.scanned after that: all of it, less what was dropped.
ScannedThen(len) == Keep(len)

\* feed: append n bytes, then scan.
Feed(n) ==
    LET len == acc + n
        end == fed + n
        hit == end - (len - ScanStart) <= match.first /\ match.last <= end
    IN  /\ ~found
        /\ end <= MaxOutput
        /\ fed' = end
        /\ found' = hit
        /\ acc' = IF hit THEN len ELSE Keep(len)
        /\ scanned' = IF hit THEN scanned ELSE ScannedThen(len)
        /\ UNCHANGED <<match, from>>

\* reset: WaitForPattern was detached, and the replay begins at another place.
ResetScanner(p) ==
    /\ ~found
    /\ from' = p /\ fed' = p
    /\ acc' = 0 /\ scanned' = 0
    /\ UNCHANGED <<match, found>>

Next ==
    \/ \E n \in 1 .. MaxOutput : Feed(n)
    \/ \E p \in 0 .. MaxOutput : ResetScanner(p)

Spec == Init /\ [][Next]_vars

-----------------------------------------------------------------------------
\* However the output is cut into chunks, and however much of it has been thrown
\* away, the scan finds what a search of all of it since the reset would find:
\* no match straddles a boundary, or the place where the window was cut, unseen.
NothingOverlooked == from <= match.first /\ match.last <= fed => found

\* The types, and the bound on memory between two chunks.
Bounded ==
    /\ match \in Matches
    /\ from \in 0 .. MaxOutput /\ fed \in from .. MaxOutput
    /\ acc \in Nat /\ scanned \in Nat /\ found \in BOOLEAN
    /\ ~found => acc <= Window

FindsAll == Bounded /\ NothingOverlooked
=============================================================================
