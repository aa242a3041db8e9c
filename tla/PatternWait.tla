---------------------------- MODULE PatternWait ----------------------------
(***************************************************************************)
(* WaitForPattern over its scanner: Console's waiter hands each chunk it   *)
(* receives to a PatternScanner.  The variables are those of the scanner   *)
(* of the one waiter there is; the match is where Console's Mark is.       *)
(***************************************************************************)
EXTENDS Console

CONSTANT Overlap  \* patternScanOverlap

VARIABLES match, from, fed, acc, scanned, found

scanVars == <<match, from, fed, acc, scanned, found>>

Scanner == INSTANCE PatternScanner

ASSUME ScannerAssumption ==
    /\ Scanner!Sizes
    /\ Overlap >= 1              \* the pattern is two bytes long
    /\ \E w \in Waiters : Waiters = {w}
    /\ Mark + 1 <= MaxOutput

\* sc := &patternScanner{re: re}
NewScanner ==
    /\ from' = 0 /\ fed' = 0
    /\ acc' = 0 /\ scanned' = 0
    /\ found' = FALSE
    /\ UNCHANGED match

PatternInit ==
    /\ Init
    /\ match = [first |-> Mark - 1, last |-> Mark + 1]
    /\ from = 0 /\ fed = 0
    /\ acc = 0 /\ scanned = 0
    /\ found = FALSE

\* The reset is before the subscription, which alone tells where it begins.
SubscribeAndScan(w) ==
    /\ WaitSubscribe(w)
    /\ Scanner!ResetScanner(sub'[w].upto)

FeedAndScan(w) ==
    /\ Feed(w)
    /\ Scanner!Feed(Cardinality(Bytes(Head(sub[w].ch))))

\* The call has returned, and the next has a scanner of its own.
ReturnAndForget(w) == WaitReturns(w) /\ NewScanner

PatternNext ==
    \/ /\ \/ Read \/ Publish \/ ReadFails
          \/ CloseTransport \/ CloseFinish
          \/ Reset
          \/ \E o \in Observers :
               Observe(o) \/ ObserverSends(o) \/ ObserverEnds(o) \/ ObserverLeaves(o)
          \/ \E w \in Waiters :
               Arm(w) \/ WaitEnds(w) \/ Rearm(w) \/ WaitTimesOut(w)
       /\ UNCHANGED scanVars
    \/ \E w \in Waiters :
         SubscribeAndScan(w) \/ FeedAndScan(w) \/ ReturnAndForget(w)

\* The goroutine of a pattern waiter gets to run; nobody else has to.
PatternSpec ==
    /\ PatternInit /\ [][PatternNext]_<<vars, scanVars>>
    /\ \A w \in Waiters : WF_vars(WaiterStep(w))

-----------------------------------------------------------------------------
\* The incremental scan over a bounded window finds what a search of everything
\* received since the last subscription would find, and nothing else: however
\* the output is cut into chunks, detached and replayed, the call returns a
\* match exactly when the scanner has been fed all of one (feed, scan, reset).
ScanFindsAll ==
    /\ Scanner!FindsAll
    /\ \A w \in Waiters : wait[w].pc = "matched" <=> found
=============================================================================
