---------------------------- MODULE SessionLock ----------------------------
(***************************************************************************)
(* The hardware lock of the daemon: session.Manager (internal/session) and *)
(* the goroutines of internal/server that drive it.                        *)
(*                                                                         *)
(* The processes are the StartSession handlers (Waiters), the operational  *)
(* RPCs between the CallStart and the CallEnd of the interceptors (Calls), *)
(* the handlers of FinishSession, Ping and GetStatus, and the reaper.      *)
(* Each critical section of Manager.mu is one action.  A handler may be    *)
(* given any id that was ever handed out, or none, however late: clients   *)
(* may crash, retry and reorder their requests as they like.               *)
(*                                                                         *)
(* Time is the age of lastActivity, the only instant the lock compares.    *)
(* It stops at TTL + 1: beyond that age every comparison gives the same    *)
(* answer.  A session id is a fresh member of Ids, as 16 random bytes are. *)
(***************************************************************************)
EXTENDS Naturals, FiniteSets

CONSTANTS Ids,       \* the ids gen() can return
          NoId,      \* the empty string
          Waiters,   \* StartSession handlers
          Calls,     \* operational RPC handlers
          TTL        \* Manager.ttl, in ticks

ASSUME NoIdAssumption == NoId \notin Ids
ASSUME CallsAssumption == IsFiniteSet(Calls)
ASSUME TTLAssumption == TTL \in Nat \ {0}

VARIABLES
  id,           \* Manager.id
  idle,         \* now() - Manager.lastActivity
  activeCalls,  \* Manager.activeCalls
  released,     \* Manager.released: the channel made for session i is i, nil is NoId
  closed,       \* the channels that have been closed
  acquire,      \* [w -> state of the StartSession handler w]
  call,         \* [k -> state of the operational RPC k]
  issued,       \* history: the ids handed out so far
  finished      \* history: the ids ended by Finish

mgrVars == <<id, idle, activeCalls, released, closed>>
vars == <<id, idle, activeCalls, released, closed, acquire, call, issued, finished>>

\* wait < 0, wait = 0 and wait > 0 of Manager.Acquire
WaitModes == {"failFast", "block", "bounded"}

Handler(pc, mode, rel) == [pc |-> pc, mode |-> mode, rel |-> rel]
Idle == Handler("idle", "block", NoId)
NoCall == [pc |-> "none", sid |-> NoId]

\* The calls of session i between CallStart and CallEnd.
InFlight(i) == {k \in Calls : call[k] = [pc |-> "running", sid |-> i]}

Init ==
    /\ id = NoId
    /\ idle = 0
    /\ activeCalls = 0
    /\ released = NoId
    /\ closed = {}
    /\ acquire = [w \in Waiters |-> Idle]
    /\ call = [k \in Calls |-> NoCall]
    /\ issued = {}
    /\ finished = {}

-----------------------------------------------------------------------------
(* Manager: the state changes the critical sections are made of.  A        *)
(* definition called a variant is the one after it with a plausible bug:   *)
(* nothing uses it; put in its place, it breaks the properties.            *)

\* Variant: expiry that does not look at the in-flight counter.
LapsedBusy ==
    /\ id # NoId
    /\ idle > TTL

\* expireIfIdleLocked would release the lock.
Lapsed ==
    /\ id # NoId
    /\ activeCalls = 0
    /\ idle > TTL

\* Variant: a release that forgets to close the channel.
ReleaseUnannounced == closed

\* close(released), released = nil
CloseReleased == closed \cup ({released} \ {NoId})

Clear ==
    /\ id' = NoId
    /\ activeCalls' = 0
    /\ released' = NoId
    /\ closed' = CloseReleased
    /\ UNCHANGED idle

ExpireIfIdle ==
    \/ Lapsed /\ Clear
    \/ ~Lapsed /\ UNCHANGED mgrVars

\* Variant: the id is compared before the lock is expired.
HolderIsLate(i) == id # NoId /\ id = i

\* expireIfIdleLocked, then the test m.id == i of a caller presenting id i.
HolderIs(i) == id # NoId /\ ~Lapsed /\ id = i

-----------------------------------------------------------------------------
(* StartSession: the loop of Manager.Acquire.                              *)

StartSession(w) ==
    /\ acquire[w].pc = "idle"
    /\ \E mode \in WaitModes :
         acquire' = [acquire EXCEPT ![w] = Handler("try", mode, NoId)]
    /\ UNCHANGED <<mgrVars, call, issued, finished>>

\* The lock is free, or lapsed: take it under a fresh id.
AcquireGrab(w) ==
    /\ acquire[w].pc = "try"
    /\ id = NoId \/ Lapsed
    /\ \E i \in Ids \ issued :
         /\ id' = i
         /\ released' = i
         /\ issued' = issued \cup {i}
    /\ idle' = 0
    /\ activeCalls' = 0
    /\ closed' = CloseReleased
    /\ acquire' = [acquire EXCEPT ![w] = Idle]
    /\ UNCHANGED <<call, finished>>

\* The lock is held: fail fast, or block on the holder's channel.
AcquireBusy(w) ==
    /\ acquire[w].pc = "try"
    /\ id # NoId /\ ~Lapsed
    /\ acquire' = [acquire EXCEPT ![w] =
         IF acquire[w].mode = "failFast"
           THEN Idle
           ELSE Handler("wait", acquire[w].mode, released)]
    /\ UNCHANGED <<mgrVars, call, issued, finished>>

\* select: <-rel
WaiterWoken(w) ==
    /\ acquire[w].pc = "wait"
    /\ acquire[w].rel \in closed
    /\ acquire' = [acquire EXCEPT ![w] = Handler("try", acquire[w].mode, NoId)]
    /\ UNCHANGED <<mgrVars, call, issued, finished>>

\* select: <-ctx.Done(), the client went away or its deadline passed
WaiterCancelled(w) ==
    /\ acquire[w].pc = "wait"
    /\ acquire' = [acquire EXCEPT ![w] = Idle]
    /\ UNCHANGED <<mgrVars, call, issued, finished>>

\* select: <-timeoutCh, which is nil unless wait > 0
WaiterTimedOut(w) ==
    /\ acquire[w].pc = "wait"
    /\ acquire[w].mode = "bounded"
    /\ acquire' = [acquire EXCEPT ![w] = Idle]
    /\ UNCHANGED <<mgrVars, call, issued, finished>>

-----------------------------------------------------------------------------
(* FinishSession, Ping, GetStatus and the stream interceptor's messages.   *)

\* The holder's id ends the session; on a free lock nothing happens.
Finish(i) ==
    /\ id = i /\ i # NoId
    /\ Clear
    /\ finished' = finished \cup {i}
    /\ UNCHANGED <<acquire, call, issued>>

\* Ping, and every SendMsg and RecvMsg of an operational stream.
Refresh(i) ==
    /\ \/ HolderIs(i) /\ idle' = 0 /\ UNCHANGED <<id, activeCalls, released, closed>>
       \/ ~HolderIs(i) /\ ExpireIfIdle
    /\ UNCHANGED <<acquire, call, issued, finished>>

\* Info expires the lock too, as does each tick of the reaper.
Info ==
    /\ ExpireIfIdle
    /\ UNCHANGED <<acquire, call, issued, finished>>

Reap ==
    /\ Lapsed
    /\ Clear
    /\ UNCHANGED <<acquire, call, issued, finished>>

-----------------------------------------------------------------------------
(* An operational RPC: CallStart, handler, deferred CallEnd.               *)

CallStart(k, i) ==
    /\ call[k] = NoCall
    /\ \/ /\ HolderIs(i)
          /\ idle' = 0
          /\ activeCalls' = activeCalls + 1
          /\ call' = [call EXCEPT ![k] = [pc |-> "running", sid |-> i]]
          /\ UNCHANGED <<id, released, closed>>
       \/ /\ ~HolderIs(i)
          /\ ExpireIfIdle
          /\ UNCHANGED call
    /\ UNCHANGED <<acquire, issued, finished>>

\* Variant: the counter is not tied to the session of the call.
CallEndAny(k) ==
    /\ call[k].pc = "running"
    /\ IF activeCalls > 0
         THEN activeCalls' = activeCalls - 1 /\ idle' = 0
         ELSE UNCHANGED <<activeCalls, idle>>
    /\ call' = [call EXCEPT ![k] = NoCall]
    /\ UNCHANGED <<id, released, closed, acquire, issued, finished>>

\* Variant: a handler that returns early never gives its count back.
CallEndLeaks(k) ==
    /\ call[k].pc = "running"
    /\ call' = [call EXCEPT ![k] = NoCall]
    /\ UNCHANGED <<mgrVars, acquire, issued, finished>>

CallEnd(k) ==
    /\ call[k].pc = "running"
    /\ \/ /\ id = call[k].sid /\ activeCalls > 0
          /\ activeCalls' = activeCalls - 1
          /\ idle' = 0
       \/ /\ ~(id = call[k].sid /\ activeCalls > 0)
          /\ UNCHANGED <<activeCalls, idle>>
    /\ call' = [call EXCEPT ![k] = NoCall]
    /\ UNCHANGED <<id, released, closed, acquire, issued, finished>>

-----------------------------------------------------------------------------
Tick ==
    /\ id # NoId
    /\ idle <= TTL
    /\ idle' = idle + 1
    /\ UNCHANGED <<id, activeCalls, released, closed, acquire, call, issued, finished>>

WaiterStep(w) ==
    \/ AcquireGrab(w)
    \/ AcquireBusy(w)
    \/ WaiterWoken(w)

Next ==
    \/ \E w \in Waiters :
         \/ StartSession(w)
         \/ WaiterStep(w)
         \/ WaiterCancelled(w)
         \/ WaiterTimedOut(w)
    \/ \E i \in issued \cup {NoId} :
         \/ Finish(i)
         \/ Refresh(i)
         \/ \E k \in Calls : CallStart(k, i)
    \/ \E k \in Calls : CallEnd(k)
    \/ Info
    \/ Reap
    \/ Tick

Spec == Init /\ [][Next]_vars

(***************************************************************************)
(* Fairness: the clock advances, the reaper's ticker fires every second    *)
(* until the manager is closed, and a runnable StartSession goroutine gets *)
(* to run.  Nothing is assumed of clients, nor that a handler ends.        *)
(***************************************************************************)
FairSpec ==
    /\ Spec
    /\ WF_vars(Tick)
    /\ WF_vars(Reap)
    /\ \A w \in Waiters : WF_vars(WaiterStep(w))

-----------------------------------------------------------------------------
(* Properties.                                                             *)

\* Every variable has its type; the channel of the holder is its own.
TypeOK ==
    /\ id \in Ids \cup {NoId}
    /\ idle \in Nat
    /\ activeCalls \in Nat
    /\ released \in Ids \cup {NoId}
    /\ closed \subseteq Ids
    /\ acquire \in [Waiters -> [pc : {"idle", "try", "wait"},
                               mode : WaitModes,
                               rel : Ids \cup {NoId}]]
    /\ call \in [Calls -> [pc : {"none", "running"}, sid : Ids \cup {NoId}]]
    /\ issued \subseteq Ids
    /\ finished \subseteq Ids

\* The in-flight counter counts exactly the holder's calls: no late CallEnd of
\* a past session leaks into the count of the next one (clearLocked, CallEnd).
CallsCounted ==
    activeCalls = IF id = NoId THEN 0 ELSE Cardinality(InFlight(id))

\* No lost wakeup: the channel a waiter blocks on is closed already, or it is
\* the one the holder's release will close (Acquire reads m.released and then
\* selects on it outside the mutex).
NoLostWakeup ==
    \A w \in Waiters :
      acquire[w].pc = "wait" =>
        acquire[w].rel \in closed \/ (id # NoId /\ acquire[w].rel = released)

\* An RPC that runs under a session that is no longer the holder can only be
\* there because that session was finished on request: neither expiry nor a
\* competing acquisition takes the hardware away from a running call.
StaleCallsWereFinished ==
    \A k \in Calls :
      call[k].pc = "running" => call[k].sid = id \/ call[k].sid \in finished

\* The holder loses the lock only by a FinishSession that names it, or when it
\* has been silent past the TTL with no call of its own in progress.
HolderKept ==
    [][(id # NoId /\ id' # id) =>
         id \in finished' \ finished \/ (idle > TTL /\ InFlight(id) = {})]_vars

\* A session that has lapsed is never brought back by a late Ping or a late
\* RPC, whether or not the reaper has noticed: its clock does not restart.
LapsedStaysLapsed ==
    [][(id # NoId /\ idle > TTL /\ InFlight(id) = {}) =>
         id' # id \/ (idle' >= idle /\ InFlight(id)' = {})]_vars

\* A holder nobody hears of is released: it ends, or shows activity, or has a
\* call in progress (the reaper and the idle TTL).
AbandonedReleased ==
    \A i \in Ids :
      (id = i /\ idle > 0) ~> (id # i \/ idle = 0 \/ InFlight(i) # {})

\* Whenever the lock is free and somebody is blocked on it, somebody takes it
\* or nobody waits any more.  (Ids is finite in a run: the last id is the
\* bound.)
FreeLockTaken ==
    (id = NoId /\ \E w \in Waiters : acquire[w].pc # "idle")
      ~> (id # NoId \/ issued = Ids \/ \A w \in Waiters : acquire[w].pc = "idle")

\* The lock goes round: an abandoned one is released, and a free one is taken.
LockCirculates == AbandonedReleased /\ FreeLockTaken

-----------------------------------------------------------------------------
(* The lock implements the lease: the counter is the set of the holder's   *)
(* calls.                                                                  *)

Lease == INSTANCE SessionLease WITH
    holder <- id,
    used <- issued,
    silence <- idle,
    pins <- InFlight(id),
    yielded <- finished

\* Every behaviour of the manager is one the lease allows.
LeaseSpec == Lease!LeaseSpec
=============================================================================
