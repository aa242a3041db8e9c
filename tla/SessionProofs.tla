--------------------------- MODULE SessionProofs ---------------------------
(***************************************************************************)
(* The lock, and then its clients.                                         *)
(*                                                                         *)
(* The invariants of SessionLock hold for every set of ids, handlers and   *)
(* calls and for every TTL, and the lock implements the lease.  Nothing of *)
(* the clients is used for that.                                           *)
(*                                                                         *)
(* CallsCounted is not inductive alone: that a new session starts with no  *)
(* call of its own in progress needs SidsIssued (a running call's id was   *)
(* handed out before, and gen() returns a fresh one).  NoLostWakeup needs  *)
(* HolderChannel (the channel the holder's release closes is its own).     *)
(*                                                                         *)
(* The clients: for every set of command lines, bridges, RPCs and ids,     *)
(* every TTL, and every number of operations and restarts, no operation is *)
(* repeated, a client that waits for a running operation has the lock, and *)
(* the keepalive keeps it for a whole command.                             *)
(*                                                                         *)
(* The three rest on one invariant, CInv.  Its lock part is IInv: a step   *)
(* of the clients takes the lock through a step of its own, or restarts    *)
(* it.  The client part says who a slot belongs to (Slots, Waiting), that  *)
(* an id is in the hands of one client until that client gives it up       *)
(* (Tokens), which request can still run the current operation of a client *)
(* (Operations), and how old the lock of a command may be (Kept).          *)
(***************************************************************************)
EXTENDS SessionClients, FiniteSetTheorems, TLAPS

-----------------------------------------------------------------------------
(* The lock.                                                               *)

\* The open channel is the one made for the holder; there is none when free.
HolderChannel == released = id

\* The holder's id, and the id of every call in progress, was handed out; the
\* holder's was not finished yet.
SidsIssued ==
    /\ id \in issued \cup {NoId}
    /\ id \notin finished
    /\ finished \subseteq issued
    /\ \A k \in Calls : call[k].pc = "running" => call[k].sid \in issued

\* The inductive invariant.
IInv ==
    /\ TypeOK
    /\ HolderChannel
    /\ SidsIssued
    /\ CallsCounted
    /\ NoLostWakeup
    /\ StaleCallsWereFinished

-----------------------------------------------------------------------------
(* The calls in progress.                                                  *)

\* The in-flight calls of a session are finitely many.
LEMMA InFlightFinite ==
  ASSUME NEW i
  PROVE  IsFiniteSet(InFlight(i)) /\ Cardinality(InFlight(i)) \in Nat
<1>1. InFlight(i) \in SUBSET Calls
  BY DEF InFlight
<1>2. IsFiniteSet(InFlight(i))
  BY <1>1, CallsAssumption, FS_Subset
<1> QED
  BY <1>2, FS_CardinalityType

\* An id that was never handed out has no call in progress.
LEMMA FreshIdNoCalls ==
  ASSUME SidsIssued, NEW i, i \notin issued
  PROVE  InFlight(i) = {}
BY DEF SidsIssued, InFlight

\* Starting call k of session i adds k to the session's calls.
LEMMA CallStartAdds ==
  ASSUME TypeOK, NEW k \in Calls, NEW i \in Ids, call[k] = NoCall,
         call' = [call EXCEPT ![k] = [pc |-> "running", sid |-> i]]
  PROVE  /\ {q \in Calls : call'[q] = [pc |-> "running", sid |-> i]} = InFlight(i) \cup {k}
         /\ k \notin InFlight(i)
BY DEF TypeOK, InFlight, NoCall

\* Ending call k removes it from the calls of every session it could belong to.
LEMMA CallEndRemoves ==
  ASSUME TypeOK, NEW k \in Calls, NEW i,
         call' = [call EXCEPT ![k] = NoCall]
  PROVE  {q \in Calls : call'[q] = [pc |-> "running", sid |-> i]} = InFlight(i) \ {k}
BY DEF TypeOK, InFlight, NoCall

-----------------------------------------------------------------------------
\* The invariant holds initially.
LEMMA InitIInv == Init => IInv
<1> SUFFICES ASSUME Init PROVE IInv
  OBVIOUS
<1> USE DEF Init, Handler, Idle, NoCall, WaitModes
<1>1. TypeOK
  BY TTLAssumption DEF TypeOK
<1>2. HolderChannel /\ SidsIssued /\ CallsCounted
  BY DEF HolderChannel, SidsIssued, CallsCounted
<1>3. NoLostWakeup /\ StaleCallsWereFinished
  BY DEF NoLostWakeup, StaleCallsWereFinished
<1> QED
  BY <1>1, <1>2, <1>3 DEF IInv

\* A release of the lock that leaves the handlers alone keeps the invariant,
\* provided the calls that lose their session are accounted for.
LEMMA ClearKeeps ==
  ASSUME IInv, id # NoId, Clear, UNCHANGED <<acquire, call, issued>>,
         finished' \in SUBSET issued, finished \subseteq finished',
         InFlight(id) = {} \/ id \in finished'
  PROVE  IInv'
<1> USE DEF IInv, Clear, CloseReleased
<1>1. TypeOK'
  BY NoIdAssumption DEF TypeOK
<1>2. HolderChannel' /\ SidsIssued'
  BY NoIdAssumption DEF HolderChannel, SidsIssued, TypeOK
<1>3. CallsCounted'
  BY DEF CallsCounted
<1>4. NoLostWakeup'
  BY DEF NoLostWakeup, TypeOK, HolderChannel
<1>5. StaleCallsWereFinished'
  <2> SUFFICES ASSUME NEW k \in Calls, call[k].pc = "running"
               PROVE  call[k].sid \in finished'
    BY DEF StaleCallsWereFinished
  <2>1. CASE call[k].sid = id
    <3>1. call[k] = [pc |-> "running", sid |-> id]
      BY <2>1 DEF TypeOK
    <3> QED
      BY <2>1, <3>1 DEF InFlight
  <2>2. CASE call[k].sid \in finished
    BY <2>2
  <2> QED
    BY <2>1, <2>2 DEF StaleCallsWereFinished
<1> QED
  BY <1>1, <1>2, <1>3, <1>4, <1>5

\* A lapsed holder has no call in progress: the counter is exact.
LEMMA LapsedHasNoCalls ==
  ASSUME IInv, Lapsed
  PROVE  id # NoId /\ InFlight(id) = {} /\ idle > TTL
<1>1. Cardinality(InFlight(id)) = 0
  BY DEF IInv, CallsCounted, Lapsed
<1> QED
  BY <1>1, InFlightFinite, FS_EmptySet DEF Lapsed

\* Lazy expiry keeps the invariant.
LEMMA ExpireKeeps ==
  ASSUME IInv, ExpireIfIdle, UNCHANGED <<acquire, call, issued, finished>>
  PROVE  IInv'
<1>1. CASE Lapsed /\ Clear
  BY <1>1, LapsedHasNoCalls, ClearKeeps DEF IInv, SidsIssued
<1>2. CASE ~Lapsed /\ UNCHANGED mgrVars
  BY <1>2 DEF IInv, mgrVars, TypeOK, HolderChannel, SidsIssued, CallsCounted,
              InFlight, NoLostWakeup, StaleCallsWereFinished
<1> QED
  BY <1>1, <1>2 DEF ExpireIfIdle

\* Steps of a StartSession handler that only change its own state.
LEMMA HandlerKeeps ==
  ASSUME IInv, NEW w \in Waiters, NEW h,
         acquire' = [acquire EXCEPT ![w] = h],
         h \in [pc : {"idle", "try", "wait"}, mode : WaitModes, rel : Ids \cup {NoId}],
         h.pc = "wait" => id # NoId /\ h.rel = released,
         UNCHANGED <<mgrVars, call, issued, finished>>
  PROVE  IInv'
<1> USE DEF IInv, mgrVars
<1>1. TypeOK'
  BY DEF TypeOK
<1>2. HolderChannel' /\ SidsIssued' /\ CallsCounted' /\ StaleCallsWereFinished'
  BY DEF HolderChannel, SidsIssued, CallsCounted, InFlight, StaleCallsWereFinished
<1>3. NoLostWakeup'
  BY DEF NoLostWakeup, TypeOK
<1> QED
  BY <1>1, <1>2, <1>3

\* Taking the lock, free or lapsed, under a fresh id keeps the invariant.
LEMMA GrabKeeps ==
  ASSUME IInv, NEW w \in Waiters, AcquireGrab(w)
  PROVE  IInv'
<1>1. PICK i \in Ids \ issued : id' = i /\ released' = i /\ issued' = issued \cup {i}
  BY DEF AcquireGrab
<1> USE DEF AcquireGrab, IInv, CloseReleased
<1>2. TypeOK'
  BY <1>1, TTLAssumption DEF TypeOK, Handler, Idle, WaitModes
<1>3. HolderChannel' /\ SidsIssued'
  BY <1>1 DEF HolderChannel, SidsIssued
<1>4. InFlight(i) = {}
  BY <1>1, FreshIdNoCalls
<1>5. CallsCounted'
  <2>1. InFlight(id)' = {}
    BY <1>1, <1>4 DEF InFlight
  <2> QED
    BY <2>1, <1>1, FS_EmptySet, NoIdAssumption DEF CallsCounted
<1>6. NoLostWakeup'
  BY <1>1 DEF NoLostWakeup, Handler, Idle, TypeOK, HolderChannel
<1>7. StaleCallsWereFinished'
  <2> SUFFICES ASSUME NEW k \in Calls, call[k].pc = "running"
               PROVE  call[k].sid \in finished
    BY DEF StaleCallsWereFinished
  <2>1. call[k].sid # NoId
    BY NoIdAssumption DEF SidsIssued, TypeOK
  <2>2. CASE id = NoId
    BY <2>1, <2>2 DEF StaleCallsWereFinished
  <2>3. CASE Lapsed
    <3>1. InFlight(id) = {}
      BY <2>3, LapsedHasNoCalls
    <3>2. call[k] = [pc |-> "running", sid |-> call[k].sid]
      BY DEF TypeOK
    <3> QED
      BY <3>1, <3>2 DEF StaleCallsWereFinished, InFlight
  <2> QED
    BY <2>2, <2>3
<1> QED
  BY <1>2, <1>3, <1>5, <1>6, <1>7

\* CallStart keeps the invariant.
LEMMA CallStartKeeps ==
  ASSUME IInv, NEW k \in Calls, NEW i \in issued \cup {NoId}, CallStart(k, i)
  PROVE  IInv'
<1>1. CASE ~HolderIs(i) /\ ExpireIfIdle /\ UNCHANGED call
  BY <1>1, ExpireKeeps DEF CallStart
<1>2. CASE HolderIs(i) /\ ~(~HolderIs(i) /\ ExpireIfIdle /\ UNCHANGED call)
  <2>1. /\ id = i /\ i # NoId /\ i \in Ids
        /\ call[k] = NoCall
        /\ idle' = 0
        /\ activeCalls' = activeCalls + 1
        /\ call' = [call EXCEPT ![k] = [pc |-> "running", sid |-> i]]
        /\ UNCHANGED <<id, released, closed, acquire, issued, finished>>
    BY <1>2 DEF CallStart, HolderIs, IInv, TypeOK
  <2> HIDE DEF CallStart
  <2> USE <2>1 DEF IInv
  <2>2. TypeOK'
    BY DEF TypeOK
  <2>3. HolderChannel' /\ SidsIssued'
    BY DEF HolderChannel, SidsIssued, TypeOK
  <2>4. CallsCounted'
    <3>1. InFlight(id)' = InFlight(i) \cup {k} /\ k \notin InFlight(i)
      <4>1. /\ {q \in Calls : call'[q] = [pc |-> "running", sid |-> i]} = InFlight(i) \cup {k}
            /\ k \notin InFlight(i)
        BY CallStartAdds
      <4> QED
        BY <4>1 DEF InFlight
    <3>2. Cardinality(InFlight(i) \cup {k}) = Cardinality(InFlight(i)) + 1
      BY <3>1, InFlightFinite, FS_AddElement
    <3> QED
      BY <3>1, <3>2 DEF CallsCounted
  <2>5. NoLostWakeup'
    BY DEF NoLostWakeup
  <2>6. StaleCallsWereFinished'
    BY DEF StaleCallsWereFinished, TypeOK
  <2> QED
    BY <2>2, <2>3, <2>4, <2>5, <2>6
<1> QED
  BY <1>1, <1>2 DEF CallStart

\* CallEnd keeps the invariant; the activeCalls > 0 test never decides.
LEMMA CallEndKeeps ==
  ASSUME IInv, NEW k \in Calls, CallEnd(k)
  PROVE  IInv'
<1> USE DEF CallEnd, IInv
<1>1. call[k] = [pc |-> "running", sid |-> call[k].sid] /\ call[k].sid # NoId
  BY NoIdAssumption DEF TypeOK, SidsIssued
<1>2. TypeOK'
  BY DEF TypeOK, NoCall
<1>3. HolderChannel' /\ SidsIssued'
  BY DEF HolderChannel, SidsIssued, TypeOK, NoCall
<1>4. CallsCounted'
  <2>1. InFlight(id)' = InFlight(id) \ {k}
    <3>1. PICK i : i = id
      OBVIOUS
    <3>2. {q \in Calls : call'[q] = [pc |-> "running", sid |-> i]} = InFlight(i) \ {k}
      BY CallEndRemoves
    <3> QED
      BY <3>1, <3>2 DEF InFlight
  <2>2. CASE id = call[k].sid
    <3>1. k \in InFlight(id)
      BY <1>1, <2>2 DEF InFlight
    <3>2. Cardinality(InFlight(id) \ {k}) = Cardinality(InFlight(id)) - 1
      BY <3>1, InFlightFinite, FS_RemoveElement
    <3>3. activeCalls > 0
      BY <3>1, <2>2, <1>1, InFlightFinite, FS_EmptySet DEF CallsCounted
    <3> QED
      BY <2>1, <2>2, <1>1, <3>2, <3>3 DEF CallsCounted
  <2>3. CASE id # call[k].sid
    <3>1. InFlight(id)' = InFlight(id)
      BY <2>1, <2>3, <1>1 DEF InFlight
    <3> QED
      BY <2>3, <3>1 DEF CallsCounted
  <2> QED
    BY <2>2, <2>3
<1>5. NoLostWakeup'
  BY DEF NoLostWakeup
<1>6. StaleCallsWereFinished'
  BY DEF StaleCallsWereFinished, TypeOK, NoCall
<1> QED
  BY <1>2, <1>3, <1>4, <1>5, <1>6

\* Restarting or advancing the idle clock keeps the invariant.
LEMMA ClockKeeps ==
  ASSUME IInv, idle' \in Nat,
         UNCHANGED <<id, activeCalls, released, closed, acquire, call, issued, finished>>
  PROVE  IInv'
BY DEF IInv, TypeOK, HolderChannel, SidsIssued, CallsCounted, InFlight,
       NoLostWakeup, StaleCallsWereFinished

-----------------------------------------------------------------------------
\* Every step keeps the invariant.
LEMMA NextIInv == IInv /\ [Next]_vars => IInv'
<1> SUFFICES ASSUME IInv, [Next]_vars PROVE IInv'
  OBVIOUS
<1>1. ASSUME NEW w \in Waiters, StartSession(w) PROVE IInv'
  <2>1. PICK mode \in WaitModes : acquire' = [acquire EXCEPT ![w] = Handler("try", mode, NoId)]
    BY <1>1 DEF StartSession
  <2> QED
    BY <1>1, <2>1, HandlerKeeps DEF StartSession, Handler
<1>2. ASSUME NEW w \in Waiters, AcquireGrab(w) PROVE IInv'
  BY <1>2, GrabKeeps
<1>3. ASSUME NEW w \in Waiters, AcquireBusy(w) PROVE IInv'
  <2>1. acquire[w].mode \in WaitModes /\ released \in Ids \cup {NoId}
    BY DEF IInv, TypeOK
  <2>2. CASE acquire[w].mode = "failFast"
    BY <1>3, <2>1, <2>2, HandlerKeeps DEF AcquireBusy, Handler, Idle, WaitModes
  <2>3. CASE acquire[w].mode # "failFast"
    BY <1>3, <2>1, <2>3, HandlerKeeps DEF AcquireBusy, Handler
  <2> QED
    BY <2>2, <2>3
<1>4. ASSUME NEW w \in Waiters, WaiterWoken(w) PROVE IInv'
  <2>1. acquire[w].mode \in WaitModes
    BY DEF IInv, TypeOK
  <2> QED
    BY <1>4, <2>1, HandlerKeeps DEF WaiterWoken, Handler
<1>5. ASSUME NEW w \in Waiters, WaiterCancelled(w) \/ WaiterTimedOut(w) PROVE IInv'
  BY <1>5, HandlerKeeps DEF WaiterCancelled, WaiterTimedOut, Handler, Idle, WaitModes
<1>6. ASSUME NEW i \in issued \cup {NoId}, Finish(i) PROVE IInv'
  BY <1>6, ClearKeeps DEF Finish, IInv, SidsIssued
<1>7. ASSUME NEW i \in issued \cup {NoId}, Refresh(i) PROVE IInv'
  <2>1. CASE ~HolderIs(i) /\ ExpireIfIdle
    BY <1>7, <2>1, ExpireKeeps DEF Refresh
  <2>2. CASE HolderIs(i) /\ idle' = 0 /\ UNCHANGED <<id, activeCalls, released, closed>>
    BY <1>7, <2>2, ClockKeeps DEF Refresh
  <2> QED
    BY <1>7, <2>1, <2>2 DEF Refresh
<1>8. ASSUME NEW i \in issued \cup {NoId}, NEW k \in Calls, CallStart(k, i) PROVE IInv'
  BY <1>8, CallStartKeeps
<1>9. ASSUME NEW k \in Calls, CallEnd(k) PROVE IInv'
  BY <1>9, CallEndKeeps
<1>10. CASE Info
  BY <1>10, ExpireKeeps DEF Info
<1>11. CASE Reap
  BY <1>11, ExpireKeeps DEF Reap, ExpireIfIdle
<1>12. CASE Tick
  BY <1>12, ClockKeeps DEF Tick, IInv, TypeOK
<1>13. CASE UNCHANGED vars
  BY <1>13, ClockKeeps DEF vars, IInv, TypeOK
<1> QED
  BY <1>1, <1>2, <1>3, <1>4, <1>5, <1>6, <1>7, <1>8, <1>9, <1>10, <1>11, <1>12, <1>13
     DEF Next, WaiterStep

\* IInv is an invariant of the lock.
THEOREM Invariance == Spec => []IInv
BY InitIInv, NextIInv, PTL DEF Spec

\* Every reachable state of the lock is well typed (the fields of Manager, the
\* states of the handlers).
THEOREM TypeOKHolds == Spec => []TypeOK
BY Invariance, PTL DEF IInv

\* The in-flight counter is exact for every number of calls and sessions.
THEOREM CallsCountedHolds == Spec => []CallsCounted
BY Invariance, PTL DEF IInv

\* No StartSession handler blocks on a channel nobody will close.
THEOREM NoLostWakeupHolds == Spec => []NoLostWakeup
BY Invariance, PTL DEF IInv

\* Only FinishSession can take the lock from under a running call.
THEOREM StaleCallsWereFinishedHolds == Spec => []StaleCallsWereFinished
BY Invariance, PTL DEF IInv

-----------------------------------------------------------------------------
(* The lock implements the lease.                                          *)

\* The counter is positive exactly when the holder has a call in progress.
LEMMA LapsedIsOver ==
  ASSUME IInv
  PROVE  Lapsed <=> Lease!Over
<1>1. CASE id = NoId
  BY <1>1 DEF Lapsed, Lease!Over
<1>2. CASE id # NoId
  <2>1. activeCalls = 0 <=> InFlight(id) = {}
    BY <1>2, InFlightFinite, FS_EmptySet DEF IInv, CallsCounted
  <2> QED
    BY <2>1 DEF Lapsed, Lease!Over
<1> QED
  BY <1>1, <1>2

\* The free lock has no call in progress.
LEMMA NoCallsOfNobody ==
  ASSUME IInv, NEW i, i \notin Ids
  PROVE  InFlight(i) = {}
BY DEF IInv, TypeOK, SidsIssued, InFlight

\* Clearing a lapsed lock is the lease's Lapse.
LEMMA ClearIsLapse ==
  ASSUME IInv, Lapsed, Clear, UNCHANGED <<call, issued, finished>>
  PROVE  Lease!Lapse
<1>1. InFlight(id)' = {}
  <2>1. InFlight(NoId) = {}
    BY NoCallsOfNobody, NoIdAssumption
  <2> QED
    BY <2>1 DEF InFlight, Clear
<1> QED
  BY <1>1, LapsedIsOver DEF Lease!Lapse, Clear

\* Lazy expiry is Lapse or nothing.
LEMMA ExpireRefines ==
  ASSUME IInv, ExpireIfIdle, UNCHANGED <<call, issued, finished>>
  PROVE  Lease!Lapse \/ UNCHANGED Lease!leaseVars
<1>1. CASE Lapsed /\ Clear
  BY <1>1, ClearIsLapse
<1>2. CASE ~Lapsed /\ UNCHANGED mgrVars
  BY <1>2 DEF mgrVars, Lease!leaseVars, InFlight
<1> QED
  BY <1>1, <1>2 DEF ExpireIfIdle

\* AcquireGrab is Grant.
LEMMA GrabRefines ==
  ASSUME IInv, NEW w \in Waiters, AcquireGrab(w)
  PROVE  \E i \in Ids : Lease!Grant(i)
<1>1. PICK i \in Ids \ issued : id' = i /\ issued' = issued \cup {i}
  BY DEF AcquireGrab
<1>2. InFlight(i) = {}
  BY <1>1, FreshIdNoCalls DEF IInv
<1>3. InFlight(id)' = {}
  BY <1>1, <1>2 DEF InFlight, AcquireGrab
<1>4. id = NoId \/ Lease!Over
  BY LapsedIsOver DEF AcquireGrab
<1> QED
  BY <1>1, <1>3, <1>4 DEF AcquireGrab, Lease!Grant

\* A successful CallStart is Begin.
LEMMA CallStartRefines ==
  ASSUME IInv, NEW k \in Calls, NEW i \in issued \cup {NoId}, CallStart(k, i)
  PROVE  Lease!Begin(k) \/ Lease!Lapse \/ UNCHANGED Lease!leaseVars
<1>1. CASE ~HolderIs(i) /\ ExpireIfIdle /\ UNCHANGED call
  BY <1>1, ExpireRefines DEF CallStart
<1>2. CASE HolderIs(i) /\ ~(~HolderIs(i) /\ ExpireIfIdle /\ UNCHANGED call)
  <2>1. /\ id = i /\ i # NoId /\ i \in Ids /\ ~Lapsed
        /\ call[k] = NoCall
        /\ idle' = 0
        /\ call' = [call EXCEPT ![k] = [pc |-> "running", sid |-> i]]
        /\ UNCHANGED <<id, issued, finished>>
    BY <1>2 DEF CallStart, HolderIs, IInv, TypeOK
  <2>2. /\ {q \in Calls : call'[q] = [pc |-> "running", sid |-> i]} = InFlight(i) \cup {k}
        /\ k \notin InFlight(i)
    BY <2>1, CallStartAdds DEF IInv
  <2>3. InFlight(id)' = InFlight(id) \cup {k} /\ k \notin InFlight(id)
    BY <2>1, <2>2 DEF InFlight
  <2> QED
    BY <2>1, <2>3, LapsedIsOver DEF Lease!Begin
<1> QED
  BY <1>1, <1>2 DEF CallStart

\* The CallEnd of the holder's call is End, that of a past session's is nothing.
LEMMA CallEndRefines ==
  ASSUME IInv, NEW k \in Calls, CallEnd(k)
  PROVE  Lease!End(k) \/ UNCHANGED Lease!leaseVars
<1> USE DEF CallEnd
<1>1. call[k] = [pc |-> "running", sid |-> call[k].sid] /\ call[k].sid # NoId
  BY NoIdAssumption DEF IInv, TypeOK, SidsIssued
<1>2. InFlight(id)' = InFlight(id) \ {k}
  <2>1. PICK i : i = id
    OBVIOUS
  <2>2. {q \in Calls : call'[q] = [pc |-> "running", sid |-> i]} = InFlight(i) \ {k}
    BY CallEndRemoves DEF IInv
  <2> QED
    BY <2>1, <2>2 DEF InFlight
<1>3. CASE id = call[k].sid
  <2>1. k \in InFlight(id)
    BY <1>1, <1>3 DEF InFlight
  <2>2. activeCalls > 0
    BY <2>1, <1>3, <1>1, InFlightFinite, FS_EmptySet DEF IInv, CallsCounted
  <2> QED
    BY <1>2, <1>3, <2>1, <2>2 DEF Lease!End
<1>4. CASE id # call[k].sid
  <2>1. k \notin InFlight(id)
    BY <1>1, <1>4 DEF InFlight
  <2> QED
    BY <1>2, <1>4, <2>1 DEF Lease!leaseVars
<1> QED
  BY <1>3, <1>4

\* Every step of the lock is a step of the lease or changes nothing it sees.
LEMMA NextRefines == IInv /\ [Next]_vars => [Lease!LeaseNext]_Lease!leaseVars
<1> SUFFICES ASSUME IInv, [Next]_vars PROVE [Lease!LeaseNext]_Lease!leaseVars
  OBVIOUS
<1> USE DEF Lease!LeaseNext
<1>1. ASSUME NEW w \in Waiters,
             \/ StartSession(w) \/ AcquireBusy(w) \/ WaiterWoken(w)
             \/ WaiterCancelled(w) \/ WaiterTimedOut(w)
      PROVE  UNCHANGED Lease!leaseVars
  <2>1. UNCHANGED <<mgrVars, call, issued, finished>>
    BY <1>1 DEF StartSession, AcquireBusy, WaiterWoken, WaiterCancelled, WaiterTimedOut
  <2> QED
    BY <2>1 DEF mgrVars, Lease!leaseVars, InFlight
<1>2. ASSUME NEW w \in Waiters, AcquireGrab(w) PROVE Lease!LeaseNext
  BY <1>2, GrabRefines
<1>3. ASSUME NEW i \in issued \cup {NoId}, Finish(i) PROVE Lease!GiveUp
  <2>1. InFlight(NoId) = {}
    BY NoCallsOfNobody, NoIdAssumption
  <2>2. InFlight(id)' = {}
    BY <1>3, <2>1 DEF Finish, Clear, InFlight
  <2> QED
    BY <1>3, <2>2 DEF Finish, Clear, Lease!GiveUp
<1>4. ASSUME NEW i \in issued \cup {NoId}, Refresh(i)
      PROVE  [Lease!LeaseNext]_Lease!leaseVars
  <2>1. CASE ~HolderIs(i) /\ ExpireIfIdle
    BY <1>4, <2>1, ExpireRefines DEF Refresh
  <2>2. CASE HolderIs(i) /\ idle' = 0 /\ UNCHANGED <<id, activeCalls, released, closed>>
    <3>1. InFlight(id)' = InFlight(id)
      BY <1>4, <2>2 DEF Refresh, InFlight
    <3>2. id # NoId /\ ~Lease!Over
      BY <2>2, LapsedIsOver DEF HolderIs
    <3> QED
      BY <1>4, <2>2, <3>1, <3>2 DEF Refresh, Lease!Touch
  <2> QED
    BY <1>4, <2>1, <2>2 DEF Refresh
<1>5. ASSUME NEW i \in issued \cup {NoId}, NEW k \in Calls, CallStart(k, i)
      PROVE  [Lease!LeaseNext]_Lease!leaseVars
  BY <1>5, CallStartRefines
<1>6. ASSUME NEW k \in Calls, CallEnd(k) PROVE [Lease!LeaseNext]_Lease!leaseVars
  BY <1>6, CallEndRefines
<1>7. CASE Info \/ Reap
  BY <1>7, ExpireRefines DEF Info, Reap, ExpireIfIdle
<1>8. CASE Tick
  <2>1. InFlight(id)' = InFlight(id)
    BY <1>8 DEF Tick, InFlight
  <2> QED
    BY <1>8, <2>1 DEF Tick, Lease!Age
<1>9. CASE UNCHANGED vars
  BY <1>9 DEF vars, Lease!leaseVars, InFlight
<1> QED
  BY <1>1, <1>2, <1>3, <1>4, <1>5, <1>6, <1>7, <1>8, <1>9 DEF Next, WaiterStep

\* The manager, with its counter, mutex, waiters and reaper, implements the lease.
THEOREM ImplementsLease == Spec => LeaseSpec
<1>1. Init => Lease!LeaseInit
  BY DEF Init, Lease!LeaseInit, InFlight, NoCall
<1> QED
  BY <1>1, Invariance, NextRefines, PTL DEF Spec, LeaseSpec, Lease!LeaseSpec

-----------------------------------------------------------------------------
(* What a step may never do, read off the lease.                           *)

\* One step of the lock never takes the unit from a holder that is neither
\* finished nor past its TTL with no call in progress.
LEMMA StepKeepsHolder ==
  IInv /\ [Next]_vars =>
    [(id # NoId /\ id' # id) =>
       id \in finished' \ finished \/ (idle > TTL /\ InFlight(id) = {})]_vars
<1> SUFFICES ASSUME IInv, [Next]_vars, id # NoId, id' # id
             PROVE  id \in finished' \ finished \/ (idle > TTL /\ InFlight(id) = {})
  OBVIOUS
<1>1. Lease!LeaseNext
  BY NextRefines DEF Lease!leaseVars
<1>2. ASSUME NEW i \in Ids, Lease!Grant(i) PROVE idle > TTL /\ InFlight(id) = {}
  BY <1>2 DEF Lease!Grant, Lease!Over
<1>3. ASSUME Lease!Lapse PROVE idle > TTL /\ InFlight(id) = {}
  BY <1>3 DEF Lease!Lapse, Lease!Over
<1>4. ASSUME Lease!GiveUp PROVE id \in finished' \ finished
  BY <1>4 DEF Lease!GiveUp, IInv, SidsIssued
<1> QED
  BY <1>1, <1>2, <1>3, <1>4
     DEF Lease!LeaseNext, Lease!Touch, Lease!Begin, Lease!End, Lease!Age

\* The holder loses the lock only by FinishSession or by idling past the TTL
\* with no call in progress, whatever the interleaving.
THEOREM HolderKeptHolds == Spec => HolderKept
<1>1. IInv /\ [Next]_vars =>
        [(id # NoId /\ id' # id) =>
           id \in finished' \ finished \/ (idle > TTL /\ InFlight(id) = {})]_vars
  BY StepKeepsHolder
<1> QED
  BY <1>1, Invariance, PTL DEF Spec, HolderKept

\* One step never restarts the clock of a lapsed holder.
LEMMA StepKeepsLapse ==
  IInv /\ [Next]_vars =>
    [(id # NoId /\ idle > TTL /\ InFlight(id) = {}) =>
       id' # id \/ (idle' >= idle /\ InFlight(id)' = {})]_vars
<1> SUFFICES ASSUME IInv, [Next]_vars, id # NoId, idle > TTL, InFlight(id) = {}
             PROVE  id' # id \/ (idle' >= idle /\ InFlight(id)' = {})
  OBVIOUS
<1>1. Lease!Over /\ id \in issued /\ idle \in Nat
  BY DEF Lease!Over, IInv, SidsIssued, TypeOK
<1>2. CASE UNCHANGED Lease!leaseVars
  BY <1>1, <1>2 DEF Lease!leaseVars
<1>3. CASE Lease!LeaseNext
  <2>1. ASSUME NEW i \in Ids, Lease!Grant(i) PROVE id' # id
    BY <2>1, <1>1 DEF Lease!Grant
  <2>2. ASSUME Lease!Lapse \/ Lease!GiveUp PROVE id' # id
    BY <2>2 DEF Lease!Lapse, Lease!GiveUp
  <2>3. ASSUME Lease!Age PROVE idle' >= idle /\ InFlight(id)' = {}
    BY <2>3, <1>1 DEF Lease!Age
  <2> QED
    BY <1>1, <1>3, <2>1, <2>2, <2>3 DEF Lease!LeaseNext, Lease!Touch, Lease!Begin, Lease!End
<1> QED
  BY <1>2, <1>3, NextRefines

\* A lapsed session is not revived by a late request, whoever sends it.
THEOREM LapsedStaysLapsedHolds == Spec => LapsedStaysLapsed
<1>1. IInv /\ [Next]_vars =>
        [(id # NoId /\ idle > TTL /\ InFlight(id) = {}) =>
           id' # id \/ (idle' >= idle /\ InFlight(id)' = {})]_vars
  BY StepKeepsLapse
<1> QED
  BY <1>1, Invariance, PTL DEF Spec, LapsedStaysLapsed

-----------------------------------------------------------------------------
(* The clients.                                                            *)

Process == [pc : {"begin", "ready", "lock", "start", "call", "release", "gone"},
            sid : Ids \cup {NoId}, rpc : Rpcs \cup {NoRpc},
            retried : BOOLEAN, n : Nat, ran : Nat,
            res : {"none", "ok", "failed"}, due : 0..(Interval + Latency),
            lost : 0..MaxLost]

Message == [st : {"free", "sent", "serving", "answered", "broken"},
            kind : {"none", "start", "call", "finish"},
            sid : Ids \cup {NoId}, by : Clients \cup {NoRpc}, n : Nat,
            res : {"none", "ok", "failed", "refused", "granted", "busy"}]

Typed ==
    /\ client \in [Clients -> Process]
    /\ rpc \in [Rpcs -> Message]
    /\ restarts \in Nat

\* What a slot is depends on the handler that runs in it, and the other way round.
Slots ==
    \A r \in Rpcs :
      /\ rpc[r].st = "free" => rpc[r] = Free
      /\ rpc[r].st # "free" => rpc[r].by \in Clients
      /\ rpc[r].sid \in issued \cup {NoId}
      /\ rpc[r].res = "granted" => rpc[r].sid # NoId
      /\ acquire[r].pc # "idle" => rpc[r].st = "serving" /\ rpc[r].kind = "start"
      /\ call[r].pc = "running" =>
           /\ rpc[r].st = "serving" /\ rpc[r].kind = "call"
           /\ rpc[r].sid = call[r].sid

\* What a client awaits is a request of its own, of the kind its pc says.
WaitingFor(c, kind) ==
    /\ client[c].rpc \in Rpcs
    /\ rpc[client[c].rpc].st # "free"
    /\ rpc[client[c].rpc].kind = kind
    /\ rpc[client[c].rpc].by = c

Waiting ==
    \A c \in Clients :
      /\ client[c].pc \in {"begin", "ready", "gone"} => client[c].rpc = NoRpc
      /\ client[c].pc \in {"lock", "start"} => WaitingFor(c, "start")
      /\ client[c].pc = "release" => WaitingFor(c, "finish")
      /\ client[c].pc = "call" =>
           /\ WaitingFor(c, "call")
           /\ rpc[client[c].rpc].n = client[c].n
           /\ rpc[client[c].rpc].st \in {"sent", "serving"} =>
                rpc[client[c].rpc].sid = client[c].sid
      /\ client[c].pc \in {"begin", "lock", "start", "release", "gone"} =>
           client[c].sid = NoId

\* Client c has, or is about to read, the id i.
Holds(c, i) ==
    /\ i # NoId
    /\ \/ client[c].sid = i
       \/ Answered(c, "start", "granted") /\ rpc[client[c].rpc].sid = i

\* An id is in the hands of one client; only that client asks to finish it, and
\* then has it no more.
Tokens ==
    \A c \in Clients, i \in Ids : Holds(c, i) =>
      /\ i \in issued \ finished
      /\ \A d \in Clients : Holds(d, i) => d = c
      /\ \A r \in Rpcs : Serving(r, "finish") => rpc[r].sid # i

\* Request r can run the operation client c is at, or has run it.
Carries(r, c) ==
    /\ rpc[r].st # "free" /\ rpc[r].kind = "call"
    /\ rpc[r].by = c /\ rpc[r].n = client[c].n

\* At most one request carries a client's operation; until it arrives, or when it
\* was refused, the operation did not run.
Operations ==
    /\ \A r \in Rpcs : rpc[r].st # "free" /\ rpc[r].kind = "call" =>
         /\ rpc[r].n # 0
         /\ client[rpc[r].by].pc # "gone" => rpc[r].n <= client[rpc[r].by].n
    /\ \A c \in Clients :
         /\ client[c].ran <= 1
         /\ client[c].res = "ok" => client[c].ran = 1
         /\ client[c].pc = "gone" => client[c].n = 0
         /\ client[c].pc = "start" =>
              client[c].ran = 0 /\ client[c].n # 0 /\ \A r \in Rpcs : ~Carries(r, c)
         /\ \A r \in Rpcs : Carries(r, c) =>
              /\ \A q \in Rpcs : Carries(q, c) => q = r
              /\ rpc[r].st = "sent" => client[c].ran = 0
              /\ rpc[r].st = "serving" => client[c].ran = 1
              /\ rpc[r].st = "answered" =>
                   IF rpc[r].res = "refused" THEN client[c].ran = 0
                                             ELSE client[c].ran = 1

\* How long ago the holder may have been heard of, by its keepalive.
Allowance(c) == client[c].due + client[c].lost * Interval + Latency

Kept ==
    restarts = 0 =>
      \A c \in Clis :
        /\ Alive(c) => id = client[c].sid /\ idle <= Allowance(c)
        /\ Answered(c, "start", "granted") =>
             id = rpc[client[c].rpc].sid /\ idle <= Latency

\* The inductive invariant of the clients.
CInv ==
    /\ IInv
    /\ Typed
    /\ Slots
    /\ Waiting
    /\ Tokens
    /\ Operations
    /\ Kept

-----------------------------------------------------------------------------
(* What the invariant says to a step.                                      *)

\* Of the delays and lost pings: all of them together fit into the TTL.
LEMMA IntervalBound ==
  /\ Interval \in Nat
  /\ (MaxLost + 1) * Interval + 2 * Latency <= TTL
BY DelayAssumption, TTLAssumption DEF Interval

\* An empty slot is one.
LEMMA FreeIsMessage == Free \in Message
BY DEF Free, Message

\* The lock stays as it is when its variables do.
LEMMA LockUnchanged ==
  ASSUME IInv, UNCHANGED lockVars
  PROVE  IInv'
BY NextIInv DEF lockVars, mgrVars, vars

\* A client awaits requests of its own only, so nobody else awaits them.
LEMMA AwaitedByOne ==
  ASSUME Typed, Waiting, NEW c \in Clients, client[c].rpc # NoRpc
  PROVE  /\ client[c].pc \in {"lock", "start", "call", "release"}
         /\ client[c].rpc \in Rpcs
         /\ rpc[client[c].rpc].by = c
         /\ rpc[client[c].rpc].st # "free"
         /\ \A d \in Clients : client[d].rpc = client[c].rpc => d = c
<1>1. \A d \in Clients : client[d].rpc # NoRpc =>
        /\ client[d].pc \in {"lock", "start", "call", "release"}
        /\ client[d].rpc \in Rpcs
        /\ rpc[client[d].rpc].by = d
        /\ rpc[client[d].rpc].st # "free"
  BY DEF Typed, Process, Waiting, WaitingFor
<1> QED
  BY <1>1

\* Nobody holds an id that is not held now, gets one back, or asks to finish
\* one that is held.
LEMMA TokensPass ==
  ASSUME Tokens,
         \A c \in Clients, i \in Ids : Holds(c, i)' => Holds(c, i),
         issued \subseteq issued', finished' \subseteq finished,
         \A r \in Rpcs : Serving(r, "finish")' => Serving(r, "finish") /\ rpc'[r].sid = rpc[r].sid
  PROVE  Tokens'
BY DEF Tokens

\* Whoever goes on as cl reads no other answer; an id read is the one it holds.
LEMMA DetachKeeps ==
  ASSUME CInv, NEW c \in Clients, NEW cl \in Process, Detach(c, cl), UNCHANGED restarts,
         cl = Gone(c) \/ (/\ cl.pc = "ready"
                          /\ cl.n = client[c].n
                          /\ cl.ran = client[c].ran
                          /\ cl.res = "ok" => cl.ran = 1),
         client[c].rpc # NoRpc \/ cl = Gone(c),
         cl.sid # NoId =>
           \/ /\ client[c].pc = "call"
              /\ cl.sid = client[c].sid
              /\ cl.due = client[c].due /\ cl.lost = client[c].lost
           \/ /\ Answered(c, "start", "granted")
              /\ cl.sid = rpc[client[c].rpc].sid
              /\ cl.due = 0 /\ cl.lost = 0
  PROVE  CInv'
<1> DEFINE d == [cl EXCEPT !.rpc = NoRpc]
<1>1. /\ d \in Process /\ d.rpc = NoRpc
      /\ d.pc = cl.pc /\ d.sid = cl.sid /\ d.n = cl.n /\ d.ran = cl.ran /\ d.res = cl.res
      /\ d.due = cl.due /\ d.lost = cl.lost
  BY DEF Process
<1>2. cl = Gone(c) => /\ cl.pc = "gone" /\ cl.n = 0 /\ cl.ran = 0 /\ cl.res = "none"
                      /\ cl.sid = NoId
  BY DEF Gone, NewClient
<1>3. client' = [client EXCEPT ![c] = d] /\ UNCHANGED lockVars
  BY DEF Detach
<1> HIDE DEF d
<1>4. \A e \in Clients : client'[e] = IF e = c THEN d ELSE client[e]
  BY <1>3 DEF CInv, Typed
<1>5. \A s \in Rpcs : rpc'[s] = IF s = client[c].rpc /\ rpc[s].st \in {"answered", "broken"}
                                  THEN Free ELSE rpc[s]
  BY DEF Detach
<1>6. IInv' /\ UNCHANGED <<id, idle, acquire, call, issued, finished>>
  BY <1>3, LockUnchanged DEF CInv, lockVars, mgrVars
<1>7. Typed'
  <2>1. client' \in [Clients -> Process]
    BY <1>1, <1>3 DEF CInv, Typed
  <2>2. rpc' \in [Rpcs -> Message]
    BY FreeIsMessage DEF CInv, Typed, Detach
  <2> QED
    BY <2>1, <2>2 DEF CInv, Typed
<1>8. Slots'
  BY <1>5, <1>6 DEF CInv, Slots, Free
<1>9. \A e \in Clients : e # c /\ client[e].rpc # NoRpc =>
        client[e].rpc \in Rpcs /\ rpc'[client[e].rpc] = rpc[client[e].rpc]
  BY <1>5, AwaitedByOne DEF CInv
<1>10. Waiting'
  <2>1. ASSUME NEW e \in Clients, e # c
        PROVE  /\ client'[e].pc \in {"begin", "ready", "gone"} => client'[e].rpc = NoRpc
               /\ client'[e].pc \in {"lock", "start"} => WaitingFor(e, "start")'
               /\ client'[e].pc = "release" => WaitingFor(e, "finish")'
               /\ client'[e].pc = "call" =>
                    /\ WaitingFor(e, "call")'
                    /\ rpc'[client'[e].rpc].n = client'[e].n
                    /\ rpc'[client'[e].rpc].st \in {"sent", "serving"} =>
                         rpc'[client'[e].rpc].sid = client'[e].sid
               /\ client'[e].pc \in {"begin", "lock", "start", "release", "gone"} =>
                    client'[e].sid = NoId
    BY <1>4, <1>9, <2>1, RpcsAssumption DEF CInv, Waiting, WaitingFor
  <2>2. client'[c].pc \in {"ready", "gone"} /\ client'[c].rpc = NoRpc
        /\ (client'[c].pc = "gone" => client'[c].sid = NoId)
    BY <1>1, <1>2, <1>4
  <2> QED
    BY <2>1, <2>2 DEF Waiting
<1>11. Tokens'
  <2>1. ASSUME NEW e \in Clients, NEW i \in Ids, Holds(e, i)' PROVE Holds(e, i)
    <3>1. CASE e = c
      BY <1>1, <1>2, <1>4, <2>1, <3>1 DEF Holds, Answered
    <3>2. CASE e # c
      BY <1>4, <1>9, <2>1, <3>2 DEF Holds, Answered
    <3> QED
      BY <3>1, <3>2
  <2>2. \A r \in Rpcs : Serving(r, "finish")' => Serving(r, "finish") /\ rpc'[r].sid = rpc[r].sid
    BY <1>5 DEF Serving, Free
  <2> QED
    BY <1>6, <2>1, <2>2, TokensPass DEF CInv
<1>12. Operations'
  <2>1. \A r \in Rpcs : rpc'[r].st # "free" => rpc'[r] = rpc[r]
    BY <1>5 DEF Free
  <2>2. \A r \in Rpcs, e \in Clients :
          Carries(r, e)' => client'[e].pc # "gone" /\ Carries(r, e)
    <3>1. ASSUME NEW r \in Rpcs, NEW e \in Clients, Carries(r, e)'
          PROVE  rpc'[r] = rpc[r] /\ client'[e].n # 0
      BY <2>1, <3>1 DEF Carries, CInv, Operations
    <3>2. ASSUME NEW r \in Rpcs, NEW e \in Clients, Carries(r, e)', e = c
          PROVE  client'[e].pc # "gone" /\ Carries(r, e)
      BY <3>1, <3>2, <1>1, <1>2, <1>4 DEF Carries
    <3>3. ASSUME NEW r \in Rpcs, NEW e \in Clients, Carries(r, e)', e # c
          PROVE  client'[e].pc # "gone" /\ Carries(r, e)
      BY <3>1, <3>3, <1>4 DEF Carries, CInv, Operations
    <3> QED
      BY <3>2, <3>3
  <2>3. \A r \in Rpcs : rpc'[r].st # "free" /\ rpc'[r].kind = "call" =>
          /\ rpc'[r].n # 0
          /\ client'[rpc'[r].by].pc # "gone" => rpc'[r].n <= client'[rpc'[r].by].n
    <3>1. client[c].pc # "gone" \/ cl = Gone(c)
      BY DEF CInv, Waiting
    <3>2. ASSUME NEW r \in Rpcs, rpc'[r].st # "free", rpc'[r].kind = "call"
          PROVE  /\ rpc'[r].n # 0
                 /\ client'[rpc'[r].by].pc # "gone" => rpc'[r].n <= client'[rpc'[r].by].n
      <4>1. rpc'[r] = rpc[r] /\ rpc[r].by \in Clients
        BY <2>1, <3>2 DEF CInv, Slots
      <4> QED
        BY <1>1, <1>2, <1>4, <3>1, <3>2, <4>1 DEF CInv, Operations
    <3> QED
      BY <3>2
  <2>4. \A e \in Clients :
          /\ client'[e].ran <= 1
          /\ client'[e].res = "ok" => client'[e].ran = 1
          /\ client'[e].pc = "gone" => client'[e].n = 0
          /\ client'[e].pc = "start" =>
               client'[e].ran = 0 /\ client'[e].n # 0 /\ \A r \in Rpcs : ~Carries(r, e)'
    BY <1>1, <1>2, <1>4, <2>2 DEF CInv, Operations
  <2>5. ASSUME NEW e \in Clients, NEW r \in Rpcs, Carries(r, e)'
        PROVE  /\ \A q \in Rpcs : Carries(q, e)' => q = r
               /\ rpc'[r].st = "sent" => client'[e].ran = 0
               /\ rpc'[r].st = "serving" => client'[e].ran = 1
               /\ rpc'[r].st = "answered" =>
                    IF rpc'[r].res = "refused" THEN client'[e].ran = 0
                                               ELSE client'[e].ran = 1
    <3>1. Carries(r, e) /\ client'[e].pc # "gone" /\ rpc'[r] = rpc[r]
      BY <2>1, <2>2, <2>5 DEF Carries
    <3>2. client'[e].ran = client[e].ran
      BY <1>1, <1>2, <1>4, <3>1
    <3> QED
      BY <2>2, <3>1, <3>2 DEF CInv, Operations
  <2> QED
    BY <2>3, <2>4, <2>5 DEF Operations
<1>13. Kept'
  <2> SUFFICES ASSUME restarts = 0, NEW e \in Clis
               PROVE  /\ Alive(e)' => id = client'[e].sid /\ idle <= Allowance(e)'
                      /\ Answered(e, "start", "granted")' =>
                           id = rpc'[client'[e].rpc].sid /\ idle <= Latency
    BY <1>6 DEF Kept
  <2>1. e \in Clients
    BY DEF Clients
  <2>2. CASE e # c
    BY <1>4, <1>9, <2>1, <2>2 DEF CInv, Kept, Alive, Allowance, Answered
  <2>3. CASE e = c
    <3>1. client'[e] = d /\ ~Answered(e, "start", "granted")'
      BY <1>1, <1>4, <2>1, <2>3 DEF Answered
    <3>2. ASSUME Alive(e)', client[c].pc = "call", cl.sid = client[c].sid,
                 cl.due = client[c].due, cl.lost = client[c].lost
          PROVE  id = client'[e].sid /\ idle <= Allowance(e)'
      BY <3>1, <3>2, <2>3, <1>1 DEF CInv, Kept, Alive, Allowance
    <3>3. ASSUME Alive(e)', Answered(c, "start", "granted"),
                 cl.sid = rpc[client[c].rpc].sid, cl.due = 0, cl.lost = 0
          PROVE  id = client'[e].sid /\ idle <= Allowance(e)'
      <4>1. Allowance(e)' = Latency
        BY <3>1, <3>3, <1>1, IntervalBound, DelayAssumption DEF Allowance
      <4> QED
        BY <3>1, <3>3, <4>1, <2>3, <1>1 DEF CInv, Kept
    <3> QED
      BY <3>1, <3>2, <3>3, <1>1 DEF Alive
  <2> QED
    BY <2>2, <2>3
<1> QED
  BY <1>6, <1>7, <1>8, <1>10, <1>11, <1>12, <1>13 DEF CInv

\* A client that asks: it goes on as d, and the slot r, which was free or held the
\* answer it awaited, as the request q.
Asks(c, r, d, q) ==
    /\ client' = [client EXCEPT ![c] = d] /\ d.rpc = r
    /\ rpc' = [rpc EXCEPT ![r] = q] /\ q.by = c
    /\ \/ rpc[r] = Free /\ client[c].rpc = NoRpc
       \/ client[c].rpc = r /\ rpc[r].st = "answered"
    /\ UNCHANGED <<mgrVars, call, issued, finished, restarts>>

\* It asks for the operation it was at, or for the next one.
SameOp(c, d) == d.n = client[c].n /\ d.ran = client[c].ran /\ d.res = client[c].res
NewOp(c, d) == d.n = client[c].n + 1 /\ d.ran = 0 /\ d.res = "none"

\* The id it goes on with is the one it had, or the one it was just granted.
KeepsId(c, d) ==
    \/ /\ client[c].pc \in {"ready", "call"}
       /\ d.sid = client[c].sid
       /\ d.due = client[c].due /\ d.lost = client[c].lost
    \/ /\ Answered(c, "start", "granted")
       /\ d.sid = rpc[client[c].rpc].sid
       /\ d.due = 0 /\ d.lost = 0

\* What every request of a client leaves alone.
LEMMA AskFacts ==
  ASSUME CInv, NEW c \in Clients, NEW r \in Rpcs, NEW d \in Process, NEW q \in Message,
         Asks(c, r, d, q)
  PROVE  /\ \A e \in Clients : client'[e] = IF e = c THEN d ELSE client[e]
         /\ \A s \in Rpcs : rpc'[s] = IF s = r THEN q ELSE rpc[s]
         /\ \A e \in Clients : e # c /\ client[e].rpc # NoRpc =>
              client[e].rpc \in Rpcs /\ client[e].rpc # r
         /\ client'[c] = d /\ rpc'[r] = q /\ d.rpc = r /\ q.by = c
         /\ call[r].pc # "running"
         /\ UNCHANGED <<id, idle, call, issued, finished, restarts>>
         /\ Typed'
<1>1. /\ \A e \in Clients : client'[e] = IF e = c THEN d ELSE client[e]
      /\ \A s \in Rpcs : rpc'[s] = IF s = r THEN q ELSE rpc[s]
  BY DEF Asks, CInv, Typed
<1>2. \A e \in Clients : e # c /\ client[e].rpc # NoRpc =>
        client[e].rpc \in Rpcs /\ client[e].rpc # r
  <2>1. \A e \in Clients : client[e].rpc # NoRpc =>
          client[e].rpc \in Rpcs /\ rpc[client[e].rpc].st # "free"
    BY AwaitedByOne DEF CInv
  <2>2. \A e \in Clients : client[e].rpc = client[c].rpc /\ client[c].rpc # NoRpc => e = c
    BY AwaitedByOne DEF CInv
  <2>3. r # NoRpc /\ Free.st = "free"
    BY RpcsAssumption DEF Free
  <2> QED
    BY <2>1, <2>2, <2>3 DEF Asks
<1>3. UNCHANGED <<id, idle, call, issued, finished, restarts>>
  BY DEF Asks, mgrVars
<1>4. Typed'
  BY <1>3 DEF Asks, CInv, Typed
<1>5. call[r].pc # "running" /\ d.rpc = r /\ q.by = c
  BY DEF Asks, CInv, Slots, Free
<1> QED
  BY <1>1, <1>2, <1>3, <1>4, <1>5

\* A client asks: the slot it takes is consistent.
LEMMA AskKeepsSlots ==
  ASSUME CInv, NEW c \in Clients, NEW r \in Rpcs, NEW d \in Process, NEW q \in Message,
         Asks(c, r, d, q),
         q.st # "free", q.res = "none", q.sid \in issued \cup {NoId},
         \A s \in Rpcs \ {r} : acquire'[s] = acquire[s],
         acquire'[r].pc # "idle" => q.st = "serving" /\ q.kind = "start"
  PROVE  Slots'
BY AskFacts DEF CInv, Slots

\* A client asks: what it awaits is what it asked.
LEMMA AskKeepsWaiting ==
  ASSUME CInv, NEW c \in Clients, NEW r \in Rpcs, NEW d \in Process, NEW q \in Message,
         Asks(c, r, d, q), q.st # "free",
         \/ d.pc \in {"lock", "start"} /\ q.kind = "start" /\ d.sid = NoId
         \/ d.pc = "release" /\ q.kind = "finish" /\ d.sid = NoId
         \/ d.pc = "call" /\ q.kind = "call" /\ q.n = d.n /\ q.sid = d.sid
  PROVE  Waiting'
<1>1. ASSUME NEW e \in Clients, e # c
      PROVE  /\ client'[e].pc \in {"begin", "ready", "gone"} => client'[e].rpc = NoRpc
             /\ client'[e].pc \in {"lock", "start"} => WaitingFor(e, "start")'
             /\ client'[e].pc = "release" => WaitingFor(e, "finish")'
             /\ client'[e].pc = "call" =>
                  /\ WaitingFor(e, "call")'
                  /\ rpc'[client'[e].rpc].n = client'[e].n
                  /\ rpc'[client'[e].rpc].st \in {"sent", "serving"} =>
                       rpc'[client'[e].rpc].sid = client'[e].sid
             /\ client'[e].pc \in {"begin", "lock", "start", "release", "gone"} =>
                  client'[e].sid = NoId
  BY <1>1, AskFacts, RpcsAssumption DEF CInv, Waiting, WaitingFor
<1>2. client'[c] = d /\ rpc'[r] = q /\ d.rpc = r /\ q.by = c
  BY AskFacts
<1>3. /\ client'[c].pc \notin {"begin", "ready", "gone"}
      /\ client'[c].pc \in {"lock", "start"} => WaitingFor(c, "start")'
      /\ client'[c].pc = "release" => WaitingFor(c, "finish")'
      /\ client'[c].pc = "call" =>
           /\ WaitingFor(c, "call")'
           /\ rpc'[client'[c].rpc].n = client'[c].n
           /\ rpc'[client'[c].rpc].sid = client'[c].sid
      /\ client'[c].pc # "call" => client'[c].sid = NoId
  BY <1>2 DEF WaitingFor
<1> QED
  BY <1>1, <1>3 DEF Waiting

\* A client asks: it hands out no id that another holds.
LEMMA AskKeepsTokens ==
  ASSUME CInv, NEW c \in Clients, NEW r \in Rpcs, NEW d \in Process, NEW q \in Message,
         Asks(c, r, d, q), q.st # "answered",
         d.sid = NoId \/ KeepsId(c, d),
         q.st = "sent" /\ q.kind = "finish" => q.sid = client[c].sid /\ d.sid = NoId
  PROVE  Tokens'
<1>1. ASSUME NEW e \in Clients, NEW i \in Ids, Holds(e, i)' PROVE Holds(e, i) /\ (e = c => d.sid = i)
  <2>1. CASE e = c
    BY <1>1, <2>1, AskFacts DEF Holds, Answered, KeepsId
  <2>2. CASE e # c
    BY <1>1, <2>2, AskFacts DEF Holds, Answered
  <2> QED
    BY <2>1, <2>2
<1>2. ASSUME NEW e \in Clients, NEW i \in Ids, Holds(e, i)'
      PROVE  Serving(r, "finish")' => rpc'[r].sid # i
  <2> SUFFICES ASSUME q.st = "sent", q.kind = "finish", q.sid = i PROVE FALSE
    BY AskFacts DEF Serving
  <2>1. client[c].sid = i /\ d.sid = NoId
    OBVIOUS
  <2>2. Holds(c, i)
    BY <2>1, NoIdAssumption DEF Holds
  <2>3. e = c
    BY <1>1, <1>2, <2>2 DEF CInv, Tokens
  <2> QED
    BY <1>1, <1>2, <2>1, <2>3, NoIdAssumption
<1> QED
  BY <1>1, <1>2, AskFacts DEF CInv, Tokens, Serving

\* A client asks: no command is at work before it has its answer.
LEMMA AskKeepsKept ==
  ASSUME CInv, NEW c \in Clients, NEW r \in Rpcs, NEW d \in Process, NEW q \in Message,
         Asks(c, r, d, q), q.st # "answered", d.pc # "ready",
         d.sid = NoId \/ KeepsId(c, d)
  PROVE  Kept'
<1> SUFFICES ASSUME restarts = 0, NEW e \in Clis
             PROVE  /\ Alive(e)' => id = client'[e].sid /\ idle <= Allowance(e)'
                    /\ Answered(e, "start", "granted")' =>
                         id = rpc'[client'[e].rpc].sid /\ idle <= Latency
  BY AskFacts DEF Kept
<1>1. e \in Clients
  BY DEF Clients
<1>2. CASE e # c
  BY <1>1, <1>2, AskFacts DEF CInv, Kept, Alive, Allowance, Answered
<1>3. CASE e = c
  <2>1. client'[e] = d /\ ~Answered(e, "start", "granted")'
    BY <1>1, <1>3, AskFacts DEF Answered
  <2>2. ASSUME Alive(e)', client[c].pc \in {"ready", "call"}, d.sid = client[c].sid,
               d.due = client[c].due, d.lost = client[c].lost
        PROVE  id = client'[e].sid /\ idle <= Allowance(e)'
    BY <2>1, <2>2, <1>3 DEF CInv, Kept, Alive, Allowance
  <2>3. ASSUME Alive(e)', Answered(c, "start", "granted"),
               d.sid = rpc[client[c].rpc].sid, d.due = 0, d.lost = 0
        PROVE  id = client'[e].sid /\ idle <= Allowance(e)'
    <3>1. Allowance(e)' = Latency
      BY <2>1, <2>3, IntervalBound, DelayAssumption DEF Allowance
    <3> QED
      BY <2>1, <2>3, <3>1, <1>3 DEF CInv, Kept
  <2> QED
    BY <2>1, <2>2, <2>3 DEF Alive, KeepsId
<1> QED
  BY <1>2, <1>3

\* A client asks: at most one request can run its operation.
LEMMA AskKeepsOperations ==
  ASSUME CInv, NEW c \in Clients, NEW r \in Rpcs, NEW d \in Process, NEW q \in Message,
         Asks(c, r, d, q), q.st \in {"sent", "serving"},
         NewOp(c, d) \/ SameOp(c, d),
         client[c].pc # "gone", d.pc # "gone",
         q.kind = "call" =>
           q.st = "sent" /\ q.n = d.n /\ d.pc = "call" /\ (NewOp(c, d) \/ client[c].pc = "start"),
         d.pc = "start" =>
           q.kind = "start" /\ (NewOp(c, d) \/ Answered(c, "call", "refused"))
  PROVE  Operations'
<1>1. \A e \in Clients, s \in Rpcs : e # c /\ Carries(s, e)' => Carries(s, e) /\ rpc'[s] = rpc[s]
  BY AskFacts DEF Carries
<1>2. /\ client'[c] = d /\ rpc'[r] = q /\ q.by = c
      /\ \A s \in Rpcs : s # r => rpc'[s] = rpc[s]
      /\ \A e \in Clients : e # c => client'[e] = client[e]
      /\ client[c].n \in Nat /\ d.n \in Nat /\ d.ran \in Nat
  BY AskFacts DEF CInv, Typed, Process
<1>3. \A s \in Rpcs : rpc[s].st # "free" /\ rpc[s].kind = "call" /\ rpc[s].by = c =>
        rpc[s].n <= client[c].n /\ rpc[s].n # 0 /\ rpc[s].n \in Nat
  BY DEF CInv, Operations, Typed, Message
<1>4. \A s \in Rpcs : Carries(s, c)' => s = r \/ (SameOp(c, d) /\ Carries(s, c) /\ rpc'[s] = rpc[s])
  BY <1>2, <1>3 DEF Carries, NewOp, SameOp
<1>5. /\ d.ran <= 1
      /\ d.res = "ok" => d.ran = 1
  BY DEF NewOp, SameOp, CInv, Operations
<1>6. ASSUME q.kind = "call"
      PROVE  d.n # 0 /\ d.ran = 0 /\ \A s \in Rpcs : Carries(s, c)' => s = r
  <2>1. CASE NewOp(c, d)
    <3>1. ~SameOp(c, d)
      BY <1>2, <2>1 DEF NewOp, SameOp
    <3> QED
      BY <1>2, <1>4, <2>1, <3>1 DEF NewOp
  <2>2. CASE SameOp(c, d) /\ client[c].pc = "start"
    BY <1>4, <2>2 DEF SameOp, CInv, Operations
  <2> QED
    BY <1>6, <2>1, <2>2
<1>7. ASSUME d.pc = "start"
      PROVE  d.n # 0 /\ d.ran = 0 /\ \A s \in Rpcs : ~Carries(s, c)'
  <2>1. ~Carries(r, c)'
    BY <1>2, <1>7 DEF Carries
  <2>2. CASE NewOp(c, d)
    <3>1. ~SameOp(c, d)
      BY <1>2, <2>2 DEF NewOp, SameOp
    <3> QED
      BY <1>2, <1>4, <2>1, <2>2, <3>1 DEF NewOp
  <2>3. CASE SameOp(c, d) /\ Answered(c, "call", "refused")
    <3>1. client[c].rpc = r
      BY <2>3, RpcsAssumption DEF Asks, Answered
    <3>2. Carries(r, c)
      BY <2>3, <3>1, AwaitedByOne DEF CInv, Waiting, WaitingFor, Answered, Carries
    <3>3. client[c].ran = 0 /\ client[c].n # 0 /\ \A s \in Rpcs : Carries(s, c) => s = r
      BY <1>3, <2>3, <3>1, <3>2 DEF CInv, Operations, Answered, Carries
    <3> QED
      BY <1>4, <2>1, <2>3, <3>3 DEF SameOp
  <2> QED
    BY <1>7, <2>2, <2>3
<1>8. \A s \in Rpcs : rpc'[s].st # "free" /\ rpc'[s].kind = "call" =>
        /\ rpc'[s].n # 0
        /\ client'[rpc'[s].by].pc # "gone" => rpc'[s].n <= client'[rpc'[s].by].n
  <2> SUFFICES ASSUME NEW s \in Rpcs, rpc'[s].st # "free", rpc'[s].kind = "call"
               PROVE  /\ rpc'[s].n # 0
                      /\ client'[rpc'[s].by].pc # "gone" => rpc'[s].n <= client'[rpc'[s].by].n
    OBVIOUS
  <2>1. CASE s = r
    BY <1>2, <1>6, <2>1
  <2>2. CASE s # r /\ rpc[s].by = c
    BY <1>2, <1>3, <2>2 DEF NewOp, SameOp
  <2>3. CASE s # r /\ rpc[s].by # c
    BY <1>2, <2>3 DEF CInv, Slots, Operations
  <2> QED
    BY <2>1, <2>2, <2>3
<1>9. ASSUME NEW e \in Clients
      PROVE  /\ client'[e].ran <= 1
             /\ client'[e].res = "ok" => client'[e].ran = 1
             /\ client'[e].pc = "gone" => client'[e].n = 0
             /\ client'[e].pc = "start" =>
                  client'[e].ran = 0 /\ client'[e].n # 0 /\ \A s \in Rpcs : ~Carries(s, e)'
  <2>1. CASE e = c
    BY <1>2, <1>5, <1>7, <2>1
  <2>2. CASE e # c
    BY <1>1, <1>2, <2>2 DEF CInv, Operations
  <2> QED
    BY <2>1, <2>2
<1>10. ASSUME NEW e \in Clients, NEW s \in Rpcs, Carries(s, e)'
       PROVE  /\ \A p \in Rpcs : Carries(p, e)' => p = s
              /\ rpc'[s].st = "sent" => client'[e].ran = 0
              /\ rpc'[s].st = "serving" => client'[e].ran = 1
              /\ rpc'[s].st = "answered" =>
                   IF rpc'[s].res = "refused" THEN client'[e].ran = 0
                                              ELSE client'[e].ran = 1
  <2>1. CASE e # c
    BY <1>1, <1>2, <1>10, <2>1 DEF CInv, Operations
  <2>2. CASE e = c /\ q.kind = "call"
    <3>1. s = r /\ rpc'[s].st = "sent" /\ client'[e].ran = 0
      BY <1>2, <1>6, <1>10, <2>2
    <3> QED
      BY <1>6, <2>2, <3>1
  <2>3. CASE e = c /\ q.kind # "call"
    <3>1. \A p \in Rpcs : Carries(p, c)' => Carries(p, c) /\ rpc'[p] = rpc[p] /\ SameOp(c, d)
      BY <1>2, <1>4, <2>3 DEF Carries
    <3>2. Carries(s, c) /\ rpc'[s] = rpc[s] /\ client'[e].ran = client[c].ran
      BY <1>2, <1>10, <2>3, <3>1 DEF SameOp
    <3> QED
      BY <2>3, <3>1, <3>2 DEF CInv, Operations
  <2> QED
    BY <2>1, <2>2, <2>3
<1> QED
  BY <1>8, <1>9, <1>10 DEF Operations

\* A slot is free: the one that is taken.
LEMMA FreeSlot ==
  ASSUME SomeFree
  PROVE  AFree \in Rpcs /\ rpc[AFree] = Free
<1>1. PICK r \in Rpcs : rpc[r] = Free
  BY DEF SomeFree
<1> QED
  BY <1>1 DEF AFree

\* The slot a request may take.
CanUse(c, r) ==
    \/ rpc[r] = Free /\ client[c].rpc = NoRpc
    \/ client[c].rpc = r /\ rpc[r].st = "answered"

\* A client asks for the lock (Client.Acquire, ensureSession).
LEMMA SendStartKeeps ==
  ASSUME CInv, NEW c \in Clients, NEW r \in Rpcs, NEW cl \in Process,
         NEW pc \in {"lock", "start"}, NEW mode,
         SendStart(c, r, cl, pc, mode), UNCHANGED restarts,
         CanUse(c, r), cl.sid = NoId, client[c].pc # "gone",
         NewOp(c, cl) \/ SameOp(c, cl),
         pc = "start" => NewOp(c, cl) \/ Answered(c, "call", "refused")
  PROVE  CInv'
<1> DEFINE d == [cl EXCEPT !.pc = pc, !.rpc = r]
           q == [Free EXCEPT !.kind = "start", !.st = "serving", !.sid = NoId,
                             !.by = c, !.n = 0]
<1>1. /\ d \in Process /\ d.rpc = r /\ d.pc = pc /\ d.sid = NoId
      /\ d.n = cl.n /\ d.ran = cl.ran /\ d.res = cl.res
  BY DEF Process
<1>2. q \in Message /\ q.by = c /\ q.kind = "start" /\ q.res = "none" /\ q.st = "serving" /\ q.sid = NoId
  BY DEF Free, Message
<1>3. client' = [client EXCEPT ![c] = d] /\ rpc' = [rpc EXCEPT ![r] = q] /\ StartSession(r)
  BY DEF SendStart, Request
<1> HIDE DEF d, q
<1>4. IInv'
  BY <1>3, NextIInv DEF CInv, Next, Rpcs
<1>5. /\ \A s \in Rpcs \ {r} : acquire'[s] = acquire[s]
      /\ UNCHANGED <<mgrVars, call, issued, finished>>
  BY <1>3 DEF StartSession, CInv, IInv, TypeOK, Rpcs
<1>6. Asks(c, r, d, q)
  BY <1>1, <1>2, <1>3, <1>5 DEF Asks, CanUse
<1>7. Slots'
  <2>1. q.st # "free" /\ q.res = "none" /\ q.sid \in issued \cup {NoId}
    BY <1>2
  <2> QED
    BY <1>1, <1>2, <1>5, <1>6, <2>1, AskKeepsSlots
<1>8. Waiting'
  BY <1>1, <1>2, <1>6, AskKeepsWaiting
<1>9. Tokens'
  BY <1>1, <1>2, <1>6, AskKeepsTokens
<1>10. NewOp(c, d) \/ SameOp(c, d)
  BY <1>1 DEF NewOp, SameOp
<1>11. pc = "start" => NewOp(c, d) \/ Answered(c, "call", "refused")
  BY <1>1 DEF NewOp
<1>12. Operations'
  BY <1>1, <1>2, <1>6, <1>10, <1>11, AskKeepsOperations
<1>13. Kept'
  BY <1>1, <1>2, <1>6, AskKeepsKept
<1>14. Typed'
  BY <1>1, <1>2, <1>6, AskFacts
<1> QED
  BY <1>4, <1>7, <1>8, <1>9, <1>12, <1>13, <1>14 DEF CInv

\* A client sends its operation with the id it holds.
LEMMA SendCallKeeps ==
  ASSUME CInv, NEW c \in Clients, NEW r \in Rpcs, NEW cl \in Process,
         SendCall(c, r, cl), UNCHANGED restarts,
         CanUse(c, r), KeepsId(c, cl), cl.sid \in issued \cup {NoId}, client[c].pc # "gone",
         NewOp(c, cl) \/ (SameOp(c, cl) /\ client[c].pc = "start")
  PROVE  CInv'
<1> DEFINE d == [cl EXCEPT !.pc = "call", !.rpc = r]
           q == [Free EXCEPT !.kind = "call", !.st = "sent", !.sid = cl.sid,
                             !.by = c, !.n = cl.n]
<1>1. /\ d \in Process /\ d.rpc = r /\ d.pc = "call" /\ d.sid = cl.sid
      /\ d.n = cl.n /\ d.ran = cl.ran /\ d.res = cl.res
      /\ d.due = cl.due /\ d.lost = cl.lost
  BY DEF Process
<1>2. q \in Message /\ q.by = c /\ q.kind = "call" /\ q.res = "none" /\ q.st = "sent" /\ q.sid = cl.sid /\ q.n = cl.n
  BY DEF Free, Message, Process
<1>3. client' = [client EXCEPT ![c] = d] /\ rpc' = [rpc EXCEPT ![r] = q] /\ UNCHANGED lockVars
  BY DEF SendCall, Request
<1> HIDE DEF d, q
<1>4. IInv'
  BY <1>3, LockUnchanged DEF CInv
<1>5. UNCHANGED <<mgrVars, acquire, call, issued, finished>>
  BY <1>3 DEF lockVars
<1>6. Asks(c, r, d, q)
  BY <1>1, <1>2, <1>3, <1>5 DEF Asks, CanUse
<1>7. Slots'
  <2>1. acquire[r].pc = "idle"
    BY DEF CInv, Slots, CanUse, Free
  <2>2. q.st # "free" /\ q.res = "none" /\ q.sid \in issued \cup {NoId}
    BY <1>2
  <2>3. acquire' = acquire
    BY <1>5
  <2> QED
    BY <1>1, <1>2, <1>6, <2>1, <2>2, <2>3, AskKeepsSlots
<1>8. Waiting'
  BY <1>1, <1>2, <1>6, AskKeepsWaiting
<1>9. KeepsId(c, d)
  BY <1>1 DEF KeepsId
<1>10. Tokens'
  <2>1. q.st # "answered" /\ q.kind # "finish"
    BY <1>2
  <2> QED
    BY <1>1, <1>2, <1>6, <1>9, <2>1, AskKeepsTokens
<1>11. NewOp(c, d) \/ (SameOp(c, d) /\ client[c].pc = "start")
  BY <1>1 DEF NewOp, SameOp
<1>12. Operations'
  BY <1>1, <1>2, <1>6, <1>11, AskKeepsOperations
<1>13. Kept'
  BY <1>1, <1>2, <1>6, <1>9, AskKeepsKept
<1>14. Typed'
  BY <1>1, <1>2, <1>6, AskFacts
<1> QED
  BY <1>4, <1>7, <1>8, <1>10, <1>12, <1>13, <1>14 DEF CInv

\* A client gives its id back, and forgets it.
LEMMA SendFinishKeeps ==
  ASSUME CInv, NEW c \in Clients, NEW r \in Rpcs,
         SendFinish(c, r, client[c]), UNCHANGED restarts,
         CanUse(c, r), client[c].pc = "ready"
  PROVE  CInv'
<1> DEFINE d == [client[c] EXCEPT !.pc = "release", !.rpc = r, !.sid = NoId]
           q == [Free EXCEPT !.kind = "finish", !.st = "sent", !.sid = client[c].sid,
                             !.by = c, !.n = 0]
<1>1. /\ d \in Process /\ d.rpc = r /\ d.pc = "release" /\ d.sid = NoId
      /\ d.n = client[c].n /\ d.ran = client[c].ran /\ d.res = client[c].res
  BY DEF Process, CInv, Typed
<1>2. /\ q \in Message /\ q.by = c /\ q.kind = "finish" /\ q.res = "none" /\ q.st = "sent"
      /\ q.sid = client[c].sid
  BY DEF Free, Message, Process, CInv, Typed
<1>3. client' = [client EXCEPT ![c] = d] /\ rpc' = [rpc EXCEPT ![r] = q] /\ UNCHANGED lockVars
  BY DEF SendFinish, Request
<1> HIDE DEF d, q
<1>4. IInv'
  BY <1>3, LockUnchanged DEF CInv
<1>5. UNCHANGED <<mgrVars, acquire, call, issued, finished>>
  BY <1>3 DEF lockVars
<1>6. Asks(c, r, d, q)
  BY <1>1, <1>2, <1>3, <1>5 DEF Asks, CanUse
<1>7. Slots'
  <2>1. acquire[r].pc = "idle"
    BY DEF CInv, Slots, CanUse, Free
  <2>2. client[c].sid \in issued \cup {NoId}
    <3>1. client[c].sid \in Ids \cup {NoId}
      BY DEF CInv, Typed, Process
    <3> QED
      BY <3>1 DEF CInv, Tokens, Holds
  <2>3. q.st # "free" /\ q.res = "none" /\ q.sid \in issued \cup {NoId}
    BY <1>2, <2>2
  <2>4. acquire' = acquire
    BY <1>5
  <2> QED
    BY <1>1, <1>2, <1>6, <2>1, <2>3, <2>4, AskKeepsSlots
<1>8. Waiting'
  BY <1>1, <1>2, <1>6, AskKeepsWaiting
<1>9. Tokens'
  BY <1>1, <1>2, <1>6, AskKeepsTokens
<1>10. SameOp(c, d)
  BY <1>1 DEF SameOp
<1>11. Operations'
  BY <1>1, <1>2, <1>6, <1>10, AskKeepsOperations
<1>12. Kept'
  BY <1>1, <1>2, <1>6, AskKeepsKept
<1>13. Typed'
  BY <1>1, <1>2, <1>6, AskFacts
<1> QED
  BY <1>4, <1>7, <1>8, <1>9, <1>11, <1>12, <1>13 DEF CInv

-----------------------------------------------------------------------------
(* The steps of the clients keep the invariant.                            *)

\* A command line begins, with the lock or without.
LEMMA BeginKeeps ==
  ASSUME CInv, NEW c \in Clients, Begin(c)
  PROVE  CInv'
<1>1. client[c] \in Process /\ client[c].pc = "begin"
  BY DEF CInv, Typed, Begin
<1>2. CanUse(c, AFree) /\ client[c].sid = NoId /\ AFree \in Rpcs
  BY FreeSlot DEF Begin, CInv, Waiting, CanUse
<1>3. SameOp(c, client[c])
  BY DEF SameOp
<1> QED
  BY <1>1, <1>2, <1>3, SendStartKeeps DEF Begin

\* The next operation of a bridge is a new one, under the id it has.
LEMMA NextOpFacts ==
  ASSUME Typed, NEW c \in Clients
  PROVE  /\ NextOp(c) \in Process
         /\ NewOp(c, NextOp(c))
         /\ NextOp(c).sid = client[c].sid
         /\ NextOp(c).due = client[c].due /\ NextOp(c).lost = client[c].lost
<1>1. client[c] \in Process /\ client[c].n \in Nat
  BY DEF Typed, Process
<1>2. NextOp(c) = [client[c] EXCEPT !.n = client[c].n + 1, !.ran = 0, !.res = "none"]
  BY <1>1 DEF NextOp
<1>3. PICK p \in Process : p = client[c]
  BY <1>1
<1>4. PICK k \in Nat : k = client[c].n + 1
  BY <1>1
<1>5. NextOp(c) = [p EXCEPT !.n = k, !.ran = 0, !.res = "none"]
  BY <1>2, <1>3, <1>4
<1>6. 0 \in Nat /\ "none" \in {"none", "ok", "failed"}
  OBVIOUS
<1>7. NextOp(c) \in Process
  BY <1>5, <1>6 DEF Process
<1>8. /\ NextOp(c).n = k /\ NextOp(c).ran = 0 /\ NextOp(c).res = "none"
      /\ NextOp(c).sid = p.sid /\ NextOp(c).due = p.due /\ NextOp(c).lost = p.lost
  BY <1>5 DEF Process
<1> QED
  BY <1>3, <1>4, <1>7, <1>8 DEF NewOp

\* The id a client has was handed out.
LEMMA HeldIsIssued ==
  ASSUME CInv, NEW c \in Clients
  PROVE  client[c].sid \in issued \cup {NoId}
<1>1. client[c].sid \in Ids \cup {NoId}
  BY DEF CInv, Typed, Process
<1> QED
  BY <1>1 DEF CInv, Tokens, Holds

\* A bridge begins an operation.
LEMMA InvokeKeeps ==
  ASSUME CInv, NEW c \in Clients, Invoke(c)
  PROVE  CInv'
<1> DEFINE cl == NextOp(c)
<1>1. /\ cl \in Process /\ NewOp(c, cl) /\ cl.sid = client[c].sid
      /\ cl.due = client[c].due /\ cl.lost = client[c].lost
  BY NextOpFacts DEF CInv
<1>2. /\ client[c].pc = "ready" /\ UNCHANGED restarts /\ SomeFree
      /\ \/ cl.sid = NoId /\ SendStart(c, AFree, cl, "start", "bounded")
         \/ SendCall(c, AFree, cl)
  BY DEF Invoke
<1> HIDE DEF cl
<1>3. CanUse(c, AFree) /\ AFree \in Rpcs
  BY <1>2, FreeSlot DEF CInv, Waiting, CanUse
<1>4. KeepsId(c, cl)
  BY <1>1, <1>2 DEF KeepsId
<1>5. cl.sid \in issued \cup {NoId}
  BY <1>1, HeldIsIssued
<1>6. CASE cl.sid = NoId /\ SendStart(c, AFree, cl, "start", "bounded")
  BY <1>1, <1>2, <1>3, <1>6, SendStartKeeps
<1>7. CASE SendCall(c, AFree, cl)
  BY <1>1, <1>2, <1>3, <1>4, <1>5, <1>7, SendCallKeeps
<1> QED
  BY <1>2, <1>6, <1>7

\* A command line asks for the lock.
LEMMA AcquireLockKeeps ==
  ASSUME CInv, NEW c \in Clients, AcquireLock(c)
  PROVE  CInv'
<1>1. /\ NextOp(c) \in Process /\ NewOp(c, NextOp(c)) /\ NextOp(c).sid = NoId
  BY NextOpFacts DEF CInv, AcquireLock
<1>2. CanUse(c, AFree) /\ AFree \in Rpcs
  BY FreeSlot DEF AcquireLock, CInv, Waiting, CanUse
<1> QED
  BY <1>1, <1>2, SendStartKeeps DEF AcquireLock

\* A client that is done releases.
LEMMA ReleaseKeeps ==
  ASSUME CInv, NEW c \in Clients, Release(c)
  PROVE  CInv'
<1>1. CanUse(c, AFree) /\ AFree \in Rpcs
  BY FreeSlot DEF Release, CInv, Waiting, CanUse
<1> QED
  BY <1>1, SendFinishKeeps DEF Release

\* What an answer tells of the client that reads it.
LEMMA AnsweredFacts ==
  ASSUME CInv, NEW c \in Clients, NEW kind \in {"start", "call", "finish"}, NEW res,
         Answered(c, kind, res)
  PROVE  /\ client[c].rpc \in Rpcs /\ client[c].rpc # NoRpc
         /\ CanUse(c, client[c].rpc)
         /\ kind = "start" => client[c].pc \in {"lock", "start"} /\ client[c].sid = NoId
         /\ kind = "call" => client[c].pc = "call" /\ Carries(client[c].rpc, c)
         /\ kind = "finish" => client[c].pc = "release" /\ client[c].sid = NoId
<1>1. client[c].rpc # NoRpc
  BY DEF Answered
<1>2. /\ client[c].pc \in {"lock", "start", "call", "release"}
      /\ client[c].rpc \in Rpcs
  BY <1>1, AwaitedByOne DEF CInv
<1>3. CanUse(c, client[c].rpc)
  BY DEF Answered, CanUse
<1>4. /\ client[c].pc \in {"lock", "start"} =>
           rpc[client[c].rpc].kind = "start" /\ client[c].sid = NoId
      /\ client[c].pc = "release" =>
           rpc[client[c].rpc].kind = "finish" /\ client[c].sid = NoId
      /\ client[c].pc = "call" =>
           rpc[client[c].rpc].kind = "call" /\ Carries(client[c].rpc, c)
  BY DEF CInv, Waiting, WaitingFor, Carries
<1> QED
  BY <1>1, <1>2, <1>3, <1>4 DEF Answered

\* A client that was told how its operation went is ready for the next.
LEMMA ToldFacts ==
  ASSUME NEW cl \in Process, NEW res \in {"none", "ok", "failed"}
  PROVE  /\ Told(cl, res) \in Process
         /\ Told(cl, res).pc = "ready" /\ Told(cl, res).res = res
         /\ Told(cl, res).n = cl.n /\ Told(cl, res).ran = cl.ran /\ Told(cl, res).sid = cl.sid
         /\ Told(cl, res).due = cl.due /\ Told(cl, res).lost = cl.lost
BY DEF Told, Process

\* The keepalive of a new session is on time.
LEMMA ZeroTyped == 0 \in 0..(Interval + Latency) /\ 0 \in 0..MaxLost
BY IntervalBound, DelayAssumption

\* A client that is gone holds no id.
LEMMA GoneFacts ==
  ASSUME NEW c
  PROVE  Gone(c) \in Process /\ Gone(c).sid = NoId
<1>1. 0 \in 0..(Interval + Latency) /\ 0 \in 0..MaxLost
  BY ZeroTyped
<1>2. NewClient(c) \in Process
  BY <1>1 DEF NewClient, Process
<1>3. NewClient(c).sid = NoId
  BY DEF NewClient
<1> QED
  BY <1>2, <1>3 DEF Gone, Process

\* A granted id is new, and passes to the client that asked.
LEMMA GrantedKeeps ==
  ASSUME CInv, NEW c \in Clients, Granted(c)
  PROVE  CInv'
<1> DEFINE r == client[c].rpc
           cl == [client[c] EXCEPT !.sid = rpc[r].sid, !.due = 0, !.lost = 0]
<1>1. /\ Answered(c, "start", "granted") /\ UNCHANGED restarts
      /\ \/ cl.pc = "start" /\ SendCall(c, r, cl)
         \/ Detach(c, Told(cl, "none"))
  BY DEF Granted
<1>2. r \in Rpcs /\ r # NoRpc /\ CanUse(c, r) /\ client[c].pc \in {"lock", "start"}
  BY <1>1, AnsweredFacts
<1>3. rpc[r].sid \in issued \cup {NoId} /\ rpc[r].sid \in Ids \cup {NoId}
  BY <1>2 DEF CInv, Slots, Typed, Message
<1>4. /\ cl \in Process /\ cl.pc = client[c].pc /\ cl.sid = rpc[r].sid
      /\ cl.n = client[c].n /\ cl.ran = client[c].ran /\ cl.res = client[c].res
      /\ cl.due = 0 /\ cl.lost = 0
  BY <1>3, ZeroTyped DEF CInv, Typed, Process
<1> HIDE DEF cl
<1>5. KeepsId(c, cl)
  BY <1>1, <1>4 DEF KeepsId
<1>6. CASE cl.pc = "start" /\ SendCall(c, r, cl)
  <2>1. SameOp(c, cl)
    BY <1>4 DEF SameOp
  <2> QED
    BY <1>1, <1>2, <1>3, <1>4, <1>5, <1>6, <2>1, SendCallKeeps
<1>7. CASE Detach(c, Told(cl, "none"))
  <2>1. Told(cl, "none") \in Process
    BY <1>4, ToldFacts
  <2> QED
    BY <1>1, <1>2, <1>4, <1>7, <2>1, ToldFacts, DetachKeeps
<1> QED
  BY <1>1, <1>6, <1>7

\* A wait that ends without an id: the process goes on, or is over.
LEMMA LetGoKeeps ==
  ASSUME CInv, NEW c \in Clients, NEW res \in {"none", "ok", "failed"}, client[c].rpc # NoRpc,
         Detach(c, Told(client[c], res)) \/ Detach(c, Gone(c)), UNCHANGED restarts,
         res = "ok" => client[c].ran = 1
  PROVE  CInv'
<1>1. client[c] \in Process
  BY DEF CInv, Typed
<1>2. CASE Detach(c, Gone(c))
  BY <1>2, GoneFacts, DetachKeeps
<1>3. CASE Detach(c, Told(client[c], res))
  <2>1. client[c].pc # "call" => client[c].sid = NoId
    BY AwaitedByOne DEF CInv, Waiting
  <2>2. Told(client[c], res) \in Process
    BY <1>1, ToldFacts
  <2> QED
    BY <1>1, <1>3, <2>1, <2>2, ToldFacts, DetachKeeps
<1> QED
  BY <1>2, <1>3

\* Without the lock a command waits, and a tool call fails.
LEMMA DeniedKeeps ==
  ASSUME CInv, NEW c \in Clients, Denied(c)
  PROVE  CInv'
<1> DEFINE r == client[c].rpc
           cl == [client[c] EXCEPT !.retried = TRUE]
<1>1. /\ Answered(c, "start", "busy") /\ UNCHANGED restarts
      /\ \/ SendStart(c, r, cl, "lock", "bounded")
         \/ Detach(c, Gone(c))
         \/ Detach(c, Told(client[c], "failed"))
  BY DEF Denied
<1>2. r \in Rpcs /\ r # NoRpc /\ CanUse(c, r) /\ client[c].pc \in {"lock", "start"}
      /\ client[c].sid = NoId
  BY <1>1, AnsweredFacts
<1>3. cl \in Process /\ cl.sid = NoId /\ SameOp(c, cl)
  BY <1>2 DEF CInv, Typed, Process, SameOp
<1> HIDE DEF cl
<1>4. CASE SendStart(c, r, cl, "lock", "bounded")
  BY <1>1, <1>2, <1>3, <1>4, SendStartKeeps
<1>5. CASE Detach(c, Gone(c)) \/ Detach(c, Told(client[c], "failed"))
  BY <1>1, <1>2, <1>5, LetGoKeeps
<1> QED
  BY <1>1, <1>4, <1>5

\* An operation comes back, done or failed.
LEMMA EndedKeeps ==
  ASSUME CInv, NEW c \in Clients, Ended(c)
  PROVE  CInv'
<1>1. PICK res \in {"ok", "failed"} : Answered(c, "call", res) /\ Detach(c, Told(client[c], res))
  BY DEF Ended
<1>2. client[c].rpc \in Rpcs /\ client[c].rpc # NoRpc /\ Carries(client[c].rpc, c)
  BY <1>1, AnsweredFacts
<1>3. client[c].ran = 1
  BY <1>1, <1>2 DEF CInv, Operations, Answered
<1>4. UNCHANGED restarts
  BY DEF Ended
<1> QED
  BY <1>1, <1>2, <1>3, <1>4, LetGoKeeps

\* A refused operation has not run, and is tried once more.
LEMMA RefusedKeeps ==
  ASSUME CInv, NEW c \in Clients, Refused(c)
  PROVE  CInv'
<1> DEFINE r == client[c].rpc
           cl == [client[c] EXCEPT !.sid = NoId, !.retried = TRUE]
<1>1. /\ Answered(c, "call", "refused") /\ UNCHANGED restarts
      /\ \/ SendStart(c, r, cl, "start", "bounded")
         \/ Detach(c, Told(client[c], "failed"))
  BY DEF Refused
<1>2. r \in Rpcs /\ r # NoRpc /\ CanUse(c, r) /\ client[c].pc = "call"
  BY <1>1, AnsweredFacts
<1>3. cl \in Process /\ cl.sid = NoId /\ SameOp(c, cl)
  BY DEF CInv, Typed, Process, SameOp
<1> HIDE DEF cl
<1>4. CASE SendStart(c, r, cl, "start", "bounded")
  BY <1>1, <1>2, <1>3, <1>4, SendStartKeeps
<1>5. CASE Detach(c, Told(client[c], "failed"))
  BY <1>1, <1>2, <1>5, LetGoKeeps
<1> QED
  BY <1>1, <1>4, <1>5

\* The answer to a release comes back.
LEMMA ReleasedKeeps ==
  ASSUME CInv, NEW c \in Clients, Released(c)
  PROVE  CInv'
<1>1. client[c].rpc # NoRpc
  BY DEF Released, Answered
<1> QED
  BY <1>1, LetGoKeeps DEF Released

\* A client gives up on a broken call: it does not repeat it.
LEMMA GiveUpKeeps ==
  ASSUME CInv, NEW c \in Clients, GiveUp(c)
  PROVE  CInv'
BY LetGoKeeps DEF GiveUp

\* A client dies with its requests on their way.
LEMMA DieKeeps ==
  ASSUME CInv, NEW c \in Clients, Die(c)
  PROVE  CInv'
BY GoneFacts, DetachKeeps DEF Die

-----------------------------------------------------------------------------
(* The keepalive, the clock and the reaper.                                *)

\* Steps that change no more of the clients than the pace of their keepalives.
LEMMA PaceKeeps ==
  ASSUME CInv,
         \A e \in Clients :
           /\ client'[e].pc = client[e].pc /\ client'[e].sid = client[e].sid
           /\ client'[e].rpc = client[e].rpc /\ client'[e].n = client[e].n
           /\ client'[e].ran = client[e].ran /\ client'[e].res = client[e].res,
         \A r \in Rpcs : acquire'[r].pc # "idle" => acquire[r].pc # "idle",
         UNCHANGED <<rpc, call, issued, finished>>
  PROVE  Slots' /\ Waiting' /\ Tokens' /\ Operations'
<1>1. Slots'
  BY DEF CInv, Slots
<1>2. Waiting'
  BY DEF CInv, Waiting, WaitingFor
<1>3. \A e \in Clients, i \in Ids : Holds(e, i)' => Holds(e, i)
  BY DEF Holds, Answered
<1>4. Tokens'
  BY <1>3, TokensPass DEF CInv, Serving
<1>5. \A e \in Clients, r \in Rpcs : Carries(r, e)' <=> Carries(r, e)
  BY DEF Carries
<1>6. Operations'
  <2>1. \A r \in Rpcs : rpc'[r].st # "free" /\ rpc'[r].kind = "call" =>
          /\ rpc'[r].n # 0
          /\ client'[rpc'[r].by].pc # "gone" => rpc'[r].n <= client'[rpc'[r].by].n
    BY DEF CInv, Operations, Slots
  <2>2. \A e \in Clients :
         /\ client'[e].ran <= 1
         /\ client'[e].res = "ok" => client'[e].ran = 1
         /\ client'[e].pc = "gone" => client'[e].n = 0
         /\ client'[e].pc = "start" =>
              client'[e].ran = 0 /\ client'[e].n # 0 /\ \A r \in Rpcs : ~Carries(r, e)'
    BY <1>5 DEF CInv, Operations
  <2>3. ASSUME NEW e \in Clients, NEW r \in Rpcs, Carries(r, e)'
        PROVE  /\ \A q \in Rpcs : Carries(q, e)' => q = r
               /\ rpc'[r].st = "sent" => client'[e].ran = 0
               /\ rpc'[r].st = "serving" => client'[e].ran = 1
               /\ rpc'[r].st = "answered" =>
                    IF rpc'[r].res = "refused" THEN client'[e].ran = 0
                                               ELSE client'[e].ran = 1
    BY <1>5, <2>3 DEF CInv, Operations
  <2> QED
    BY <2>1, <2>2, <2>3 DEF Operations
<1> QED
  BY <1>1, <1>2, <1>4, <1>6

\* While a command's keepalive runs, or its grant is on the way, the lock is held
\* under its id and is not about to lapse.
LEMMA GuardedLock ==
  ASSUME CInv, restarts = 0, NEW c \in Clis, Alive(c) \/ Answered(c, "start", "granted")
  PROVE  /\ id \in Ids /\ id # NoId
         /\ idle \in Nat /\ idle <= TTL
         /\ ~Lapsed
         /\ c \in Clients /\ Holds(c, id)
<1>1. c \in Clients /\ client[c] \in Process
  BY DEF CInv, Typed, Clients
<1>2. id \in Ids \cup {NoId} /\ idle \in Nat /\ TTL \in Nat
  BY TTLAssumption DEF CInv, IInv, TypeOK
<1>3. id # NoId /\ Holds(c, id)
  <2>1. CASE Alive(c)
    BY <2>1 DEF CInv, Kept, Alive, Holds
  <2>2. CASE Answered(c, "start", "granted")
    <3>1. rpc[client[c].rpc].sid # NoId
      BY <1>1, <2>2, AnsweredFacts DEF CInv, Slots, Answered
    <3> QED
      BY <2>2, <3>1 DEF CInv, Kept, Holds
  <2> QED
    BY <2>1, <2>2
<1>4. idle <= TTL
  <2>1. CASE Alive(c)
    <3>1. idle <= Allowance(c)
      BY <2>1 DEF CInv, Kept
    <3>2. PICK a \in 0..(Interval + Latency), b \in 0..MaxLost :
            a = client[c].due /\ b = client[c].lost
      BY <1>1 DEF Process
    <3>3. PICK k \in Nat, m \in Nat, l \in Nat :
            /\ k = Interval /\ m = MaxLost /\ l = Latency
            /\ (m + 1) * k + 2 * l <= TTL
      BY IntervalBound, DelayAssumption
    <3>4. b * k <= m * k /\ (m + 1) * k = m * k + k /\ b * k \in Nat /\ m * k \in Nat
      BY <3>2, <3>3
    <3>5. idle <= a + b * k + l
      BY <3>1, <3>2, <3>3 DEF Allowance
    <3> QED
      BY <1>2, <3>2, <3>3, <3>4, <3>5
  <2>2. CASE Answered(c, "start", "granted")
    <3>1. idle <= Latency
      BY <2>2 DEF CInv, Kept
    <3>2. PICK k \in Nat, m \in Nat, l \in Nat :
            /\ k = Interval /\ m = MaxLost /\ l = Latency
            /\ (m + 1) * k + 2 * l <= TTL
      BY IntervalBound, DelayAssumption
    <3>3. (m + 1) * k \in Nat
      BY <3>2
    <3> QED
      BY <1>2, <3>1, <3>2, <3>3
  <2> QED
    BY <2>1, <2>2
<1> QED
  BY <1>1, <1>2, <1>3, <1>4 DEF Lapsed

\* Kept survives a step that makes nobody a holder and spares the lock that is not
\* about to lapse.
LEMMA KeptPass ==
  ASSUME CInv, UNCHANGED restarts,
         \A c \in Clis : Alive(c)' =>
           /\ Alive(c) /\ client'[c].sid = client[c].sid
           /\ client'[c].due = client[c].due /\ client'[c].lost = client[c].lost,
         \A c \in Clis : Answered(c, "start", "granted")' =>
           /\ Answered(c, "start", "granted")
           /\ rpc'[client'[c].rpc].sid = rpc[client[c].rpc].sid,
         \A c \in Clients : id # NoId /\ ~Lapsed /\ Holds(c, id) => id' = id /\ idle' <= idle,
         idle' \in Nat
  PROVE  Kept'
<1> SUFFICES ASSUME restarts = 0, NEW c \in Clis
             PROVE  /\ Alive(c)' => id' = client'[c].sid /\ idle' <= Allowance(c)'
                    /\ Answered(c, "start", "granted")' =>
                         id' = rpc'[client'[c].rpc].sid /\ idle' <= Latency
  BY DEF Kept
<1>1. ASSUME Alive(c) \/ Answered(c, "start", "granted")
      PROVE  id' = id /\ idle' <= idle /\ idle \in Nat
  BY <1>1, GuardedLock
<1>2. ASSUME Alive(c)'
      PROVE  id' = client'[c].sid /\ idle' <= Allowance(c)'
  <2>1. Alive(c) /\ Allowance(c)' = Allowance(c) /\ client'[c].sid = client[c].sid
    BY <1>2 DEF Allowance
  <2>2. id = client[c].sid /\ idle <= Allowance(c)
    BY <2>1 DEF CInv, Kept
  <2>3. Allowance(c) \in Nat
    <3>1. client[c] \in Process
      BY DEF CInv, Typed, Clients
    <3>2. PICK a \in Nat, b \in Nat : a = client[c].due /\ b = client[c].lost
      BY <3>1, IntervalBound, DelayAssumption DEF Process
    <3>3. PICK k \in Nat, l \in Nat : k = Interval /\ l = Latency
      BY IntervalBound, DelayAssumption
    <3>4. b * k \in Nat
      BY <3>2, <3>3
    <3> QED
      BY <3>2, <3>3, <3>4 DEF Allowance
  <2> QED
    BY <1>1, <2>1, <2>2, <2>3
<1>3. ASSUME Answered(c, "start", "granted")'
      PROVE  id' = rpc'[client'[c].rpc].sid /\ idle' <= Latency
  <2>1. id = rpc[client[c].rpc].sid /\ idle <= Latency
    BY <1>3 DEF CInv, Kept
  <2> QED
    BY <1>1, <1>3, <2>1, DelayAssumption
<1> QED
  BY <1>2, <1>3

\* The lock moves on its own: a handler of StartSession that waits, the reaper.
LEMMA SilentKeeps ==
  ASSUME CInv, [Next]_vars, UNCHANGED <<client, rpc, restarts, call, issued, finished>>,
         \A r \in Rpcs : acquire'[r].pc # "idle" => acquire[r].pc # "idle",
         id # NoId /\ ~Lapsed => id' = id /\ idle' <= idle
  PROVE  CInv'
<1>1. IInv' /\ idle' \in Nat
  <2>1. IInv'
    BY NextIInv DEF CInv
  <2> QED
    BY <2>1 DEF IInv, TypeOK
<1>2. Slots' /\ Waiting' /\ Tokens' /\ Operations'
  BY PaceKeeps
<1>3. Kept'
  <2>1. \A c \in Clis : Alive(c)' =>
           /\ Alive(c) /\ client'[c].sid = client[c].sid
           /\ client'[c].due = client[c].due /\ client'[c].lost = client[c].lost
    BY DEF Alive
  <2>2. \A c \in Clis : Answered(c, "start", "granted")' =>
           /\ Answered(c, "start", "granted")
           /\ rpc'[client'[c].rpc].sid = rpc[client[c].rpc].sid
    BY DEF Answered
  <2> QED
    BY <1>1, <2>1, <2>2, KeptPass
<1> QED
  BY <1>1, <1>2, <1>3 DEF CInv, Typed

\* The reaper takes the lock from a session that has lapsed.
LEMMA ReapKeeps ==
  ASSUME CInv, Reap, Stutter
  PROVE  CInv'
<1>1. UNCHANGED <<client, rpc, restarts, call, issued, finished, acquire>> /\ Lapsed
  BY DEF Reap, Stutter
<1>2. Next
  BY DEF Next
<1> QED
  BY <1>1, <1>2, SilentKeeps

\* A Ping refreshes the lock that is its holder's, or changes nothing but a lock
\* that has lapsed.
LEMMA RefreshSpares ==
  ASSUME NEW i, Refresh(i), idle \in Nat
  PROVE  /\ UNCHANGED <<acquire, call, issued, finished>>
         /\ id # NoId /\ ~Lapsed => id' = id /\ idle' <= idle
         /\ HolderIs(i) => id' = id /\ idle' = 0
BY DEF Refresh, ExpireIfIdle, mgrVars

\* The age a late keepalive makes up for.
LEMMA KeepaliveAllowance ==
  ASSUME NEW c \in Clients, client[c] \in Process, client[c].due >= Interval
  PROVE  /\ client[c].due - Interval \in 0..(Interval + Latency)
         /\ client'[c].due = client[c].due - Interval /\ client'[c].lost = client[c].lost + 1 =>
              Allowance(c)' = Allowance(c)
         /\ client'[c].due = client[c].due - Interval /\ client'[c].lost = 0 =>
              Allowance(c)' \in Nat
<1>1. PICK k \in Nat, l \in Nat : k = Interval /\ l = Latency
  BY IntervalBound, DelayAssumption
<1>2. PICK a \in 0..(k + l), b \in Nat : a = client[c].due /\ b = client[c].lost
  BY <1>1, DelayAssumption DEF Process
<1>3. a >= k /\ a - k \in 0..(k + l)
  BY <1>1, <1>2
<1>4. (a - k) + (b + 1) * k + l = a + b * k + l /\ (a - k) + 0 * k + l \in Nat
  <2>1. (b + 1) * k = b * k + k /\ 0 * k = 0
    BY <1>1, <1>2
  <2>2. b * k \in Nat
    BY <1>1, <1>2
  <2> QED
    BY <1>1, <1>2, <1>3, <2>1, <2>2
<1> QED
  BY <1>1, <1>2, <1>3, <1>4 DEF Allowance

\* The keepalive's ping refreshes the session, or is lost.
LEMMA KeepaliveKeeps ==
  ASSUME CInv, NEW c \in Clients, Keepalive(c)
  PROVE  CInv'
<1>1. /\ c \in Clis /\ client[c] \in Process /\ client[c].due >= Interval /\ Alive(c)
      /\ idle \in Nat /\ client[c].sid # NoId
  BY DEF Keepalive, Alive, CInv, Typed, IInv, TypeOK
<1>2. client[c].due - Interval \in 0..(Interval + Latency)
  BY <1>1, KeepaliveAllowance
<1>3. UNCHANGED <<rpc, restarts>>
  BY DEF Keepalive
\* Only the pace of c changes.
<1>4. ASSUME NEW l \in 0..MaxLost,
             client' = [client EXCEPT ![c].due = client[c].due - Interval, ![c].lost = l]
      PROVE  /\ client' \in [Clients -> Process]
             /\ client'[c].due = client[c].due - Interval /\ client'[c].lost = l
             /\ \A e \in Clients : e # c => client'[e] = client[e]
             /\ \A e \in Clients :
                  /\ client'[e].pc = client[e].pc /\ client'[e].sid = client[e].sid
                  /\ client'[e].rpc = client[e].rpc /\ client'[e].n = client[e].n
                  /\ client'[e].ran = client[e].ran /\ client'[e].res = client[e].res
  <2>1. client \in [Clients -> Process]
    BY DEF CInv, Typed
  <2>2. client'[c] = [client[c] EXCEPT !.due = client[c].due - Interval, !.lost = l]
    BY <1>4, <2>1
  <2>3. \A e \in Clients : e # c => client'[e] = client[e]
    BY <1>4, <2>1
  <2>4. /\ client'[c] \in Process
        /\ client'[c].due = client[c].due - Interval /\ client'[c].lost = l
        /\ client'[c].pc = client[c].pc /\ client'[c].sid = client[c].sid
        /\ client'[c].rpc = client[c].rpc /\ client'[c].n = client[c].n
        /\ client'[c].ran = client[c].ran /\ client'[c].res = client[c].res
    BY <1>1, <1>2, <2>2 DEF Process
  <2>5. client' \in [Clients -> Process]
    BY <1>4, <2>1, <2>3, <2>4
  <2> QED
    BY <2>3, <2>4, <2>5
<1>5. ASSUME NEW l \in 0..MaxLost,
             client' = [client EXCEPT ![c].due = client[c].due - Interval, ![c].lost = l],
             IInv', UNCHANGED <<acquire, call, issued, finished>>,
             id # NoId /\ ~Lapsed => id' = id /\ idle' <= idle,
             restarts = 0 => idle' <= Allowance(c)'
      PROVE  CInv'
  <2>1. Slots' /\ Waiting' /\ Tokens' /\ Operations'
    BY <1>3, <1>4, <1>5, PaceKeeps
  <2>2. Kept'
    <3> SUFFICES ASSUME restarts = 0, NEW e \in Clis
                 PROVE  /\ Alive(e)' => id' = client'[e].sid /\ idle' <= Allowance(e)'
                        /\ Answered(e, "start", "granted")' =>
                             id' = rpc'[client'[e].rpc].sid /\ idle' <= Latency
      BY <1>3 DEF Kept
    <3>1. e \in Clients
      BY DEF Clients
    <3>2. /\ Alive(e)' => Alive(e) /\ client'[e].sid = client[e].sid
          /\ Answered(e, "start", "granted")' =>
               /\ Answered(e, "start", "granted")
               /\ rpc'[client'[e].rpc].sid = rpc[client[e].rpc].sid
      BY <1>3, <1>4, <1>5, <3>1 DEF Alive, Answered
    <3>3. Alive(e) \/ Answered(e, "start", "granted") => id' = id /\ idle' <= idle
      BY <1>5, GuardedLock
    <3>4. idle' \in Nat
      BY <1>5 DEF IInv, TypeOK
    <3>5. ASSUME Alive(e)' PROVE id' = client'[e].sid /\ idle' <= Allowance(e)'
      <4>1. id' = client'[e].sid
        BY <3>2, <3>3, <3>5 DEF CInv, Kept
      <4>2. CASE e = c
        BY <1>5, <4>1, <4>2
      <4>3. CASE e # c
        \* Two commands do not both hold the lock.
        <5>1. Holds(e, id) /\ Holds(c, id) /\ id \in Ids
          BY <1>1, <3>2, <3>5, GuardedLock
        <5> QED
          BY <1>1, <3>1, <4>3, <5>1 DEF CInv, Tokens
      <4> QED
        BY <4>2, <4>3
    <3>6. ASSUME Answered(e, "start", "granted")'
          PROVE  id' = rpc'[client'[e].rpc].sid /\ idle' <= Latency
      <4>1. id = rpc[client[e].rpc].sid /\ idle <= Latency
        BY <3>2, <3>6 DEF CInv, Kept
      <4> QED
        BY <3>2, <3>3, <3>4, <3>6, <4>1, <1>1, DelayAssumption
    <3> QED
      BY <3>5, <3>6
  <2> QED
    BY <1>3, <1>4, <1>5, <2>1, <2>2 DEF CInv, Typed
<1>6. restarts = 0 => HolderIs(client[c].sid) /\ idle <= Allowance(c)
  BY <1>1, GuardedLock DEF HolderIs, CInv, Kept
<1>7. CASE /\ Refresh(client[c].sid)
           /\ client' = [client EXCEPT ![c].due = client[c].due - Interval, ![c].lost = 0]
  <2>1. client[c].sid \in issued \cup {NoId}
    BY HeldIsIssued
  <2>2. IInv'
    BY <1>7, <2>1, NextIInv DEF CInv, Next
  <2>3. 0 \in 0..MaxLost
    BY ZeroTyped
  <2>4. restarts = 0 => idle' <= Allowance(c)'
    <3>1. Allowance(c)' \in Nat
      BY <1>1, <1>4, <1>7, <2>3, KeepaliveAllowance
    <3> QED
      BY <1>1, <1>6, <1>7, <3>1, RefreshSpares
  <2> QED
    BY <1>1, <1>5, <1>7, <2>2, <2>3, <2>4, RefreshSpares
<1>8. CASE /\ client[c].lost < MaxLost
           /\ client' = [client EXCEPT ![c].due = client[c].due - Interval,
                                       ![c].lost = client[c].lost + 1]
           /\ UNCHANGED lockVars
  <2>1. client[c].lost + 1 \in 0..MaxLost
    BY <1>1, <1>8, DelayAssumption DEF Process
  <2>2. IInv' /\ UNCHANGED <<id, idle, acquire, call, issued, finished>>
    BY <1>8, LockUnchanged DEF CInv, lockVars, mgrVars
  <2>3. Allowance(c)' = Allowance(c)
    BY <1>1, <1>4, <1>8, <2>1, KeepaliveAllowance
  <2>4. restarts = 0 => idle' <= Allowance(c)'
    BY <1>6, <2>2, <2>3
  <2>5. id' = id /\ idle' <= idle
    BY <1>1, <2>2
  <2>6. PICK l \in 0..MaxLost : l = client[c].lost + 1
    BY <2>1
  <2>7. client' = [client EXCEPT ![c].due = client[c].due - Interval, ![c].lost = l]
    BY <1>8, <2>6
  <2> QED
    BY <1>5, <2>2, <2>4, <2>5, <2>7
<1> QED
  BY <1>7, <1>8 DEF Keepalive

\* A tick ages the lock and every keepalive together.
LEMMA ClockKeepsClients ==
  ASSUME CInv, ClockTick
  PROVE  CInv'
<1>1. /\ Tick
      /\ client' = [c \in Clients |->
           IF Alive(c) THEN [client[c] EXCEPT !.due = client[c].due + 1] ELSE client[c]]
      /\ UNCHANGED <<rpc, restarts>>
  BY DEF ClockTick
<1>2. /\ IInv' /\ idle \in Nat /\ idle' = idle + 1
      /\ UNCHANGED <<id, acquire, call, issued, finished>>
  BY <1>1, NextIInv DEF Tick, Next, CInv, IInv, TypeOK
<1>3. ASSUME NEW c \in Clients
      PROVE  /\ client'[c] \in Process
             /\ client'[c].pc = client[c].pc /\ client'[c].sid = client[c].sid
             /\ client'[c].rpc = client[c].rpc /\ client'[c].n = client[c].n
             /\ client'[c].ran = client[c].ran /\ client'[c].res = client[c].res
             /\ client'[c].lost = client[c].lost
             /\ Alive(c) => client'[c].due = client[c].due + 1
  <2>1. client[c] \in Process
    BY DEF CInv, Typed
  <2>2. CASE Alive(c)
    <3>1. client[c].due + 1 \in 0..(Interval + Latency)
      <4>1. client[c].due < Interval + Latency /\ client[c].due \in 0..(Interval + Latency)
        BY <2>1, <2>2 DEF ClockTick, Process
      <4> QED
        BY <4>1, IntervalBound, DelayAssumption
    <3>2. client'[c] = [client[c] EXCEPT !.due = client[c].due + 1]
      BY <1>1, <2>2
    <3> QED
      BY <2>1, <3>1, <3>2 DEF Process
  <2>3. CASE ~Alive(c)
    BY <1>1, <2>1, <2>3
  <2> QED
    BY <2>2, <2>3
<1>4. Typed'
  <2>1. client' \in [Clients -> Process]
    BY <1>1, <1>3
  <2> QED
    BY <1>1, <2>1 DEF CInv, Typed
<1>5. Slots' /\ Waiting' /\ Tokens' /\ Operations'
  BY <1>1, <1>2, <1>3, PaceKeeps
<1>6. Kept'
  <2> SUFFICES ASSUME restarts = 0, NEW e \in Clis
               PROVE  /\ Alive(e)' => id' = client'[e].sid /\ idle' <= Allowance(e)'
                      /\ Answered(e, "start", "granted")' =>
                           id' = rpc'[client'[e].rpc].sid /\ idle' <= Latency
    BY <1>1 DEF Kept
  <2>1. e \in Clients /\ client[e] \in Process
    BY DEF Clients, CInv, Typed
  <2>2. ASSUME Alive(e)' PROVE id' = client'[e].sid /\ idle' <= Allowance(e)'
    <3>1. Alive(e)
      BY <1>3, <2>1, <2>2 DEF Alive
    <3>2. id = client[e].sid /\ idle <= Allowance(e)
      BY <3>1 DEF CInv, Kept
    <3>3. PICK k \in Nat, l \in Nat : k = Interval /\ l = Latency
      BY IntervalBound, DelayAssumption
    <3>4. PICK a \in Nat, b \in Nat : a = client[e].due /\ b = client[e].lost
      BY <2>1, <3>3, DelayAssumption DEF Process
    <3>5. client'[e].due = a + 1 /\ client'[e].lost = b
      BY <1>3, <2>1, <3>1, <3>4
    <3>6. PICK m \in Nat : m = b * k
      BY <3>3, <3>4
    <3>7. Allowance(e) = a + m + l /\ Allowance(e)' = a + 1 + m + l
      BY <3>3, <3>4, <3>5, <3>6 DEF Allowance
    <3> QED
      BY <1>2, <1>3, <2>1, <3>2, <3>3, <3>4, <3>6, <3>7
  <2>3. ASSUME Answered(e, "start", "granted")'
        PROVE  id' = rpc'[client'[e].rpc].sid /\ idle' <= Latency
    <3>1. Answered(e, "start", "granted") /\ rpc'[client'[e].rpc].sid = rpc[client[e].rpc].sid
      BY <1>1, <1>3, <2>1, <2>3 DEF Answered
    <3>2. id = rpc[client[e].rpc].sid /\ idle < Latency
      BY <2>1, <3>1 DEF CInv, Kept, ClockTick
    <3> QED
      BY <1>2, <3>1, <3>2, DelayAssumption
  <2> QED
    BY <2>2, <2>3
<1> QED
  BY <1>2, <1>4, <1>5, <1>6 DEF CInv

-----------------------------------------------------------------------------
(* The handlers of the daemon.                                             *)

\* The handler in slot r ends: its answer is read by the client that awaits it, or
\* by nobody.
LEMMA AnswerFacts ==
  ASSUME CInv, NEW r \in Rpcs, NEW res \in {"ok", "failed", "refused", "granted", "busy"},
         NEW sid \in Ids \cup {NoId}, Answer(r, res, sid), UNCHANGED restarts,
         rpc[r].st \in {"sent", "serving"}
  PROVE  /\ client' = client
         /\ \A s \in Rpcs : s # r => rpc'[s] = rpc[s]
         /\ ~Awaited(r) => rpc'[r] = Free
         /\ Awaited(r) => /\ rpc'[r].st = "answered" /\ rpc'[r].kind = rpc[r].kind
                          /\ rpc'[r].by = rpc[r].by /\ rpc'[r].n = rpc[r].n
                          /\ rpc'[r].res = res /\ rpc'[r].sid = sid
         /\ Typed' /\ Waiting'
<1> DEFINE q == IF Awaited(r)
                  THEN [rpc[r] EXCEPT !.st = "answered", !.res = res, !.sid = sid]
                  ELSE Free
<1>1. rpc[r] \in Message /\ client \in [Clients -> Process] /\ rpc \in [Rpcs -> Message]
  BY DEF CInv, Typed
<1>2. q \in Message
  <2>1. [rpc[r] EXCEPT !.st = "answered", !.res = res, !.sid = sid] \in Message
    BY <1>1 DEF Message
  <2> QED
    BY <2>1, FreeIsMessage
<1>3. Awaited(r) => /\ q.st = "answered" /\ q.kind = rpc[r].kind
                    /\ q.by = rpc[r].by /\ q.n = rpc[r].n
                    /\ q.res = res /\ q.sid = sid
  BY <1>1 DEF Message
<1>4. client' = client /\ rpc' = [rpc EXCEPT ![r] = q] /\ (~Awaited(r) => q = Free)
  BY DEF Answer
<1> HIDE DEF q
<1>5. rpc'[r] = q /\ \A s \in Rpcs : s # r => rpc'[s] = rpc[s]
  BY <1>1, <1>4
<1>6. Typed'
  BY <1>1, <1>2, <1>4 DEF CInv, Typed
<1>7. Waiting'
  <2> SUFFICES ASSUME NEW c \in Clients
               PROVE  /\ client'[c].pc \in {"begin", "ready", "gone"} => client'[c].rpc = NoRpc
                      /\ client'[c].pc \in {"lock", "start"} => WaitingFor(c, "start")'
                      /\ client'[c].pc = "release" => WaitingFor(c, "finish")'
                      /\ client'[c].pc = "call" =>
                           /\ WaitingFor(c, "call")'
                           /\ rpc'[client'[c].rpc].n = client'[c].n
                           /\ rpc'[client'[c].rpc].st \in {"sent", "serving"} =>
                                rpc'[client'[c].rpc].sid = client'[c].sid
                      /\ client'[c].pc \in {"begin", "lock", "start", "release", "gone"} =>
                           client'[c].sid = NoId
    BY DEF Waiting
  <2>1. CASE client[c].rpc = r
    <3>1. Awaited(r)
      BY <2>1 DEF Awaited
    <3> QED
      BY <1>3, <1>4, <1>5, <2>1, <3>1 DEF CInv, Waiting, WaitingFor
  <2>2. CASE client[c].rpc # r
    BY <1>4, <1>5, <2>2 DEF CInv, Waiting, WaitingFor
  <2> QED
    BY <2>1, <2>2
<1> QED
  BY <1>3, <1>4, <1>5, <1>6, <1>7

\* An answered slot has no handler.
LEMMA AnswerKeepsSlots ==
  ASSUME CInv, NEW r \in Rpcs, NEW res \in {"ok", "failed", "refused", "granted", "busy"},
         NEW sid \in Ids \cup {NoId}, Answer(r, res, sid), UNCHANGED restarts,
         rpc[r].st \in {"sent", "serving"},
         sid \in issued' \cup {NoId}, issued \subseteq issued',
         res = "granted" => sid # NoId,
         \A s \in Rpcs \ {r} : acquire'[s] = acquire[s] /\ call'[s] = call[s],
         acquire'[r].pc = "idle", call'[r].pc # "running"
  PROVE  Slots'
<1>1. ASSUME NEW s \in Rpcs
      PROVE  /\ rpc'[s].st = "free" => rpc'[s] = Free
             /\ rpc'[s].st # "free" => rpc'[s].by \in Clients
             /\ rpc'[s].sid \in issued' \cup {NoId}
             /\ rpc'[s].res = "granted" => rpc'[s].sid # NoId
             /\ acquire'[s].pc # "idle" => rpc'[s].st = "serving" /\ rpc'[s].kind = "start"
             /\ call'[s].pc = "running" =>
                  /\ rpc'[s].st = "serving" /\ rpc'[s].kind = "call"
                  /\ rpc'[s].sid = call'[s].sid
  <2>1. CASE s # r
    <3>1. rpc'[s] = rpc[s] /\ acquire'[s] = acquire[s] /\ call'[s] = call[s]
      BY <2>1, AnswerFacts
    <3> QED
      BY <3>1 DEF CInv, Slots
  <2>2. CASE s = r /\ Awaited(r)
    <3>1. rpc[r].by \in Clients
      BY DEF CInv, Slots
    <3> QED
      BY <2>2, <3>1, AnswerFacts
  <2>3. CASE s = r /\ ~Awaited(r)
    BY <2>3, AnswerFacts DEF Free
  <2> QED
    BY <2>1, <2>2, <2>3
<1> QED
  BY <1>1 DEF Slots

\* An answered request runs no more.
LEMMA AnswerKeepsOperations ==
  ASSUME CInv, NEW r \in Rpcs, NEW res \in {"ok", "failed", "refused", "granted", "busy"},
         NEW sid \in Ids \cup {NoId}, Answer(r, res, sid), UNCHANGED restarts,
         rpc[r].st \in {"sent", "serving"},
         rpc[r].kind = "call" => (IF res = "refused" THEN rpc[r].st = "sent"
                                                     ELSE rpc[r].st = "serving")
  PROVE  Operations'
<1>1. client' = client /\ \A s \in Rpcs : rpc'[s].st # "free" =>
        rpc[s].st # "free" /\ rpc'[s].kind = rpc[s].kind /\ rpc'[s].by = rpc[s].by
        /\ rpc'[s].n = rpc[s].n
  <2>1. Free.st = "free"
    BY DEF Free
  <2> QED
    BY <2>1, AnswerFacts
<1>2. \A s \in Rpcs, e \in Clients : Carries(s, e)' => Carries(s, e)
  BY <1>1 DEF Carries
<1>3. \A s \in Rpcs : rpc'[s].st # "free" /\ rpc'[s].kind = "call" =>
        /\ rpc'[s].n # 0
        /\ client'[rpc'[s].by].pc # "gone" => rpc'[s].n <= client'[rpc'[s].by].n
  BY <1>1 DEF CInv, Operations
<1>4. \A e \in Clients :
        /\ client'[e].ran <= 1
        /\ client'[e].res = "ok" => client'[e].ran = 1
        /\ client'[e].pc = "gone" => client'[e].n = 0
        /\ client'[e].pc = "start" =>
             client'[e].ran = 0 /\ client'[e].n # 0 /\ \A s \in Rpcs : ~Carries(s, e)'
  BY <1>1, <1>2 DEF CInv, Operations
<1>5. ASSUME NEW e \in Clients, NEW s \in Rpcs, Carries(s, e)'
      PROVE  /\ \A q \in Rpcs : Carries(q, e)' => q = s
             /\ rpc'[s].st = "sent" => client'[e].ran = 0
             /\ rpc'[s].st = "serving" => client'[e].ran = 1
             /\ rpc'[s].st = "answered" =>
                  IF rpc'[s].res = "refused" THEN client'[e].ran = 0
                                             ELSE client'[e].ran = 1
  <2>1. Carries(s, e) /\ \A q \in Rpcs : Carries(q, e)' => q = s
    BY <1>2, <1>5 DEF CInv, Operations
  <2>2. CASE s # r
    <3>1. rpc'[s] = rpc[s]
      BY <2>2, AnswerFacts
    <3> QED
      BY <1>1, <2>1, <3>1 DEF CInv, Operations
  <2>3. CASE s = r
    <3>1. Awaited(r)
      BY <1>5, <2>3, AnswerFacts DEF Carries, Free
    <3>2. rpc'[s].st = "answered" /\ rpc'[s].res = res
      BY <2>3, <3>1, AnswerFacts
    <3>3. /\ rpc[s].st = "sent" => client[e].ran = 0
          /\ rpc[s].st = "serving" => client[e].ran = 1
          /\ rpc[s].kind = "call"
      BY <2>1 DEF CInv, Operations, Carries
    <3> QED
      BY <1>1, <2>1, <2>3, <3>2, <3>3
  <2> QED
    BY <2>2, <2>3
<1> QED
  BY <1>3, <1>4, <1>5 DEF Operations

\* An answer without an id: nobody holds more than before.
LEMMA PlainAnswerKeeps ==
  ASSUME CInv, NEW r \in Rpcs, NEW res \in {"ok", "failed", "refused", "busy"},
         Answer(r, res, NoId), UNCHANGED restarts,
         rpc[r].st \in {"sent", "serving"},
         rpc[r].kind = "call" => (IF res = "refused" THEN rpc[r].st = "sent"
                                                     ELSE rpc[r].st = "serving"),
         [Next]_vars, issued' = issued,
         \A s \in Rpcs \ {r} : acquire'[s] = acquire[s] /\ call'[s] = call[s],
         acquire'[r].pc = "idle", call'[r].pc # "running",
         \A i \in finished' \ finished : Serving(r, "finish") /\ rpc[r].sid = i,
         \A c \in Clients : id # NoId /\ ~Lapsed /\ Holds(c, id) => id' = id /\ idle' <= idle
  PROVE  CInv'
<1>1. IInv' /\ idle' \in Nat
  <2>1. IInv'
    BY NextIInv DEF CInv
  <2> QED
    BY <2>1 DEF IInv, TypeOK
<1>2. /\ client' = client /\ \A s \in Rpcs : s # r => rpc'[s] = rpc[s]
      /\ rpc'[r].st \in {"free", "answered"}
      /\ rpc'[r].st = "answered" => rpc'[r].res # "granted" /\ rpc'[r].sid = NoId
      /\ Typed' /\ Waiting'
  <2>1. Free.st = "free"
    BY DEF Free
  <2>2. NoId \in Ids \cup {NoId}
    OBVIOUS
  <2> QED
    BY <2>1, <2>2, AnswerFacts
<1>3. Slots'
  <2>1. NoId \in Ids \cup {NoId} /\ NoId \in issued' \cup {NoId} /\ issued \subseteq issued'
    OBVIOUS
  <2> QED
    BY <2>1, AnswerKeepsSlots
<1>4. Operations'
  BY AnswerKeepsOperations
<1>5. \A e \in Clients : Answered(e, "start", "granted")' =>
        Answered(e, "start", "granted") /\ rpc'[client'[e].rpc].sid = rpc[client[e].rpc].sid
  <2>1. \A e \in Clients : client[e].rpc # NoRpc => client[e].rpc \in Rpcs
    BY AwaitedByOne DEF CInv
  <2> QED
    BY <1>2, <2>1 DEF Answered
<1>6. Tokens'
  <2>1. \A e \in Clients, i \in Ids : Holds(e, i)' => Holds(e, i)
    BY <1>2, <1>5 DEF Holds
  <2>2. \A s \in Rpcs : Serving(s, "finish")' => Serving(s, "finish") /\ rpc'[s].sid = rpc[s].sid
    BY <1>2 DEF Serving
  <2> QED
    BY <2>1, <2>2 DEF CInv, Tokens
<1>7. Kept'
  <2>1. \A c \in Clis : Alive(c)' =>
          /\ Alive(c) /\ client'[c].sid = client[c].sid
          /\ client'[c].due = client[c].due /\ client'[c].lost = client[c].lost
    BY <1>2 DEF Alive
  <2>2. \A c \in Clis : Answered(c, "start", "granted")' =>
          Answered(c, "start", "granted") /\ rpc'[client'[c].rpc].sid = rpc[client[c].rpc].sid
    BY <1>5 DEF Clients
  <2> QED
    BY <1>1, <2>1, <2>2, KeptPass
<1> QED
  BY <1>1, <1>2, <1>3, <1>4, <1>6, <1>7 DEF CInv

\* The new holder, if it is still there, is the only one that holds the new id.
LEMMA ServeGrabKeeps ==
  ASSUME CInv, NEW r \in Rpcs, ServeGrab(r)
  PROVE  CInv'
<1>1. /\ AcquireGrab(r) /\ Answer(r, "granted", id') /\ UNCHANGED restarts
      /\ r \in Waiters
  BY DEF ServeGrab, Rpcs
<1>2. PICK i \in Ids \ issued : id' = i /\ issued' = issued \cup {i}
  BY <1>1 DEF AcquireGrab
<1>3. i \in Ids \cup {NoId} /\ i # NoId /\ Answer(r, "granted", i)
  BY <1>1, <1>2, NoIdAssumption
<1>4. /\ acquire[r].pc = "try" /\ (id = NoId \/ Lapsed)
      /\ idle' = 0 /\ UNCHANGED <<call, finished>>
      /\ acquire'[r].pc = "idle" /\ \A s \in Rpcs \ {r} : acquire'[s] = acquire[s]
  BY <1>1 DEF AcquireGrab, CInv, IInv, TypeOK, Rpcs, Idle, Handler
<1>5. rpc[r].st = "serving" /\ rpc[r].kind = "start" /\ call[r].pc # "running"
  BY <1>4 DEF CInv, Slots
<1>6. IInv'
  BY <1>1, NextIInv DEF CInv, Next, WaiterStep
<1>7. /\ client' = client /\ \A s \in Rpcs : s # r => rpc'[s] = rpc[s]
      /\ rpc'[r].st \in {"free", "answered"}
      /\ rpc'[r].st = "answered" => rpc'[r].sid = i
      /\ Typed' /\ Waiting'
  <2>1. Free.st = "free"
    BY DEF Free
  <2> QED
    BY <1>1, <1>3, <1>5, <2>1, AnswerFacts
<1>8. Slots'
  <2>1. i \in issued' \cup {NoId} /\ issued \subseteq issued'
    BY <1>2
  <2> QED
    BY <1>1, <1>3, <1>4, <1>5, <2>1, AnswerKeepsSlots
<1>9. Operations'
  BY <1>1, <1>3, <1>5, AnswerKeepsOperations
<1>10. ASSUME NEW e \in Clients, Answered(e, "start", "granted")'
       PROVE  \/ client[e].rpc = r /\ rpc'[client'[e].rpc].sid = i
              \/ client[e].rpc # r /\ Answered(e, "start", "granted")
                 /\ rpc'[client'[e].rpc] = rpc[client[e].rpc]
  <2>1. client[e].rpc \in Rpcs
    BY <1>7, <1>10, AwaitedByOne DEF CInv, Answered
  <2> QED
    BY <1>7, <1>10, <2>1 DEF Answered
<1>11. ASSUME NEW e \in Clients, NEW j \in Ids, Holds(e, j)'
       PROVE  (j = i /\ client[e].rpc = r) \/ (j # i /\ Holds(e, j))
  <2>1. Holds(e, j) => j # i
    BY <1>2 DEF CInv, Tokens
  <2> QED
    BY <1>7, <1>10, <1>11, <2>1 DEF Holds
<1>12. Tokens'
  <2> SUFFICES ASSUME NEW e \in Clients, NEW j \in Ids, Holds(e, j)'
               PROVE  /\ j \in issued' \ finished'
                      /\ \A d \in Clients : Holds(d, j)' => d = e
                      /\ \A s \in Rpcs : Serving(s, "finish")' => rpc'[s].sid # j
    BY DEF Tokens
  <2>1. \A s \in Rpcs : Serving(s, "finish")' => Serving(s, "finish") /\ rpc'[s].sid = rpc[s].sid
    BY <1>7 DEF Serving
  <2>2. CASE j = i
    <3>1. i \notin finished
      BY <1>2 DEF CInv, IInv, SidsIssued
    <3>2. client[e].rpc = r /\ \A d \in Clients : Holds(d, j)' => client[d].rpc = r
      BY <1>11, <2>2
    <3>3. \A d \in Clients : client[d].rpc = r => d = e
      BY <3>2, AwaitedByOne, RpcsAssumption DEF CInv
    <3>4. \A s \in Rpcs : rpc[s].sid # i
      BY <1>2, <1>3 DEF CInv, Slots
    <3> QED
      BY <1>2, <1>4, <2>1, <2>2, <3>1, <3>2, <3>3, <3>4
  <2>3. CASE j # i
    <3>1. Holds(e, j) /\ \A d \in Clients : Holds(d, j)' => Holds(d, j)
      BY <1>11, <2>3
    <3> QED
      BY <1>2, <1>4, <2>1, <3>1 DEF CInv, Tokens
  <2> QED
    BY <2>2, <2>3
<1>13. Kept'
  <2> SUFFICES ASSUME restarts = 0, NEW e \in Clis
               PROVE  /\ Alive(e)' => id' = client'[e].sid /\ idle' <= Allowance(e)'
                      /\ Answered(e, "start", "granted")' =>
                           id' = rpc'[client'[e].rpc].sid /\ idle' <= Latency
    BY <1>1 DEF Kept
  <2>1. e \in Clients /\ ~Alive(e) /\ ~Answered(e, "start", "granted")
    BY <1>4, GuardedLock DEF Clients
  <2>2. ~Alive(e)'
    BY <1>7, <2>1 DEF Alive
  <2> QED
    BY <1>2, <1>4, <1>10, <2>1, <2>2, DelayAssumption
<1> QED
  BY <1>6, <1>7, <1>8, <1>9, <1>12, <1>13 DEF CInv

\* The handlers of StartSession that end without the lock.
LEMMA ServeDeniedKeeps ==
  ASSUME CInv, NEW r \in Rpcs, Answer(r, "busy", NoId), UNCHANGED restarts,
         acquire[r].pc # "idle", acquire' = [acquire EXCEPT ![r] = Idle],
         UNCHANGED <<mgrVars, call, issued, finished>>, [Next]_vars
  PROVE  CInv'
<1>1. /\ acquire'[r].pc = "idle" /\ \A s \in Rpcs \ {r} : acquire'[s] = acquire[s]
      /\ idle \in Nat
  BY DEF CInv, IInv, TypeOK, Rpcs, Idle, Handler
<1>2. rpc[r].st = "serving" /\ rpc[r].kind = "start" /\ call[r].pc # "running"
  BY DEF CInv, Slots
<1>3. id' = id /\ idle' <= idle
  BY <1>1 DEF mgrVars
<1> QED
  BY <1>1, <1>2, <1>3, PlainAnswerKeeps

\* StartSession answers that the lock is taken.
LEMMA ServeBusyKeeps ==
  ASSUME CInv, NEW r \in Rpcs, ServeBusy(r)
  PROVE  CInv'
<1>1. /\ AcquireBusy(r) /\ UNCHANGED restarts /\ r \in Waiters
      /\ acquire[r].pc = "try" /\ UNCHANGED <<mgrVars, call, issued, finished>>
  BY DEF ServeBusy, AcquireBusy, Rpcs
<1>2. Next
  BY <1>1 DEF Next, WaiterStep
<1>3. CASE acquire[r].mode = "failFast"
  BY <1>1, <1>2, <1>3, ServeDeniedKeeps DEF ServeBusy, AcquireBusy
<1>4. CASE acquire[r].mode # "failFast"
  <2>1. UNCHANGED <<client, rpc, restarts>>
    BY <1>1, <1>4 DEF ServeBusy
  <2>2. \A s \in Rpcs : acquire'[s].pc # "idle" => acquire[s].pc # "idle"
    BY <1>1 DEF AcquireBusy, CInv, IInv, TypeOK, Rpcs
  <2>3. id' = id /\ idle' <= idle /\ UNCHANGED <<call, issued, finished>>
    BY <1>1 DEF mgrVars, CInv, IInv, TypeOK
  <2> QED
    BY <1>2, <2>1, <2>2, <2>3, SilentKeeps
<1> QED
  BY <1>3, <1>4

\* A waiter wakes up and tries again.
LEMMA ServeWokenKeeps ==
  ASSUME CInv, NEW r \in Rpcs, ServeWoken(r)
  PROVE  CInv'
<1>1. /\ WaiterWoken(r) /\ r \in Waiters /\ UNCHANGED <<client, rpc, restarts>>
  BY DEF ServeWoken, Rpcs
<1>2. Next
  BY <1>1 DEF Next, WaiterStep
<1>3. \A s \in Rpcs : acquire'[s].pc # "idle" => acquire[s].pc # "idle"
  BY <1>1 DEF WaiterWoken, CInv, IInv, TypeOK, Rpcs
<1>4. id' = id /\ idle' <= idle /\ UNCHANGED <<call, issued, finished>>
  BY <1>1 DEF WaiterWoken, mgrVars, CInv, IInv, TypeOK
<1> QED
  BY <1>1, <1>2, <1>3, <1>4, SilentKeeps

\* A waiter's budget is over, or its client has gone.
LEMMA ServeGivenUpKeeps ==
  ASSUME CInv, NEW r \in Rpcs, ServeTimedOut(r) \/ ServeCancelled(r)
  PROVE  CInv'
<1>1. /\ WaiterTimedOut(r) \/ WaiterCancelled(r)
      /\ Answer(r, "busy", NoId) /\ UNCHANGED restarts /\ r \in Waiters
  BY DEF ServeTimedOut, ServeCancelled, Rpcs
<1>2. Next
  BY <1>1 DEF Next
<1> QED
  BY <1>1, <1>2, ServeDeniedKeeps DEF WaiterTimedOut, WaiterCancelled

\* A handler returns: CallEnd, and the answer.
LEMMA ServeEndKeeps ==
  ASSUME CInv, NEW r \in Rpcs, ServeEnd(r)
  PROVE  CInv'
<1>1. PICK res \in {"ok", "failed"} : Answer(r, res, NoId)
  BY DEF ServeEnd
<1>2. CallEnd(r) /\ UNCHANGED restarts /\ r \in Calls
  BY RpcsAssumption DEF ServeEnd, Rpcs
<1>3. Next
  BY <1>2 DEF Next
<1>4. /\ rpc[r].st = "serving" /\ rpc[r].kind = "call" /\ acquire[r].pc = "idle"
  BY <1>2 DEF CallEnd, CInv, Slots
<1>5. /\ call' = [call EXCEPT ![r] = NoCall] /\ UNCHANGED <<id, acquire, issued, finished>>
      /\ idle' = 0 \/ idle' = idle
  BY <1>2 DEF CallEnd
<1>6. call'[r].pc # "running" /\ \A s \in Rpcs \ {r} : call'[s] = call[s]
  BY <1>5, RpcsAssumption DEF CInv, IInv, TypeOK, Rpcs, NoCall
<1>7. id' = id /\ idle' <= idle
  BY <1>5 DEF CInv, IInv, TypeOK
<1> QED
  BY <1>1, <1>2, <1>3, <1>4, <1>5, <1>6, <1>7, PlainAnswerKeeps

\* Nobody has the id that a FinishSession names, so that it takes the lock from
\* under nobody.
LEMMA ServeFinishKeeps ==
  ASSUME CInv, NEW r \in Rpcs, ServeFinish(r)
  PROVE  CInv'
<1>1. /\ Serving(r, "finish") /\ Answer(r, "ok", NoId) /\ UNCHANGED restarts
      /\ Finish(rpc[r].sid) \/ (id # rpc[r].sid /\ UNCHANGED lockVars)
  BY DEF ServeFinish
<1>2. /\ rpc[r].st = "sent" /\ rpc[r].kind = "finish"
      /\ acquire[r].pc = "idle" /\ call[r].pc # "running"
      /\ rpc[r].sid \in issued \cup {NoId}
  BY <1>1 DEF Serving, CInv, Slots
<1>3. [Next]_vars
  BY <1>1, <1>2 DEF Next, vars, lockVars, mgrVars
<1>4. /\ UNCHANGED <<acquire, call, issued>>
      /\ \A i \in finished' \ finished : rpc[r].sid = i
  BY <1>1 DEF Finish, lockVars
<1>5. ASSUME NEW c \in Clients, id # NoId, Holds(c, id) PROVE id' = id /\ idle' <= idle
  <2>1. id \in Ids /\ idle \in Nat
    BY <1>5 DEF CInv, IInv, TypeOK
  <2>2. rpc[r].sid # id
    BY <1>1, <1>5, <2>1 DEF CInv, Tokens
  <2> QED
    BY <1>1, <2>1, <2>2 DEF Finish, lockVars, mgrVars
<1> QED
  BY <1>1, <1>2, <1>3, <1>4, <1>5, PlainAnswerKeeps

\* The interceptor lets a call through: the operation it carries runs.
LEMMA AdmittedKeeps ==
  ASSUME CInv, NEW r \in Rpcs, Serving(r, "call"), CallStart(r, rpc[r].sid),
         call'[r].pc = "running", Serve(r), UNCHANGED restarts,
         client' = [client EXCEPT ![rpc[r].by].ran =
               IF client[rpc[r].by].n = rpc[r].n THEN @ + 1 ELSE @]
  PROVE  CInv'
<1> DEFINE b == rpc[r].by
<1>1. /\ rpc[r].st = "sent" /\ rpc[r].kind = "call" /\ b \in Clients
      /\ rpc[r].sid \in issued \cup {NoId} /\ acquire[r].pc = "idle" /\ call[r] = NoCall
      /\ rpc \in [Rpcs -> Message] /\ client \in [Clients -> Process]
  BY DEF Serving, CInv, Slots, CallStart, Typed
<1> HIDE DEF b
<1>2. /\ call' = [call EXCEPT ![r] = [pc |-> "running", sid |-> rpc[r].sid]]
      /\ idle' = 0 /\ UNCHANGED <<id, acquire, issued, finished>>
  BY <1>1 DEF CallStart, NoCall
<1>3. IInv' /\ idle' <= idle /\ idle' \in Nat
  <2>1. IInv'
    BY <1>1, NextIInv, RpcsAssumption DEF CInv, Next, Rpcs
  <2> QED
    BY <1>2, <2>1 DEF CInv, IInv, TypeOK
<1>4. /\ rpc' \in [Rpcs -> Message]
      /\ \A s \in Rpcs : s # r => rpc'[s] = rpc[s]
      /\ rpc'[r].st = "serving" /\ rpc'[r].kind = rpc[r].kind /\ rpc'[r].sid = rpc[r].sid
      /\ rpc'[r].by = b /\ rpc'[r].n = rpc[r].n /\ rpc'[r].res = rpc[r].res
  BY <1>1 DEF Serve, Message, b
<1>5. PICK k \in Nat : k = IF client[b].n = rpc[r].n THEN client[b].ran + 1 ELSE client[b].ran
  BY <1>1 DEF Process
<1>6. client' = [client EXCEPT ![b].ran = k]
  BY <1>1, <1>5 DEF b
<1>7. /\ client'[b] \in Process /\ client'[b].ran = k
      /\ \A e \in Clients : e # b => client'[e] = client[e]
      /\ \A e \in Clients :
           /\ client'[e].pc = client[e].pc /\ client'[e].sid = client[e].sid
           /\ client'[e].rpc = client[e].rpc /\ client'[e].n = client[e].n
           /\ client'[e].res = client[e].res
           /\ client'[e].due = client[e].due /\ client'[e].lost = client[e].lost
  <2>1. client[b] \in Process /\ client'[b] = [client[b] EXCEPT !.ran = k]
    BY <1>1, <1>6
  <2>2. /\ client'[b] \in Process /\ client'[b].ran = k
        /\ client'[b].pc = client[b].pc /\ client'[b].sid = client[b].sid
        /\ client'[b].rpc = client[b].rpc /\ client'[b].n = client[b].n
        /\ client'[b].res = client[b].res
        /\ client'[b].due = client[b].due /\ client'[b].lost = client[b].lost
    BY <2>1 DEF Process
  <2>3. \A e \in Clients : e # b => client'[e] = client[e]
    BY <1>1, <1>6
  <2> QED
    BY <2>2, <2>3
<1>8. Typed'
  BY <1>1, <1>4, <1>6, <1>7 DEF CInv, Typed
<1>9. Slots'
  <2>1. \A s \in Rpcs : s # r => call'[s] = call[s]
    BY <1>2
  <2>2. call'[r].sid = rpc[r].sid
    BY <1>2, RpcsAssumption DEF CInv, IInv, TypeOK, Rpcs
  <2> QED
    BY <1>1, <1>2, <1>4, <2>1, <2>2 DEF CInv, Slots
<1>10. Waiting'
  BY <1>1, <1>4, <1>7 DEF CInv, Waiting, WaitingFor, b
<1>11. \A e \in Clients : Answered(e, "start", "granted")' =>
         Answered(e, "start", "granted") /\ rpc'[client'[e].rpc].sid = rpc[client[e].rpc].sid
  <2>1. \A e \in Clients : client[e].rpc # NoRpc => client[e].rpc \in Rpcs
    BY AwaitedByOne DEF CInv
  <2> QED
    BY <1>4, <1>7, <2>1 DEF Answered
<1>12. Tokens'
  <2>1. \A e \in Clients, i \in Ids : Holds(e, i)' => Holds(e, i)
    BY <1>7, <1>11 DEF Holds
  <2>2. \A s \in Rpcs : Serving(s, "finish")' => Serving(s, "finish") /\ rpc'[s].sid = rpc[s].sid
    BY <1>4 DEF Serving
  <2> QED
    BY <1>2, <2>1, <2>2, TokensPass DEF CInv
<1>13. \A e \in Clients, s \in Rpcs : Carries(s, e)' <=> Carries(s, e)
  BY <1>1, <1>4, <1>7 DEF Carries, b
<1>14. /\ Carries(r, b) => client[b].ran = 0 /\ k = 1
       /\ ~Carries(r, b) => k = client[b].ran
  BY <1>1, <1>5 DEF CInv, Operations, Carries, b
<1>15. Operations'
  <2>1. \A s \in Rpcs : rpc'[s].st # "free" /\ rpc'[s].kind = "call" =>
          /\ rpc'[s].n # 0
          /\ client'[rpc'[s].by].pc # "gone" => rpc'[s].n <= client'[rpc'[s].by].n
    <3> SUFFICES ASSUME NEW s \in Rpcs, rpc'[s].st # "free", rpc'[s].kind = "call"
                 PROVE  /\ rpc'[s].n # 0
                        /\ client'[rpc'[s].by].pc # "gone" => rpc'[s].n <= client'[rpc'[s].by].n
      OBVIOUS
    <3>1. /\ rpc[s].st # "free" /\ rpc[s].kind = "call" /\ rpc'[s].n = rpc[s].n
          /\ rpc'[s].by = rpc[s].by /\ rpc[s].by \in Clients
      BY <1>1, <1>4 DEF CInv, Slots, b
    <3> QED
      BY <1>7, <3>1 DEF CInv, Operations
  <2>2. \A e \in Clients :
          /\ client'[e].ran <= 1
          /\ client'[e].res = "ok" => client'[e].ran = 1
          /\ client'[e].pc = "gone" => client'[e].n = 0
          /\ client'[e].pc = "start" =>
               client'[e].ran = 0 /\ client'[e].n # 0 /\ \A s \in Rpcs : ~Carries(s, e)'
    <3>1. \A e \in Clients : e # b => client'[e].ran = client[e].ran
      BY <1>7
    <3>2. /\ Carries(r, b) => client[b].pc # "start" /\ client[b].res # "ok"
          /\ client'[b].ran <= 1
          /\ client'[b].res = "ok" => client'[b].ran = 1
          /\ client'[b].pc = "start" => client'[b].ran = 0
      BY <1>1, <1>7, <1>14 DEF CInv, Operations
    <3> QED
      BY <1>1, <1>7, <1>13, <3>1, <3>2 DEF CInv, Operations
  <2>3. ASSUME NEW e \in Clients, NEW s \in Rpcs, Carries(s, e)'
        PROVE  /\ \A q \in Rpcs : Carries(q, e)' => q = s
               /\ rpc'[s].st = "sent" => client'[e].ran = 0
               /\ rpc'[s].st = "serving" => client'[e].ran = 1
               /\ rpc'[s].st = "answered" =>
                    IF rpc'[s].res = "refused" THEN client'[e].ran = 0
                                               ELSE client'[e].ran = 1
    <3>1. Carries(s, e) /\ \A q \in Rpcs : Carries(q, e)' => q = s
      BY <1>13, <2>3 DEF CInv, Operations
    <3>2. CASE s = r
      <4>1. e = b
        BY <3>1, <3>2 DEF Carries, b
      <4> QED
        BY <1>4, <1>7, <1>14, <3>1, <3>2, <4>1
    <3>3. CASE s # r
      <4>1. ~Carries(r, e)
        BY <3>1, <3>3, <1>13
      <4>2. client'[e].ran = client[e].ran
        BY <1>7, <1>14, <4>1
      <4> QED
        BY <1>4, <3>1, <3>3, <4>2 DEF CInv, Operations
    <3> QED
      BY <3>2, <3>3
  <2> QED
    BY <2>1, <2>2, <2>3 DEF Operations
<1>16. Kept'
  <2>1. \A c \in Clis : Alive(c)' =>
          /\ Alive(c) /\ client'[c].sid = client[c].sid
          /\ client'[c].due = client[c].due /\ client'[c].lost = client[c].lost
    BY <1>7 DEF Alive, Clients
  <2>2. \A c \in Clis : Answered(c, "start", "granted")' =>
          Answered(c, "start", "granted") /\ rpc'[client'[c].rpc].sid = rpc[client[c].rpc].sid
    BY <1>11 DEF Clients
  <2> QED
    BY <1>2, <1>3, <2>1, <2>2, KeptPass
<1> QED
  BY <1>3, <1>8, <1>9, <1>10, <1>12, <1>15, <1>16 DEF CInv

\* An interceptor admits or refuses an operation.
LEMMA ServeCallKeeps ==
  ASSUME CInv, NEW r \in Rpcs, ServeCall(r)
  PROVE  CInv'
<1>1. Serving(r, "call") /\ CallStart(r, rpc[r].sid) /\ UNCHANGED restarts
  BY DEF ServeCall
<1>2. CASE /\ call'[r].pc = "running"
           /\ Serve(r)
           /\ client' = [client EXCEPT ![rpc[r].by].ran =
                IF client[rpc[r].by].n = rpc[r].n THEN @ + 1 ELSE @]
  BY <1>1, <1>2, AdmittedKeeps
<1>3. CASE call'[r] = NoCall /\ Answer(r, "refused", NoId)
  <2>1. /\ rpc[r].st = "sent" /\ rpc[r].kind = "call" /\ acquire[r].pc = "idle"
        /\ rpc[r].sid \in issued \cup {NoId} /\ r \in Calls
    BY <1>1, RpcsAssumption DEF Serving, CInv, Slots, Rpcs
  <2>2. Next
    BY <1>1, <2>1 DEF Next
  <2>3. ~HolderIs(rpc[r].sid) /\ ExpireIfIdle /\ UNCHANGED <<call, acquire, issued, finished>>
    <3>1. call' # [call EXCEPT ![r] = [pc |-> "running", sid |-> rpc[r].sid]]
      BY <1>3, <2>1 DEF NoCall, CInv, IInv, TypeOK
    <3> QED
      BY <1>1, <3>1 DEF CallStart
  <2>4. id # NoId /\ ~Lapsed => id' = id /\ idle' <= idle
    BY <2>3 DEF ExpireIfIdle, mgrVars, CInv, IInv, TypeOK
  <2>5. call'[r].pc # "running"
    BY <1>3 DEF NoCall
  <2> QED
    BY <1>1, <1>3, <2>1, <2>2, <2>3, <2>4, <2>5, PlainAnswerKeeps
<1> QED
  BY <1>2, <1>3 DEF ServeCall

\* A request nobody awaits is lost: nobody's operation depended on it.
LEMMA VanishKeeps ==
  ASSUME CInv, NEW r \in Rpcs, Vanish(r)
  PROVE  CInv'
<1>1. /\ rpc[r].st = "sent" /\ ~Awaited(r) /\ rpc' = [rpc EXCEPT ![r] = Free]
      /\ UNCHANGED <<lockVars, client, restarts>>
  BY DEF Vanish
<1>2. IInv' /\ UNCHANGED <<id, idle, acquire, call, issued, finished>>
  BY <1>1, LockUnchanged DEF CInv, lockVars, mgrVars
<1>3. /\ rpc'[r] = Free /\ \A s \in Rpcs : s # r => rpc'[s] = rpc[s]
      /\ \A s \in Rpcs : rpc'[s].st # "free" => rpc'[s] = rpc[s] /\ s # r
      /\ \A e \in Clients : client[e].rpc # r
  BY <1>1 DEF CInv, Typed, Awaited, Free
<1>4. Typed'
  BY <1>1, FreeIsMessage DEF CInv, Typed
<1>5. Slots'
  BY <1>1, <1>2, <1>3 DEF CInv, Slots, Free
<1>6. Waiting'
  BY <1>1, <1>3 DEF CInv, Waiting, WaitingFor
<1>7. \A e \in Clients : Answered(e, "start", "granted")' =>
        Answered(e, "start", "granted") /\ rpc'[client'[e].rpc].sid = rpc[client[e].rpc].sid
  <2>1. \A e \in Clients : client[e].rpc # NoRpc => client[e].rpc \in Rpcs
    BY AwaitedByOne DEF CInv
  <2> QED
    BY <1>1, <1>3, <2>1 DEF Answered
<1>8. Tokens'
  <2>1. \A e \in Clients, i \in Ids : Holds(e, i)' => Holds(e, i)
    BY <1>1, <1>7 DEF Holds
  <2>2. \A s \in Rpcs : Serving(s, "finish")' => Serving(s, "finish") /\ rpc'[s].sid = rpc[s].sid
    BY <1>3 DEF Serving, Free
  <2> QED
    BY <1>2, <2>1, <2>2, TokensPass DEF CInv
<1>9. Operations'
  <2>1. \A s \in Rpcs, e \in Clients : Carries(s, e)' => Carries(s, e) /\ rpc'[s] = rpc[s]
    BY <1>1, <1>3 DEF Carries
  <2>2. \A s \in Rpcs : rpc'[s].st # "free" /\ rpc'[s].kind = "call" =>
          /\ rpc'[s].n # 0
          /\ client'[rpc'[s].by].pc # "gone" => rpc'[s].n <= client'[rpc'[s].by].n
    BY <1>1, <1>3 DEF CInv, Operations
  <2>3. \A e \in Clients :
          /\ client'[e].ran <= 1
          /\ client'[e].res = "ok" => client'[e].ran = 1
          /\ client'[e].pc = "gone" => client'[e].n = 0
          /\ client'[e].pc = "start" =>
               client'[e].ran = 0 /\ client'[e].n # 0 /\ \A s \in Rpcs : ~Carries(s, e)'
    BY <1>1, <2>1 DEF CInv, Operations
  <2>4. ASSUME NEW e \in Clients, NEW s \in Rpcs, Carries(s, e)'
        PROVE  /\ \A q \in Rpcs : Carries(q, e)' => q = s
               /\ rpc'[s].st = "sent" => client'[e].ran = 0
               /\ rpc'[s].st = "serving" => client'[e].ran = 1
               /\ rpc'[s].st = "answered" =>
                    IF rpc'[s].res = "refused" THEN client'[e].ran = 0
                                               ELSE client'[e].ran = 1
    BY <1>1, <2>1, <2>4 DEF CInv, Operations
  <2> QED
    BY <2>2, <2>3, <2>4 DEF Operations
<1>10. Kept'
  <2>1. \A c \in Clis : Alive(c)' =>
          /\ Alive(c) /\ client'[c].sid = client[c].sid
          /\ client'[c].due = client[c].due /\ client'[c].lost = client[c].lost
    BY <1>1 DEF Alive
  <2>2. \A c \in Clis : Answered(c, "start", "granted")' =>
          Answered(c, "start", "granted") /\ rpc'[client'[c].rpc].sid = rpc[client[c].rpc].sid
    BY <1>7 DEF Clients
  <2>3. id' = id /\ idle' <= idle /\ idle' \in Nat
    BY <1>2 DEF CInv, IInv, TypeOK
  <2> QED
    BY <1>1, <2>1, <2>2, <2>3, KeptPass
<1> QED
  BY <1>2, <1>4, <1>5, <1>6, <1>8, <1>9, <1>10 DEF CInv

\* The lock of a daemon that starts again knows nobody; an id it handed out
\* before is not handed out again.
LEMMA RestartedLock ==
  ASSUME IInv, Restart
  PROVE  IInv'
<1> USE DEF Restart, Handler, Idle, NoCall, WaitModes
<1>1. TypeOK'
  BY TTLAssumption DEF IInv, TypeOK
<1>2. HolderChannel' /\ SidsIssued' /\ CallsCounted'
  BY DEF IInv, HolderChannel, SidsIssued, CallsCounted
<1>3. NoLostWakeup' /\ StaleCallsWereFinished'
  BY DEF NoLostWakeup, StaleCallsWereFinished
<1> QED
  BY <1>1, <1>2, <1>3 DEF IInv

\* The daemon restarts: no lock, no handlers, broken calls.
LEMMA RestartKeeps ==
  ASSUME CInv, Restart
  PROVE  CInv'
<1>1. IInv'
  BY RestartedLock DEF CInv
<1>2. /\ restarts \in Nat /\ restarts' = restarts + 1
      /\ client' = client /\ issued' = issued /\ finished' = {}
      /\ \A s \in Rpcs : acquire'[s].pc = "idle" /\ call'[s].pc # "running"
  BY RpcsAssumption DEF Restart, CInv, Typed, Rpcs, Idle, Handler, NoCall
<1>3. rpc' = [s \in Rpcs |-> CASE ~Awaited(s) -> Free
                              [] Awaited(s) /\ rpc[s].st = "answered" -> rpc[s]
                              [] OTHER -> [rpc[s] EXCEPT !.st = "broken"]]
  BY DEF Restart
<1>4. ASSUME NEW s \in Rpcs
      PROVE  /\ rpc'[s] \in Message
             /\ ~Awaited(s) => rpc'[s] = Free
             /\ Awaited(s) =>
                  /\ rpc'[s].kind = rpc[s].kind /\ rpc'[s].by = rpc[s].by
                  /\ rpc'[s].n = rpc[s].n /\ rpc'[s].sid = rpc[s].sid
                  /\ rpc'[s].res = rpc[s].res
                  /\ rpc'[s].st \in {"answered", "broken"}
                  /\ rpc'[s].st = "answered" => rpc[s].st = "answered"
  <2>1. rpc[s] \in Message
    BY DEF CInv, Typed
  <2>2. CASE ~Awaited(s)
    BY <1>3, <2>2, FreeIsMessage
  <2>3. CASE Awaited(s) /\ rpc[s].st = "answered"
    BY <1>3, <2>1, <2>3
  <2>4. CASE Awaited(s) /\ rpc[s].st # "answered"
    <3>1. rpc'[s] = [rpc[s] EXCEPT !.st = "broken"]
      BY <1>3, <2>4
    <3> QED
      BY <2>1, <2>4, <3>1 DEF Message
  <2> QED
    BY <2>2, <2>3, <2>4
<1>5. \A s \in Rpcs : rpc'[s].st # "free" => Awaited(s) /\ rpc[s].st # "free"
  <2>1. \A s \in Rpcs : Awaited(s) => rpc[s].st # "free"
    BY AwaitedByOne, RpcsAssumption DEF Awaited, CInv
  <2> QED
    BY <1>4, <2>1 DEF Free
<1>6. Typed'
  BY <1>2, <1>3, <1>4 DEF CInv, Typed
<1>7. Slots'
  <2> SUFFICES ASSUME NEW s \in Rpcs
               PROVE  /\ rpc'[s].st = "free" => rpc'[s] = Free
                      /\ rpc'[s].st # "free" => rpc'[s].by \in Clients
                      /\ rpc'[s].sid \in issued' \cup {NoId}
                      /\ rpc'[s].res = "granted" => rpc'[s].sid # NoId
    BY <1>2 DEF Slots
  <2>1. CASE Awaited(s)
    BY <1>2, <1>4, <1>5, <2>1 DEF CInv, Slots
  <2>2. CASE ~Awaited(s)
    BY <1>4, <2>2 DEF Free
  <2> QED
    BY <2>1, <2>2
<1>8. \A e \in Clients : client[e].rpc # NoRpc =>
        client[e].rpc \in Rpcs /\ Awaited(client[e].rpc)
  BY AwaitedByOne DEF CInv, Awaited
<1>9. Waiting'
  <2> SUFFICES ASSUME NEW e \in Clients
               PROVE  /\ client[e].pc \in {"begin", "ready", "gone"} => client[e].rpc = NoRpc
                      /\ client[e].pc \in {"lock", "start"} => WaitingFor(e, "start")'
                      /\ client[e].pc = "release" => WaitingFor(e, "finish")'
                      /\ client[e].pc = "call" =>
                           /\ WaitingFor(e, "call")'
                           /\ rpc'[client[e].rpc].n = client[e].n
                           /\ rpc'[client[e].rpc].st \notin {"sent", "serving"}
                      /\ client[e].pc \in {"begin", "lock", "start", "release", "gone"} =>
                           client[e].sid = NoId
    BY <1>2 DEF Waiting
  <2>1. CASE client[e].rpc = NoRpc
    BY <2>1, RpcsAssumption DEF CInv, Waiting, WaitingFor
  <2>2. CASE client[e].rpc # NoRpc
    BY <1>2, <1>4, <1>8, <2>2 DEF CInv, Waiting, WaitingFor
  <2> QED
    BY <2>1, <2>2
<1>10. Tokens'
  <2>1. \A e \in Clients, i \in Ids : Holds(e, i)' => Holds(e, i)
    BY <1>2, <1>4, <1>8 DEF Holds, Answered
  <2>2. \A s \in Rpcs : ~Serving(s, "finish")'
    BY <1>4 DEF Serving, Free
  <2> QED
    BY <1>2, <2>1, <2>2, TokensPass DEF CInv
<1>11. Operations'
  <2>1. \A s \in Rpcs, e \in Clients : Carries(s, e)' =>
          /\ Carries(s, e)
          /\ rpc'[s].st \in {"answered", "broken"}
          /\ rpc'[s].st = "answered" => rpc[s].st = "answered" /\ rpc'[s].res = rpc[s].res
    BY <1>2, <1>4, <1>5 DEF Carries
  <2>2. \A s \in Rpcs : rpc'[s].st # "free" /\ rpc'[s].kind = "call" =>
          /\ rpc'[s].n # 0
          /\ client'[rpc'[s].by].pc # "gone" => rpc'[s].n <= client'[rpc'[s].by].n
    BY <1>2, <1>4, <1>5 DEF CInv, Operations
  <2>3. \A e \in Clients :
          /\ client'[e].ran <= 1
          /\ client'[e].res = "ok" => client'[e].ran = 1
          /\ client'[e].pc = "gone" => client'[e].n = 0
          /\ client'[e].pc = "start" =>
               client'[e].ran = 0 /\ client'[e].n # 0 /\ \A s \in Rpcs : ~Carries(s, e)'
    BY <1>2, <2>1 DEF CInv, Operations
  <2>4. ASSUME NEW e \in Clients, NEW s \in Rpcs, Carries(s, e)'
        PROVE  /\ \A q \in Rpcs : Carries(q, e)' => q = s
               /\ rpc'[s].st = "sent" => client'[e].ran = 0
               /\ rpc'[s].st = "serving" => client'[e].ran = 1
               /\ rpc'[s].st = "answered" =>
                    IF rpc'[s].res = "refused" THEN client'[e].ran = 0
                                               ELSE client'[e].ran = 1
    BY <1>2, <2>1, <2>4 DEF CInv, Operations
  <2> QED
    BY <2>2, <2>3, <2>4 DEF Operations
<1>12. Kept'
  BY <1>2 DEF Kept
<1> QED
  BY <1>1, <1>6, <1>7, <1>9, <1>10, <1>11, <1>12 DEF CInv

-----------------------------------------------------------------------------
(* The theorems.                                                           *)

\* Nobody has begun.
LEMMA ClientsInitCInv == ClientsInit => CInv
<1> SUFFICES ASSUME ClientsInit PROVE CInv
  OBVIOUS
<1>1. IInv
  BY InitIInv DEF ClientsInit
<1>2. /\ \A r \in Rpcs : /\ rpc[r] = Free
                       /\ acquire[r].pc = "idle" /\ call[r].pc # "running"
      /\ restarts = 0
  BY RpcsAssumption DEF ClientsInit, Init, Rpcs, Idle, Handler, NoCall
<1>3. \A c \in Clients :
        /\ client[c] \in Process
        /\ client[c].pc \in {"begin", "ready"} /\ client[c].sid = NoId
        /\ client[c].rpc = NoRpc /\ client[c].n = 0
        /\ client[c].ran = 0 /\ client[c].res = "none"
  BY ZeroTyped DEF ClientsInit, NewClient, Process
<1>4. Typed
  <2>1. client \in [Clients -> Process]
    BY <1>3 DEF ClientsInit
  <2> QED
    BY <1>2, <2>1, FreeIsMessage DEF ClientsInit, Typed
<1>5. Slots
  BY <1>2 DEF Slots, Free
<1>6. Waiting
  BY <1>3 DEF Waiting
<1>7. Tokens
  BY <1>3 DEF Tokens, Holds, Answered
<1>8. Operations
  BY <1>2, <1>3 DEF Operations, Carries, Free
<1>9. Kept
  BY <1>3 DEF Kept, Alive, Answered, Clients
<1> QED
  BY <1>1, <1>4, <1>5, <1>6, <1>7, <1>8, <1>9 DEF CInv

\* Every step of a client, a handler, the clock, the reaper or a restart keeps CInv.
LEMMA ClientsNextCInv == CInv /\ [ClientsNext]_allVars => CInv'
<1> SUFFICES ASSUME CInv, [ClientsNext]_allVars PROVE CInv'
  OBVIOUS
<1>1. ASSUME NEW c \in Clients, ClientStep(c) PROVE CInv'
  BY <1>1, BeginKeeps, InvokeKeeps, AcquireLockKeeps, ReleaseKeeps, GrantedKeeps, DeniedKeeps,
     EndedKeeps, RefusedKeeps, ReleasedKeeps, GiveUpKeeps, DieKeeps, KeepaliveKeeps
     DEF ClientStep, Receive
<1>2. ASSUME NEW r \in Rpcs, Handle(r) PROVE CInv'
  BY <1>2, ServeGrabKeeps, ServeBusyKeeps, ServeWokenKeeps, ServeGivenUpKeeps, ServeCallKeeps,
     ServeEndKeeps, ServeFinishKeeps
     DEF Handle
<1>3. ASSUME NEW r \in Rpcs, Vanish(r) PROVE CInv'
  BY <1>3, VanishKeeps
<1>4. CASE Reap /\ Stutter
  BY <1>4, ReapKeeps
<1>5. CASE ClockTick
  BY <1>5, ClockKeepsClients
<1>6. CASE Restart
  BY <1>6, RestartKeeps
<1>7. CASE UNCHANGED allVars
  <2>1. /\ UNCHANGED lockVars /\ UNCHANGED <<client, rpc, restarts>>
    BY <1>7 DEF allVars, lockVars, vars, mgrVars
  <2>2. IInv' /\ UNCHANGED <<id, idle, acquire, call, issued, finished>>
    BY <2>1, LockUnchanged DEF CInv, lockVars, mgrVars
  <2>3. Slots' /\ Waiting' /\ Tokens' /\ Operations'
    BY <2>1, <2>2, PaceKeeps
  <2> QED
    BY <2>1, <2>2, <2>3 DEF CInv, Typed, Kept, Alive, Allowance, Answered
<1> QED
  BY <1>1, <1>2, <1>3, <1>4, <1>5, <1>6, <1>7 DEF ClientsNext

\* CInv holds in every reachable state of the lock and its clients.
THEOREM ClientsInvariance == ClientsSpec => []CInv
BY ClientsInitCInv, ClientsNextCInv, PTL DEF ClientsSpec

\* No operation runs twice and one reported done ran once, for any number of
\* clients, RPCs, operations, losses and restarts (callWithSession).
THEOREM ExactlyOnceHolds == ClientsSpec => []ExactlyOnce
<1>1. CInv => ExactlyOnce
  <2> SUFFICES ASSUME CInv PROVE ExactlyOnce
    OBVIOUS
  <2>1. \A c, d \in Clients :
          c # d /\ client[c].rpc # NoRpc => client[c].rpc # client[d].rpc
    BY AwaitedByOne DEF CInv
  <2>2. \A r \in Rpcs : rpc[r].st \in {"free", "sent", "serving", "answered", "broken"}
    BY DEF CInv, Typed, Message
  <2>3. ClientsTypeOK
    BY <2>1, <2>2 DEF ClientsTypeOK, CInv, Typed, Process
  <2> QED
    BY <2>3 DEF ExactlyOnce, CInv, Operations
<1> QED
  BY <1>1, ClientsInvariance, PTL

\* Whoever still waits for a running operation has the lock: of the calls that a
\* FinishSession left behind, no client awaits the answer.
THEOREM DriverHoldsHolds == ClientsSpec => []DriverHolds
<1>1. CInv => DriverHolds
  <2> SUFFICES ASSUME CInv, NEW r \in Rpcs, call[r].pc = "running", call[r].sid # id,
                      NEW c \in Clients, client[c].rpc = r
               PROVE  FALSE
    BY DEF DriverHolds, Awaited
  <2>1. rpc[r].st = "serving" /\ rpc[r].kind = "call" /\ rpc[r].sid = call[r].sid
    BY DEF CInv, Slots
  <2>2. client[c].pc \in {"lock", "start", "call", "release"}
    BY AwaitedByOne, RpcsAssumption DEF CInv
  <2>3. client[c].sid = call[r].sid
    BY <2>1, <2>2 DEF CInv, Waiting, WaitingFor
  <2>4. r \in Calls
    BY RpcsAssumption DEF Rpcs
  <2>5. call[r].sid \in finished /\ call[r].sid \in Ids /\ call[r].sid # NoId
    BY <2>4, NoIdAssumption DEF CInv, IInv, StaleCallsWereFinished, TypeOK
  <2>6. Holds(c, call[r].sid)
    BY <2>3, <2>5 DEF Holds
  <2> QED
    BY <2>5, <2>6 DEF CInv, Tokens
<1> QED
  BY <1>1, ClientsInvariance, PTL

\* The keepalive keeps the lock for a whole command, for every TTL and every delay
\* and number of lost pings that DelayAssumption admits (StartKeepalive).
THEOREM CommandKeptHolds == ClientsSpec => []CommandKept
<1>1. CInv => CommandKept
  BY DEF CInv, Kept, CommandKept
<1> QED
  BY <1>1, ClientsInvariance, PTL
=============================================================================
