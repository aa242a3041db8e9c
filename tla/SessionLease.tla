---------------------------- MODULE SessionLease ----------------------------
(***************************************************************************)
(* What the hardware lock promises, without the mechanism that keeps it:   *)
(* at most one session holds the unit; it keeps it until it is finished    *)
(* or until it has been silent for longer than the TTL with no call in     *)
(* progress; a session that lost the unit never gets it back.              *)
(*                                                                         *)
(* There is no counter, no mutex, no waiter and no channel here: the calls *)
(* that pin a lease are a set.  SessionLock.tla implements this module.    *)
(***************************************************************************)
EXTENDS Naturals

CONSTANTS Ids,      \* session identifiers
          NoId,     \* "no session"
          Calls,    \* operational RPCs
          TTL       \* the longest silence a lease survives

VARIABLES holder,   \* the session that holds the unit, or NoId
          used,     \* every session that ever held it
          silence,  \* time since the holder was last heard of
          pins,     \* the holder's calls in progress
          yielded   \* every session that was given up on request

leaseVars == <<holder, used, silence, pins, yielded>>

LeaseInit ==
    /\ holder = NoId
    /\ used = {}
    /\ silence = 0
    /\ pins = {}
    /\ yielded = {}

\* The lease may be taken away from its holder.
Over == /\ holder # NoId
        /\ pins = {}
        /\ silence > TTL

\* A session that never held the unit gets it, if nobody has a claim to it.
Grant(i) ==
    /\ holder = NoId \/ Over
    /\ i \notin used
    /\ holder' = i
    /\ used' = used \cup {i}
    /\ silence' = 0
    /\ pins' = {}
    /\ UNCHANGED yielded

\* The lease ends by expiry ...
Lapse ==
    /\ Over
    /\ holder' = NoId
    /\ pins' = {}
    /\ UNCHANGED <<used, silence, yielded>>

\* ... or because somebody who knows the holder's id gives it up.
GiveUp ==
    /\ holder # NoId
    /\ holder' = NoId
    /\ pins' = {}
    /\ yielded' = yielded \cup {holder}
    /\ UNCHANGED <<used, silence>>

\* The holder is heard of.
Touch ==
    /\ holder # NoId
    /\ ~Over
    /\ silence' = 0
    /\ UNCHANGED <<holder, used, pins, yielded>>

\* A call of the holder begins and pins the lease; it ends and unpins it.
Begin(k) ==
    /\ holder # NoId
    /\ ~Over
    /\ k \notin pins
    /\ pins' = pins \cup {k}
    /\ silence' = 0
    /\ UNCHANGED <<holder, used, yielded>>

End(k) ==
    /\ k \in pins
    /\ pins' = pins \ {k}
    /\ silence' = 0
    /\ UNCHANGED <<holder, used, yielded>>

\* Time passes.
Age ==
    /\ holder # NoId
    /\ silence' = silence + 1
    /\ UNCHANGED <<holder, used, pins, yielded>>

LeaseNext ==
    \/ \E i \in Ids : Grant(i)
    \/ Lapse
    \/ GiveUp
    \/ Touch
    \/ \E k \in Calls : Begin(k) \/ End(k)
    \/ Age

LeaseSpec == LeaseInit /\ [][LeaseNext]_leaseVars
=============================================================================
