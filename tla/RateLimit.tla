------------------------------- MODULE RateLimit -------------------------------
(***************************************************************************)
(* TelegramRateLimitService.consume: a sliding window of timestamps per    *)
(* user, kept in memory, that every button press passes first.             *)
(*                                                                         *)
(* A bucket holds the calls whose timestamps the code keeps; their times   *)
(* are looked up in calls, the history of the process.                     *)
(***************************************************************************)
EXTENDS Integers, Sequences, FiniteSets

CONSTANTS
    Users,      \* keys: telegram:<id>
    Limit,      \* security.actionRateLimitPerMinute
    Second,     \* 1_000, in ticks of the clock
    Window,     \* 60_000, in ticks of the clock
    MaxTime,    \* bound on the clock
    MaxCalls    \* bound on calls in the life of a process

ASSUME RateLimitConstants ==
    /\ Limit \in Nat \ {0} /\ Second \in Nat \ {0} /\ Window \in Nat \ {0}
    /\ MaxTime \in Nat /\ MaxCalls \in Nat

\* retry: the seconds a refused user is told to wait, 0 when allowed.
CallRecords == [user : Users, at : Nat, allowed : BOOLEAN, retry : Nat]

VARIABLES
    now,        \* Date.now()
    calls,      \* ghost: calls of consume since the process started
    buckets     \* the calls each user's timestamps are of

vars == <<now, calls, buckets>>

TypeOK ==
    /\ now \in 0..MaxTime
    /\ calls \in Seq(CallRecords)
    /\ buckets \in [Users -> SUBSET (DOMAIN calls)]

Init ==
    /\ now = 0
    /\ calls = <<>>
    /\ buckets = [u \in Users |-> {}]

\* Mutated form of Kept: the start of the window is outside it.
Kept_Open(u) == {i \in buckets[u] : calls[i].at > now - Window}

\* The timestamps of u that are still in the window.
Kept(u) == {i \in buckets[u] : calls[i].at >= now - Window}

\* Mutated form of RetryAfter: rounded down.
RetryAfter_Floor(t) == IF t < Second THEN 1 ELSE t \div Second

\* Math.max(1, Math.ceil(t / 1_000)).
RetryAfter(t) == IF t < Second THEN 1 ELSE (t + Second - 1) \div Second

Record(u, allowed, retry) ==
    calls' = Append(calls, [user |-> u, at |-> now, allowed |-> allowed, retry |-> retry])

Allow(u) ==
    /\ Len(calls) < MaxCalls
    /\ Cardinality(Kept(u)) < Limit
    /\ Record(u, TRUE, 0)
    /\ buckets' = [buckets EXCEPT ![u] = Kept(u) \cup {Len(calls) + 1}]
    /\ UNCHANGED now

\* Mutated form of Refuse: the refused call takes a place in the bucket.
Refuse_Counts(u) ==
    /\ Len(calls) < MaxCalls
    /\ Cardinality(Kept(u)) >= Limit
    /\ \E first \in Kept(u) :
          /\ \A i \in Kept(u) : first <= i
          /\ Record(u, FALSE, RetryAfter(calls[first].at + Window - now))
    /\ buckets' = [buckets EXCEPT ![u] = Kept(u) \cup {Len(calls) + 1}]
    /\ UNCHANGED now

\* The first kept timestamp says when a place becomes free.
Refuse(u) ==
    /\ Len(calls) < MaxCalls
    /\ Cardinality(Kept(u)) >= Limit
    /\ \E first \in Kept(u) :
          /\ \A i \in Kept(u) : first <= i
          /\ Record(u, FALSE, RetryAfter(calls[first].at + Window - now))
    /\ buckets' = [buckets EXCEPT ![u] = Kept(u)]
    /\ UNCHANGED now

Tick ==
    /\ now < MaxTime
    /\ now' = now + 1
    /\ UNCHANGED <<calls, buckets>>

\* Mutated form of Restart: the buckets outlive the process.
Restart_KeepBuckets ==
    /\ calls' = <<>>
    /\ UNCHANGED <<now, buckets>>

\* The buckets die with the process.
Restart ==
    /\ calls' = <<>>
    /\ buckets' = [u \in Users |-> {}]
    /\ UNCHANGED now

Next ==
    \/ \E u \in Users : Allow(u) \/ Refuse(u)
    \/ Tick
    \/ Restart

Spec == Init /\ [][Next]_vars

(***************************************************************************)
(* Properties.                                                             *)
(***************************************************************************)
\* The allowed calls before i that are in the window of i and of the same user.
InWindow(i) ==
    {j \in 1..(i - 1) : /\ calls[j].allowed /\ calls[j].user = calls[i].user
                        /\ calls[j].at >= calls[i].at - Window}

\* In the life of a process no user is allowed more than Limit actions in any minute, both
\* its ends included.
NeverOverLimit ==
    \A i \in DOMAIN calls : calls[i].allowed => Cardinality(InWindow(i)) < Limit

\* A user is refused only for Limit actions of their own in the last minute: neither
\* refused attempts nor other users use up a place.
RefusalIsDeserved ==
    \A i \in DOMAIN calls : ~calls[i].allowed => Cardinality(InWindow(i)) = Limit

\* Whoever was refused, told to wait so many seconds and waits longer than told, with nothing
\* done in between, is not refused again.  At exactly the told second it may happen once
\* more: consume keeps a timestamp at the very start of the window.
RetryIsHonoured ==
    \A i, j \in DOMAIN calls :
        /\ i < j /\ calls[i].user = calls[j].user
        /\ ~calls[i].allowed
        /\ calls[j].at > calls[i].at + calls[i].retry * Second
        /\ \A k \in i..(j - 1) : calls[k].user = calls[i].user => ~calls[k].allowed
        => calls[j].allowed

\* Whoever was refused and comes back a second or more too early is refused again: the
\* wait is no longer than it has to be.
RetryIsNeeded ==
    \A i, j \in DOMAIN calls :
        /\ i < j /\ calls[i].user = calls[j].user
        /\ ~calls[i].allowed
        /\ calls[j].at + Second <= calls[i].at + calls[i].retry * Second
        => ~calls[j].allowed

\* Waiting longer than the seconds a refused user is told is enough, and coming back a whole
\* second before they are over is not.
RetryIsExact == RetryIsHonoured /\ RetryIsNeeded
================================================================================
