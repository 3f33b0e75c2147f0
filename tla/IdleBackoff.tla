---------------------------- MODULE IdleBackoff ----------------------------
(***************************************************************************)
(* The backoff the idle workers of a pod share: a schedule of delays, and  *)
(* a list of parked workers that whoever finds a job wakes.  The list is   *)
(* taken under the mutex, the tokens are sent after it.  Delays are in     *)
(* units of 50 ms.  WorkerPod runs the loops.                              *)
(***************************************************************************)
EXTENDS Integers

CONSTANTS Workers, BaseDelay, MaxDelay

ASSUME DelayAssumption ==
    BaseDelay \in Nat \ {0} /\ MaxDelay \in Nat /\ BaseDelay <= MaxDelay

VARIABLES
    nominal,   \* Idle.nominal
    wakers,    \* Idle.wakers, each channel by its worker
    pc,        \* lease, parked (in WaitOnce), waking (in WakeAll)
    toWake,    \* channels a worker in WakeAll has yet to send to
    token      \* parked workers with a token in their channel

vars == <<nominal, wakers, pc, toWake, token>>

Init ==
    /\ nominal = BaseDelay
    /\ wakers = {}
    /\ pc = [w \in Workers |-> "lease"]
    /\ toWake = [w \in Workers |-> {}]
    /\ token = {}

Least(a, b) == IF a < b THEN a ELSE b

\* Faulty: the table's last step is missing.
advanceShort(d) == IF d = 1 THEN Least(4, MaxDelay) ELSE Least(10, MaxDelay)

\* Faulty: the delay is not cut off at MaxDelay.
advanceUncapped(d) == CASE d = 1 -> 4 [] d = 4 -> 10 [] d = 10 -> 20 [] OTHER -> 2 * d

\* 50, 200, 500, 1000 ms; any other delay doubles.
advance(d) ==
    Least(MaxDelay, CASE d = 1 -> 4 [] d = 4 -> 10 [] d = 10 -> 20 [] OTHER -> 2 * d)

\* No job: the worker registers a channel and parks.
WaitOnce(w) ==
    /\ pc[w] = "lease"
    /\ nominal' = advance(nominal)
    /\ wakers' = wakers \cup {w}
    /\ pc' = [pc EXCEPT ![w] = "parked"]
    /\ UNCHANGED <<toWake, token>>

\* Faulty: a worker that times out leaves its channel in the list.
LeaveListed(w) ==
    /\ pc' = [pc EXCEPT ![w] = "lease"]
    /\ toWake' = [v \in Workers |-> toWake[v] \ {w}]
    /\ token' = token \ {w}
    /\ UNCHANGED <<nominal, wakers>>

\* WaitOnce returns and evicts its channel; a token sent to it later reaches nobody.
Leave(w) ==
    /\ pc' = [pc EXCEPT ![w] = "lease"]
    /\ wakers' = wakers \ {w}
    /\ toWake' = [v \in Workers |-> toWake[v] \ {w}]
    /\ token' = token \ {w}
    /\ UNCHANGED nominal

TimedOut(w) == pc[w] = "parked" /\ Leave(w)

Woken(w) == pc[w] = "parked" /\ w \in token /\ Leave(w)

\* A job was leased: the schedule restarts and the list is taken over.
WakeAll(w) ==
    /\ pc[w] = "lease"
    /\ nominal' = BaseDelay
    /\ toWake' = [toWake EXCEPT ![w] = wakers]
    /\ wakers' = {}
    /\ pc' = [pc EXCEPT ![w] = "waking"]
    /\ UNCHANGED token

\* ... and each channel on it gets a token, without the mutex.
SendToken(w) ==
    /\ \E v \in toWake[w] :
        /\ token' = token \cup {v}
        /\ toWake' = [toWake EXCEPT ![w] = @ \ {v}]
    /\ UNCHANGED <<nominal, wakers, pc>>

\* WakeAll returns; the job is processed and the loop comes back.
Processed(w) ==
    /\ pc[w] = "waking" /\ toWake[w] = {}
    /\ pc' = [pc EXCEPT ![w] = "lease"]
    /\ UNCHANGED <<nominal, wakers, toWake, token>>

-----------------------------------------------------------------------------
\* Types of the state, with the delay between BaseDelay and MaxDelay.
TypeOK ==
    /\ nominal \in BaseDelay .. MaxDelay
    /\ wakers \in SUBSET Workers
    /\ pc \in [Workers -> {"lease", "parked", "waking"}]
    /\ toWake \in [Workers -> SUBSET Workers]
    /\ token \in SUBSET Workers

\* The places that know a parked worker's channel.
Known(w) ==
    (IF w \in wakers THEN {"list"} ELSE {}) \cup (IF w \in token THEN {"token"} ELSE {})
        \cup {v \in Workers : w \in toWake[v]}

\* Nobody is forgotten and nothing accumulates: a parked worker's channel is on the
\* list, or taken by exactly one WakeAll, or has its token; of a worker that is not
\* parked no channel is left anywhere.
KnownOnce ==
    \A w \in Workers :
        IF pc[w] = "parked" THEN \E x \in Known(w) : Known(w) = {x} ELSE Known(w) = {}
=============================================================================
