----------------------------- MODULE WorkerPod -----------------------------
(***************************************************************************)
(* A worker pod in time: its loops with their shared idle backoff, the     *)
(* /livez endpoint fed by their lease attempts, and the kubelet that       *)
(* probes it and restarts the container.                                   *)
(***************************************************************************)
EXTENDS IdleBackoff

CONSTANTS
    TickUnits,        \* a tick in the units of the delays
    ParkTicks,        \* ticks that the longest wait takes
    LeaseTicks,       \* ticks in which the database answers unless it hangs
    LiveAfter,        \* Server.liveAfter, in ticks
    FailureThreshold  \* livenessProbe.failureThreshold

ASSUME PodAssumption ==
    /\ TickUnits \in Nat \ {0} /\ ParkTicks \in Nat \ {0} /\ LeaseTicks \in Nat
    /\ 4 * TickUnits * ParkTicks >= 5 * MaxDelay
    /\ LiveAfter \in Nat /\ FailureThreshold \in Nat \ {0}
    /\ LiveAfter >= ParkTicks + LeaseTicks

VARIABLES
    since,     \* ticks since Status.LastLeaseAttemptTS, saturating; Never: zero
    left,      \* ticks left of a worker's timer or of its lease statement
    hung,      \* workers whose lease statement gets no answer
    fails,     \* consecutive failed liveness probes
    jobless    \* workers whose last lease attempt found no job (history)

podVars == <<since, left, hung, fails, jobless>>
allVars == <<vars, podVars>>

Never == -1

PodInit ==
    /\ Init
    /\ since = Never
    /\ left = [w \in Workers |-> LeaseTicks]
    /\ hung = {}
    /\ fails = 0
    /\ jobless = {}

-----------------------------------------------------------------------------
\* Faulty: only an attempt that found a job is recorded.
OnLeaseSuccess(success) == since' = IF success THEN 0 ELSE since

\* Status.OnLeaseAttempt, called after every LeaseJob, whatever it returned.
OnLeaseAttempt(success) == since' = 0

\* n ticks are a delay of d, jittered by a quarter, rounded up.
jitter(d, n) == 4 * TickUnits * n >= 3 * d /\ 4 * TickUnits * (n - 1) < 5 * d

\* No job, or the statement failed: the attempt is recorded and the worker parks.
LeasedNone(w) ==
    /\ w \notin hung
    /\ OnLeaseAttempt(FALSE)
    /\ WaitOnce(w)
    /\ \E n \in 1 .. ParkTicks : jitter(nominal, n) /\ left' = [left EXCEPT ![w] = n]
    /\ jobless' = jobless \cup {w}
    /\ UNCHANGED <<hung, fails>>

\* A job: the attempt is recorded, the parked workers are woken, the transfer begins.
LeasedJob(w) ==
    /\ w \notin hung
    /\ OnLeaseAttempt(TRUE)
    /\ WakeAll(w)
    /\ left' = [left EXCEPT ![w] = 0]
    /\ jobless' = jobless \ {w}
    /\ UNCHANGED <<hung, fails>>

\* The loop comes back to LeaseJob: its timer fired, a token came or its job is done.
Again(w) ==
    /\ (left[w] = 0 /\ TimedOut(w)) \/ Woken(w) \/ Processed(w)
    /\ left' = [left EXCEPT ![w] = LeaseTicks]
    /\ UNCHANGED <<since, hung, fails, jobless>>

Waking(w) == SendToken(w) /\ UNCHANGED podVars

\* The database stops answering the statement.
Hang(w) ==
    /\ pc[w] = "lease" /\ w \notin hung
    /\ hung' = hung \cup {w}
    /\ UNCHANGED <<vars, since, left, fails, jobless>>

Transferring(w) == pc[w] = "waking" /\ toWake[w] = {}

Aged(a) == IF a # Never /\ a <= LiveAfter THEN a + 1 ELSE a

\* A tick: no timer or answer is overdue.
Tick ==
    /\ \A w \in Workers : Transferring(w) \/ w \in hung \/ left[w] > 0
    /\ since' = Aged(since)
    /\ left' = [w \in Workers |-> IF left[w] > 0 THEN left[w] - 1 ELSE 0]
    /\ UNCHANGED <<vars, hung, fails, jobless>>

\* Faulty: the gate on a recorded attempt is inverted.
StaleBeforeFirst == since = Never

\* GET /livez answers 503.
Stale == since # Never /\ since > LiveAfter

\* The kubelet restarts the container: a new process with new loops.
Restart ==
    /\ nominal' = BaseDelay /\ wakers' = {} /\ token' = {}
    /\ pc' = [w \in Workers |-> "lease"]
    /\ toWake' = [w \in Workers |-> {}]
    /\ since' = Never /\ fails' = 0
    /\ left' = [w \in Workers |-> LeaseTicks]
    /\ hung' = {} /\ jobless' = {}

\* A probe of the kubelet: a passed one forgets the failures, the last allowed
\* failure ends the container.
Probe ==
    \/ /\ fails' = IF Stale THEN fails + 1 ELSE 0
       /\ fails' < FailureThreshold
       /\ UNCHANGED <<vars, since, left, hung, jobless>>
    \/ Stale /\ fails + 1 = FailureThreshold /\ Restart

-----------------------------------------------------------------------------
LoopStep(w) == LeasedNone(w) \/ LeasedJob(w) \/ Again(w) \/ Waking(w)

PodNext == (\E w \in Workers : LoopStep(w) \/ Hang(w)) \/ Tick \/ Probe

-----------------------------------------------------------------------------
\* Types of the state, the backoff's included.
PodTypeOK ==
    /\ TypeOK
    /\ since \in Never .. LiveAfter + 1
    /\ left \in [Workers -> 0 .. ParkTicks + LeaseTicks]
    /\ hung \in SUBSET Workers
    /\ fails \in 0 .. FailureThreshold - 1
    /\ jobless \in SUBSET Workers

\* "only a genuinely wedged lease loop trips it": /livez fails only when every loop
\* whose last attempt found no job hangs in its next lease statement.  An idle loop
\* that polls, however slowed down by the shared backoff, keeps the pod alive.
LiveWhilePolling == Stale => jobless \subseteq hung

\* "only a genuinely wedged lease loop trips /livez and the kubelet restarts the pod":
\* a container ends only while some lease statement hangs.  Loops that are all in a
\* transfer record no attempt either.
OnlyWedgedRestarts == [][since # Never /\ since' = Never => hung # {}]_allVars

Stuck(w) == Transferring(w) \/ w \in hung

\* "so a wedged worker is restarted by the kubelet": a pod that has recorded an
\* attempt does not stay for ever with every loop hung in a statement or a transfer.
StuckPodRestarts == ~<>[](since # Never /\ \A w \in Workers : Stuck(w))
=============================================================================
