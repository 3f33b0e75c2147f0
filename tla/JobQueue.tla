------------------------------ MODULE JobQueue ------------------------------
(***************************************************************************)
(* The transfer_jobs queue: enqueue, lease, process, final write, sweeper, *)
(* retention, graceful drain, crash and restart.                           *)
(*                                                                         *)
(* Every SQL statement and every committed transaction is one step; what   *)
(* happens between two of them is where the processes interleave.  Time is *)
(* relative: a row carries the ticks since its last write and the ticks    *)
(* until it is due, both saturating, so that time is unbounded and the     *)
(* state space finite.                                                     *)
(***************************************************************************)
EXTENDS Integers, FiniteSets, Functions

CONSTANTS
    Keys,              \* (trace_id, dst) pairs
    MaxId,             \* bound: ids the BIGSERIAL hands out
    Pods,              \* pod names
    WorkersPerPod,     \* Runner.Workers
    Budgets,           \* max_attempts values an enqueuer asks for
    DefaultBudget,     \* the column default of max_attempts
    MaxDelay,          \* bound: longest retry backoff, in ticks
    Threshold,         \* sweeper Config.Threshold, in ticks
    Window,            \* retention Config.Window, in ticks; 0 disables it
    Horizon,           \* bound: ticks overdue that are told apart
    ExpireCap,         \* bound: expire events counted per row
    Faults,            \* subset of {"kill", "sigterm", "dberror", "latelease"}
    NoOne, NoKey       \* SQL NULL of locked_by, key of an absent row

Ids == 1 .. MaxId
Workers == Pods \X (0 .. WorkersPerPod - 1)
PodOf(w) == w[1]

ASSUME BoundsAssumption ==
    /\ MaxId \in Nat /\ WorkersPerPod \in Nat
    /\ Budgets \subseteq Nat \ {0} /\ DefaultBudget \in Nat \ {0}
    /\ MaxDelay \in Nat \ {0} /\ Threshold \in Nat /\ Window \in Nat
    /\ Horizon \in Nat /\ ExpireCap \in Nat

ASSUME NullAssumption == NoOne \notin Workers /\ NoKey \notin Keys

Live == {"pending", "leased"}
Terminal == {"succeeded", "skipped", "dead"}
EventKinds == {"enqueue", "lease", "success", "skip", "fail", "expire", "dead"}
AgeCap == (IF Threshold > Window THEN Threshold ELSE Window) + 1
Outcomes == {"success", "skippable", "permanent", "retryable", "factory", "panic"}

VARIABLES
    jobs,      \* transfer_jobs by id
    events,    \* transfer_events: how many of each kind a row has
    nextId,    \* the BIGSERIAL sequence
    pod,       \* process of a pod: up, term (ctx cancelled), down
    pc,        \* where a worker's loop is
    job,       \* the Job snapshot a worker took when it leased
    out,       \* how the transfer in hand ended
    ghost      \* workers with a lease statement abandoned but still running

table == <<jobs, events>>
local == <<pc, job, out>>
vars == <<jobs, events, nextId, pod, pc, job, out, ghost>>

NoRow == [key |-> NoKey, status |-> "none", attempts |-> 0, max_attempts |-> 0,
          locked_by |-> NoOne, run_in |-> 0, age |-> 0]
NoEvents == [e \in EventKinds |-> 0]
NoJob == [id |-> 0, attempts |-> 0, max_attempts |-> 0]

Row == [key : Keys \cup {NoKey}, status : Live \cup Terminal \cup {"none"},
        attempts : Nat, max_attempts : Nat, locked_by : Workers \cup {NoOne},
        run_in : -Horizon .. MaxDelay, age : 0 .. AgeCap]
Job == [id : Ids \cup {0}, attempts : Nat, max_attempts : Nat]

Init ==
    /\ jobs = [i \in Ids |-> NoRow]
    /\ events = [i \in Ids |-> NoEvents]
    /\ nextId = 1
    /\ pod = [p \in Pods |-> "up"]
    /\ pc = [w \in Workers |-> "lease"]
    /\ job = [w \in Workers |-> NoJob]
    /\ out = [w \in Workers |-> "retryable"]
    /\ ghost = {}

-----------------------------------------------------------------------------
\* Enqueueing

Keyed(k) == \E i \in Ids : jobs[i].status # "none" /\ jobs[i].key = k

NewRow(k, m) ==
    [key |-> k, status |-> "pending", attempts |-> 0, max_attempts |-> m,
     locked_by |-> NoOne, run_in |-> 0, age |-> 0]

\* jobs.Enqueue: row and 'enqueue' event in one transaction.  On a conflict the
\* transaction only reads, so that case is no step.
Enqueue(k, m) ==
    /\ ~Keyed(k)
    /\ nextId \in Ids
    /\ jobs' = [jobs EXCEPT ![nextId] = NewRow(k, m)]
    /\ events' = [events EXCEPT ![nextId]["enqueue"] = 1]
    /\ nextId' = nextId + 1
    /\ UNCHANGED <<pod, local, ghost>>

\* The sniffer's multi-row INSERT ... ON CONFLICT DO NOTHING: the rows not yet
\* there, in one statement, with no event.
EnqueueBatch(S) ==
    \E last \in nextId .. MaxId :
    \E f \in Bijection(nextId .. last, {k \in S : ~Keyed(k)}) :
        /\ jobs' = [i \in Ids |-> IF i \in nextId .. last
                                  THEN NewRow(f[i], DefaultBudget) ELSE jobs[i]]
        /\ nextId' = last + 1
        /\ UNCHANGED <<events, pod, local, ghost>>

-----------------------------------------------------------------------------
\* Leasing

Due(i) == jobs[i].status = "pending" /\ jobs[i].run_in <= 0

\* ORDER BY next_run_at, id; rows overdue beyond Horizon are not told apart.
Before(i, j) ==
    \/ jobs[i].run_in < jobs[j].run_in
    \/ jobs[i].run_in = jobs[j].run_in /\ jobs[i].run_in > -Horizon /\ i < j

\* Workers whose lease statement may be running and hold one row locked.
Leasing == {w \in Workers : pc[w] = "lease" /\ pod[PodOf(w)] = "up"} \cup ghost

\* The oldest due row, SKIP LOCKED: each other lease statement in flight may
\* hide one older row.
Leasable(w, i) ==
    /\ Due(i)
    /\ Cardinality({k \in Ids : Due(k) /\ Before(k, i)})
         <= Cardinality(Leasing \ {w})

\* Faulty: the lease counts as an attempt, but the snapshot is the row before it.
LeaseRowCounting(w, i) ==
    [jobs[i] EXCEPT !.status = "leased", !.locked_by = w, !.age = 0, !.attempts = @ + 1]

LeaseRow(w, i) == [jobs[i] EXCEPT !.status = "leased", !.locked_by = w, !.age = 0]

\* LeaseJob answered with a row.  An empty queue or an error is no step.
LeaseJob(w, i) ==
    /\ pc[w] = "lease" /\ pod[PodOf(w)] = "up"
    /\ Leasable(w, i)
    /\ jobs' = [jobs EXCEPT ![i] = LeaseRow(w, i)]
    /\ job' = [job EXCEPT ![w] = [id |-> i, attempts |-> jobs[i].attempts,
                                  max_attempts |-> jobs[i].max_attempts]]
    /\ pc' = [pc EXCEPT ![w] = "process"]
    /\ UNCHANGED <<events, nextId, pod, out, ghost>>

\* LeaseJob returns an error with the statement sent (connection lost): the loop
\* goes on, the server may still run it.
AbandonLease(w) ==
    /\ "latelease" \in Faults
    /\ pc[w] = "lease" /\ pod[PodOf(w)] = "up"
    /\ ghost' = ghost \cup {w}
    /\ UNCHANGED <<table, nextId, pod, local>>

\* The abandoned statement commits: a row leased by a worker that does not know.
LateLease(w, i) ==
    /\ w \in ghost
    /\ Leasable(w, i)
    /\ jobs' = [jobs EXCEPT ![i] = LeaseRow(w, i)]
    /\ ghost' = ghost \ {w}
    /\ UNCHANGED <<events, nextId, pod, local>>

\* ... or is rolled back, or finds the queue empty.
LateLeaseLost(w) ==
    /\ w \in ghost
    /\ ghost' = ghost \ {w}
    /\ UNCHANGED <<table, nextId, pod, local>>

-----------------------------------------------------------------------------
\* Processing and the final write

\* Source.Open, Transport.Send, size check and Close, with the class of the first
\* error; "factory" is an unknown protocol, "panic" a recovered one.
ProcessJob(w, o) ==
    /\ pc[w] = "process"
    /\ out' = [out EXCEPT ![w] = o]
    /\ pc' = [pc EXCEPT ![w] = "write"]
    /\ UNCHANGED <<table, nextId, pod, job, ghost>>

\* Faulty: off by one on the last attempt.
ExhaustedLate(w) == job[w].attempts + 1 > job[w].max_attempts

Exhausted(w) == job[w].attempts + 1 >= job[w].max_attempts

\* Faulty: the guard forgets locked_by.
LeasedByAnyone(w) == job[w].id \in Ids /\ jobs[job[w].id].status = "leased"

\* WHERE id=$1 AND status='leased' AND locked_by=$me
HoldsLease(w) ==
    /\ job[w].id \in Ids
    /\ jobs[job[w].id].status = "leased"
    /\ jobs[job[w].id].locked_by = w

\* Faulty: the event does not depend on the row the UPDATE matched.
SettleAndLog(w, row, event) ==
    /\ jobs' = IF HoldsLease(w)
               THEN [jobs EXCEPT ![job[w].id] = [row EXCEPT !.locked_by = NoOne, !.age = 0]]
               ELSE jobs
    /\ events' = [events EXCEPT ![job[w].id][event] = @ + 1]

\* The writable CTE: the UPDATE under the lease guard and, for the row it
\* matched, the event.
Settle(w, row, event) ==
    IF HoldsLease(w)
    THEN /\ jobs' = [jobs EXCEPT ![job[w].id] =
                        [row EXCEPT !.locked_by = NoOne, !.age = 0]]
         /\ events' = [events EXCEPT ![job[w].id][event] = @ + 1]
    ELSE UNCHANGED table

\* Faulty: a success is logged whoever holds the row.
writeSuccessAndLog(w) ==
    SettleAndLog(w, [jobs[job[w].id] EXCEPT !.status = "succeeded"], "success")

writeSuccess(w) ==
    Settle(w, [jobs[job[w].id] EXCEPT !.status = "succeeded"], "success")

\* Faulty: the event's name is stored as the row's status.
writeTerminalSwapped(w, status, event, attempts) ==
    Settle(w, [jobs[job[w].id] EXCEPT !.status = event, !.attempts = attempts],
           event)

writeTerminal(w, status, event, attempts) ==
    Settle(w, [jobs[job[w].id] EXCEPT !.status = status, !.attempts = attempts],
           event)

\* Faulty: a retry spends no attempt and leaves no trace.
RetryForFree(w) ==
    /\ jobs' = IF HoldsLease(w)
               THEN [jobs EXCEPT ![job[w].id] = [@ EXCEPT !.status = "pending", !.run_in = 1,
                                                    !.locked_by = NoOne, !.age = 0]]
               ELSE jobs
    /\ UNCHANGED events

\* 2^attempts seconds and some jitter: any delay up to the bound, also none, as when
\* the Duration overflows or the shift is out of range.
retryBackoff == 0 .. MaxDelay

\* A retry is due after the backoff; the last attempt is terminal.
writeRetryOrDead(w) ==
    IF Exhausted(w)
    THEN writeTerminal(w, "dead", "dead", job[w].attempts + 1)
    ELSE \E delay \in retryBackoff :
            Settle(w, [jobs[job[w].id] EXCEPT !.status = "pending",
                            !.attempts = job[w].attempts + 1, !.run_in = delay],
                   "fail")

WriteOutcome(w) ==
    CASE out[w] = "success" -> writeSuccess(w)
      [] out[w] = "skippable" -> writeTerminal(w, "skipped", "skip", job[w].attempts)
      [] out[w] \in {"permanent", "factory"} ->
            writeTerminal(w, "dead", "dead", job[w].attempts + 1)
      [] OTHER -> writeRetryOrDead(w)

\* Back to the top of the loop.
NextIteration(w) ==
    /\ pc' = [pc EXCEPT ![w] = "lease"]
    /\ job' = [job EXCEPT ![w] = NoJob]
    /\ out' = [out EXCEPT ![w] = "retryable"]
    /\ UNCHANGED <<nextId, pod, ghost>>

\* The final statement commits, whether or not its answer arrives: the loop drops
\* the error.  A ctx cancelled before sends nothing, except after a panic, which
\* writes under a fresh one.
FinishJob(w) ==
    /\ pc[w] = "write"
    /\ pod[PodOf(w)] = "up" \/ out[w] = "panic"
    /\ WriteOutcome(w)
    /\ NextIteration(w)

\* The final statement fails and changes nothing; the error is dropped.
WriteError(w) ==
    /\ pc[w] = "write"
    /\ \/ "dberror" \in Faults
       \/ pod[PodOf(w)] = "term" /\ out[w] # "panic"
    /\ NextIteration(w)
    /\ UNCHANGED table

-----------------------------------------------------------------------------
\* Shutdown, crash and restart

WorkersOf(p) == {w \in Workers : PodOf(w) = p}

\* Lease statements of p that outlive the call that sent them.
Abandoned(p) ==
    SUBSET {w \in WorkersOf(p) :
                "latelease" \in Faults /\ pc[w] = "lease" /\ pod[p] = "up"}

\* Faulty: a lost lease counts as an attempt.
RequeuedCounting(S) ==
    [i \in Ids |-> IF i \in S THEN [jobs[i] EXCEPT !.status = "pending", !.attempts = @ + 1,
                                        !.locked_by = NoOne, !.age = 0]
                   ELSE jobs[i]]

\* Faulty: locked_by keeps the name of the last holder.
RequeuedHeld(S) ==
    [i \in Ids |-> IF i \in S THEN [jobs[i] EXCEPT !.status = "pending", !.age = 0]
                   ELSE jobs[i]]

Requeued(S) ==
    [i \in Ids |-> IF i \in S THEN [jobs[i] EXCEPT !.status = "pending",
                                        !.locked_by = NoOne, !.age = 0]
                   ELSE jobs[i]]

\* SIGTERM cancels the ctx every goroutine of the process runs under.
Sigterm(p) ==
    /\ "sigterm" \in Faults
    /\ pod[p] = "up"
    /\ pod' = [pod EXCEPT ![p] = "term"]
    /\ \E S \in Abandoned(p) : ghost' = ghost \cup S
    /\ UNCHANGED <<table, nextId, local>>

\* Faulty: the drain runs under the cancelled ctx and updates nothing.
drainCancelled(w) ==
    /\ pc[w] = "lease" /\ pod[PodOf(w)] = "term"
    /\ pc' = [pc EXCEPT ![w] = "drained"]
    /\ UNCHANGED <<table, nextId, pod, job, out, ghost>>

\* The loop sees ctx.Err(); drainLease requeues every row leased under its name.
drainLease(w) ==
    /\ pc[w] = "lease" /\ pod[PodOf(w)] = "term"
    /\ jobs' = Requeued({i \in Ids : jobs[i].status = "leased"
                                     /\ jobs[i].locked_by = w})
    /\ pc' = [pc EXCEPT ![w] = "drained"]
    /\ UNCHANGED <<events, nextId, pod, job, out, ghost>>

\* drainLease fails: logged and ignored.
DrainError(w) ==
    /\ "dberror" \in Faults
    /\ pc[w] = "lease" /\ pod[PodOf(w)] = "term"
    /\ pc' = [pc EXCEPT ![w] = "off"]
    /\ UNCHANGED <<table, nextId, pod, job, out, ghost>>

\* Runner.Run returns once every loop has: the process exits.
Exit(p) ==
    /\ pod[p] = "term"
    /\ \A w \in WorkersOf(p) : pc[w] \in {"drained", "off"}
    /\ pod' = [pod EXCEPT ![p] = "down"]
    /\ UNCHANGED <<table, nextId, local, ghost>>

\* SIGKILL, OOM, node loss.
Kill(p) ==
    /\ "kill" \in Faults
    /\ pod[p] # "down"
    /\ pod' = [pod EXCEPT ![p] = "down"]
    /\ \E S \in Abandoned(p) : ghost' = ghost \cup S
    /\ pc' = [w \in Workers |-> IF PodOf(w) = p THEN "off" ELSE pc[w]]
    /\ job' = [w \in Workers |-> IF PodOf(w) = p THEN NoJob ELSE job[w]]
    /\ out' = [w \in Workers |-> IF PodOf(w) = p THEN "retryable" ELSE out[w]]
    /\ UNCHANGED <<table, nextId>>

\* The container restarts in its pod: same pod name, same worker names.
Restart(p) ==
    /\ pod[p] = "down"
    /\ pod' = [pod EXCEPT ![p] = "up"]
    /\ pc' = [w \in Workers |-> IF PodOf(w) = p THEN "lease" ELSE pc[w]]
    /\ UNCHANGED <<table, nextId, job, out, ghost>>

-----------------------------------------------------------------------------
\* Background loops and time

\* Faulty: a lease as old as the threshold is taken.
ExpiredInclusive(i) == jobs[i].status = "leased" /\ jobs[i].age >= Threshold

Expired(i) == jobs[i].status = "leased" /\ jobs[i].age > Threshold

\* Faulty: a pod sweeps only the leases of its own workers.
SweepOwn(p) ==
    LET S == {i \in Ids : Expired(i) /\ jobs[i].locked_by \in WorkersOf(p)} IN
    /\ pod[p] = "up"
    /\ S # {}
    /\ jobs' = Requeued(S)
    /\ UNCHANGED <<events, nextId, pod, local, ghost>>

\* Faulty: the events do not depend on the rows the UPDATE matched.
SweepAndLogOld(p) ==
    /\ pod[p] = "up"
    /\ jobs' = Requeued({i \in Ids : Expired(i)})
    /\ events' = [i \in Ids |-> IF jobs[i].age > Threshold /\ events[i]["expire"] < ExpireCap
                                THEN [events[i] EXCEPT !["expire"] = @ + 1]
                                ELSE events[i]]
    /\ UNCHANGED <<nextId, pod, local, ghost>>

\* sweeper.Sweep, committed: every expired lease, one 'expire' event each.  A cycle
\* that rolls back, misses the advisory lock or finds nothing is no step.
Sweep(p) ==
    LET S == {i \in Ids : Expired(i)} IN
    /\ pod[p] = "up"
    /\ S # {}
    /\ jobs' = Requeued(S)
    /\ events' = [i \in Ids |-> IF i \in S /\ events[i]["expire"] < ExpireCap
                                THEN [events[i] EXCEPT !["expire"] = @ + 1]
                                ELSE events[i]]
    /\ UNCHANGED <<nextId, pod, local, ghost>>

\* Faulty: a row still in the queue is purged for its age.
PurgeableLive(i) == jobs[i].status # "none" /\ jobs[i].age > Window

Purgeable(i) == jobs[i].status \in Terminal /\ jobs[i].age > Window

\* retention.Sweep, committed: batches until a short one, events by cascade.
Retention(p) ==
    LET S == {i \in Ids : Purgeable(i)} IN
    /\ Window > 0
    /\ pod[p] = "up"
    /\ S # {}
    /\ jobs' = [i \in Ids |-> IF i \in S THEN NoRow ELSE jobs[i]]
    /\ events' = [i \in Ids |-> IF i \in S THEN NoEvents ELSE events[i]]
    /\ UNCHANGED <<nextId, pod, local, ghost>>

\* Nothing reads how long ago a pending row was written: its age stays 0.
Aged(r) ==
    IF r.status = "none" THEN r
    ELSE [r EXCEPT !.age = IF @ < AgeCap /\ r.status # "pending" THEN @ + 1 ELSE @,
                   !.run_in = IF @ > -Horizon THEN @ - 1 ELSE @]

\* One tick.  A lease statement waits for no lock (SKIP LOCKED): one abandoned
\* before the tick is over after it, long before a lease can expire.
Tick ==
    /\ jobs' = [i \in Ids |-> Aged(jobs[i])]
    /\ ghost' = {}
    /\ UNCHANGED <<events, nextId, pod, local>>

-----------------------------------------------------------------------------
WorkerStep(w) ==
    \/ \E i \in Ids : LeaseJob(w, i)
    \/ AbandonLease(w)
    \/ \E i \in Ids : LateLease(w, i)
    \/ LateLeaseLost(w)
    \/ \E o \in Outcomes : ProcessJob(w, o)
    \/ FinishJob(w)
    \/ WriteError(w)
    \/ drainLease(w)
    \/ DrainError(w)

PodStep(p) ==
    \/ Sigterm(p) \/ Exit(p) \/ Kill(p) \/ Restart(p)
    \/ Sweep(p) \/ Retention(p)

Next ==
    \/ \E k \in Keys, m \in Budgets : Enqueue(k, m)
    \/ \E S \in SUBSET Keys : EnqueueBatch(S)
    \/ \E w \in Workers : WorkerStep(w)
    \/ \E p \in Pods : PodStep(p)
    \/ Tick

Spec == Init /\ [][Next]_vars

\* A loop that can go on does (the Go scheduler and the drivers' timeouts), time
\* passes, a stopped container is restarted, and the sweeper of a pod that stays up
\* comes round: each process has a ticker of its own and does not sweep before it.
Fairness ==
    /\ \A w \in Workers :
        /\ WF_vars(\E i \in Ids : LeaseJob(w, i))
        /\ WF_vars(\E o \in Outcomes : ProcessJob(w, o))
        /\ WF_vars(FinishJob(w) \/ WriteError(w))
        /\ WF_vars(drainLease(w) \/ DrainError(w))
    /\ \A p \in Pods : WF_vars(Exit(p)) /\ WF_vars(Restart(p)) /\ WF_vars(Sweep(p))
    /\ WF_vars(Tick)

FairSpec == Spec /\ Fairness

-----------------------------------------------------------------------------
\* Types of the state.
TypeOK ==
    /\ jobs \in [Ids -> Row]
    /\ events \in [Ids -> [EventKinds -> Nat]]
    /\ nextId \in 1 .. MaxId + 1
    /\ pod \in [Pods -> {"up", "term", "down"}]
    /\ pc \in [Workers -> {"lease", "process", "write", "drained", "off"}]
    /\ job \in [Workers -> Job]
    /\ out \in [Workers -> Outcomes]
    /\ ghost \in SUBSET Workers

\* Audit trail of attempts: a row's attempts column is the number of its 'fail' and
\* 'dead' events.  A late finisher, a sweep, a drain or a lost answer never makes
\* the retry counter and the event log disagree.
AttemptsAudited ==
    \A i \in Ids : jobs[i].attempts = events[i]["fail"] + events[i]["dead"]

Outcome(i) ==
    CASE jobs[i].status = "succeeded" -> "success"
      [] jobs[i].status = "skipped" -> "skip"
      [] jobs[i].status = "dead" -> "dead"
      [] OTHER -> ""

\* Audit trail of outcomes: a terminal row has exactly one terminal event, the one
\* of its status, and a row still in the queue has none, however many workers
\* transferred it.
OutcomeAudited ==
    \A i \in Ids : \A e \in {"success", "skip", "dead"} :
        events[i][e] = IF e = Outcome(i) THEN 1 ELSE 0

\* Retry budget: a row that can still be leased has an attempt left, and no row
\* ever spends more than max_attempts.
BudgetRespected ==
    \A i \in Ids :
        /\ jobs[i].attempts <= jobs[i].max_attempts
        /\ jobs[i].status \in Live => jobs[i].attempts < jobs[i].max_attempts

\* No lost update: while the lease guard would let a worker's final write
\* through, the attempts it read when it leased are still those of the row.
FreshSnapshot ==
    \A w \in Workers : HoldsLease(w) =>
        job[w] = [id |-> job[w].id, attempts |-> jobs[job[w].id].attempts,
                  max_attempts |-> jobs[job[w].id].max_attempts]

\* Shape of the table: leased rows and only they have a holder; an absent row has
\* no events (the cascade), and ids not handed out yet have no row.
RowShape ==
    \A i \in Ids :
        /\ jobs[i].status = "leased" <=> jobs[i].locked_by \in Workers
        /\ jobs[i].status = "none" => jobs[i] = NoRow /\ events[i] = NoEvents
        /\ i >= nextId => jobs[i].status = "none"

\* A worker has a job in hand exactly while it processes it or writes its result,
\* and a process that is gone has left all its loops.
InHand ==
    \A w \in Workers :
        /\ pod[PodOf(w)] = "down" => pc[w] \in {"drained", "off"}
        /\ pc[w] \in {"process", "write"} => job[w].id \in Ids
        /\ pc[w] \notin {"process", "write"} => job[w] = NoJob

\* While an abandoned lease statement of a worker may still commit, the job that
\* worker leased since is still its own: the late lease cannot hand it a row it
\* lost, with a stale snapshot.
LateLeaseHarmless ==
    \A w \in ghost : job[w].id \in Ids =>
        HoldsLease(w) /\ jobs[job[w].id].age = 0

\* The inductive invariant.
QueueInv ==
    /\ RowShape
    /\ AttemptsAudited
    /\ OutcomeAudited
    /\ BudgetRespected
    /\ InHand
    /\ FreshSnapshot
    /\ LateLeaseHarmless

\* Graceful drain: a worker that drained leaves no row leased under its name to
\* the sweeper (for a database that answers: no abandoned lease statement).
DrainedHoldsNothing ==
    \A w \in Workers : pc[w] = "drained" =>
        \A i \in Ids : jobs[i].locked_by # w

KeepsTerminal ==
    \A i \in Ids : jobs[i].status \in Terminal =>
        \/ jobs'[i].status = "none" /\ events'[i] = NoEvents
        \/ /\ [jobs[i] EXCEPT !.age = 0, !.run_in = 0]
                = [jobs'[i] EXCEPT !.age = 0, !.run_in = 0]
           /\ events'[i] = events[i]

\* A terminal row never changes again, until retention removes row and events.
TerminalIsFinal == [][KeepsTerminal]_vars

SettledByHolder ==
    \A i \in Ids :
        (/\ jobs[i].status \in Live /\ jobs'[i].status # "none"
         /\ \/ jobs'[i].attempts # jobs[i].attempts
            \/ jobs'[i].status \in Terminal)
        => \E w \in Workers : /\ pc[w] = "write" /\ pc'[w] = "lease"
                              /\ job[w].id = i /\ jobs[i].locked_by = w

\* Only the worker that holds the lease and has a result in hand spends an attempt
\* or ends a job: a worker whose lease was swept never clobbers the row of the
\* next holder.
OnlyHolderSettles == [][SettledByHolder]_vars

TakenWhenExpired ==
    \A i \in Ids : \A w \in Workers :
        (jobs[i].locked_by = w /\ jobs'[i].locked_by # w /\ pc'[w] = pc[w])
        => /\ jobs[i].age > Threshold
           /\ jobs'[i].attempts = jobs[i].attempts
           /\ events'[i]["expire"] > events[i]["expire"]
                \/ events[i]["expire"] = ExpireCap

\* A lease is taken from a worker that took no step only when it is older than the
\* threshold, with an 'expire' event and no attempt spent.
LeaseRespected == [][TakenWhenExpired]_vars

\* No row stays leased for ever, whatever became of its worker: the sweeper of any
\* pod that stays up gets it back.  Nothing is said of pods that take turns, none of
\* them up for as long as its sweeper's interval.
LeaseRecovered ==
    (\E p \in Pods : <>[](pod[p] = "up"))
        => \A i \in Ids : jobs[i].status = "leased" ~> jobs[i].status # "leased"

\* Something outside the retry budget took a lease or an answer away.
Disturbance ==
    \/ \E p \in Pods : Sweep(p) \/ Kill(p) \/ Sigterm(p)
    \/ \E w \in Workers : WriteError(w) \/ AbandonLease(w)

\* Once leases are no longer lost, every job reaches a terminal status: retries are
\* bounded, and a row that was given back or put off is leased again.
QueueDrains ==
    <>[][~Disturbance]_vars
        => \A i \in Ids : jobs[i].status \in Live ~> jobs[i].status \notin Live

-----------------------------------------------------------------------------
\* What the documentation says and the code does not do

\* After SIGTERM a worker "waits until the in-flight transfer ends": the success of
\* a transfer whose lease is still held is recorded.  The write runs under the
\* cancelled ctx and is not sent.
InFlightRecorded ==
    [][\A w \in Workers :
        (pc[w] = "write" /\ out[w] = "success" /\ HoldsLease(w) /\ pc'[w] = "lease")
        => jobs'[job[w].id].status = "succeeded"]_vars

\* "Every enqueued job reaches a terminal status": a transfer slower than the
\* threshold is swept and started again for ever, at no cost in attempts.
EveryJobTerminates ==
    \A i \in Ids : jobs[i].status = "pending" ~> jobs[i].status \in Terminal

-----------------------------------------------------------------------------
\* The queue as its users see it: an id below nextId without a row was purged.
Seen(i) ==
    [phase |-> IF jobs[i].status # "none" THEN jobs[i].status
               ELSE IF i < nextId THEN "purged" ELSE "unborn",
     attempts |-> jobs[i].attempts, max_attempts |-> jobs[i].max_attempts]

Lifecycle == INSTANCE JobLifecycle
                WITH JobIds <- Ids, JobBudgets <- Budgets \cup {DefaultBudget},
                     row <- [i \in Ids |-> Seen(i)]

\* The queue with its leases, sweeps, crashes and late writes implements the
\* lifecycle: lost runs cost no attempt, failed ones cost one, outcomes are final
\* and ids are never reused.
ImplementsLifecycle == Lifecycle!LSpec
=============================================================================
