------------------------------ MODULE Sniffer ------------------------------
(***************************************************************************)
(* The sniffer: it polls a source table from a (timestamp, pk) watermark,  *)
(* renders and enqueues each batch and only then moves the watermark.      *)
(* Writers of the source table stamp a row when they write it and commit   *)
(* it later; instances may overlap, crash and lose answers.                *)
(***************************************************************************)
EXTENDS Integers, FiniteSets

CONSTANTS
    Sniffers,      \* instances; more than one while a pod is replaced
    PKs,           \* primary keys of the source table, numbers from 1
    Poison,        \* rows whose template cannot be rendered
    BatchSize,     \* SNIFFER_BATCH_SIZE
    Bias,          \* SNIFFER_BIAS_SEC, in ticks
    MaxTx,         \* ticks a transaction of the source may stay open
    MaxParams,     \* parameters PostgreSQL takes in a statement
    LastTS,        \* bound: the clock
    Faults         \* subset of {"crash", "dberror"}

ASSUME SnifferAssumption ==
    /\ PKs \subseteq Nat \ {0} /\ IsFiniteSet(PKs)
    /\ BatchSize \in Nat \ {0}
    /\ Bias \in Nat /\ MaxTx \in Nat /\ MaxParams \in Nat /\ LastTS \in Nat \ {0}

VARIABLES
    now,       \* the source database's clock
    seen,      \* timestamp of each row as committed; 0: no row
    open,      \* timestamp written by a row's open transaction; 0: none
    queued,    \* rows with a job in transfer_jobs
    mark,      \* sniffer_state: last_run_ts, last_run_pk (0: NULL)
    pc,        \* where RunOnce of an instance is
    st,        \* the State it loaded
    batch      \* the rows it fetched and the last one's (ts, pk)

source == <<now, seen, open>>
vars == <<now, seen, open, queued, mark, pc, st, batch>>

NoBatch == [rows |-> {}, last |-> [ts |-> 0, pk |-> 0]]

Init ==
    /\ now = 1
    /\ seen = [k \in PKs |-> 0]
    /\ open = [k \in PKs |-> 0]
    /\ queued = {}
    /\ mark = [ts |-> 0, pk |-> 0]
    /\ pc = [s \in Sniffers |-> "load"]
    /\ st = [s \in Sniffers |-> [ts |-> 0, pk |-> 0]]
    /\ batch = [s \in Sniffers |-> NoBatch]

-----------------------------------------------------------------------------
\* The source table (external): a transaction writes a row with the current time,
\* which nobody else sees before it commits.  Writing a row again within a tick would
\* change nothing, and is left out, so that time can pass.  The last Bias ticks of the
\* bounded clock are left for polling.

BeginWrite(k) ==
    /\ open[k] = 0 /\ seen[k] < now
    /\ now + Bias <= LastTS
    /\ open' = [open EXCEPT ![k] = now]
    /\ UNCHANGED <<now, seen, queued, mark, pc, st, batch>>

CommitWrite(k) ==
    /\ open[k] # 0
    /\ seen' = [seen EXCEPT ![k] = open[k]]
    /\ open' = [open EXCEPT ![k] = 0]
    /\ UNCHANGED <<now, queued, mark, pc, st, batch>>

\* No transaction stays open longer than MaxTx.
Tick ==
    /\ now < LastTS
    /\ \A k \in PKs : open[k] # 0 => now - open[k] < MaxTx
    /\ now' = now + 1
    /\ UNCHANGED <<seen, open, queued, mark, pc, st, batch>>

-----------------------------------------------------------------------------
\* One poll, RunOnce

Goto(s, l) == pc' = [pc EXCEPT ![s] = l]

\* The poll ends, well ("load") or with an error ("failed"): the next tick starts over.
EndPoll(s, l) ==
    /\ Goto(s, l)
    /\ st' = [st EXCEPT ![s] = [ts |-> 0, pk |-> 0]]
    /\ batch' = [batch EXCEPT ![s] = NoBatch]

Load(s) ==
    /\ pc[s] \in {"load", "failed"}
    /\ st' = [st EXCEPT ![s] = mark]
    /\ Goto(s, "fetch")
    /\ UNCHANGED <<source, queued, mark, batch>>

\* ts > last_ts OR (ts = last_ts AND pk > last_pk), without the second part when
\* no pk is carried over.
After(m, k) == seen[k] > m.ts \/ (m.pk # 0 /\ seen[k] = m.ts /\ k > m.pk)

\* Faulty: the bias is left out.
WindowUnbiased(m) == {k \in PKs : seen[k] # 0 /\ After(m, k)}

Window(m) == {k \in PKs : seen[k] # 0 /\ After(m, k) /\ seen[k] <= now - Bias}

Earlier(j, k) == seen[j] < seen[k] \/ (seen[j] = seen[k] /\ j < k)

\* S is W cut off by LIMIT, in the order (ts, pk).
Limited(S, W) ==
    /\ S # {} /\ Cardinality(S) <= BatchSize
    /\ S # W => Cardinality(S) = BatchSize
    /\ \A j \in S, k \in W \ S : Earlier(j, k)

\* An empty answer ends the poll.
Fetch(s) ==
    /\ pc[s] = "fetch"
    /\ \/ \E S \in SUBSET Window(st[s]) : \E k \in S :
            /\ Limited(S, Window(st[s]))
            /\ \A j \in S \ {k} : Earlier(j, k)
            /\ batch' = [batch EXCEPT ![s] = [rows |-> S, last |-> [ts |-> seen[k], pk |-> k]]]
            /\ Goto(s, "enqueue")
            /\ UNCHANGED st
       \/ Window(st[s]) = {} /\ EndPoll(s, "load")
    /\ UNCHANGED <<source, queued, mark>>

Specs(s) == batch[s].rows \ Poison

\* Faulty: a row that cannot be rendered makes the poll fail.
FitsRendered(s) == batch[s].rows \cap Poison = {} /\ 5 * Cardinality(Specs(s)) <= MaxParams

\* Five parameters a row.
Fits(s) == 5 * Cardinality(Specs(s)) <= MaxParams

\* INSERT ... ON CONFLICT DO NOTHING of the renderable rows.
EnqueueBatch(s) ==
    /\ pc[s] = "enqueue"
    /\ Fits(s)
    /\ queued' = queued \cup Specs(s)
    /\ Goto(s, "upsert")
    /\ UNCHANGED <<source, mark, st, batch>>

\* The insert returns an error, perhaps after it committed.
EnqueueError(s) ==
    /\ pc[s] = "enqueue"
    /\ "dberror" \in Faults \/ ~Fits(s)
    /\ \/ queued' = queued \cup Specs(s) /\ Fits(s)
       \/ UNCHANGED queued
    /\ EndPoll(s, "failed")
    /\ UNCHANGED <<source, mark>>

\* Faulty: the pk after the last one is stored.
UpsertNextPk(s) ==
    /\ pc[s] = "upsert"
    /\ mark' = [batch[s].last EXCEPT !.pk = @ + 1]
    /\ EndPoll(s, "load")
    /\ UNCHANGED <<source, queued>>

\* The watermark moves to the last row fetched, rendered or not.
Upsert(s) ==
    /\ pc[s] = "upsert"
    /\ mark' = batch[s].last
    /\ EndPoll(s, "load")
    /\ UNCHANGED <<source, queued>>

\* Load, Fetch or Upsert fails, or the process dies and is started again.
PollError(s) ==
    /\ \/ "crash" \in Faults /\ pc[s] \in {"fetch", "enqueue", "upsert"}
       \/ "dberror" \in Faults /\ pc[s] \in {"fetch", "upsert"}
    /\ EndPoll(s, "failed")
    /\ UNCHANGED <<source, queued, mark>>

-----------------------------------------------------------------------------
SnifferStep(s) ==
    Load(s) \/ Fetch(s) \/ EnqueueBatch(s) \/ EnqueueError(s) \/ Upsert(s) \/ PollError(s)

Next ==
    \/ \E k \in PKs : BeginWrite(k) \/ CommitWrite(k)
    \/ Tick
    \/ \E s \in Sniffers : SnifferStep(s)

Spec == Init /\ [][Next]_vars

\* Open transactions commit, time passes, and the ticker starts polls that run on.
Fairness ==
    /\ \A k \in PKs : WF_vars(CommitWrite(k))
    /\ WF_vars(Tick)
    /\ \A s \in Sniffers :
        /\ WF_vars(Load(s)) /\ WF_vars(Fetch(s))
        /\ WF_vars(EnqueueBatch(s) \/ EnqueueError(s)) /\ WF_vars(Upsert(s))

FairSpec == Spec /\ Fairness

-----------------------------------------------------------------------------
Mark == [ts : 0 .. LastTS, pk : PKs \cup {0}]

\* Types of the state.
TypeOK ==
    /\ now \in 1 .. LastTS
    /\ seen \in [PKs -> 0 .. LastTS]
    /\ open \in [PKs -> 0 .. LastTS]
    /\ queued \in SUBSET PKs
    /\ mark \in Mark
    /\ pc \in [Sniffers -> {"load", "failed", "fetch", "enqueue", "upsert"}]
    /\ st \in [Sniffers -> Mark]
    /\ batch \in [Sniffers -> [rows : SUBSET PKs, last : Mark]]

\* Nothing at or before m is left out: every committed, renderable row that a poll
\* from m does not return has a job.
Covers(m) == \A k \in PKs \ Poison : seen[k] # 0 /\ ~After(m, k) => k \in queued

\* No row is skipped: whatever the crashes, errors, overlapping instances and
\* transactions still open, the watermark never passes a row that has no job.
NothingSkipped == Covers(mark)

\* A crash or a database error ends a poll that could have gone on; a poll whose insert
\* is refused whenever it is tried is none.
Disturbance ==
    \E s \in Sniffers :
        /\ pc[s] = "enqueue" => Fits(s)
        /\ PollError(s) \/ EnqueueError(s)

\* Instances about to enqueue rows that need more parameters than a statement takes.
Oversized ==
    {s \in Sniffers : pc[s] = "enqueue" /\ 5 * Cardinality(batch[s].rows \ Poison) > MaxParams}

\* Every renderable row is enqueued once crashes and database errors end, whatever
\* rows before it cannot be rendered, unless batches over the parameter limit keep
\* coming: such a batch fails each time it is fetched.  Writes end with the bounded
\* clock; a row rewritten again and again within the bias would never be fetched.
EveryRowEnqueued ==
    <>[][~Disturbance]_vars /\ <>[](Oversized = {})
        => \A k \in PKs \ Poison : seen[k] # 0 ~> k \in queued
=============================================================================
