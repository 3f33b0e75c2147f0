# imgsync in TLA+

imgsync copies files. Jobs wait in a PostgreSQL table, worker pods lease and run
them, a sniffer fills the table from a source database. These modules model the
parts of it in which several processes meet. TLC checks them on small instances;
TLAPS proves every safety property of the passing runs for every size, and that the
queue, the host cap, the FTP pool, the transports and the migrations each implement a
short specification of what they promise.

## The system

| part | state | operations | what makes it hard |
|---|---|---|---|
| job queue (`migrations`, `jobs`, `sniffer/enqueue.go`) | `transfer_jobs`, `transfer_events` | insert with ON CONFLICT DO NOTHING, alone or in batches | several enqueuers; keys reused after a purge |
| worker (`worker`) | the leased job in hand, its outcome | lease with SKIP LOCKED, transfer, lease-guarded final write, drain | slow holders, lost answers, SIGTERM, kill, panics |
| sweeper (`sweeper`) | none of its own | requeue leases older than the threshold | races the holder's final write |
| retention (`retention`) | none of its own | delete old terminal rows with their events | races late writers and re-enqueues |
| source and transport (`sources`, `transports`) | temporary file, file at dst | write, close, rename, remove | two senders of one dst, killed processes, lost answers |
| FTP pool (`transports/ftp/pool.go`) | connections in use, idle, waiters | acquire, release, close | cancelled waiters, failed dials and NOOPs, two connections per job |
| host cap (`hostcap`) | advisory locks, one per slot | scan, take, unlock | a lock lives only as long as its session |
| idle backoff (`backoff`) | delay, list of parked workers | park, time out, wake all | tokens are sent after the mutex is released |
| health (`health`, liveness probe) | time of the last lease attempt | record, `/livez`, restart | one time stamp for all loops |
| migrations (`db/migrate.go`, Helm hook) | `schema_migrations`, a session lock | lock, list, run files | overlapping Jobs, pods that die and are retried |
| sniffer (`sniffer`, `cli/sniffer.go`) | watermark (timestamp, pk) | load, fetch, enqueue, upsert | open source transactions, overlapping instances, crashes |

Workers and enqueuers meet only in the queue table; workers of a pod share the idle
backoff, the health status and the FTP pool; workers of all pods share the host cap
and the destinations; migrations precede the pods of their revision; the sniffer reads
another database and is one of the enqueuers.

## Modules

`JobQueue` — one step per SQL statement or committed transaction. `jobs` and
`events` are the tables, `pod` the state of each process, `pc`, `job` and `out` what
a worker loop is doing, the row it read when it leased and the class of its result.
`LeaseJob`, `ProcessJob`, `writeSuccess`, `writeTerminal`, `writeRetryOrDead`,
`drainLease`, `Sweep`, `Retention` and `Enqueue` keep the names of the code.
`FinishJob` and `WriteError` are the two ways the last statement of `processOne` can
go; its error is dropped, so an answer lost after the commit is `FinishJob` too.
`ghost` holds the workers whose lease statement was abandoned by its caller and may
still commit. Such a statement waits for no lock (SKIP LOCKED), so it is over before
the next tick; `LateLeaseHarmless` rests on this. Sweep and retention are atomic at
their commit because the rows stay locked from the UPDATE on and READ COMMITTED
rechecks the condition. Pod names are taken to be unique among live processes. A
retry's delay may be none: that is what an overflow of `retryBackoff` comes to.

`JobLifecycle` — what the queue promises its users: ids are born once, a run costs
one attempt when it fails and none when it is lost, outcomes are final, purged ids do
not come back. `JobQueue!ImplementsLifecycle` is the refinement.

`SendFile` — what `ProcessJob` and `Send` do to paths. `file` is what is at a path: a
part or all of one sender's stream, or a mixture; `fd` where the file a worker writes is
linked at the moment, which a rename of another sender may change under it. Local
temporary files have names of their own (`CreateTemp`), FTP ones the name of dst with a
suffix. `met` records the FTP destinations whose temporary file two senders used at a
time, until one of them renames a whole file undisturbed: of those nothing is promised,
because a late sender can rename the other's unfinished file or delete it. The size is
compared after the rename (`Succeed`, `GiveUp`), so a short file can be at dst, but not as
a success. "Short" means shorter than the source announced; a source without SIZE
announces nothing. `AtomicReplace` is what a destination promises: each sender delivers
its whole file in one step or not at all. A destination in `met` may be spoilt;
`SendFile!ImplementsAtomicReplace` is the refinement, with what is at dst as the mapping.

`FtpPool` — one host of the pool: `inUse`, `idle` (by age), `waiters`, the token in
each channel, `closed`, and where each caller of `Acquire` is. Everything between two
holds of the mutex is one step. `FtpTransfer` extends it with workers: each calls
`Acquire` for its source and, holding that connection, for its destination. `Close` may
come at any time, though the worker command closes the pool after its loops; it wakes
no parked caller. A Read left behind by a cancelled Send may or may not have failed
when `Close` of the body looks: `CloseBody` chooses `broken` freely.

`Permits` — a counting semaphore: a client gets a permit while fewer than the limit are
out, and gives back its own. Both the FTP pool (permits are the callers that hold a
connection or have a slot to dial one) and the host cap (the transfers with a live
database session) implement it.

`HostCap` — `lock` says who holds each slot, `ended` which transfers go on after their
database session ended; a scan probes one slot per step. A caller first waits for a
connection of the pgx pool. A lock granted to an answer that got lost, or whose unlock
broke with its connection, stays with a session nobody uses (`Orphan`) until the server
ends that (`Reaped`).

`IdleBackoff` — delay in units of 50 ms, list, tokens. `WorkerPod` extends it to a pod in
time: the loops with timers (`left`, jittered and rounded up to ticks) and lease
statements that may hang, the age of `LastLeaseAttemptTS` (`since`), and the kubelet's
probes (`fails`). A transfer may last for ever. `Migrate` — the pods of hook Jobs
running `ApplyMigrations`; a dead pod's session goes on until the server notices, and its
file may still commit. `Release` composes both: Jobs of several revisions, then the
Deployment if the newest revision's Job succeeded. Jobs and pods share no state but
the schema, so the Jobs come to rest before the loops begin. `SchemaSteps` is what a
release promises: one version after the other, then workers that have all they require;
`Release!ImplementsSchemaSteps` maps its schema to `applied`.

`Sniffer` — source rows with the timestamp of the committed and the open version,
the watermark, and each instance's poll step by step. `Fits` is the limit on the
parameters of a statement: a batch over it is refused each time it is fetched.

`JobQueueTyping`, `JobQueueTable`, `JobQueueProofs` (each extending the one before),
`SendFileProofs`, `FtpPoolProofs`, `HostCapProofs`, `ReleaseProofs` and
`SnifferProofs` hold the proofs. `MCJobQueue` and `MCSendFile` add symmetry for TLC.
Definitions marked "Faulty" are the code with one plausible mistake; no specification
uses them. Each shows that the property it is paired with in PROJECT.json can fail.

## Runs

| run | distinct states | shows |
|---|---|---|
| `queue_faults` | 204,224 | under kill, SIGTERM, database errors, abandoned leases, purge and re-enqueue: audit trail, retry budget, fresh snapshots, lease expiry, final outcomes, and the refinement of `JobLifecycle` |
| `queue_two_jobs` | 1,487,379 | two jobs, two workers of one pod that is killed or drained: the same invariant with batches, lease order and late finishers; only the holder settles a job; a drained worker leaves no leased row |
| `queue_liveness` | 37,184 | leases are recovered by the sweeper of any pod that stays up; jobs end once leases are no longer lost |
| `send_file` | 1,247,440 | the refinement of `AtomicReplace`: dst is replaced in one step unless two senders shared an FTP temporary file; its file never vanishes, a success is never the job's own short file |
| `ftp_pool` | 11,118 | exact cap, no lost wake-up, a closed pool keeps nothing, connections held in order; parked callers are woken in order and get a connection unless new calls overtake woken ones for ever; with one connection more than workers some job can always go on, and transfers keep ending |
| `host_cap` | 31,456 | the refinement of `Permits`: the cap counts every transfer whose session lives; no slot is held but by its transfer or a dying session, none is overlooked |
| `release` | 35,293 | the refinement of `SchemaSteps`: versions applied in order and once, before any worker leases; nobody parked is forgotten; `/livez` fails only when every idle loop hangs, and a stuck pod is restarted; polling slows down to its maximum; no hook pod waits for the lock for ever |
| `sniffer` | 32,058 | the watermark passes no row without a job; once crashes and database errors end, every renderable row is enqueued unless oversize batches keep coming |

Four more runs state what a document says and the code does not do; TLC finds each
violated:

| run | the text | the code |
|---|---|---|
| `doc_in_flight` | components.md: SIGTERM waits for transfers in flight | the final write runs under the cancelled context, the success is lost and the job runs again |
| `doc_every_job_terminates` | design C2 | a transfer slower than the threshold is swept and restarted for ever, free of charge |
| `ftp_hold_and_wait` | design C2, scaling.md | with as many workers as connections (the defaults) all can hold one and wait for another |
| `doc_busy_pod_live` | health/server.go, worker.go: only a wedged lease loop trips `/livez`; monitoring.md: always 200 | loops that are all in long transfers record no attempt; the kubelet restarts the pod and the transfers begin anew |

Also noticed, visible without a model: architecture.md speaks of `lease` events and of
`enqueue` events for the sniffer's rows, which nothing inserts; `OnFinish` reports
`succeeded` for a worker whose lease was swept, because `writeSuccess` does not look
at the rows affected; the host cap counts sending connections, not those of open
sources (scaling.md: "8 sessions"), and a transfer whose database session ended goes
on beside the next holder of its slot (the set `ended`). A source transaction open for
as long as the bias commits behind the watermark: `NothingSkipped` needs MaxTx < Bias.
`/livez` stays 200 if the very first lease statement hangs. Between that and
`doc_busy_pod_live`, `LiveWhilePolling` and `StuckPodRestarts` say what holds. The manual
reset of the design (`last_run_pk=NULL`) makes the next poll fetch later timestamps only,
so the rest of a timestamp that a batch split is skipped.

### Bounds

Two workers (on two pods, or on one) are a slow holder and the next one; two ids let
a key be purged and enqueued again, or two jobs be ordered. Budgets of 1 and 2 give a
job whose first failure is its last and one with a retry. Ages and delays saturate
just past the threshold or window, so time itself is unbounded. `ExpireCap` caps a
counter nothing reads. Three senders are two that meet and one that comes late, over a
local and an FTP destination. Three workers on four connections can park two calls
beside one that is woken and one that barges in. The host cap has one worker more than
slots. The release has two revisions, the second with a file more, and Jobs of two
pods, so that a retry can meet the other Job; three loops with the worker's delays (50 ms
to 1 s) and ticks of half a second, and a threshold just long enough for the longest wait
and one statement. The sniffer's clock is bounded; batches of two split a
timestamp of three rows. A statement takes one row's parameters, so a batch of a
renderable and a poison row fits and one of two renderable rows does not. The last `Bias`
ticks are left for polling. Deadlock is checked in
every run.

### Fairness

Worker loops, the pool's callers and sniffer polls go on (goroutines are scheduled and
drivers time out); time passes; stopped containers are restarted; the
sweeper of a pod that stays up comes round (each process has its own ticker and does not
sweep at its start, so pods that take turns need never sweep, and `LeaseRecovered` asks
for one that stays up); source transactions commit; timers fire; tokens are sent and received;
the kubelet probes; the database server notices a dead client. Nothing forces a fault, a
successful transfer, the end of a transfer in `WorkerPod`, the answer of a hung
statement, a helm run, a new job or a caller to be cancelled. `QueueDrains` assumes that
from some point on no lease is lost. `EveryRowEnqueued` assumes that crashes and database
errors end, and that no oversize batch comes any more; a poll that the code itself fails is
no excuse. Without the second assumption TLC refutes it. `WaiterServed` assumes that new
calls stop taking the slots of woken callers; it is refuted without that too, because the
code has no queue discipline that would give more.

## Proofs

Every safety property and action property of the passing runs is proved for every value
of the constants that satisfies the named assumptions of the modules. These say that
bounds and sizes are naturals, that null values are none of the real ones, that the
pool's callers are finitely many, and little else. What goes beyond that is said below.

*Queue.* `IInv` is `TypeOK`, `TableOK` (the audit trail, the budget and the shape of
each row) and `HandOK` (what a worker has in hand against the row it came from). The
first part alone is not inductive: that a final write leaves attempts and events in step
needs the snapshot of a worker whose lease guard holds to agree with the row, and that
needs the ghosts of abandoned statements. `JobQueueTyping` proves the types, `JobQueueTable`
that each step keeps the table and the hands (`TableStep`, `HandStep`), `JobQueueProofs` the
rest. Lemma `StepKinds` reduces every step to what it does to one row (it enqueues,
hands out, gives back, expires, drains, finishes, forgets, ages, or does nothing to the
table), and from the kinds follow `TerminalIsFinal`, `OnlyHolderSettles`, `LeaseRespected`
and the refinement of `JobLifecycle`. `DrainedHoldsNothing` is proved without abandoned
lease statements (`"latelease"` not in `Faults`): with them a drained worker's statement may
still commit.

*Destinations.* `SendInv` adds to `DstWhole` where each worker's file is (`Control`), that
what it wrote is its own while nobody shares the temporary file (`Intact`), and that no
two senders use one path outside `met` (`Apart`). `DstStays` and `SuccessVerified` follow,
and so does `SendIsAtomic`: outside `met` a rename shows the sender's own whole file, and no
other step changes what is at dst.

*Pool.* `PoolInv` is inductive as the conjunction of the five properties, for `FtpPool`
with any callers (`PoolSafe`) and for `FtpTransfer`, where `HeldInOrder` is added. From it
follow that the pool implements `Permits` (`PoolIsPermits`; not a run of its own), and, since
a step takes from the waiters at most one and without changing the others' order, that they
are woken first come, first served (`ServedInOrder`). `NoPoolDeadlock`: with more
connections than workers the jobs never all wait for an open pool. If they did, `NoLostWakeup`
would say that the pool is full, but a worker that waits holds at most one connection. This
is the safety side of what `ftp_hold_and_wait` refutes for the default sizes.

*Host cap.* `CapInv`: held locks and transfers with a live session determine each other.
So the transfers map one to one into the slots, and there are at most `Cap` (`CapHolds`);
taking a slot is a grant of `Permits` (`PermitsImplemented`). `ScanCovers`: from whatever slot
a scan starts, its `Cap` probes visit each slot exactly once.

*Release.* `MigInv`: the lock has one holder, only a holder lists or applies, and its list
is what is applied. `PodInv`: a parked worker is on the list, has its token or is about to
get it; a loop that polls and does not hang leaves the last attempt no older than its wait.
`LiveWhilePolling` needs LiveAfter >= ParkTicks + LeaseTicks (`PodAssumption`): a threshold
that covers the longest wait and one statement. `SchemaStepsImplemented`: a pod that runs
a file has the current list, so the least file that is not on it is the version after
those applied (`RunUpgrades`). `DelayOnlyGrows` is the safety side of `SlowsDown`: the delay
grows with each loop that parks, up to its maximum, and shrinks only after a leased job or
with the restart of a pod none of whose idle loops polls.

*Sniffer.* `NothingSkipped` is proved from MaxTx < Bias. `SniffInv` adds `Timely` (no open
version is older than MaxTx, every position stays Bias behind the clock) and that each
instance's position and batch skip nothing. Without that assumption: only committed rows
that can be rendered get a job (`OnlyRowsQueued`), a poll that ends well stores a watermark
beyond the one it loaded, even for a batch of poison rows (`PollsMoveOn`, the safety side of
`EveryRowEnqueued`), and a single instance never moves the watermark back (`NeverBack`).
`PollInv` is the invariant of all three. `NeverOversized`: if `BatchSize` rows of five
parameters fit into a statement, as the default of 500 does, no batch is ever too large.

Some theorems state definitions that no run checks by themselves, because a refinement that
a run checks says more: `CapRespected` (`Permits`), `DstWhole` (`AtomicReplace`), `InOrder`
(`SchemaSteps`), and the types of the pool and the host cap.

Only model-checked: everything that must eventually happen (`LeaseRecovered`,
`QueueDrains`, `WaiterServed`, `SendsEnd`, `NoSlotOverlooked`, `StuckPodRestarts`,
`SlowsDown`, `HooksEnd`, `EveryRowEnqueued`), because the prover has no rules for fairness.

## Not modelled

- Columns of a job that no decision reads, the wording and details of events, templates
  and trace ids: text, without steps. Which rows cannot be rendered is kept.
- Collisions of the host cap's slot keys, which only lower a cap, and an unlock that
  fails on a session that lives on in the pool.
- In `FtpTransfer`, the wait for a slot of the host cap before `Send` and a destination
  that is no URL: the first is `HostCap`, the second ends `Send` before its
  `Acquire`, with the effect of a dial that fails.
- A final write that commits after its worker has moved on. Like an abandoned lease
  statement it is taken to be over before the lease can expire; till then its guard holds
  and it does what `FinishJob` does.
- An FTP server that for a while goes on writing what a dead client sent: nothing is
  claimed of a next sender that opens the temporary file meanwhile.
- A dead hook pod whose wait for the lock is granted later: the state is that of a pod
  that dies just after `Lock`.
- Source rows rewritten again and again within the bias: no poll ever returns them.
- Unread replies on an FTP connection whose transfer was cancelled.
- `/readyz`, `/healthz`, the start-up probe and the metrics: they change nothing the
  system acts on. Two gauges (pool, workers) can stay stale when two callbacks swap.
- The goroutine of an abandoned Read, beyond what it may leave behind (`broken`).
- Rollbacks of a release, and what a migration creates beyond its version.
- Flags, environment, connection pools, read-only commands, test helpers: configuration
  and queries without state of their own.
