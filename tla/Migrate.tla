------------------------------ MODULE Migrate ------------------------------
(***************************************************************************)
(* `imgsync migrate': each pod of a Helm hook Job takes one session        *)
(* advisory lock, reads which versions are applied and runs the files that *)
(* are not, each in a transaction that also records its version.  Jobs of  *)
(* several revisions overlap; pods fail, die and are retried.              *)
(***************************************************************************)
EXTENDS Integers

CONSTANTS
    Revisions,      \* of the release, each named by the number of its *.up.sql files
    BackoffLimit    \* migrationJob.backoffLimit

ASSUME RevisionAssumption == Revisions \subseteq Nat /\ BackoffLimit \in Nat

Pods == Revisions \X (0 .. BackoffLimit)

VARIABLES
    applied,   \* versions in schema_migrations, numbered in file order
    holder,    \* pods whose session holds the advisory lock
    mpc,       \* where ApplyMigrations of a pod is
    known      \* its map of applied versions, with those it has run

mvars == <<applied, holder, mpc, known>>

MInit ==
    /\ applied = {}
    /\ holder = {}
    /\ mpc = [p \in Pods |-> "off"]
    /\ known = [p \in Pods |-> {}]

At(p, l) == mpc[p] = l
Goto(p, l) == mpc' = [mpc EXCEPT ![p] = l]

\* The first pod of a Job, or the next one when the one before it is gone.
Start(p) ==
    /\ At(p, "off")
    /\ p[2] > 0 => mpc[<<p[1], p[2] - 1>>] \in {"orphan", "cut", "failed"}
    /\ Goto(p, "lock")
    /\ UNCHANGED <<applied, holder, known>>

\* Faulty: the lock is that of a transaction, which ends with the statement.
LockForStatement(p) ==
    /\ At(p, "lock")
    /\ holder = {}
    /\ Goto(p, "list")
    /\ UNCHANGED <<applied, holder, known>>

\* pg_advisory_lock blocks until no other session holds the lock.
Lock(p) ==
    /\ At(p, "lock")
    /\ holder = {}
    /\ holder' = {p}
    /\ Goto(p, "list")
    /\ UNCHANGED <<applied, known>>

\* schema_migrations, if it exists, is read under the lock.
List(p) ==
    /\ At(p, "list")
    /\ known' = [known EXCEPT ![p] = applied]
    /\ Goto(p, "apply")
    /\ UNCHANGED <<applied, holder>>

Todo(p) == (1 .. p[1]) \ known[p]

\* Faulty: the directory's files are not sorted.
IsAny(p, v) == v \in Todo(p)

IsNext(p, v) == v \in Todo(p) /\ \A u \in Todo(p) : v <= u

\* The transaction of file v: it fails on what is already there.
RunFile(p, v) ==
    /\ IsNext(p, v)
    /\ v \notin applied
    /\ applied' = applied \cup {v}

Apply(p) ==
    /\ At(p, "apply")
    /\ \E v \in Todo(p) : RunFile(p, v) /\ known' = [known EXCEPT ![p] = @ \cup {v}]
    /\ UNCHANGED <<holder, mpc>>

\* Faulty: an error is printed and the command exits with status 0.
ReturnNil(p, l) ==
    /\ holder' = holder \ {p}
    /\ known' = [known EXCEPT ![p] = {}]
    /\ Goto(p, "done")

\* Faulty: the connection goes back to a pool, the session and its lock live on.
ReturnToPool(p, l) ==
    /\ known' = [known EXCEPT ![p] = {}]
    /\ Goto(p, l)
    /\ UNCHANGED holder

\* ApplyMigrations returns and closes its connection: the lock ends with the session.
Return(p, l) ==
    /\ holder' = holder \ {p}
    /\ known' = [known EXCEPT ![p] = {}]
    /\ Goto(p, l)

Done(p) ==
    /\ At(p, "apply")
    /\ Todo(p) = {}
    /\ Return(p, "done")
    /\ UNCHANGED applied

\* A statement fails, or its answer is lost after it committed.
Fail(p) ==
    /\ mpc[p] \in {"lock", "list", "apply"}
    /\ \/ UNCHANGED applied
       \/ At(p, "apply") /\ \E v \in Todo(p) : RunFile(p, v)
    /\ Return(p, "failed")

\* The pod dies; its session goes on until the server gets to know.
Die(p) ==
    /\ mpc[p] \in {"lock", "list", "apply"}
    /\ Goto(p, IF At(p, "apply") THEN "cut" ELSE "orphan")
    /\ UNCHANGED <<applied, holder, known>>

\* The file it was running commits or is rolled back.
SessionEnds(p) ==
    /\ mpc[p] \in {"orphan", "cut"}
    /\ \/ UNCHANGED applied
       \/ At(p, "cut") /\ \E v \in Todo(p) : RunFile(p, v)
    /\ Return(p, "failed")

Progress(p) == Lock(p) \/ List(p) \/ Apply(p) \/ Done(p) \/ SessionEnds(p)

MNext == \E p \in Pods : Start(p) \/ Progress(p) \/ Fail(p) \/ Die(p)

-----------------------------------------------------------------------------
\* Types of the state.
MTypeOK ==
    /\ applied \in SUBSET (Nat \ {0})
    /\ holder \in SUBSET Pods
    /\ mpc \in [Pods -> {"off", "lock", "list", "apply", "orphan", "cut", "done", "failed"}]
    /\ known \in [Pods -> SUBSET Nat]

\* The schema is at every moment that of some version: a version is recorded only
\* when all before it are, whoever fails, dies or is retried.
InOrder == \A v \in applied : 1 .. v \subseteq applied

\* No pod runs a file that is already applied, which would fail and take its Job
\* with it: nobody else, not even the session of a dead pod, applies anything
\* between its reading the list and its last file.
NothingTwice == \A p \in Pods : At(p, "apply") => known[p] = applied
=============================================================================
