------------------------------ MODULE Release ------------------------------
(***************************************************************************)
(* A Helm release: its hook Jobs migrate the database, then the worker     *)
(* pods of the newest revision run.  The two share no state, so the model  *)
(* lets the Jobs come to rest before the loops of a pod begin.             *)
(***************************************************************************)
EXTENDS WorkerPod, Migrate

VARIABLE deployed    \* the worker Deployment is applied

rvars == <<allVars, mvars, deployed>>

RInit == PodInit /\ MInit /\ deployed = FALSE

Newest == CHOOSE r \in Revisions : \A q \in Revisions : q <= r

Succeeded(r) == \E p \in Pods : p[1] = r /\ mpc[p] = "done"

\* Finished Jobs are deleted (hook-delete-policy).  The Deployment follows the Job of
\* the newest revision if it succeeded; if not, the operator runs helm again.
Deploy ==
    /\ ~deployed
    /\ \A p \in Pods : mpc[p] \in {"off", "failed", "done"}
    /\ deployed' = Succeeded(Newest)
    /\ mpc' = [p \in Pods |-> "off"]
    /\ UNCHANGED <<allVars, applied, holder, known>>

Hook(A) == ~deployed /\ A /\ UNCHANGED <<allVars, deployed>>
Pod(A) == deployed /\ A /\ UNCHANGED <<mvars, deployed>>

RNext == Hook(MNext) \/ Deploy \/ Pod(PodNext)

\* Statements that do not hang are answered, timers fire, tokens are sent and
\* received, time passes and the kubelet probes; a transfer may last for ever.  A
\* migration goes on unless it fails or its pod dies, and the server notices a dead
\* client.
RSpec ==
    /\ RInit /\ [][RNext]_rvars
    /\ \A w \in Workers :
        /\ WF_rvars(Pod(LeasedNone(w) \/ LeasedJob(w)))
        /\ WF_rvars(Pod(pc[w] = "parked" /\ Again(w)))
        /\ WF_rvars(Pod(Waking(w)))
    /\ WF_rvars(Pod(Tick)) /\ WF_rvars(Pod(Probe))
    /\ \A p \in Pods : WF_rvars(Hook(Progress(p)))

-----------------------------------------------------------------------------
\* Types of the state.
ReleaseTypeOK == PodTypeOK /\ MTypeOK /\ deployed \in BOOLEAN

\* The schema by its versions; the workers serve from the Deployment on.
Versioned == INSTANCE SchemaSteps
    WITH Targets <- Revisions, Required <- Newest, schema <- applied, serving <- deployed

\* Hook Jobs that overlap, fail, die and are retried implement a schema that goes up
\* version by version, each file once, and a Deployment that follows the last of them.
ImplementsSchemaSteps == Versioned!SSpec

\* No worker leases on a schema older than its binary's: whatever hook pods failed,
\* died or were retried, the loops of the newest revision's pods begin after all of
\* its migrations are applied.
SchemaFirst == since # Never => 1 .. Newest \subseteq applied

\* "a crashed migrate leaves no stranded lock": no pod waits for the lock for ever.
HooksEnd == \A p \in Pods : mpc[p] = "lock" ~> mpc[p] # "lock"

\* While nobody finds a job the pod's polling slows down to MaxDelay and stays there,
\* unless the database stops answering.
SlowsDown ==
    (<>[][~\E w \in Workers : WakeAll(w)]_rvars /\ <>[](hung = {} /\ deployed))
        => <>[](nominal = MaxDelay)
=============================================================================
