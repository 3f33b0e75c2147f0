---------------------------- MODULE JobLifecycle ----------------------------
(***************************************************************************)
(* What the queue promises to whoever enqueued a job, with no workers, no  *)
(* leases and no time: a job is run some number of times, each failed run  *)
(* spends one attempt of its budget, a run that was merely lost spends     *)
(* none, and the outcome is final.                                         *)
(***************************************************************************)
EXTENDS Naturals

CONSTANTS JobIds, JobBudgets
VARIABLE row       \* [phase, attempts, max_attempts] of every job id

Outcomes3 == {"succeeded", "skipped", "dead"}
Phases == {"unborn", "pending", "leased", "purged"} \cup Outcomes3

LInit ==
    row = [i \in JobIds |-> [phase |-> "unborn", attempts |-> 0, max_attempts |-> 0]]

\* Some new jobs enter the queue, each with a budget of attempts.
Submit ==
    \E S \in SUBSET JobIds, m \in [JobIds -> JobBudgets] :
        /\ \A i \in S : row[i].phase = "unborn"
        /\ row' = [i \in JobIds |-> IF i \in S
                        THEN [phase |-> "pending", attempts |-> 0, max_attempts |-> m[i]]
                        ELSE row[i]]

\* A job is handed to a worker.
Start(i) ==
    /\ row[i].phase = "pending"
    /\ row' = [row EXCEPT ![i].phase = "leased"]

\* Some runs are lost (crash, expiry, shutdown): their jobs wait again, unchanged.
GiveBack ==
    \E S \in SUBSET JobIds :
        /\ \A i \in S : row[i].phase = "leased"
        /\ row' = [i \in JobIds |-> IF i \in S THEN [row[i] EXCEPT !.phase = "pending"]
                                    ELSE row[i]]

\* A run fails with attempts left.
Fail(i) ==
    /\ row[i].phase = "leased"
    /\ row[i].attempts + 1 < row[i].max_attempts
    /\ row' = [row EXCEPT ![i] = [phase |-> "pending", attempts |-> @.attempts + 1,
                                  max_attempts |-> @.max_attempts]]

\* A run ends the job; only a fatal failure spends an attempt.
Complete(i, s) ==
    /\ row[i].phase = "leased"
    /\ row[i].attempts < row[i].max_attempts
    /\ row' = [row EXCEPT ![i] =
                  [phase |-> s,
                   attempts |-> IF s = "dead" THEN @.attempts + 1 ELSE @.attempts,
                   max_attempts |-> @.max_attempts]]

\* Old jobs with an outcome are forgotten; their ids do not come back.
Purge ==
    \E S \in SUBSET JobIds :
        /\ \A i \in S : row[i].phase \in Outcomes3
        /\ row' = [i \in JobIds |-> IF i \in S
                        THEN [phase |-> "purged", attempts |-> 0, max_attempts |-> 0]
                        ELSE row[i]]

LNext ==
    \/ Submit \/ GiveBack \/ Purge
    \/ \E i \in JobIds : Start(i) \/ Fail(i) \/ \E s \in Outcomes3 : Complete(i, s)

LSpec == LInit /\ [][LNext]_row
=============================================================================
