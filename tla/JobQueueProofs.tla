--------------------------- MODULE JobQueueProofs ---------------------------
(***************************************************************************)
(* Proofs about the queue: the inductive invariant and the theorems, for    *)
(* every number of jobs, pods and workers and every threshold, window and   *)
(* budget.                                                                  *)
(***************************************************************************)
EXTENDS JobQueueTable

\* The inductive invariant: types, rows and events, and what workers have in hand.
IInv == TypeOK /\ TableOK /\ HandOK

\* It holds initially.
LEMMA InitInv == Init => IInv
<1>. SUFFICES ASSUME Init PROVE IInv
  OBVIOUS
<1>1. TypeOK
  <2>1. jobs \in [Ids -> Row] /\ events \in [Ids -> [EventKinds -> Nat]]
    BY RowTypes DEF Init, NoEvents
  <2>. QED BY <2>1, BoundsAssumption DEF Init, TypeOK, Job, NoJob, Outcomes
<1>2. TableOK
  BY BornOK DEF Init, TableOK, NoRow
<1>3. HandOK
  <2>1. InHand
    BY DEF Init, InHand, Workers, PodOf
  <2>2. FreshSnapshot
    BY DEF Init, FreshSnapshot, HoldsLease, NoJob, Ids
  <2>3. LateLeaseHarmless
    BY DEF Init, LateLeaseHarmless
  <2>. QED BY <2>1, <2>2, <2>3 DEF HandOK
<1>. QED BY <1>1, <1>2, <1>3 DEF IInv

\* It is kept by every step.
LEMMA NextInv == IInv /\ [Next]_vars => IInv'
BY TypeStep, TableStep, HandStep DEF IInv, HandOK

\* The invariant the model checker checks follows from it.
LEMMA InvImplies == IInv => QueueInv
<1>. SUFFICES ASSUME IInv PROVE QueueInv
  OBVIOUS
<1>1. RowShape
  BY DEF IInv, TableOK, RowOK, RowShape
<1>2. AttemptsAudited
  BY DEF IInv, TableOK, RowOK, AttemptsAudited
<1>3. OutcomeAudited
  <2>1. ASSUME NEW i \in Ids
        PROVE  /\ events[i]["success"] = IF "success" = Outcome(i) THEN 1 ELSE 0
               /\ events[i]["skip"] = IF "skip" = Outcome(i) THEN 1 ELSE 0
               /\ events[i]["dead"] = IF "dead" = Outcome(i) THEN 1 ELSE 0
    BY DEF IInv, TableOK, RowOK, Outcome
  <2>. QED BY <2>1 DEF OutcomeAudited
<1>4. BudgetRespected
  BY DEF IInv, TableOK, RowOK, BudgetRespected
<1>. QED BY <1>1, <1>2, <1>3, <1>4 DEF QueueInv, IInv, HandOK

\* Types: every state of the queue is well typed, for any number of jobs, pods and
\* workers.
THEOREM Typing == Spec => []TypeOK
<1>1. IInv => TypeOK
  BY DEF IInv
<1>. QED BY <1>1, InitInv, NextInv, PTL DEF Spec

\* The inductive invariant holds always: rows and events agree, whoever leases,
\* sweeps, drains, crashes or answers late.
THEOREM QueueInvariant == Spec => []QueueInv
BY InvImplies, InitInv, NextInv, PTL DEF Spec

\* attempts is the number of 'fail' and 'dead' events of the row, always.
THEOREM AttemptsAlwaysAudited == Spec => []AttemptsAudited
<1>1. QueueInv => AttemptsAudited
  BY DEF QueueInv
<1>. QED BY <1>1, QueueInvariant, PTL

\* Exactly the terminal rows have a terminal event, one, of their own status.
THEOREM OutcomeAlwaysAudited == Spec => []OutcomeAudited
<1>1. QueueInv => OutcomeAudited
  BY DEF QueueInv
<1>. QED BY <1>1, QueueInvariant, PTL

\* The retry budget is never exceeded.
THEOREM BudgetAlwaysRespected == Spec => []BudgetRespected
<1>1. QueueInv => BudgetRespected
  BY DEF QueueInv
<1>. QED BY <1>1, QueueInvariant, PTL

\* A final write that passes the lease guard never works from a stale snapshot.
THEOREM SnapshotAlwaysFresh == Spec => []FreshSnapshot
<1>1. QueueInv => FreshSnapshot
  BY DEF QueueInv
<1>. QED BY <1>1, QueueInvariant, PTL

-----------------------------------------------------------------------------
\* What a step does to the table, whoever takes it.  Rows and ids it does not name
\* stay as they are.
Rest(S) ==
    \A i \in Ids \ S : jobs'[i] = jobs[i] /\ events'[i] = events[i]

Enqueues(S, m) ==
    /\ \A i \in S : /\ jobs[i].status = "none" /\ i >= nextId
                    /\ jobs'[i].status = "pending" /\ jobs'[i].attempts = 0
                    /\ jobs'[i].max_attempts = m[i] /\ jobs'[i].locked_by = NoOne
                    /\ events'[i]["expire"] = events[i]["expire"]
    /\ \A i \in Ids : i < nextId' <=> i < nextId \/ i \in S
    /\ Rest(S)

HandsOut(w, i) ==
    /\ Leases(w, i)
    /\ UNCHANGED <<events, nextId>>
    /\ (pc[w] = "lease" /\ pc' = [pc EXCEPT ![w] = "process"]) \/ (w \in ghost /\ UNCHANGED pc)

GivesBack(S) ==
    /\ \A i \in S : /\ jobs[i].status = "leased" /\ jobs'[i].status = "pending"
                    /\ jobs'[i].attempts = jobs[i].attempts
                    /\ jobs'[i].max_attempts = jobs[i].max_attempts
                    /\ jobs'[i].locked_by = NoOne
    /\ UNCHANGED nextId
    /\ Rest(S)

\* The expired leases, with their events.
Expires(S) ==
    /\ GivesBack(S)
    /\ \A i \in S : /\ jobs[i].age > Threshold
                    /\ events'[i]["expire"] = IF events[i]["expire"] < ExpireCap
                                              THEN events[i]["expire"] + 1
                                              ELSE events[i]["expire"]
    /\ UNCHANGED pc

\* The leases of one worker.
Drains(w, S) ==
    /\ GivesBack(S)
    /\ pc[w] = "lease" /\ pc' = [pc EXCEPT ![w] = "drained"]
    /\ S = {i \in Ids : jobs[i].status = "leased" /\ jobs[i].locked_by = w}
    /\ UNCHANGED events

Finishes(w) ==
    /\ Settles(w)
    /\ pc[w] = "write" /\ pc' = [pc EXCEPT ![w] = "lease"]
    /\ UNCHANGED nextId

Forgets(S) ==
    /\ \A i \in S : jobs[i].status \in Terminal /\ jobs'[i] = NoRow /\ events'[i] = NoEvents
    /\ UNCHANGED <<nextId, pc>>
    /\ Rest(S)

Ages ==
    /\ \A i \in Ids : jobs'[i] = Aged(jobs[i])
    /\ UNCHANGED <<events, nextId, pc>>

\* A step that leaves the table alone drains nobody.
Quiet ==
    /\ UNCHANGED <<jobs, events, nextId>>
    /\ \A w \in Workers : pc'[w] = "drained" => pc[w] = "drained"

AllBudgets == Budgets \cup {DefaultBudget}

Kinds ==
    \/ \E S \in SUBSET Ids, m \in [Ids -> AllBudgets] : Enqueues(S, m) /\ UNCHANGED pc
    \/ \E w \in Workers, i \in Ids : HandsOut(w, i)
    \/ \E S \in SUBSET Ids : Expires(S)
    \/ \E w \in Workers, S \in SUBSET Ids : Drains(w, S)
    \/ \E w \in Workers : Finishes(w)
    \/ \E S \in SUBSET Ids : Forgets(S)
    \/ Ages
    \/ Quiet

\* Every step is of one of these kinds.
LEMMA StepKinds == IInv /\ [Next]_vars => Kinds
<1>. SUFFICES ASSUME IInv, [Next]_vars PROVE Kinds
  OBVIOUS
<1>. USE DEF table, local
<1>0. /\ TypeOK /\ TableOK /\ HandOK
      /\ \A i \in Ids : jobs[i] \in Row /\ events[i] \in [EventKinds -> Nat]
      /\ \A i \in Ids : i >= nextId => jobs[i].status = "none"
      /\ nextId \in Int /\ Ids \subseteq Int
  BY BoundsAssumption DEF IInv, TypeOK, TableOK, Ids
<1>1. ASSUME NEW k \in Keys, NEW b \in Budgets, Enqueue(k, b) PROVE Kinds
  <2>1. /\ nextId \in Ids /\ jobs' = [jobs EXCEPT ![nextId] = NewRow(k, b)]
        /\ events' = [events EXCEPT ![nextId]["enqueue"] = 1]
        /\ nextId' = nextId + 1 /\ UNCHANGED pc
    BY <1>1 DEF Enqueue
  <2>2. /\ jobs'[nextId] = NewRow(k, b)
        /\ events'[nextId]["expire"] = events[nextId]["expire"]
        /\ Rest({nextId})
    BY <1>0, <2>1 DEF Rest, TypeOK, EventKinds
  <2>3. [i \in Ids |-> b] \in [Ids -> AllBudgets]
    BY DEF AllBudgets
  <2>4. \A i \in Ids : i < nextId' <=> i < nextId \/ i \in {nextId}
    BY <1>0, <2>1
  <2>5. Enqueues({nextId}, [i \in Ids |-> b])
    BY <1>0, <2>1, <2>2, <2>4 DEF Enqueues, NewRow
  <2>. QED BY <2>1, <2>3, <2>5 DEF Kinds
<1>2. ASSUME NEW K \in SUBSET Keys, EnqueueBatch(K) PROVE Kinds
  <2>1. PICK last \in nextId .. MaxId :
             \E f \in Bijection(nextId .. last, {k \in K : ~Keyed(k)}) :
                /\ jobs' = [i \in Ids |-> IF i \in nextId .. last
                                  THEN NewRow(f[i], DefaultBudget) ELSE jobs[i]]
                /\ nextId' = last + 1
                /\ UNCHANGED <<events, pod, local, ghost>>
    BY <1>2 DEF EnqueueBatch
  <2>. DEFINE S == {i \in Ids : i \in nextId .. last}
              m == [i \in Ids |-> DefaultBudget]
  <2>2. m \in [Ids -> AllBudgets]
    BY DEF AllBudgets
  <2>3. \A i \in Ids : i < nextId' <=> i < nextId \/ i \in S
    BY <1>0, <2>1, BoundsAssumption
  <2>4. \A i \in S : /\ jobs'[i].status = "pending" /\ jobs'[i].attempts = 0
                     /\ jobs'[i].max_attempts = DefaultBudget /\ jobs'[i].locked_by = NoOne
    BY <2>1 DEF NewRow
  <2>5. Enqueues(S, m)
    BY <1>0, <2>1, <2>3, <2>4 DEF Enqueues, Rest
  <2>6. S \in SUBSET Ids /\ UNCHANGED pc
    BY <2>1
  <2>. HIDE DEF S, m
  <2>. QED BY <2>2, <2>5, <2>6 DEF Kinds
<1>3. ASSUME NEW w \in Workers, NEW i \in Ids, Leasable(w, i),
             jobs' = [jobs EXCEPT ![i] = LeaseRow(w, i)]
      PROVE  Leases(w, i)
  <2>1. ASSUME NEW r \in Row
        PROVE  LET s == [r EXCEPT !.status = "leased", !.locked_by = w, !.age = 0] IN
               /\ s.status = "leased" /\ s.locked_by = w /\ s.age = 0
               /\ s.attempts = r.attempts /\ s.max_attempts = r.max_attempts
    BY DEF Row
  <2>2. jobs'[i] = [jobs[i] EXCEPT !.status = "leased", !.locked_by = w, !.age = 0]
    BY <1>0, <1>3 DEF LeaseRow, TypeOK
  <2>3. jobs[i] \in Row /\ jobs[i].status = "pending"
    BY <1>0, <1>3 DEF Leasable, Due
  <2>4. \A j \in Ids \ {i} : jobs'[j] = jobs[j]
    BY <1>0, <1>3 DEF TypeOK
  <2>. QED BY <2>1, <2>2, <2>3, <2>4 DEF Leases
<1>4. ASSUME NEW S \in SUBSET Ids, \A i \in S : jobs[i].status = "leased", jobs' = Requeued(S),
             UNCHANGED nextId, \A i \in Ids \ S : events'[i] = events[i]
      PROVE  GivesBack(S)
  <2>. DEFINE R(r) == [r EXCEPT !.status = "pending", !.locked_by = NoOne, !.age = 0]
  <2>1. ASSUME NEW r \in Row
        PROVE  /\ R(r).status = "pending" /\ R(r).locked_by = NoOne
               /\ R(r).attempts = r.attempts /\ R(r).max_attempts = r.max_attempts
    BY DEF Row
  <2>2. \A i \in S : jobs'[i] = R(jobs[i]) /\ jobs[i] \in Row
    BY <1>0, <1>4 DEF Requeued
  <2>. HIDE DEF R
  <2>3. \A i \in Ids \ S : jobs'[i] = jobs[i]
    BY <1>4 DEF Requeued
  <2>4. ASSUME NEW i \in S
        PROVE  /\ jobs'[i].status = "pending" /\ jobs'[i].locked_by = NoOne
               /\ jobs'[i].attempts = jobs[i].attempts
               /\ jobs'[i].max_attempts = jobs[i].max_attempts
    BY <2>1, <2>2
  <2>. QED BY <1>4, <2>3, <2>4 DEF GivesBack, Rest
<1>5. ASSUME NEW w \in Workers, WorkerStep(w) PROVE Kinds
  <2>1. ASSUME NEW i \in Ids, LeaseJob(w, i) PROVE Kinds
    <3>1. HandsOut(w, i)
      BY <1>3, <2>1 DEF LeaseJob, HandsOut
    <3>. QED BY <3>1 DEF Kinds
  <2>2. ASSUME NEW i \in Ids, LateLease(w, i) PROVE Kinds
    <3>1. HandsOut(w, i)
      BY <1>3, <2>2 DEF LateLease, HandsOut
    <3>. QED BY <3>1 DEF Kinds
  <2>3. ASSUME AbandonLease(w) \/ LateLeaseLost(w) \/ WriteError(w) \/ DrainError(w)
               \/ \E o \in Outcomes : ProcessJob(w, o)
        PROVE  Kinds
    <3>1. Quiet
      BY <1>0, <2>3 DEF AbandonLease, LateLeaseLost, WriteError, NextIteration, DrainError,
         ProcessJob, Quiet, TypeOK
    <3>. QED BY <3>1 DEF Kinds
  <2>4. CASE FinishJob(w)
    <3>1. /\ pc[w] = "write" /\ pc' = [pc EXCEPT ![w] = "lease"] /\ UNCHANGED nextId
      BY <2>4 DEF FinishJob, NextIteration
    <3>2. CASE UNCHANGED table
      <4>1. Quiet
        BY <1>0, <3>1, <3>2 DEF Quiet, TypeOK
      <4>. QED BY <4>1 DEF Kinds
    <3>3. CASE Settles(w)
      BY <3>1, <3>3 DEF Finishes, Kinds
    <3>. QED BY <1>0, <2>4, <3>2, <3>3, FinishEffect DEF HandOK
  <2>5. CASE drainLease(w)
    <3>. DEFINE S == {i \in Ids : jobs[i].status = "leased" /\ jobs[i].locked_by = w}
    <3>1. /\ pc[w] = "lease" /\ pc' = [pc EXCEPT ![w] = "drained"]
          /\ jobs' = Requeued(S) /\ UNCHANGED <<events, nextId>>
      BY <2>5 DEF drainLease
    <3>2. GivesBack(S)
      BY <1>4, <3>1
    <3>3. Drains(w, S) /\ S \in SUBSET Ids
      BY <3>1, <3>2 DEF Drains
    <3>. HIDE DEF S
    <3>. QED BY <3>3 DEF Kinds
  <2>. QED BY <1>5, <2>1, <2>2, <2>3, <2>4, <2>5 DEF WorkerStep
<1>6. ASSUME NEW p \in Pods, PodStep(p) PROVE Kinds
  <2>1. CASE Sigterm(p) \/ Exit(p) \/ Kill(p) \/ Restart(p)
    <3>1. Quiet
      BY <1>0, <2>1 DEF Sigterm, Exit, Kill, Restart, Quiet, TypeOK
    <3>. QED BY <3>1 DEF Kinds
  <2>2. CASE Sweep(p)
    <3>. DEFINE S == {i \in Ids : Expired(i)}
    <3>1. /\ jobs' = Requeued(S) /\ UNCHANGED <<nextId, pc>>
          /\ events' = [i \in Ids |-> IF i \in S /\ events[i]["expire"] < ExpireCap
                                      THEN [events[i] EXCEPT !["expire"] = @ + 1]
                                      ELSE events[i]]
      BY <2>2 DEF Sweep
    <3>2. \A i \in S : jobs[i].status = "leased" /\ jobs[i].age > Threshold
      BY DEF Expired
    <3>3. S \in SUBSET Ids
      OBVIOUS
    <3>. HIDE DEF S
    <3>4. GivesBack(S)
      BY <1>4, <3>1, <3>2, <3>3
    <3>5. ASSUME NEW i \in S
          PROVE  events'[i]["expire"] = IF events[i]["expire"] < ExpireCap
                                        THEN events[i]["expire"] + 1 ELSE events[i]["expire"]
      BY <1>0, <3>1, <3>3 DEF EventKinds
    <3>6. Expires(S)
      BY <3>1, <3>2, <3>4, <3>5 DEF Expires
    <3>. QED BY <3>3, <3>6 DEF Kinds
  <2>3. CASE Retention(p)
    <3>. DEFINE S == {i \in Ids : Purgeable(i)}
    <3>1. Forgets(S)
      BY <2>3 DEF Retention, Purgeable, Forgets, Rest
    <3>2. S \in SUBSET Ids
      OBVIOUS
    <3>. HIDE DEF S
    <3>. QED BY <3>1, <3>2 DEF Kinds
  <2>. QED BY <1>6, <2>1, <2>2, <2>3 DEF PodStep
<1>7. CASE Tick
  <2>1. Ages
    BY <1>7 DEF Tick, Ages
  <2>. QED BY <2>1 DEF Kinds
<1>8. CASE UNCHANGED vars
  <2>1. Quiet
    BY <1>8 DEF vars, Quiet
  <2>. QED BY <2>1 DEF Kinds
<1>. QED BY <1>1, <1>2, <1>5, <1>6, <1>7, <1>8 DEF Next

\* A step of any kind leaves terminal rows as they are or removes them.
LEMMA TerminalStep == IInv /\ Kinds => KeepsTerminal
<1>. SUFFICES ASSUME IInv, Kinds, NEW i \in Ids, jobs[i].status \in Terminal
              PROVE  \/ jobs'[i].status = "none" /\ events'[i] = NoEvents
                     \/ /\ [jobs[i] EXCEPT !.age = 0, !.run_in = 0]
                            = [jobs'[i] EXCEPT !.age = 0, !.run_in = 0]
                        /\ events'[i] = events[i]
  BY DEF KeepsTerminal
<1>0. jobs[i] \in Row /\ jobs[i].status \notin Live \cup {"none"}
  BY DEF IInv, TypeOK, Terminal, Live
<1>1. CASE jobs'[i] = jobs[i] /\ events'[i] = events[i]
  BY <1>1
<1>2. CASE jobs'[i] = NoRow /\ events'[i] = NoEvents
  BY <1>2 DEF NoRow
<1>3. CASE Ages
  <2>1. ASSUME NEW r \in Row
        PROVE  [r EXCEPT !.age = 0, !.run_in = 0] = [Aged(r) EXCEPT !.age = 0, !.run_in = 0]
    BY DEF Row, Aged
  <2>. QED BY <1>0, <1>3, <2>1 DEF Ages
<1>4. CASE ~Ages
  BY <1>0, <1>1, <1>2, <1>4 DEF Kinds, Enqueues, HandsOut, Leases, Expires, Drains, GivesBack,
     Finishes, Settles, HoldsLease, Forgets, Quiet, Rest, Live, IInv, TypeOK
<1>. QED BY <1>3, <1>4

\* A terminal status is final, for every number of workers that transferred the job.
THEOREM OutcomesAreFinal == Spec => TerminalIsFinal
<1>1. IInv /\ [Next]_vars => [KeepsTerminal]_vars
  BY StepKinds, TerminalStep
<1>. QED BY <1>1, InitInv, NextInv, PTL DEF Spec, TerminalIsFinal

\* A step of any kind spends an attempt or ends a job only for the lease's holder.
LEMMA SettleStep == IInv /\ Kinds => SettledByHolder
<1>. SUFFICES ASSUME IInv, Kinds, NEW i \in Ids, jobs[i].status \in Live, jobs'[i].status # "none",
                     jobs'[i].attempts # jobs[i].attempts \/ jobs'[i].status \in Terminal
              PROVE  \E w \in Workers : /\ pc[w] = "write" /\ pc'[w] = "lease"
                                        /\ job[w].id = i /\ jobs[i].locked_by = w
  BY DEF SettledByHolder
<1>0. jobs[i] \in Row /\ jobs[i].status \notin Terminal \cup {"none"}
  BY DEF IInv, TypeOK, Terminal, Live
<1>1. ASSUME NEW w \in Workers, Finishes(w)
      PROVE  /\ pc[w] = "write" /\ pc'[w] = "lease" /\ job[w].id = i /\ jobs[i].locked_by = w
  BY <1>0, <1>1 DEF Finishes, Settles, HoldsLease, IInv, TypeOK
<1>2. CASE Ages
  <2>1. ASSUME NEW r \in Row PROVE Aged(r).status = r.status /\ Aged(r).attempts = r.attempts
    BY DEF Row, Aged
  <2>. QED BY <1>0, <1>2, <2>1 DEF Ages
<1>3. CASE ~Ages /\ ~\E w \in Workers : Finishes(w)
  BY <1>0, <1>3 DEF Kinds, Enqueues, HandsOut, Leases, Expires, Drains, GivesBack, Forgets, Quiet,
     Rest, Live, Terminal
<1>. QED BY <1>1, <1>2, <1>3

\* Whoever else transferred it, only the holder of the lease settles a job.
THEOREM HolderSettles == Spec => OnlyHolderSettles
<1>1. IInv /\ [Next]_vars => [SettledByHolder]_vars
  BY StepKinds, SettleStep
<1>. QED BY <1>1, InitInv, NextInv, PTL DEF Spec, OnlyHolderSettles

\* The model counts 'expire' events up to ExpireCap.
Capped == \A i \in Ids : events[i]["expire"] <= ExpireCap

\* The count stays within its bound.
LEMMA CappedStep == IInv /\ Capped /\ Kinds => Capped'
<1>. SUFFICES ASSUME IInv, Capped, Kinds, NEW i \in Ids PROVE events'[i]["expire"] <= ExpireCap
  BY DEF Capped
<1>0. events[i] \in [EventKinds -> Nat] /\ events[i]["expire"] <= ExpireCap /\ ExpireCap \in Nat
      /\ events[i]["expire"] \in Nat
  BY BoundsAssumption DEF IInv, TypeOK, Capped, EventKinds
<1>1. CASE events'[i]["expire"] = events[i]["expire"]
  BY <1>0, <1>1
<1>2. ASSUME NEW w \in Workers, Finishes(w) PROVE events'[i]["expire"] = events[i]["expire"]
  <2>1. PICK e \in EventKinds : e # "expire" /\ events' = [events EXCEPT ![job[w].id][e] = @ + 1]
    BY <1>2 DEF Finishes, Settles, Settlement
  <2>. QED BY <1>0, <2>1 DEF IInv, TypeOK
<1>3. ASSUME NEW S \in SUBSET Ids, Expires(S) PROVE events'[i]["expire"] <= ExpireCap
  BY <1>0, <1>1, <1>3 DEF Expires, GivesBack, Rest
<1>4. ASSUME NEW S \in SUBSET Ids, Forgets(S) PROVE events'[i]["expire"] <= ExpireCap
  BY <1>0, <1>1, <1>4 DEF Forgets, Rest, NoEvents, EventKinds
<1>5. ASSUME NEW S \in SUBSET Ids, NEW m \in [Ids -> AllBudgets], Enqueues(S, m)
      PROVE  events'[i]["expire"] = events[i]["expire"]
  BY <1>5 DEF Enqueues, Rest
<1>6. ASSUME (\E w \in Workers, j \in Ids : HandsOut(w, j)) \/ Ages \/ Quiet
             \/ \E w \in Workers, S \in SUBSET Ids : Drains(w, S)
      PROVE  events'[i]["expire"] = events[i]["expire"]
  BY <1>6 DEF HandsOut, Ages, Quiet, Drains
<1>. QED BY <1>1, <1>2, <1>3, <1>4, <1>5, <1>6 DEF Kinds

\* A step of any kind takes a lease from its holder only for its age, or the holder
\* takes the step.
LEMMA LeaseStep == IInv /\ Capped /\ Kinds => TakenWhenExpired
<1>. SUFFICES ASSUME IInv, Capped, Kinds, NEW i \in Ids, NEW w \in Workers,
                     jobs[i].locked_by = w, jobs'[i].locked_by # w, pc'[w] = pc[w]
              PROVE  /\ jobs[i].age > Threshold
                     /\ jobs'[i].attempts = jobs[i].attempts
                     /\ events'[i]["expire"] > events[i]["expire"]
                          \/ events[i]["expire"] = ExpireCap
  BY DEF TakenWhenExpired
<1>0. jobs[i] \in Row /\ jobs[i].status = "leased"
  BY DEF IInv, TypeOK, TableOK, RowOK
<1>1. ASSUME NEW S \in SUBSET Ids, NEW m \in [Ids -> AllBudgets], Enqueues(S, m) PROVE FALSE
  BY <1>0, <1>1 DEF Enqueues, Rest
<1>2. ASSUME NEW v \in Workers, NEW j \in Ids, HandsOut(v, j) PROVE FALSE
  BY <1>0, <1>2 DEF HandsOut, Leases
<1>3. ASSUME NEW v \in Workers, NEW S \in SUBSET Ids, Drains(v, S) PROVE FALSE
  BY <1>0, <1>3 DEF Drains, GivesBack, Rest, IInv, TypeOK
<1>4. ASSUME NEW v \in Workers, Finishes(v) PROVE FALSE
  BY <1>0, <1>4 DEF Finishes, Settles, HoldsLease, IInv, TypeOK
<1>5. ASSUME NEW S \in SUBSET Ids, Forgets(S) PROVE FALSE
  BY <1>0, <1>5 DEF Forgets, Rest, Terminal
<1>6. ASSUME Ages PROVE FALSE
  <2>1. ASSUME NEW r \in Row PROVE Aged(r).locked_by = r.locked_by
    BY DEF Row, Aged
  <2>. QED BY <1>0, <1>6, <2>1 DEF Ages
<1>7. PICK S \in SUBSET Ids : Expires(S)
  BY <1>1, <1>2, <1>3, <1>4, <1>5, <1>6 DEF Kinds, Quiet
<1>8. i \in S
  BY <1>7 DEF Expires, GivesBack, Rest
<1>9. events[i]["expire"] \in Nat /\ events[i]["expire"] <= ExpireCap /\ ExpireCap \in Nat
  BY BoundsAssumption DEF IInv, TypeOK, EventKinds, Capped
<1>. QED BY <1>7, <1>8, <1>9 DEF Expires, GivesBack

\* The sweeper takes no lease from a worker before its threshold, and nobody else does.
THEOREM LeasesAreRespected == Spec => LeaseRespected
<1>1. Init => Capped
  BY BoundsAssumption DEF Init, Capped, NoEvents, EventKinds
<1>2. IInv /\ Capped /\ [Next]_vars => Capped' /\ [TakenWhenExpired]_vars
  BY StepKinds, CappedStep, LeaseStep
<1>. QED BY <1>1, <1>2, InitInv, NextInv, PTL DEF Spec, LeaseRespected

\* No lease statement is abandoned when the database answers.
NoGhost == ghost = {}

\* After a drain nothing leases to the worker but itself.
LEMMA DrainStep == IInv /\ NoGhost /\ DrainedHoldsNothing /\ Kinds => DrainedHoldsNothing'
<1>. SUFFICES ASSUME IInv, NoGhost, DrainedHoldsNothing, Kinds, NEW w \in Workers,
                     pc'[w] = "drained", NEW i \in Ids
              PROVE  jobs'[i].locked_by # w
  BY DEF DrainedHoldsNothing
<1>0. jobs[i] \in Row /\ NoOne # w /\ (jobs[i].locked_by = w => jobs[i].status = "leased")
  BY NullAssumption DEF IInv, TypeOK, TableOK, RowOK
<1>1. pc[w] = "drained" => jobs[i].locked_by # w
  BY DEF DrainedHoldsNothing
<1>2. ASSUME NEW S \in SUBSET Ids, NEW m \in [Ids -> AllBudgets], Enqueues(S, m), UNCHANGED pc
      PROVE  jobs'[i].locked_by # w
  BY <1>0, <1>1, <1>2 DEF Enqueues, Rest
<1>3. ASSUME NEW v \in Workers, NEW j \in Ids, HandsOut(v, j) PROVE jobs'[i].locked_by # w
  <2>1. pc[v] = "lease" /\ pc' = [pc EXCEPT ![v] = "process"]
    BY <1>3 DEF HandsOut, NoGhost
  <2>2. v # w /\ pc[w] = "drained"
    BY <2>1 DEF IInv, TypeOK
  <2>. QED BY <1>1, <1>3, <2>2 DEF HandsOut, Leases
<1>4. ASSUME NEW v \in Workers, NEW S \in SUBSET Ids, Drains(v, S) PROVE jobs'[i].locked_by # w
  <2>1. v = w \/ pc[w] = "drained"
    BY <1>4 DEF Drains, IInv, TypeOK
  <2>. QED BY <1>0, <1>1, <1>4, <2>1 DEF Drains, GivesBack, Rest
<1>5. ASSUME NEW v \in Workers, Finishes(v) PROVE jobs'[i].locked_by # w
  <2>1. pc[w] = "drained"
    BY <1>5 DEF Finishes, IInv, TypeOK
  <2>2. jobs'[i] = jobs[i] \/ jobs'[i].locked_by = NoOne
    BY <1>5 DEF Finishes, Settles, IInv, TypeOK
  <2>. QED BY <1>0, <1>1, <2>1, <2>2
<1>6. ASSUME NEW S \in SUBSET Ids, Forgets(S) PROVE jobs'[i].locked_by # w
  BY <1>0, <1>1, <1>6 DEF Forgets, Rest, NoRow
<1>7. ASSUME Ages PROVE jobs'[i].locked_by # w
  <2>1. ASSUME NEW r \in Row PROVE Aged(r).locked_by = r.locked_by
    BY DEF Row, Aged
  <2>. QED BY <1>0, <1>1, <1>7, <2>1 DEF Ages
<1>8. ASSUME NEW S \in SUBSET Ids, Expires(S) PROVE jobs'[i].locked_by # w
  BY <1>0, <1>1, <1>8 DEF Expires, GivesBack, Rest
<1>9. ASSUME Quiet PROVE jobs'[i].locked_by # w
  BY <1>1, <1>9 DEF Quiet
<1>. QED BY <1>2, <1>3, <1>4, <1>5, <1>6, <1>7, <1>8, <1>9 DEF Kinds

\* A drained worker leaves nothing leased under its name, unless a lease statement of
\* it was abandoned.
THEOREM DrainIsComplete == ASSUME "latelease" \notin Faults PROVE Spec => []DrainedHoldsNothing
<1>1. Init => NoGhost /\ DrainedHoldsNothing
  BY DEF Init, NoGhost, DrainedHoldsNothing
<1>2. NoGhost /\ [Next]_vars => NoGhost'
  <2>1. \A p \in Pods : \A S \in Abandoned(p) : S = {}
    BY DEF Abandoned
  <2>2. ASSUME NoGhost, NEW w \in Workers, WorkerStep(w) PROVE NoGhost'
    BY <2>2 DEF NoGhost, WorkerStep, LeaseJob, AbandonLease, LateLease, LateLeaseLost, ProcessJob,
       FinishJob, WriteError, NextIteration, drainLease, DrainError
  <2>3. ASSUME NoGhost, NEW p \in Pods, PodStep(p) PROVE NoGhost'
    BY <2>1, <2>3 DEF NoGhost, PodStep, Sigterm, Exit, Kill, Restart, Sweep, Retention
  <2>. QED BY <2>2, <2>3 DEF Next, NoGhost, Enqueue, EnqueueBatch, Tick, vars
<1>3. IInv /\ NoGhost /\ DrainedHoldsNothing /\ [Next]_vars => DrainedHoldsNothing'
  BY StepKinds, DrainStep
<1>. QED BY <1>1, <1>2, <1>3, InitInv, NextInv, PTL DEF Spec

-----------------------------------------------------------------------------
\* What the lifecycle sees of a row.
View(p, a, m) == [phase |-> p, attempts |-> a, max_attempts |-> m]
Rows == [i \in Ids |-> Seen(i)]

\* A row that is there is seen with its status, one that is not as unborn or purged.
LEMMA SeenRow ==
    ASSUME NEW i \in Ids
    PROVE  /\ jobs[i].status # "none"
                => Seen(i) = View(jobs[i].status, jobs[i].attempts, jobs[i].max_attempts)
           /\ jobs[i].status = "none" /\ i < nextId
                => Seen(i) = View("purged", jobs[i].attempts, jobs[i].max_attempts)
           /\ jobs[i].status = "none" /\ ~(i < nextId)
                => Seen(i) = View("unborn", jobs[i].attempts, jobs[i].max_attempts)
BY DEF Seen, View

\* The same after a step.
LEMMA SeenRowNext ==
    ASSUME NEW i \in Ids
    PROVE  /\ jobs'[i].status # "none"
                => Seen(i)' = View(jobs'[i].status, jobs'[i].attempts, jobs'[i].max_attempts)
           /\ jobs'[i].status = "none" /\ i < nextId'
                => Seen(i)' = View("purged", jobs'[i].attempts, jobs'[i].max_attempts)
           /\ jobs'[i].status = "none" /\ ~(i < nextId')
                => Seen(i)' = View("unborn", jobs'[i].attempts, jobs'[i].max_attempts)
BY DEF Seen, View

\* A step of any kind is a step of the lifecycle, or invisible to it.
LEMMA LifecycleStep == IInv /\ Kinds => [Lifecycle!LNext]_Rows
<1>. SUFFICES ASSUME IInv, Kinds PROVE Lifecycle!LNext \/ UNCHANGED Rows
  OBVIOUS
<1>0. /\ \A i \in Ids : jobs[i] \in Row /\ RowOK(jobs[i], events[i])
      /\ nextId \in Int /\ Ids \subseteq Int
  BY BoundsAssumption DEF IInv, TypeOK, TableOK, Ids
<1>a. ASSUME NEW i \in Ids, jobs'[i] = jobs[i], i < nextId' <=> i < nextId PROVE Seen(i)' = Seen(i)
  BY <1>a DEF Seen
<1>b. Rows' = [i \in Ids |-> Seen(i)']
  BY DEF Rows
<1>c. ASSUME NEW n \in Ids, \A i \in Ids \ {n} : Seen(i)' = Seen(i)
      PROVE  Rows' = [Rows EXCEPT ![n] = Seen(n)']
  BY <1>b, <1>c DEF Rows
<1>d. \A i \in Ids : Rows[i] = Seen(i)
  BY DEF Rows
<1>1. ASSUME NEW S \in SUBSET Ids, NEW m \in [Ids -> AllBudgets], Enqueues(S, m)
      PROVE  Lifecycle!LNext
  <2>1. ASSUME NEW i \in S PROVE Seen(i).phase = "unborn"
    <3>1. i \in Ids /\ ~(i < nextId) /\ jobs[i].status = "none"
      BY <1>0, <1>1 DEF Enqueues
    <3>. QED BY <3>1 DEF Seen
  <2>2. \A i \in S : Seen(i)' = View("pending", 0, m[i])
    BY <1>1, SeenRowNext DEF Enqueues
  <2>3. \A i \in Ids \ S : Seen(i)' = Seen(i)
    BY <1>1, <1>a DEF Enqueues, Rest
  <2>4. Lifecycle!Submit
    BY <1>b, <2>1, <2>2, <2>3 DEF Lifecycle!Submit, View, Rows, AllBudgets
  <2>. QED BY <2>4 DEF Lifecycle!LNext
<1>2. ASSUME NEW w \in Workers, NEW n \in Ids, HandsOut(w, n) PROVE Lifecycle!LNext
  <2>1. Seen(n) = View("pending", jobs[n].attempts, jobs[n].max_attempts)
    BY <1>2, SeenRow DEF HandsOut, Leases
  <2>2. Seen(n)' = View("leased", jobs[n].attempts, jobs[n].max_attempts)
    BY <1>2, SeenRowNext DEF HandsOut, Leases
  <2>3. \A i \in Ids \ {n} : Seen(i)' = Seen(i)
    BY <1>2, <1>a DEF HandsOut, Leases
  <2>4. Rows' = [Rows EXCEPT ![n] = [Rows[n] EXCEPT !.phase = "leased"]]
    BY <1>c, <1>d, <2>1, <2>2, <2>3 DEF View
  <2>5. Rows[n].phase = "pending"
    BY <1>d, <2>1 DEF View
  <2>6. Lifecycle!Start(n)
    BY <2>4, <2>5 DEF Lifecycle!Start, Rows
  <2>. QED BY <2>6 DEF Lifecycle!LNext
<1>3. ASSUME NEW S \in SUBSET Ids, GivesBack(S) PROVE Lifecycle!LNext
  <2>1. \A i \in S : Seen(i) = View("leased", jobs[i].attempts, jobs[i].max_attempts)
    BY <1>3, SeenRow DEF GivesBack
  <2>2. \A i \in S : Seen(i)' = View("pending", jobs[i].attempts, jobs[i].max_attempts)
    BY <1>3, SeenRowNext DEF GivesBack
  <2>3. \A i \in Ids \ S : Seen(i)' = Seen(i)
    BY <1>3, <1>a DEF GivesBack, Rest
  <2>4. \A i \in S : Seen(i).phase = "leased" /\ Seen(i)' = [Seen(i) EXCEPT !.phase = "pending"]
    BY <2>1, <2>2 DEF View
  <2>5. Lifecycle!GiveBack
    BY <1>b, <2>3, <2>4 DEF Lifecycle!GiveBack, Rows
  <2>. QED BY <2>5 DEF Lifecycle!LNext
<1>4. ASSUME NEW S \in SUBSET Ids, Forgets(S) PROVE Lifecycle!LNext
  <2>1. \A i \in S : Seen(i).phase \in Terminal
    BY <1>4, SeenRow DEF Forgets, View, Terminal
  <2>2. \A i \in S : i < nextId' /\ jobs'[i] = NoRow
    <3>1. ASSUME NEW i \in S PROVE i < nextId
      BY <1>0, <1>4 DEF Forgets, IInv, TableOK, Terminal
    <3>. QED BY <1>4, <3>1 DEF Forgets
  <2>3. \A i \in S : Seen(i)' = View("purged", 0, 0)
    BY <2>2, SeenRowNext DEF NoRow
  <2>4. \A i \in Ids \ S : Seen(i)' = Seen(i)
    BY <1>4, <1>a DEF Forgets, Rest
  <2>5. Lifecycle!Purge
    BY <1>b, <2>1, <2>3, <2>4 DEF Lifecycle!Purge, Lifecycle!Outcomes3, Terminal, View, Rows
  <2>. QED BY <2>5 DEF Lifecycle!LNext
<1>5. ASSUME Ages PROVE UNCHANGED Rows
  <2>1. ASSUME NEW r \in Row
        PROVE  /\ Aged(r).status = r.status /\ Aged(r).attempts = r.attempts
               /\ Aged(r).max_attempts = r.max_attempts
    BY DEF Row, Aged
  <2>2. ASSUME NEW i \in Ids PROVE Seen(i)' = Seen(i)
    BY <1>0, <1>5, <2>1 DEF Ages, Seen
  <2>. QED BY <1>b, <2>2 DEF Rows
<1>6. ASSUME Quiet PROVE UNCHANGED Rows
  BY <1>6, <1>a, <1>b DEF Quiet, Rows
<1>7. ASSUME NEW w \in Workers, Finishes(w) PROVE Lifecycle!LNext
  <2>n. PICK n \in Ids : n = job[w].id
    BY <1>7 DEF Finishes, Settles, HoldsLease
  <2>a. PICK a \in Nat, m \in Nat : a = jobs[n].attempts /\ m = jobs[n].max_attempts
    BY <1>0 DEF Row
  <2>0. PICK s \in Row, e \in EventKinds :
            /\ jobs' = [jobs EXCEPT ![n] = s] /\ Settlement(jobs[n], s, e)
            /\ s.max_attempts = m
    BY <1>7, <2>n, <2>a DEF Finishes, Settles
  <2>1. n \in Ids /\ jobs[n].status = "leased" /\ nextId' = nextId
    BY <1>7, <2>n DEF Finishes, Settles, HoldsLease
  <2>2. jobs'[n] = s /\ \A i \in Ids \ {n} : jobs'[i] = jobs[i]
    BY <2>0, <2>1 DEF IInv, TypeOK
  <2>3. a \in Nat /\ m \in Nat /\ a < m
    BY <1>0, <2>1, <2>a DEF Row, RowOK, Live
  <2>4. Seen(n) = View("leased", a, m) /\ \A i \in Ids \ {n} : Seen(i)' = Seen(i)
    BY <1>a, <2>1, <2>2, <2>a, SeenRow
  <2>5. Rows[n] = View("leased", a, m) /\ Rows' = [Rows EXCEPT ![n] = Seen(n)']
    BY <1>c, <1>d, <2>1, <2>4
  <2>6. s.status # "none" /\ Seen(n)' = View(s.status, s.attempts, m)
    <3>1. s.status # "none"
      BY <2>0 DEF Settlement
    <3>. QED BY <2>0, <2>1, <2>2, <3>1, SeenRowNext
  <2>7. CASE s.status = "pending" /\ s.attempts = a + 1 /\ a + 1 < m
    <3>1. Seen(n)' = View("pending", Rows[n].attempts + 1, Rows[n].max_attempts)
      BY <2>5, <2>6, <2>7 DEF View
    <3>2. Rows[n].phase = "leased" /\ Rows[n].attempts + 1 < Rows[n].max_attempts
      BY <2>5, <2>7 DEF View
    <3>3. Lifecycle!Fail(n)
      BY <2>1, <2>5, <3>1, <3>2 DEF Lifecycle!Fail, Rows, View
    <3>. QED BY <2>1, <3>3 DEF Lifecycle!LNext
  <2>8. ASSUME NEW o \in Terminal, s.status = o, s.attempts = IF o = "dead" THEN a + 1 ELSE a
        PROVE  Lifecycle!LNext
    <3>1. Seen(n)' = View(o, IF o = "dead" THEN Rows[n].attempts + 1 ELSE Rows[n].attempts,
                          Rows[n].max_attempts)
      BY <2>5, <2>6, <2>8 DEF View
    <3>2. Rows[n].phase = "leased" /\ Rows[n].attempts < Rows[n].max_attempts
      BY <2>3, <2>5 DEF View
    <3>3. Lifecycle!Complete(n, o)
      BY <2>1, <2>5, <3>1, <3>2 DEF Lifecycle!Complete, Rows, View
    <3>. QED BY <2>1, <3>3 DEF Lifecycle!LNext, Lifecycle!Outcomes3, Terminal
  <2>. QED BY <2>0, <2>7, <2>8, <2>a DEF Settlement, Terminal
<1>. QED BY <1>1, <1>2, <1>3, <1>4, <1>5, <1>6, <1>7 DEF Kinds, Expires, Drains

\* The queue implements the lifecycle its users rely on: the leases, sweeps, drains,
\* crashes and late writes of any number of pods add up to its steps.
THEOREM QueueImplementsLifecycle == Spec => ImplementsLifecycle
<1>1. Init => Lifecycle!LInit
  <2>1. ASSUME Init, NEW i \in Ids PROVE Seen(i) = View("unborn", 0, 0)
    BY <2>1, BoundsAssumption DEF Init, Seen, View, NoRow, Ids
  <2>. QED BY <2>1 DEF Lifecycle!LInit, View
<1>2. IInv /\ [Next]_vars => [Lifecycle!LNext]_([i \in Ids |-> Seen(i)])
  BY StepKinds, LifecycleStep DEF Rows
<1>. QED BY <1>1, <1>2, InitInv, NextInv, PTL DEF Spec, ImplementsLifecycle, Lifecycle!LSpec
=============================================================================
