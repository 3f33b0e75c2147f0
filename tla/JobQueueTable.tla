--------------------------- MODULE JobQueueTable ----------------------------
(***************************************************************************)
(* Proofs about the queue, second part: every step keeps each row and its   *)
(* events in agreement, and what a worker has in hand in order.             *)
(***************************************************************************)
EXTENDS JobQueueTyping

\* The part of the invariant that is about one row and its events.
RowOK(r, ev) ==
    /\ r.status = "leased" <=> r.locked_by \in Workers
    /\ r.status = "none" => r = NoRow /\ ev = NoEvents
    /\ r.attempts = ev["fail"] + ev["dead"]
    /\ ev["success"] = IF r.status = "succeeded" THEN 1 ELSE 0
    /\ ev["skip"] = IF r.status = "skipped" THEN 1 ELSE 0
    /\ ev["dead"] = IF r.status = "dead" THEN 1 ELSE 0
    /\ r.attempts <= r.max_attempts
    /\ r.status \in Live => r.attempts < r.max_attempts

TableOK ==
    \A i \in Ids : /\ RowOK(jobs[i], events[i])
                   /\ i >= nextId => jobs[i].status = "none"

Logs == [EventKinds -> Nat]

\* A new row, an absent row.
LEMMA BornOK ==
    /\ RowOK(NoRow, NoEvents)
    /\ \A k \in Keys, m \in Nat \ {0} : /\ RowOK(NewRow(k, m), NoEvents)
                                        /\ RowOK(NewRow(k, m), [NoEvents EXCEPT !["enqueue"] = 1])
BY NullAssumption DEF RowOK, NoRow, NewRow, NoEvents, EventKinds, Live

\* A pending row that is leased.
LEMMA LeaseOK ==
    ASSUME NEW r \in Row, NEW ev \in Logs, RowOK(r, ev), r.status = "pending",
           NEW w \in Workers
    PROVE  RowOK([r EXCEPT !.status = "leased", !.locked_by = w, !.age = 0], ev)
BY DEF RowOK, Row, Live

\* A leased row that is requeued, with or without an 'expire' event.
LEMMA RequeueOK ==
    ASSUME NEW r \in Row, NEW ev \in Logs, RowOK(r, ev), r.status = "leased"
    PROVE  /\ RowOK([r EXCEPT !.status = "pending", !.locked_by = NoOne, !.age = 0], ev)
           /\ RowOK([r EXCEPT !.status = "pending", !.locked_by = NoOne, !.age = 0],
                    [ev EXCEPT !["expire"] = @ + 1])
BY NullAssumption DEF RowOK, Row, Live, Logs, EventKinds

\* A row that grows older.
LEMMA AgedOK ==
    ASSUME NEW r \in Row, NEW ev \in Logs, RowOK(r, ev)
    PROVE  RowOK(Aged(r), ev)
<1>1. CASE r.status = "none"
  BY <1>1 DEF Aged
<1>2. CASE r.status # "none"
  <2>. DEFINE s == Aged(r)
  <2>1. /\ s.status = r.status /\ s.locked_by = r.locked_by
        /\ s.attempts = r.attempts /\ s.max_attempts = r.max_attempts
    BY <1>2 DEF Aged, Row
  <2>. HIDE DEF s
  <2>2. RowOK(s, ev)
    BY <1>2, <2>1 DEF RowOK
  <2>. QED BY <2>2 DEF s
<1>. QED BY <1>1, <1>2

\* A leased row that is settled, with its event.
LEMMA SettleOK ==
    ASSUME NEW r \in Row, NEW ev \in Logs, RowOK(r, ev), r.status = "leased",
           NEW s \in Row, NEW e \in EventKinds, Settlement(r, s, e),
           s.max_attempts = r.max_attempts, s.locked_by = NoOne
    PROVE  RowOK(s, [ev EXCEPT ![e] = @ + 1])
<1>. DEFINE ev2 == [ev EXCEPT ![e] = @ + 1]
<1>1. /\ r.attempts \in Nat /\ r.max_attempts \in Nat /\ s.attempts \in Nat
      /\ \A x \in EventKinds : ev[x] \in Nat
  BY DEF Row, Logs
<1>2. \A x \in EventKinds : ev2[x] = IF x = e THEN ev[x] + 1 ELSE ev[x]
  BY DEF Logs
<1>. HIDE DEF ev2
<1>3. NoOne \notin Workers
  BY NullAssumption
<1>4. RowOK(s, ev2)
  BY <1>1, <1>2, <1>3 DEF RowOK, Settlement, EventKinds, Live
<1>. QED BY <1>4 DEF ev2

\* Every step keeps the table in order.
LEMMA TableStep ==
    ASSUME TypeOK, InHand, FreshSnapshot, TableOK, [Next]_vars
    PROVE  TableOK'
<1>. USE DEF table, local
<1>0. /\ \A i \in Ids : jobs[i] \in Row /\ events[i] \in Logs
      /\ nextId \in Int /\ Ids \subseteq Int
      /\ \A i \in Ids : jobs[i].status # "none" => i < nextId /\ ~(i >= nextId)
  <2>1. nextId \in Int /\ Ids \subseteq Int
    BY BoundsAssumption DEF TypeOK, Ids
  <2>2. \A i \in Ids : i < nextId \/ i >= nextId
    BY <2>1
  <2>. QED BY <2>1, <2>2 DEF TypeOK, Logs, TableOK
<1>a. ASSUME UNCHANGED <<jobs, events, nextId>> PROVE TableOK'
  BY <1>a DEF TableOK
<1>b. ASSUME NEW w \in Workers, NEW i \in Ids, jobs[i].status = "pending",
             jobs' = [jobs EXCEPT ![i] = LeaseRow(w, i)], UNCHANGED <<events, nextId>>
      PROVE  TableOK'
  <2>1. RowOK(LeaseRow(w, i), events[i])
    BY <1>0, <1>b, LeaseOK DEF TableOK, LeaseRow
  <2>2. ~(i >= nextId)
    BY <1>0, <1>b
  <2>. QED BY <1>0, <1>b, <2>1, <2>2 DEF TableOK, TypeOK
<1>c. ASSUME NEW S \in SUBSET Ids, \A i \in S : jobs[i].status = "leased",
             jobs' = Requeued(S), UNCHANGED nextId,
             \A i \in Ids : \/ events'[i] = events[i]
                            \/ i \in S /\ events'[i] = [events[i] EXCEPT !["expire"] = @ + 1]
      PROVE  TableOK'
  <2>1. ASSUME NEW i \in Ids
        PROVE  RowOK(jobs'[i], events'[i]) /\ (i >= nextId => jobs'[i].status = "none")
    <3>1. CASE i \in S
      BY <1>0, <1>c, <3>1, RequeueOK DEF TableOK, Requeued
    <3>2. CASE i \notin S
      BY <1>0, <1>c, <3>2 DEF TableOK, Requeued
    <3>. QED BY <3>1, <3>2
  <2>. QED BY <1>c, <2>1 DEF TableOK
<1>1. ASSUME NEW k \in Keys, NEW m \in Budgets, Enqueue(k, m) PROVE TableOK'
  <2>1. /\ RowOK(NewRow(k, m), [NoEvents EXCEPT !["enqueue"] = 1])
        /\ nextId \in Ids /\ events[nextId] = NoEvents
    BY <1>1, BornOK, BoundsAssumption, <1>0 DEF Enqueue, TableOK, RowOK
  <2>2. /\ jobs' = [jobs EXCEPT ![nextId] = NewRow(k, m)]
        /\ events' = [events EXCEPT ![nextId] = [NoEvents EXCEPT !["enqueue"] = 1]]
        /\ nextId' = nextId + 1
    BY <1>1, <2>1 DEF Enqueue, TypeOK
  <2>3. ASSUME NEW i \in Ids
        PROVE  RowOK(jobs'[i], events'[i]) /\ (i >= nextId' => jobs'[i].status = "none")
    <3>1. CASE i = nextId
      BY <1>0, <2>1, <2>2, <3>1 DEF TypeOK
    <3>2. CASE i # nextId
      BY <1>0, <2>1, <2>2, <3>2 DEF TypeOK, TableOK
    <3>. QED BY <3>1, <3>2
  <2>. QED BY <2>3 DEF TableOK
<1>2. ASSUME NEW S \in SUBSET Keys, EnqueueBatch(S) PROVE TableOK'
  <2>0. PICK last \in nextId .. MaxId :
             \E f \in Bijection(nextId .. last, {k \in S : ~Keyed(k)}) :
                /\ jobs' = [i \in Ids |-> IF i \in nextId .. last
                                  THEN NewRow(f[i], DefaultBudget) ELSE jobs[i]]
                /\ nextId' = last + 1
                /\ UNCHANGED events
    BY <1>2 DEF EnqueueBatch
  <2>1. PICK f \in Bijection(nextId .. last, {k \in S : ~Keyed(k)}) :
                /\ jobs' = [i \in Ids |-> IF i \in nextId .. last
                                  THEN NewRow(f[i], DefaultBudget) ELSE jobs[i]]
                /\ nextId' = last + 1
                /\ UNCHANGED events
    BY <2>0
  <2>2. f \in [nextId .. last -> Keys]
    BY Zenon DEF Bijection, Injection
  <2>3. ASSUME NEW i \in Ids
        PROVE  RowOK(jobs'[i], events'[i]) /\ (i >= nextId' => jobs'[i].status = "none")
    <3>1. CASE i \in nextId .. last
      <4>1. RowOK(NewRow(f[i], DefaultBudget), NoEvents)
        BY <2>2, <3>1, BornOK, BoundsAssumption
      <4>2. events[i] = NoEvents
        BY <1>0, <3>1 DEF TableOK, RowOK
      <4>. QED BY <1>0, <2>1, <3>1, <4>1, <4>2, BoundsAssumption
    <3>2. CASE i \notin nextId .. last
      BY <1>0, <2>1, <3>2, BoundsAssumption DEF TableOK
    <3>. QED BY <3>1, <3>2
  <2>. QED BY <2>3 DEF TableOK
<1>3. ASSUME NEW w \in Workers, WorkerStep(w) PROVE TableOK'
  <2>1. ASSUME NEW i \in Ids, LeaseJob(w, i) PROVE TableOK'
    BY <1>b, <2>1 DEF LeaseJob, Leasable, Due
  <2>2. ASSUME NEW i \in Ids, LateLease(w, i) PROVE TableOK'
    BY <1>b, <2>2 DEF LateLease, Leasable, Due
  <2>3. ASSUME AbandonLease(w) \/ LateLeaseLost(w) \/ WriteError(w) \/ DrainError(w)
               \/ \E o \in Outcomes : ProcessJob(w, o)
        PROVE  TableOK'
    BY <1>a, <2>3 DEF AbandonLease, LateLeaseLost, WriteError, NextIteration, DrainError,
       ProcessJob
  <2>4. CASE FinishJob(w)
    <3>1. UNCHANGED nextId
      BY <2>4 DEF FinishJob, NextIteration
    <3>2. CASE UNCHANGED table
      BY <1>a, <3>1, <3>2
    <3>3. CASE Settles(w)
      <4>. DEFINE n == job[w].id
      <4>1. n \in Ids /\ jobs[n].status = "leased"
        BY <3>3 DEF Settles, HoldsLease
      <4>2. PICK s \in Row, e \in EventKinds :
                /\ jobs' = [jobs EXCEPT ![n] = s]
                /\ events' = [events EXCEPT ![n] = [events[n] EXCEPT ![e] = @ + 1]]
                /\ Settlement(jobs[n], s, e)
                /\ s.max_attempts = jobs[n].max_attempts /\ s.locked_by = NoOne
        BY <3>3 DEF Settles
      <4>3. RowOK(s, [events[n] EXCEPT ![e] = @ + 1])
        BY <1>0, <4>1, <4>2, SettleOK DEF TableOK
      <4>4. ~(n >= nextId)
        BY <1>0, <4>1
      <4>. HIDE DEF n
      <4>5. \A i \in Ids \ {n} : jobs'[i] = jobs[i] /\ events'[i] = events[i]
        BY <4>2 DEF TypeOK
      <4>6. jobs'[n] = s /\ events'[n] = [events[n] EXCEPT ![e] = @ + 1]
        BY <4>1, <4>2 DEF TypeOK
      <4>. QED BY <1>0, <3>1, <4>1, <4>3, <4>4, <4>5, <4>6 DEF TableOK
    <3>. QED BY <2>4, <3>2, <3>3, FinishEffect
  <2>5. CASE drainLease(w)
    BY <1>c, <2>5 DEF drainLease
  <2>. QED BY <1>3, <2>1, <2>2, <2>3, <2>4, <2>5 DEF WorkerStep
<1>4. ASSUME NEW p \in Pods, PodStep(p) PROVE TableOK'
  <2>1. CASE Sigterm(p) \/ Exit(p) \/ Kill(p) \/ Restart(p)
    BY <1>a, <2>1 DEF Sigterm, Exit, Kill, Restart
  <2>2. CASE Sweep(p)
    BY <1>c, <2>2 DEF Sweep, Expired
  <2>3. CASE Retention(p)
    BY <1>0, <2>3, BornOK DEF Retention, TableOK, NoRow
  <2>. QED BY <1>4, <2>1, <2>2, <2>3 DEF PodStep
<1>5. CASE Tick
  BY <1>0, <1>5, AgedOK DEF Tick, TableOK, Aged
<1>6. CASE UNCHANGED vars
  BY <1>a, <1>6 DEF vars
<1>. QED BY <1>1, <1>2, <1>3, <1>4, <1>5, <1>6 DEF Next

-----------------------------------------------------------------------------
\* A row that is leased after a step that leases nothing was leased before, to the
\* same worker and with the same counters.
Kept(r, s) ==
    s.status = "leased" => /\ r.status = "leased" /\ s.locked_by = r.locked_by
                           /\ s.attempts = r.attempts /\ s.max_attempts = r.max_attempts

\* The effect of a lease on the table.
Leases(w, i) ==
    /\ \A j \in Ids \ {i} : jobs'[j] = jobs[j]
    /\ jobs[i].status = "pending"
    /\ jobs'[i].status = "leased" /\ jobs'[i].locked_by = w /\ jobs'[i].age = 0
    /\ jobs'[i].attempts = jobs[i].attempts
    /\ jobs'[i].max_attempts = jobs[i].max_attempts

HandOK == InHand /\ FreshSnapshot /\ LateLeaseHarmless

\* What a worker has in hand stays in order: snapshots stay fresh because a row is
\* leased only when pending, and a late lease meets a worker whose own lease is so
\* young that nothing can have taken it.
LEMMA HandStep ==
    ASSUME TypeOK, HandOK, TableOK, [Next]_vars
    PROVE  HandOK'
<1>. USE DEF table, local, HandOK
<1>0. /\ \A i \in Ids : jobs[i] \in Row
      /\ \A w \in Workers : job[w] \in Job
      /\ NoJob.id \notin Ids
  BY DEF TypeOK, NoJob, Ids
<1>a. ASSUME \A i \in Ids : Kept(jobs[i], jobs'[i]),
             \A v \in Workers : job'[v] = job[v] \/ job'[v] = NoJob
      PROVE  FreshSnapshot'
  BY <1>0, <1>a DEF FreshSnapshot, HoldsLease, Kept
<1>b. ASSUME \A v \in ghost' : \/ job'[v] = NoJob
                               \/ /\ v \in ghost /\ job'[v] = job[v]
                                  /\ HoldsLease(v) /\ jobs[job[v].id].age = 0
                                     => jobs'[job[v].id] = jobs[job[v].id]
      PROVE  LateLeaseHarmless'
  BY <1>0, <1>b DEF LateLeaseHarmless, HoldsLease
<1>c. ASSUME UNCHANGED <<jobs, job>> PROVE \A i \in Ids : Kept(jobs[i], jobs'[i])
  BY <1>c DEF Kept
<1>d. \A w \in Workers : pc[w] \notin {"process", "write"} => job[w] = NoJob
  BY DEF InHand
<1>e. ASSUME NEW w \in Workers, NEW i \in Ids, Leasable(w, i),
             jobs' = [jobs EXCEPT ![i] = LeaseRow(w, i)]
      PROVE  Leases(w, i)
  <2>1. ASSUME NEW r \in Row
        PROVE  LET s == [r EXCEPT !.status = "leased", !.locked_by = w, !.age = 0] IN
               /\ s.status = "leased" /\ s.locked_by = w /\ s.age = 0
               /\ s.attempts = r.attempts /\ s.max_attempts = r.max_attempts
    BY DEF Row
  <2>2. jobs'[i] = [jobs[i] EXCEPT !.status = "leased", !.locked_by = w, !.age = 0]
    BY <1>e DEF LeaseRow, TypeOK
  <2>3. jobs[i] \in Row /\ jobs[i].status = "pending"
    BY <1>0, <1>e DEF Leasable, Due
  <2>4. \A j \in Ids \ {i} : jobs'[j] = jobs[j]
    BY <1>e DEF TypeOK
  <2>. QED BY <2>1, <2>2, <2>3, <2>4 DEF Leases
<1>f. ASSUME NEW S \in SUBSET Ids, jobs' = Requeued(S)
      PROVE  /\ \A i \in Ids : Kept(jobs[i], jobs'[i])
             /\ \A i \in Ids \ S : jobs'[i] = jobs[i]
  <2>1. ASSUME NEW r \in Row
        PROVE  [r EXCEPT !.status = "pending", !.locked_by = NoOne, !.age = 0].status
                  = "pending"
    BY DEF Row
  <2>. QED BY <1>0, <1>f, <2>1 DEF Requeued, Kept
<1>1. ASSUME NEW k \in Keys, NEW m \in Budgets, Enqueue(k, m) PROVE HandOK'
  <2>1. /\ nextId \in Ids /\ jobs[nextId].status = "none"
        /\ jobs' = [jobs EXCEPT ![nextId] = NewRow(k, m)]
        /\ UNCHANGED <<pod, pc, job, ghost>>
    BY <1>1 DEF Enqueue, TableOK, Ids
  <2>2. \A i \in Ids : Kept(jobs[i], jobs'[i])
    BY <2>1 DEF Kept, NewRow, TypeOK
  <2>3. \A v \in ghost : HoldsLease(v) => jobs'[job[v].id] = jobs[job[v].id]
    BY <2>1 DEF HoldsLease, TypeOK
  <2>. QED BY <1>a, <1>b, <2>1, <2>2, <2>3 DEF InHand
<1>2. ASSUME NEW S \in SUBSET Keys, EnqueueBatch(S) PROVE HandOK'
  <2>1. PICK last \in nextId .. MaxId :
             \E f \in Bijection(nextId .. last, {k \in S : ~Keyed(k)}) :
                /\ jobs' = [i \in Ids |-> IF i \in nextId .. last
                                  THEN NewRow(f[i], DefaultBudget) ELSE jobs[i]]
                /\ UNCHANGED <<pod, pc, job, ghost>>
    BY <1>2 DEF EnqueueBatch
  <2>2. \A i \in nextId .. last : i \in Ids => jobs[i].status = "none"
    BY DEF TableOK, TypeOK
  <2>3. \A i \in Ids : Kept(jobs[i], jobs'[i])
    BY <2>1 DEF Kept, NewRow
  <2>4. \A v \in ghost : HoldsLease(v) => jobs'[job[v].id] = jobs[job[v].id]
    BY <2>1, <2>2 DEF HoldsLease
  <2>. QED BY <1>a, <1>b, <2>1, <2>3, <2>4 DEF InHand
<1>3. ASSUME NEW w \in Workers, WorkerStep(w) PROVE HandOK'
  <2>1. ASSUME NEW i \in Ids, LeaseJob(w, i) PROVE HandOK'
    <3>1. /\ job' = [job EXCEPT ![w] = [id |-> i, attempts |-> jobs[i].attempts,
                                        max_attempts |-> jobs[i].max_attempts]]
          /\ pc' = [pc EXCEPT ![w] = "process"] /\ UNCHANGED ghost
          /\ Leases(w, i) /\ pod[PodOf(w)] = "up" /\ UNCHANGED pod
      BY <1>e, <2>1 DEF LeaseJob
    <3>2. InHand'
      BY <3>1 DEF InHand, TypeOK
    <3>3. /\ job'[w].id = i /\ job'[w].attempts = jobs[i].attempts
          /\ job'[w].max_attempts = jobs[i].max_attempts
          /\ job'[w] = [id |-> i, attempts |-> jobs[i].attempts,
                        max_attempts |-> jobs[i].max_attempts]
          /\ \A v \in Workers \ {w} : job'[v] = job[v]
      BY <3>1 DEF TypeOK
    <3>4. FreshSnapshot'
      <4>1. ASSUME NEW v \in Workers \ {w}, HoldsLease(v)'
            PROVE  HoldsLease(v) /\ jobs'[job[v].id] = jobs[job[v].id]
        BY <3>1, <3>3, <4>1 DEF HoldsLease, Leases
      <4>2. \A v \in Workers \ {w} : HoldsLease(v)' =>
               job'[v] = [id |-> job'[v].id, attempts |-> jobs'[job'[v].id].attempts,
                          max_attempts |-> jobs'[job'[v].id].max_attempts]
        BY <3>3, <4>1 DEF FreshSnapshot
      <4>3. job'[w] = [id |-> job'[w].id, attempts |-> jobs'[job'[w].id].attempts,
                       max_attempts |-> jobs'[job'[w].id].max_attempts]
        BY <3>1, <3>3 DEF Leases
      <4>. QED BY <4>2, <4>3 DEF FreshSnapshot
    <3>5. LateLeaseHarmless'
      BY <3>1, <3>3 DEF LateLeaseHarmless, HoldsLease, Leases, TypeOK
    <3>. QED BY <3>2, <3>4, <3>5
  <2>2. CASE AbandonLease(w)
    BY <1>a, <1>b, <1>c, <1>d, <2>2 DEF AbandonLease, InHand
  <2>3. ASSUME NEW i \in Ids, LateLease(w, i) PROVE HandOK'
    <3>1. /\ w \in ghost /\ ghost' = ghost \ {w} /\ UNCHANGED <<pod, pc, job>>
          /\ Leases(w, i)
      BY <1>e, <2>3 DEF LateLease
    <3>2. job[w].id # i
      BY <3>1 DEF LateLeaseHarmless, HoldsLease, Leases
    <3>3. FreshSnapshot'
      BY <3>1, <3>2 DEF FreshSnapshot, HoldsLease, Leases
    <3>4. \A v \in ghost : HoldsLease(v) => jobs'[job[v].id] = jobs[job[v].id]
      BY <3>1 DEF HoldsLease, Leases
    <3>. QED BY <1>b, <3>1, <3>3, <3>4 DEF InHand
  <2>4. CASE LateLeaseLost(w)
    BY <1>a, <1>b, <1>c, <2>4 DEF LateLeaseLost, InHand
  <2>5. ASSUME NEW o \in Outcomes, ProcessJob(w, o) PROVE HandOK'
    BY <1>a, <1>b, <1>c, <2>5 DEF ProcessJob, InHand, TypeOK
  <2>6. ASSUME NextIteration(w), pc[w] = "write", \A i \in Ids : Kept(jobs[i], jobs'[i]),
               \A v \in Workers \ {w} : HoldsLease(v) => jobs'[job[v].id] = jobs[job[v].id]
        PROVE  HandOK'
    <3>1. /\ job' = [job EXCEPT ![w] = NoJob] /\ pc' = [pc EXCEPT ![w] = "lease"]
          /\ UNCHANGED <<pod, ghost>>
      BY <2>6 DEF NextIteration
    <3>2. InHand'
      BY <2>6, <3>1 DEF InHand, TypeOK
    <3>. QED BY <1>a, <1>b, <2>6, <3>1, <3>2 DEF TypeOK
  <2>7. CASE FinishJob(w)
    <3>1. NextIteration(w) /\ pc[w] = "write"
      BY <2>7 DEF FinishJob
    <3>2. CASE UNCHANGED table
      BY <2>6, <3>1, <3>2 DEF Kept
    <3>3. CASE Settles(w)
      <4>1. PICK s \in Row : /\ jobs' = [jobs EXCEPT ![job[w].id] = s]
                             /\ s.locked_by = NoOne /\ s.status # "leased"
        BY <3>3 DEF Settles, Settlement
      <4>2. job[w].id \in Ids /\ jobs[job[w].id].locked_by = w
        BY <3>3 DEF Settles, HoldsLease
      <4>3. \A i \in Ids : Kept(jobs[i], jobs'[i])
        BY <4>1, <4>2 DEF Kept, TypeOK
      <4>4. \A v \in Workers \ {w} : HoldsLease(v) => jobs'[job[v].id] = jobs[job[v].id]
        BY <4>1, <4>2 DEF HoldsLease, TypeOK
      <4>. QED BY <2>6, <3>1, <4>3, <4>4
    <3>. QED BY <2>7, <3>2, <3>3, FinishEffect
  <2>8. CASE WriteError(w)
    BY <2>6, <2>8 DEF WriteError, Kept
  <2>9. CASE drainLease(w)
    <3>1. /\ pc[w] = "lease" /\ pc' = [pc EXCEPT ![w] = "drained"] 
          /\ UNCHANGED <<pod, job, ghost>> /\ pod[PodOf(w)] = "term"
          /\ jobs' = Requeued({i \in Ids : jobs[i].status = "leased"
                                           /\ jobs[i].locked_by = w})
      BY <2>9 DEF drainLease
    <3>2. \A i \in Ids : Kept(jobs[i], jobs'[i])
      BY <1>f, <3>1
    <3>3. \A v \in Workers \ {w} : HoldsLease(v) => jobs'[job[v].id] = jobs[job[v].id]
      BY <1>f, <3>1 DEF HoldsLease
    <3>4. InHand'
      BY <3>1 DEF InHand, TypeOK
    <3>. QED BY <1>a, <1>b, <1>d, <3>1, <3>2, <3>3, <3>4 DEF TypeOK
  <2>10. CASE DrainError(w)
    BY <1>a, <1>b, <1>c, <2>10 DEF DrainError, InHand, TypeOK
  <2>. QED BY <1>3, <2>1, <2>2, <2>3, <2>4, <2>5, <2>7, <2>8, <2>9, <2>10 DEF WorkerStep
<1>4. ASSUME NEW p \in Pods, PodStep(p) PROVE HandOK'
  <2>1. CASE Sigterm(p)
    BY <1>a, <1>b, <1>c, <1>d, <2>1 DEF Sigterm, Abandoned, WorkersOf, InHand, TypeOK
  <2>2. CASE Exit(p)
    BY <1>a, <1>b, <1>c, <2>2 DEF Exit, WorkersOf, InHand, TypeOK
  <2>3. CASE Kill(p)
    <3>1. PICK S \in Abandoned(p) : ghost' = ghost \cup S
      BY <2>3 DEF Kill
    <3>2. \A v \in S : v \in Workers /\ PodOf(v) = p
      BY DEF Abandoned, WorkersOf
    <3>3. /\ pc' = [w \in Workers |-> IF PodOf(w) = p THEN "off" ELSE pc[w]]
          /\ job' = [w \in Workers |-> IF PodOf(w) = p THEN NoJob ELSE job[w]]
          /\ UNCHANGED jobs /\ pod' = [pod EXCEPT ![p] = "down"]
      BY <2>3 DEF Kill
    <3>4. InHand'
      BY <3>3 DEF InHand, TypeOK
    <3>5. FreshSnapshot'
      BY <1>a, <3>3 DEF Kept
    <3>6. LateLeaseHarmless'
      BY <1>b, <3>1, <3>2, <3>3 DEF TypeOK
    <3>. QED BY <3>4, <3>5, <3>6
  <2>4. CASE Restart(p)
    <3>1. \A w \in Workers : PodOf(w) = p => job[w] = NoJob
      BY <2>4 DEF Restart, InHand
    <3>. QED BY <1>a, <1>b, <1>c, <2>4, <3>1 DEF Restart, InHand, TypeOK
  <2>5. CASE Sweep(p)
    <3>1. /\ jobs' = Requeued({i \in Ids : Expired(i)})
          /\ UNCHANGED <<pod, pc, job, ghost>>
      BY <2>5 DEF Sweep
    <3>2. \A v \in ghost : HoldsLease(v) /\ jobs[job[v].id].age = 0
                            => jobs'[job[v].id] = jobs[job[v].id]
      BY <1>f, <3>1, BoundsAssumption DEF HoldsLease, Expired
    <3>. QED BY <1>a, <1>b, <1>f, <3>1, <3>2 DEF InHand
  <2>6. CASE Retention(p)
    <3>1. \A i \in Ids : \/ jobs'[i] = jobs[i]
                         \/ jobs'[i] = NoRow /\ jobs[i].status \in Terminal
      BY <2>6 DEF Retention, Purgeable
    <3>2. \A i \in Ids : Kept(jobs[i], jobs'[i])
      <4>1. NoRow.status # "leased"
        BY DEF NoRow
      <4>. QED BY <3>1, <4>1 DEF Kept
    <3>3. \A v \in ghost : HoldsLease(v) => jobs'[job[v].id] = jobs[job[v].id]
      BY <3>1 DEF HoldsLease, Terminal
    <3>. QED BY <1>a, <1>b, <2>6, <3>2, <3>3 DEF Retention, InHand
  <2>. QED BY <1>4, <2>1, <2>2, <2>3, <2>4, <2>5, <2>6 DEF PodStep
<1>5. CASE Tick
  <2>1. ASSUME NEW r \in Row PROVE Kept(r, Aged(r))
    BY DEF Kept, Aged, Row
  <2>. QED BY <1>0, <1>a, <1>b, <1>5, <2>1 DEF Tick, InHand
<1>6. CASE UNCHANGED vars
  BY <1>a, <1>b, <1>c, <1>6 DEF vars, InHand
<1>. QED BY <1>1, <1>2, <1>3, <1>4, <1>5, <1>6 DEF Next
=============================================================================
