--------------------------- MODULE JobQueueTyping ---------------------------
(***************************************************************************)
(* Proofs about the queue, first part: types, and what a final write of a   *)
(* worker does to its row.                                                  *)
(***************************************************************************)
EXTENDS JobQueue, TLAPS

\* The columns a final write may set, with the event it logs: success and skip keep
\* attempts, a fatal failure adds one, a retry adds one and leaves some.
Settlement(r, s, e) ==
    \/ /\ s.status = "succeeded" /\ e = "success" /\ s.attempts = r.attempts
    \/ /\ s.status = "skipped" /\ e = "skip" /\ s.attempts = r.attempts
    \/ /\ s.status = "dead" /\ e = "dead" /\ s.attempts = r.attempts + 1
    \/ /\ s.status = "pending" /\ e = "fail" /\ s.attempts = r.attempts + 1
       /\ s.attempts < r.max_attempts

\* A final write by w that took effect: the row it held, settled, with one event.
Settles(w) ==
    /\ HoldsLease(w)
    /\ \E s \in Row, e \in EventKinds :
        /\ jobs' = [jobs EXCEPT ![job[w].id] = s]
        /\ events' = [events EXCEPT ![job[w].id][e] = @ + 1]
        /\ Settlement(jobs[job[w].id], s, e)
        /\ s.key = jobs[job[w].id].key
        /\ s.max_attempts = jobs[job[w].id].max_attempts
        /\ s.locked_by = NoOne /\ s.age = 0

-----------------------------------------------------------------------------
\* The bounds make the row ranges nonempty.
LEMMA Bounds ==
    /\ AgeCap \in Nat /\ 0 \in 0 .. AgeCap /\ Threshold < AgeCap
    /\ 0 \in -Horizon .. MaxDelay
    /\ \A d \in 0 .. MaxDelay : d \in -Horizon .. MaxDelay
BY BoundsAssumption DEF AgeCap

\* A fresh row, an absent row and an aged row are rows.
LEMMA RowTypes ==
    /\ NoRow \in Row
    /\ \A k \in Keys, m \in Nat : NewRow(k, m) \in Row
    /\ \A r \in Row : Aged(r) \in Row
<1>1. NoRow \in Row
  BY Bounds DEF NoRow, Row
<1>2. \A k \in Keys, m \in Nat : NewRow(k, m) \in Row
  BY Bounds DEF NewRow, Row, Live
<1>3. ASSUME NEW r \in Row PROVE Aged(r) \in Row
  <2>. DEFINE a == IF r.age < AgeCap /\ r.status # "pending" THEN r.age + 1 ELSE r.age
              d == IF r.run_in > -Horizon THEN r.run_in - 1 ELSE r.run_in
  <2>1. a \in 0 .. AgeCap /\ d \in -Horizon .. MaxDelay
    BY Bounds, BoundsAssumption DEF Row
  <2>2. [r EXCEPT !.age = a, !.run_in = d] \in Row
    <3>. HIDE DEF a, d
    <3>. QED BY <2>1 DEF Row
  <2>. QED BY <2>2 DEF Aged
<1>. QED BY <1>1, <1>2, <1>3

\* Rows stay rows when their status, attempts and due time are set.
LEMMA RowUpdate ==
    ASSUME NEW r \in Row, NEW st \in Live \cup Terminal, NEW a \in Nat,
           NEW d \in -Horizon .. MaxDelay
    PROVE  /\ [r EXCEPT !.status = st] \in Row
           /\ [r EXCEPT !.status = st, !.attempts = a] \in Row
           /\ [r EXCEPT !.status = st, !.attempts = a, !.run_in = d] \in Row
BY DEF Row

\* Rows stay rows when their lease is cleared.
LEMMA RowUnlock ==
    ASSUME NEW s \in Row
    PROVE  LET t == [s EXCEPT !.locked_by = NoOne, !.age = 0] IN
           /\ t \in Row
           /\ t.key = s.key /\ t.max_attempts = s.max_attempts
           /\ t.locked_by = NoOne /\ t.age = 0
<1>1. [s EXCEPT !.locked_by = NoOne, !.age = 0] \in Row
  BY Bounds DEF Row
<1>. QED BY <1>1 DEF Row

\* FinishJob either settles the row it holds or, the lease lost, changes nothing.
LEMMA FinishEffect ==
    ASSUME TypeOK, InHand, FreshSnapshot, NEW w \in Workers, FinishJob(w)
    PROVE  Settles(w) \/ UNCHANGED table
<1>. DEFINE r == jobs[job[w].id]
<1>1. CASE ~HoldsLease(w)
  BY <1>1 DEF FinishJob, WriteOutcome, writeSuccess, writeTerminal, writeRetryOrDead, retryBackoff,
     Settle, TypeOK, Outcomes
<1>2. CASE HoldsLease(w)
  <2>1. /\ r \in Row /\ job[w].id \in Ids /\ job[w].attempts = r.attempts
        /\ job[w].max_attempts = r.max_attempts
        /\ r.attempts \in Nat /\ r.max_attempts \in Nat
    BY <1>2 DEF HoldsLease, FreshSnapshot, TypeOK, Row
  <2>. DEFINE S(s) == [s EXCEPT !.locked_by = NoOne, !.age = 0]
  <2>2. ASSUME NEW s \in Row, NEW e \in EventKinds, Settle(w, s, e),
               Settlement(r, S(s), e), s.key = r.key, s.max_attempts = r.max_attempts
        PROVE  Settles(w)
    <3>1. /\ S(s) \in Row
          /\ S(s).key = s.key /\ S(s).max_attempts = s.max_attempts
          /\ S(s).locked_by = NoOne /\ S(s).age = 0
      BY RowUnlock, Zenon
    <3>. QED BY <1>2, <2>2, <3>1 DEF Settle, Settles
  <2>3. CASE out[w] = "success"
    <3>0. "succeeded" \in Live \cup Terminal
      BY DEF Terminal
    <3>1. [r EXCEPT !.status = "succeeded"] \in Row
      BY <2>1, <3>0, RowUpdate, Bounds, Zenon
    <3>. QED
      BY <2>1, <2>2, <2>3, <3>1 DEF FinishJob, WriteOutcome, writeSuccess, Settlement,
         EventKinds, Row
  <2>4. CASE out[w] = "skippable"
    <3>0. job[w].attempts \in Nat /\ "skipped" \in Live \cup Terminal
      BY <2>1 DEF Terminal
    <3>1. [r EXCEPT !.status = "skipped", !.attempts = job[w].attempts] \in Row
      BY <2>1, <3>0, RowUpdate, Bounds, Zenon
    <3>. QED
      BY <2>1, <2>2, <2>4, <3>1 DEF FinishJob, WriteOutcome, writeTerminal, Settlement,
         EventKinds, Row
  <2>. DEFINE dead == [r EXCEPT !.status = "dead", !.attempts = job[w].attempts + 1]
  <2>5. ASSUME writeTerminal(w, "dead", "dead", job[w].attempts + 1) PROVE Settles(w)
    <3>0. job[w].attempts + 1 \in Nat /\ "dead" \in Live \cup Terminal
      BY <2>1 DEF Terminal
    <3>1. dead \in Row
      BY <2>1, <3>0, RowUpdate, Bounds, Zenon
    <3>2. Settle(w, dead, "dead")
      BY <2>5 DEF writeTerminal
    <3>3. Settlement(r, S(dead), "dead") /\ dead.key = r.key
          /\ dead.max_attempts = r.max_attempts
      BY <2>1 DEF Settlement, Row
    <3>. HIDE DEF dead
    <3>. QED BY <2>2, <3>1, <3>2, <3>3 DEF EventKinds
  <2>6. CASE out[w] \in {"permanent", "factory"}
    BY <2>5, <2>6 DEF FinishJob, WriteOutcome
  <2>7. CASE out[w] \in {"retryable", "panic"}
    <3>1. writeRetryOrDead(w)
      BY <2>7 DEF FinishJob, WriteOutcome
    <3>2. CASE Exhausted(w)
      BY <2>5, <3>1, <3>2 DEF writeRetryOrDead
    <3>3. CASE ~Exhausted(w)
      <4>1. PICK d \in 0 .. MaxDelay :
                Settle(w, [jobs[job[w].id] EXCEPT !.status = "pending",
                              !.attempts = job[w].attempts + 1, !.run_in = d], "fail")
        BY <3>1, <3>3 DEF writeRetryOrDead, retryBackoff
      <4>. DEFINE s == [r EXCEPT !.status = "pending",
                              !.attempts = job[w].attempts + 1, !.run_in = d]
      <4>2. d \in -Horizon .. MaxDelay
        BY Bounds
      <4>. "pending" \in Live \cup Terminal /\ job[w].attempts + 1 \in Nat
        BY <2>1 DEF Live
      <4>3. s \in Row
        BY <2>1, <4>2, RowUpdate, Zenon
      <4>4. r.attempts + 1 < r.max_attempts
        BY <2>1, <3>3 DEF Exhausted
      <4>5. Settlement(r, S(s), "fail") /\ s.key = r.key
            /\ s.max_attempts = r.max_attempts
        BY <2>1, <4>4 DEF Settlement, Row
      <4>6. Settle(w, s, "fail")
        BY <4>1
      <4>. HIDE DEF s
      <4>. QED BY <2>2, <4>3, <4>5, <4>6 DEF EventKinds
    <3>. QED BY <3>2, <3>3
  <2>. QED BY <2>3, <2>4, <2>6, <2>7 DEF TypeOK, Outcomes
<1>. QED BY <1>1, <1>2

-----------------------------------------------------------------------------
\* Requeueing and leasing keep the table a table of rows.
LEMMA TableTypes ==
    ASSUME TypeOK
    PROVE  /\ \A S \in SUBSET Ids : Requeued(S) \in [Ids -> Row]
           /\ \A w \in Workers, i \in Ids : LeaseRow(w, i) \in Row
<1>1. ASSUME NEW i \in Ids, NEW h \in Workers \cup {NoOne}, NEW st \in Live
      PROVE  [jobs[i] EXCEPT !.status = st, !.locked_by = h, !.age = 0] \in Row
  <2>1. jobs[i] \in Row
    BY DEF TypeOK
  <2>2. ASSUME NEW r \in Row
        PROVE  [r EXCEPT !.status = st, !.locked_by = h, !.age = 0] \in Row
    BY Bounds DEF Row
  <2>. QED BY <2>1, <2>2
<1>2. ASSUME NEW S \in SUBSET Ids PROVE Requeued(S) \in [Ids -> Row]
  <2>1. \A i \in Ids : jobs[i] \in Row
    BY DEF TypeOK
  <2>2. \A i \in Ids : [jobs[i] EXCEPT !.status = "pending", !.locked_by = NoOne,
                                       !.age = 0] \in Row
    BY <1>1 DEF Live
  <2>. QED BY <2>1, <2>2 DEF Requeued
<1>. QED BY <1>1, <1>2 DEF LeaseRow, Live

\* The types are preserved by every step.
LEMMA TypeStep ==
    ASSUME TypeOK, InHand, FreshSnapshot, [Next]_vars
    PROVE  TypeOK'
<1>. USE DEF table, local
<1>1. ASSUME NEW k \in Keys, NEW m \in Budgets, Enqueue(k, m) PROVE TypeOK'
  <2>1. NewRow(k, m) \in Row
    BY RowTypes, BoundsAssumption
  <2>2. jobs' \in [Ids -> Row] /\ events' \in [Ids -> [EventKinds -> Nat]]
    BY <1>1, <2>1 DEF Enqueue, TypeOK
  <2>3. nextId' \in 1 .. MaxId + 1
    BY <1>1, BoundsAssumption DEF Enqueue, Ids
  <2>. QED BY <1>1, <2>2, <2>3 DEF Enqueue, TypeOK
<1>2. ASSUME NEW S \in SUBSET Keys, EnqueueBatch(S) PROVE TypeOK'
  <2>1. PICK last \in nextId .. MaxId :
             \E f \in Bijection(nextId .. last, {k \in S : ~Keyed(k)}) :
                /\ jobs' = [i \in Ids |-> IF i \in nextId .. last
                                  THEN NewRow(f[i], DefaultBudget) ELSE jobs[i]]
                /\ nextId' = last + 1
                /\ UNCHANGED <<events, pod, local, ghost>>
    BY <1>2 DEF EnqueueBatch
  <2>2. PICK f \in Bijection(nextId .. last, {k \in S : ~Keyed(k)}) :
                /\ jobs' = [i \in Ids |-> IF i \in nextId .. last
                                  THEN NewRow(f[i], DefaultBudget) ELSE jobs[i]]
                /\ nextId' = last + 1
                /\ UNCHANGED <<events, pod, local, ghost>>
    BY <2>1
  <2>3. f \in [nextId .. last -> Keys]
    BY Zenon DEF Bijection, Injection
  <2>4. \A i \in nextId .. last : NewRow(f[i], DefaultBudget) \in Row
    BY <2>3, RowTypes, BoundsAssumption
  <2>. QED BY <2>2, <2>4, BoundsAssumption DEF TypeOK
<1>3. ASSUME NEW w \in Workers, WorkerStep(w) PROVE TypeOK'
  <2>1. ASSUME NEW i \in Ids, LeaseJob(w, i) PROVE TypeOK'
    BY <2>1, TableTypes DEF LeaseJob, TypeOK, Job, Row
  <2>2. CASE AbandonLease(w)
    BY <2>2 DEF AbandonLease, TypeOK
  <2>3. ASSUME NEW i \in Ids, LateLease(w, i) PROVE TypeOK'
    BY <2>3, TableTypes DEF LateLease, TypeOK
  <2>4. CASE LateLeaseLost(w)
    BY <2>4 DEF LateLeaseLost, TypeOK
  <2>5. ASSUME NEW o \in Outcomes, ProcessJob(w, o) PROVE TypeOK'
    BY <2>5 DEF ProcessJob, TypeOK
  <2>6. ASSUME NextIteration(w), jobs' \in [Ids -> Row],
               events' \in [Ids -> [EventKinds -> Nat]]
        PROVE  TypeOK'
    BY <2>6 DEF NextIteration, TypeOK, Job, NoJob, Outcomes
  <2>7. CASE FinishJob(w)
    <3>1. jobs' \in [Ids -> Row] /\ events' \in [Ids -> [EventKinds -> Nat]]
      <4>1. CASE UNCHANGED table
        BY <4>1 DEF TypeOK
      <4>2. CASE Settles(w)
        BY <4>2 DEF Settles, HoldsLease, TypeOK
      <4>. QED BY <2>7, <4>1, <4>2, FinishEffect
    <3>. QED BY <2>6, <2>7, <3>1 DEF FinishJob
  <2>8. CASE WriteError(w)
    BY <2>6, <2>8 DEF WriteError, TypeOK
  <2>9. CASE drainLease(w)
    BY <2>9, TableTypes DEF drainLease, TypeOK
  <2>10. CASE DrainError(w)
    BY <2>10 DEF DrainError, TypeOK
  <2>. QED BY <1>3, <2>1, <2>2, <2>3, <2>4, <2>5, <2>7, <2>8, <2>9, <2>10 DEF WorkerStep
<1>4. ASSUME NEW p \in Pods, PodStep(p) PROVE TypeOK'
  <2>1. CASE Sigterm(p)
    BY <2>1 DEF Sigterm, Abandoned, WorkersOf, TypeOK
  <2>2. CASE Exit(p)
    BY <2>2 DEF Exit, TypeOK
  <2>3. CASE Kill(p)
    BY <2>3 DEF Kill, Abandoned, WorkersOf, TypeOK, Job, NoJob, Outcomes
  <2>4. CASE Restart(p)
    BY <2>4 DEF Restart, TypeOK
  <2>5. CASE Sweep(p)
    <3>1. jobs' \in [Ids -> Row]
      BY <2>5, TableTypes DEF Sweep
    <3>2. events' \in [Ids -> [EventKinds -> Nat]]
      BY <2>5 DEF Sweep, TypeOK, EventKinds
    <3>. QED BY <2>5, <3>1, <3>2 DEF Sweep, TypeOK
  <2>6. CASE Retention(p)
    BY <2>6, RowTypes DEF Retention, TypeOK, NoEvents
  <2>. QED BY <1>4, <2>1, <2>2, <2>3, <2>4, <2>5, <2>6 DEF PodStep
<1>5. CASE Tick
  BY <1>5, RowTypes DEF Tick, TypeOK
<1>6. CASE UNCHANGED vars
  BY <1>6 DEF vars, TypeOK
<1>. QED BY <1>1, <1>2, <1>3, <1>4, <1>5, <1>6 DEF Next
=============================================================================
