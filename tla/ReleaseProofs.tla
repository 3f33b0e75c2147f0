---------------------------- MODULE ReleaseProofs ----------------------------
(***************************************************************************)
(* Proofs about a Helm release, for every number of loops, every delay,     *)
(* every set of revisions and every backoffLimit: the migrations' order and *)
(* exclusion, the idle backoff's list of parked workers, and /livez.        *)
(***************************************************************************)
EXTENDS Release, TLAPS

\* The pods of hook Jobs that have read the list under the lock, and those whose
\* session may hold it.
Applying(p) == mpc[p] \in {"apply", "cut"}
MayHold(p) == mpc[p] \in {"list", "apply", "orphan", "cut"}

\* The inductive invariant of the migrations: the lock has one holder, who alone reads
\* the list and applies; its map of versions is the table's.
LockInv ==
    /\ \A p, q \in holder : p = q
    /\ \A p \in holder : MayHold(p)
    /\ \A p \in Pods : At(p, "list") \/ Applying(p) => p \in holder

MapInv ==
    /\ \A p \in Pods : Applying(p) => known[p] = applied
    /\ \A p \in Pods : At(p, "done") => 1 .. p[1] \subseteq applied

MigInv == MTypeOK /\ LockInv /\ MapInv /\ InOrder

\* A pod of a Job belongs to a numbered revision.
LEMMA PodType == ASSUME NEW p \in Pods PROVE p[1] \in Nat
BY RevisionAssumption DEF Pods

\* An empty database without a Job satisfies it.
LEMMA MigInit == MInit => MigInv
BY DEF MInit, MigInv, MTypeOK, LockInv, MapInv, InOrder, MayHold, Applying, At

\* A file runs only after all before it.
LEMMA RunKeepsOrder ==
    ASSUME MigInv, NEW p \in Pods, Applying(p), NEW v \in Todo(p), RunFile(p, v)
    PROVE  InOrder' /\ applied' \in SUBSET (Nat \ {0})
<1>1. known[p] = applied /\ p[1] \in Nat /\ applied \in SUBSET (Nat \ {0})
  BY PodType DEF MigInv, MapInv, MTypeOK
<1>2. v \in 1 .. p[1] /\ v \in Nat /\ applied' = applied \cup {v}
  BY <1>1 DEF RunFile, Todo
<1>3. ASSUME NEW u \in 1 .. v PROVE u \in applied'
  <2>1. u \in 1 .. p[1] /\ u \in Nat
    BY <1>1, <1>2
  <2>2. u \notin applied => u = v
    <3>1. u \notin applied => v <= u
      BY <1>1, <2>1 DEF RunFile, IsNext, Todo
    <3>. QED BY <1>2, <2>1, <3>1
  <2>. QED BY <1>2, <2>2
<1>4. ASSUME NEW x \in applied' PROVE 1 .. x \subseteq applied'
  <2>1. CASE x = v
    BY <1>3, <2>1
  <2>2. CASE x \in applied
    BY <1>2, <2>2 DEF MigInv, InOrder
  <2>. QED BY <1>2, <2>1, <2>2
<1>. QED BY <1>1, <1>2, <1>4 DEF InOrder

\* Every step of a migration keeps the invariant.
LEMMA MigStep == MigInv /\ [MNext]_mvars => MigInv'
<1>. SUFFICES ASSUME MigInv, [MNext]_mvars PROVE MigInv'
  OBVIOUS
<1>. USE DEF MigInv, MTypeOK, At, Goto
<1>1. ASSUME NEW p \in Pods, Start(p) PROVE MigInv'
  <2>1. p \notin holder
    BY <1>1 DEF Start, LockInv, MayHold
  <2>. QED BY <1>1, <2>1 DEF Start, LockInv, MapInv, InOrder, MayHold, Applying
<1>2. ASSUME NEW p \in Pods, Lock(p) PROVE MigInv'
  BY <1>2 DEF Lock, LockInv, MapInv, InOrder, MayHold, Applying
<1>3. ASSUME NEW p \in Pods, List(p) PROVE MigInv'
  <2>1. MTypeOK' /\ LockInv' /\ InOrder'
    BY <1>3 DEF List, LockInv, MapInv, InOrder, MayHold, Applying
  <2>2. MapInv'
    BY <1>3 DEF List, MapInv, Applying
  <2>. QED BY <2>1, <2>2
<1>4. ASSUME NEW p \in Pods, Applying(p), NEW q \in Pods, Applying(q) PROVE q = p
  BY <1>4 DEF LockInv
<1>5. ASSUME NEW p \in Pods, Apply(p) PROVE MigInv'
  <2>1. PICK v \in Todo(p) : RunFile(p, v) /\ known' = [known EXCEPT ![p] = @ \cup {v}]
    BY <1>5 DEF Apply
  <2>2. Applying(p) /\ holder' = holder /\ mpc' = mpc
    BY <1>5 DEF Apply, Applying
  <2>3. InOrder' /\ applied' \in SUBSET (Nat \ {0}) /\ applied' = applied \cup {v}
    BY <2>1, <2>2, RunKeepsOrder DEF RunFile
  <2>4. MTypeOK'
    <3>1. v \in Nat /\ known[p] \in SUBSET Nat
      BY <2>1, PodType DEF Todo
    <3>. QED BY <2>1, <2>2, <2>3, <3>1
  <2>5. LockInv'
    BY <2>2 DEF LockInv, MayHold, Applying
  <2>6. MapInv'
    <3>1. ASSUME NEW q \in Pods, Applying(q)' PROVE known'[q] = applied'
      <4>1. q = p
        BY <1>4, <2>2, <3>1 DEF Applying
      <4>. QED BY <2>1, <2>2, <2>3, <4>1 DEF MapInv
    <3>. QED BY <2>2, <2>3, <3>1 DEF MapInv
  <2>. QED BY <2>3, <2>4, <2>5, <2>6
<1>6. ASSUME NEW p \in Pods, NEW l \in {"done", "failed"}, MayHold(p) \/ At(p, "lock"), Return(p, l),
             InOrder', applied' \in SUBSET (Nat \ {0}), applied \subseteq applied',
             applied' # applied => Applying(p), l = "done" => 1 .. p[1] \subseteq applied'
      PROVE  MigInv'
  <2>1. MTypeOK'
    BY <1>6 DEF Return
  <2>2. LockInv'
    BY <1>6 DEF Return, LockInv, MayHold, Applying
  <2>3. ASSUME NEW q \in Pods, Applying(q)' PROVE known'[q] = applied'
    <3>1. q # p /\ Applying(q) /\ known'[q] = known[q]
      BY <1>6, <2>3 DEF Return, Applying
    <3>. QED BY <1>4, <1>6, <3>1 DEF MapInv
  <2>4. ASSUME NEW q \in Pods, At(q, "done")' PROVE 1 .. q[1] \subseteq applied'
    BY <1>6, <2>4 DEF Return, MapInv
  <2>. QED BY <1>6, <2>1, <2>2, <2>3, <2>4 DEF MapInv
<1>7. ASSUME NEW p \in Pods, Done(p) PROVE MigInv'
  <2>1. 1 .. p[1] \subseteq applied
    BY <1>7 DEF Done, Todo, MapInv, Applying
  <2>2. InOrder' /\ MayHold(p) /\ Return(p, "done") /\ applied' = applied
    BY <1>7 DEF Done, InOrder, MayHold
  <2>. QED BY <1>6, <2>1, <2>2
<1>8. ASSUME NEW p \in Pods, UNCHANGED applied \/ (Applying(p) /\ \E v \in Todo(p) : RunFile(p, v))
      PROVE  /\ InOrder' /\ applied' \in SUBSET (Nat \ {0}) /\ applied \subseteq applied'
             /\ applied' # applied => Applying(p)
  <2>1. CASE UNCHANGED applied
    BY <2>1 DEF InOrder
  <2>2. CASE Applying(p) /\ \E v \in Todo(p) : RunFile(p, v)
    BY <2>2, RunKeepsOrder DEF RunFile
  <2>. QED BY <1>8, <2>1, <2>2
<1>9. ASSUME NEW p \in Pods, Fail(p) \/ SessionEnds(p) PROVE MigInv'
  <2>1. UNCHANGED applied \/ (Applying(p) /\ \E v \in Todo(p) : RunFile(p, v))
    BY <1>9 DEF Fail, SessionEnds, Applying
  <2>2. Return(p, "failed") /\ (MayHold(p) \/ At(p, "lock"))
    BY <1>9 DEF Fail, SessionEnds, MayHold
  <2>3. /\ InOrder' /\ applied' \in SUBSET (Nat \ {0}) /\ applied \subseteq applied'
        /\ applied' # applied => Applying(p)
    BY <1>8, <2>1
  <2>. QED BY <1>6, <2>2, <2>3
<1>10. ASSUME NEW p \in Pods, Die(p) PROVE MigInv'
  BY <1>10 DEF Die, LockInv, MapInv, InOrder, MayHold, Applying
<1>11. CASE UNCHANGED mvars
  BY <1>11 DEF mvars, LockInv, MapInv, InOrder, MayHold, Applying
<1>. QED BY <1>1, <1>2, <1>3, <1>5, <1>7, <1>9, <1>10, <1>11 DEF MNext, Progress

-----------------------------------------------------------------------------
\* Where a parked worker's channel is: on the list, with a token, or taken by one
\* WakeAll.
OnList(w) == w \in wakers /\ w \notin token /\ \A v \in Workers : w \notin toWake[v]
HasToken(w) == w \notin wakers /\ w \in token /\ \A v \in Workers : w \notin toWake[v]
Taken(w) ==
    /\ w \notin wakers /\ w \notin token
    /\ \E v \in Workers : w \in toWake[v] /\ \A u \in Workers : w \in toWake[u] => u = v
Nowhere(w) == w \notin wakers /\ w \notin token /\ \A v \in Workers : w \notin toWake[v]

\* The inductive form of KnownOnce: only a worker in WakeAll has channels to send to.
IdleInv ==
    \A w \in Workers :
        /\ pc[w] = "parked" => OnList(w) \/ HasToken(w) \/ Taken(w)
        /\ pc[w] # "parked" => Nowhere(w)
        /\ pc[w] # "waking" => toWake[w] = {}

\* A polling loop without a job records its next attempt in time.
PollInv ==
    \A w \in jobless :
        /\ since # Never /\ pc[w] # "waking"
        /\ w \notin hung /\ pc[w] = "parked" => since + left[w] <= ParkTicks
        /\ w \notin hung /\ pc[w] = "lease" => since + left[w] <= ParkTicks + LeaseTicks

PodInv == PodTypeOK /\ IdleInv /\ PollInv

\* NewIdle and NewServer satisfy the pod's invariant.
LEMMA PodInitial == PodInit => PodInv
<1>. SUFFICES ASSUME PodInit PROVE PodInv
  OBVIOUS
<1>1. PodTypeOK
  BY DelayAssumption, PodAssumption DEF PodInit, Init, PodTypeOK, TypeOK, Never
<1>. QED BY <1>1 DEF PodInit, Init, PodInv, IdleInv, PollInv, Nowhere

\* The schedule of delays stays between BaseDelay and MaxDelay.
LEMMA Advances == ASSUME NEW d \in BaseDelay .. MaxDelay PROVE advance(d) \in BaseDelay .. MaxDelay
BY DelayAssumption DEF advance, Least

\* The invariant says that each parked worker is known once.
LEMMA IdleMeans == IdleInv => KnownOnce
<1>. SUFFICES ASSUME IdleInv, NEW w \in Workers
              PROVE  IF pc[w] = "parked" THEN \E x \in Known(w) : Known(w) = {x} ELSE Known(w) = {}
  BY DEF KnownOnce
<1>1. CASE pc[w] # "parked"
  BY <1>1 DEF IdleInv, Nowhere, Known
<1>2. CASE pc[w] = "parked" /\ OnList(w)
  <2>1. Known(w) = {"list"}
    BY <1>2 DEF OnList, Known
  <2>. QED BY <1>2, <2>1
<1>3. CASE pc[w] = "parked" /\ HasToken(w)
  <2>1. Known(w) = {"token"}
    BY <1>3 DEF HasToken, Known
  <2>. QED BY <1>3, <2>1
<1>4. CASE pc[w] = "parked" /\ Taken(w)
  <2>1. PICK v \in Workers : w \in toWake[v] /\ \A u \in Workers : w \in toWake[u] => u = v
    BY <1>4 DEF Taken
  <2>2. Known(w) = {v}
    BY <1>4, <2>1 DEF Taken, Known
  <2>. QED BY <1>4, <2>2
<1>. QED BY <1>1, <1>2, <1>3, <1>4 DEF IdleInv

\* /livez fails too late to hit a loop that polls.
LEMMA PollMeans == PodTypeOK /\ PollInv => LiveWhilePolling
<1>. SUFFICES ASSUME PodTypeOK, PollInv, Stale, NEW w \in jobless, w \notin hung PROVE FALSE
  BY DEF LiveWhilePolling
<1>1. w \in Workers /\ since \in Int /\ left[w] \in Nat /\ pc[w] \in {"lease", "parked"}
  BY PodAssumption DEF PodTypeOK, TypeOK, PollInv, Never
<1>2. since + left[w] <= ParkTicks + LeaseTicks
  BY <1>1, PodAssumption DEF PollInv
<1>. QED BY <1>1, <1>2, PodAssumption DEF Stale

\* Every step of the loops keeps each parked worker known once.
LEMMA IdleStep == TypeOK /\ IdleInv /\ [PodNext]_allVars => IdleInv'
<1>. SUFFICES ASSUME TypeOK, IdleInv, [PodNext]_allVars PROVE IdleInv'
  OBVIOUS
<1>. USE DEF TypeOK
<1>1. ASSUME NEW w \in Workers, WaitOnce(w) PROVE IdleInv'
  BY <1>1 DEF WaitOnce, IdleInv, OnList, HasToken, Taken, Nowhere
<1>2. ASSUME NEW w \in Workers, pc[w] = "parked", Leave(w) PROVE IdleInv'
  <2>1. /\ pc' = [pc EXCEPT ![w] = "lease"] /\ wakers' = wakers \ {w} /\ token' = token \ {w}
        /\ \A v \in Workers : toWake'[v] = toWake[v] \ {w}
    BY <1>2 DEF Leave
  <2>2. ASSUME NEW u \in Workers, u # w
        PROVE  /\ pc'[u] = pc[u] /\ (OnList(u) => OnList(u)') /\ (HasToken(u) => HasToken(u)')
               /\ (Taken(u) => Taken(u)') /\ (Nowhere(u) => Nowhere(u)')
    BY <2>1, <2>2 DEF OnList, HasToken, Taken, Nowhere
  <2>3. Nowhere(w)' /\ pc'[w] = "lease" /\ toWake'[w] = {}
    BY <1>2, <2>1 DEF Nowhere, IdleInv
  <2>4. ASSUME NEW u \in Workers, toWake[u] = {} PROVE toWake'[u] = {}
    BY <2>1, <2>4
  <2>. QED BY <2>2, <2>3, <2>4 DEF IdleInv
<1>3. ASSUME NEW w \in Workers, WakeAll(w) PROVE IdleInv'
  <2>1. /\ pc[w] = "lease" /\ pc' = [pc EXCEPT ![w] = "waking"] /\ wakers' = {} /\ token' = token
        /\ toWake' = [toWake EXCEPT ![w] = wakers] /\ toWake[w] = {}
    BY <1>3 DEF WakeAll, IdleInv
  <2>2. ASSUME NEW u \in Workers, OnList(u) PROVE Taken(u)'
    <3>1. u \in toWake'[w] /\ \A v \in Workers : u \in toWake'[v] => v = w
      BY <2>1, <2>2 DEF OnList
    <3>. QED BY <2>1, <2>2, <3>1 DEF OnList, Taken
  <2>3. ASSUME NEW u \in Workers
        PROVE  /\ HasToken(u) => HasToken(u)'
               /\ Taken(u) => Taken(u)'
               /\ Nowhere(u) => Nowhere(u)'
    BY <2>1 DEF HasToken, Taken, Nowhere
  <2>4. ASSUME NEW u \in Workers, pc'[u] # "waking" PROVE toWake'[u] = {}
    BY <2>1, <2>4 DEF IdleInv
  <2>. QED BY <2>1, <2>2, <2>3, <2>4 DEF IdleInv
<1>4. ASSUME NEW w \in Workers, SendToken(w) PROVE IdleInv'
  <2>1. PICK v \in toWake[w] : token' = token \cup {v} /\ toWake' = [toWake EXCEPT ![w] = @ \ {v}]
    BY <1>4 DEF SendToken
  <2>2. v \in Workers /\ pc' = pc /\ wakers' = wakers
    BY <1>4, <2>1 DEF SendToken
  <2>3. Taken(v)
    BY <2>1, <2>2 DEF IdleInv, OnList, HasToken, Nowhere
  <2>4. HasToken(v)'
    BY <2>1, <2>2, <2>3 DEF Taken, HasToken
  <2>5. ASSUME NEW u \in Workers, u # v
        PROVE  /\ (OnList(u) => OnList(u)') /\ (HasToken(u) => HasToken(u)')
               /\ (Taken(u) => Taken(u)') /\ (Nowhere(u) => Nowhere(u)')
    BY <2>1, <2>2, <2>5 DEF OnList, HasToken, Taken, Nowhere
  <2>6. pc[v] = "parked"
    BY <2>2, <2>3 DEF IdleInv, Taken, Nowhere
  <2>7. ASSUME NEW u \in Workers, toWake[u] = {} PROVE toWake'[u] = {}
    BY <2>1, <2>7
  <2>. QED BY <2>2, <2>4, <2>5, <2>6, <2>7 DEF IdleInv
<1>5. ASSUME NEW w \in Workers, Processed(w) PROVE IdleInv'
  BY <1>5 DEF Processed, IdleInv, OnList, HasToken, Taken, Nowhere
<1>6. ASSUME Restart PROVE IdleInv'
  BY <1>6 DEF Restart, IdleInv, Nowhere
<1>7. ASSUME UNCHANGED vars PROVE IdleInv'
  BY <1>7 DEF vars, IdleInv, OnList, HasToken, Taken, Nowhere
<1>. QED BY <1>1, <1>2, <1>3, <1>4, <1>5, <1>6, <1>7
         DEF PodNext, LoopStep, LeasedNone, LeasedJob, Again, TimedOut, Woken, Waking, Hang, Tick,
             Probe, allVars, vars

\* Every step of the pod keeps the types.
LEMMA PodTypes == PodTypeOK /\ [PodNext]_allVars => PodTypeOK'
<1>. SUFFICES ASSUME PodTypeOK, [PodNext]_allVars PROVE PodTypeOK'
  OBVIOUS
<1>. USE PodAssumption, DelayAssumption DEF PodTypeOK, Never
<1>1. BaseDelay \in BaseDelay .. MaxDelay /\ 0 \in -1 .. LiveAfter + 1 /\ -1 \in -1 .. LiveAfter + 1
  OBVIOUS
<1>2. \A n \in 0 .. ParkTicks : n \in 0 .. ParkTicks + LeaseTicks
  OBVIOUS
<1>3. LeaseTicks \in 0 .. ParkTicks + LeaseTicks /\ 0 \in 0 .. FailureThreshold - 1
  OBVIOUS
<1>4. ASSUME NEW w \in Workers, LeasedNone(w) PROVE PodTypeOK'
  <2>1. TypeOK'
    <3>1. nominal' \in BaseDelay .. MaxDelay
      BY <1>4, Advances DEF LeasedNone, WaitOnce, TypeOK
    <3>. QED BY <1>4, <3>1 DEF LeasedNone, WaitOnce, TypeOK
  <2>. QED BY <1>1, <1>2, <1>4, <2>1 DEF LeasedNone, OnLeaseAttempt
<1>5. ASSUME NEW w \in Workers, LeasedJob(w) PROVE PodTypeOK'
  <2>1. TypeOK'
    BY <1>1, <1>5 DEF LeasedJob, WakeAll, TypeOK
  <2>. QED BY <1>1, <1>2, <1>5, <2>1 DEF LeasedJob, OnLeaseAttempt
<1>6. ASSUME NEW w \in Workers, Again(w) PROVE PodTypeOK'
  <2>1. TypeOK'
    BY <1>6 DEF Again, TimedOut, Woken, Leave, Processed, TypeOK
  <2>. QED BY <1>3, <1>6, <2>1 DEF Again
<1>7. ASSUME NEW w \in Workers, Waking(w) PROVE PodTypeOK'
  BY <1>7 DEF Waking, SendToken, podVars, TypeOK
<1>8. ASSUME NEW w \in Workers, Hang(w) PROVE PodTypeOK'
  BY <1>8 DEF Hang, vars, TypeOK
<1>9. ASSUME Tick PROVE PodTypeOK'
  BY <1>9 DEF Tick, Aged, vars, TypeOK
<1>10. ASSUME Probe PROVE PodTypeOK'
  <2>1. CASE Restart
    BY <1>1, <1>3, <2>1 DEF Restart, TypeOK
  <2>2. CASE ~Restart
    BY <1>10, <2>2 DEF Probe, vars, TypeOK
  <2>. QED BY <2>1, <2>2
<1>11. CASE UNCHANGED allVars
  BY <1>11 DEF allVars, vars, podVars, TypeOK
<1>. QED BY <1>4, <1>5, <1>6, <1>7, <1>8, <1>9, <1>10, <1>11 DEF PodNext, LoopStep

\* Every step keeps the polling loops in time: an attempt puts the clock back, and a
\* tick passes only while no timer or answer of theirs is overdue.
LEMMA PollStep == PodTypeOK /\ PollInv /\ [PodNext]_allVars => PollInv'
<1>. SUFFICES ASSUME PodTypeOK, PollInv, [PodNext]_allVars PROVE PollInv'
  OBVIOUS
<1>. USE PodAssumption
<1>1. /\ since \in Int /\ (since # Never => since >= 0) /\ jobless \in SUBSET Workers
      /\ left \in [Workers -> Nat] /\ pc \in [Workers -> {"lease", "parked", "waking"}]
  <2>1. left \in [Workers -> Nat]
    BY DEF PodTypeOK
  <2>. QED BY <2>1 DEF PodTypeOK, TypeOK, Never
<1>2. ASSUME NEW w \in Workers, NEW u \in jobless, u # w, since' = 0, left'[u] = left[u],
             pc'[u] = pc[u], hung' = hung
      PROVE  /\ since' # Never /\ pc'[u] # "waking"
             /\ u \notin hung' /\ pc'[u] = "parked" => since' + left'[u] <= ParkTicks
             /\ u \notin hung' /\ pc'[u] = "lease" => since' + left'[u] <= ParkTicks + LeaseTicks
  <2>1. since >= 0 /\ left[u] \in Nat
    BY <1>1 DEF PollInv
  <2>. QED BY <1>1, <1>2, <2>1 DEF PollInv, Never
<1>3. ASSUME NEW w \in Workers, LeasedNone(w) PROVE PollInv'
  <2>1. /\ since' = 0 /\ hung' = hung /\ jobless' = jobless \cup {w}
        /\ \A u \in Workers \ {w} : left'[u] = left[u] /\ pc'[u] = pc[u]
        /\ left'[w] \in 1 .. ParkTicks /\ pc'[w] = "parked"
    BY <1>1, <1>3 DEF LeasedNone, OnLeaseAttempt, WaitOnce
  <2>2. ASSUME NEW u \in jobless, u # w
        PROVE  /\ since' # Never /\ pc'[u] # "waking"
               /\ u \notin hung' /\ pc'[u] = "parked" => since' + left'[u] <= ParkTicks
               /\ u \notin hung' /\ pc'[u] = "lease" => since' + left'[u] <= ParkTicks + LeaseTicks
    BY <1>1, <1>2, <2>1, <2>2
  <2>. QED BY <2>1, <2>2 DEF PollInv, Never
<1>4. ASSUME NEW w \in Workers, LeasedJob(w) PROVE PollInv'
  <2>1. /\ since' = 0 /\ hung' = hung /\ jobless' = jobless \ {w}
        /\ \A u \in Workers \ {w} : left'[u] = left[u] /\ pc'[u] = pc[u]
    BY <1>1, <1>4 DEF LeasedJob, OnLeaseAttempt, WakeAll
  <2>. QED BY <1>1, <1>2, <2>1 DEF PollInv
<1>5. ASSUME NEW w \in Workers, Again(w) PROVE PollInv'
  <2>1. /\ since' = since /\ hung' = hung /\ jobless' = jobless
        /\ \A u \in Workers \ {w} : left'[u] = left[u] /\ pc'[u] = pc[u]
        /\ left'[w] = LeaseTicks /\ pc'[w] = "lease"
        /\ pc[w] \in {"parked", "waking"}
    BY <1>1, <1>5 DEF Again, TimedOut, Woken, Leave, Processed
  <2>2. w \in jobless /\ w \notin hung => since + LeaseTicks <= ParkTicks + LeaseTicks
    BY <1>1, <2>1 DEF PollInv
  <2>. QED BY <1>1, <2>1, <2>2 DEF PollInv
<1>6. ASSUME NEW w \in Workers, Waking(w) \/ Hang(w) PROVE PollInv'
  BY <1>6 DEF Waking, SendToken, Hang, podVars, vars, PollInv
<1>7. ASSUME Tick PROVE PollInv'
  <2>1. UNCHANGED <<pc, hung, jobless>> /\ since' = Aged(since)
    BY <1>7 DEF Tick, vars
  <2>2. ASSUME NEW u \in jobless, u \notin hung PROVE left'[u] = left[u] - 1
    <3>1. u \in Workers /\ ~Transferring(u)
      BY <1>1 DEF PollInv, Transferring
    <3>. QED BY <1>1, <1>7, <2>2, <3>1 DEF Tick
  <2>3. since # Never => since' # Never /\ (since' = since \/ since' = since + 1)
    BY <1>1, <2>1 DEF Aged, Never
  <2>4. ASSUME NEW u \in jobless
        PROVE  /\ since' # Never /\ pc[u] # "waking"
               /\ u \notin hung /\ pc[u] = "parked" => since' + left'[u] <= ParkTicks
               /\ u \notin hung /\ pc[u] = "lease" => since' + left'[u] <= ParkTicks + LeaseTicks
    BY <1>1, <2>2, <2>3, <2>4 DEF PollInv
  <2>. QED BY <2>1, <2>4 DEF PollInv
<1>8. ASSUME Probe PROVE PollInv'
  BY <1>8 DEF Probe, Restart, vars, PollInv
<1>9. CASE UNCHANGED allVars
  BY <1>9 DEF allVars, vars, podVars, PollInv
<1>. QED BY <1>3, <1>4, <1>5, <1>6, <1>7, <1>8, <1>9 DEF PodNext, LoopStep

\* The pod's invariant is inductive.
LEMMA PodStep == PodInv /\ [PodNext]_allVars => PodInv'
BY PodTypes, IdleStep, PollStep DEF PodInv, PodTypeOK

-----------------------------------------------------------------------------
\* The release: the pods' loops run once the newest revision's Job has applied its
\* files.
ReleaseInv ==
    /\ MigInv /\ PodInv /\ deployed \in BOOLEAN
    /\ since # Never => deployed
    /\ deployed => 1 .. Newest \subseteq applied

\* The invariant holds before the first helm run.
LEMMA ReleaseInit == RInit => ReleaseInv
<1>. SUFFICES ASSUME RInit PROVE ReleaseInv
  OBVIOUS
<1>1. MigInv /\ PodInv
  BY MigInit, PodInitial DEF RInit
<1>. QED BY <1>1 DEF RInit, PodInit, ReleaseInv

\* Hooks, helm and the pods keep the invariant.
LEMMA ReleaseStep == ReleaseInv /\ [RNext]_rvars => ReleaseInv'
<1>. SUFFICES ASSUME ReleaseInv, [RNext]_rvars PROVE ReleaseInv'
  OBVIOUS
<1>1. ASSUME Hook(MNext) PROVE ReleaseInv'
  <2>1. MigInv'
    BY <1>1, MigStep DEF ReleaseInv, Hook
  <2>2. PodInv'
    BY <1>1, PodStep DEF ReleaseInv, Hook
  <2>. QED BY <1>1, <2>1, <2>2 DEF ReleaseInv, Hook, allVars, podVars
<1>2. ASSUME Deploy PROVE ReleaseInv'
  <2>1. PodInv' /\ UNCHANGED <<since, applied, holder, known>>
    BY <1>2, PodStep DEF ReleaseInv, Deploy, allVars, podVars
  <2>2. holder = {}
    BY <1>2 DEF Deploy, ReleaseInv, MigInv, MTypeOK, LockInv, MayHold
  <2>3. MigInv'
    BY <1>2, <2>1, <2>2 DEF Deploy, ReleaseInv, MigInv, MTypeOK, LockInv, MapInv, InOrder,
       MayHold, Applying, At
  <2>4. deployed' => 1 .. Newest \subseteq applied'
    BY <1>2, <2>1 DEF Deploy, Succeeded, ReleaseInv, MigInv, MapInv, At
  <2>5. since # Never => FALSE
    BY <1>2 DEF Deploy, ReleaseInv
  <2>6. deployed' \in BOOLEAN
    BY <1>2, Zenon DEF Deploy, Succeeded
  <2>. QED BY <2>1, <2>3, <2>4, <2>5, <2>6 DEF ReleaseInv
<1>3. ASSUME Pod(PodNext) PROVE ReleaseInv'
  <2>1. MigInv'
    BY <1>3, MigStep DEF ReleaseInv, Pod
  <2>2. PodInv'
    BY <1>3, PodStep DEF ReleaseInv, Pod
  <2>. QED BY <1>3, <2>1, <2>2 DEF ReleaseInv, Pod, mvars
<1>4. CASE UNCHANGED rvars
  <2>1. MigInv' /\ PodInv'
    BY <1>4, MigStep, PodStep DEF ReleaseInv, rvars
  <2>. QED BY <1>4, <2>1 DEF ReleaseInv, rvars, allVars, podVars, mvars
<1>. QED BY <1>1, <1>2, <1>3, <1>4 DEF RNext

\* All of it, from the first helm run on.
THEOREM ReleaseInvariant == RSpec => []ReleaseInv
<1>. DEFINE Steps == RInit /\ [][RNext]_rvars
<1>1. RSpec => Steps
  BY PTL DEF RSpec
<1>. QED BY <1>1, ReleaseInit, ReleaseStep, PTL

\* Types, the delay's bounds among them.
THEOREM ReleaseTyping == RSpec => []ReleaseTypeOK
<1>1. ReleaseInv => ReleaseTypeOK
  BY DEF ReleaseInv, MigInv, PodInv, ReleaseTypeOK
<1>. QED BY <1>1, ReleaseInvariant, PTL

\* WaitOnce, WakeAll and eviction never lose a parked worker nor keep a stale channel.
THEOREM NobodyForgotten == RSpec => []KnownOnce
<1>1. ReleaseInv => KnownOnce
  BY IdleMeans DEF ReleaseInv, PodInv
<1>. QED BY <1>1, ReleaseInvariant, PTL

\* A pod with an idle loop that polls passes its liveness probes, for every schedule
\* of delays and every threshold above the longest wait and the slowest answer.
THEOREM PollingIsLive == RSpec => []LiveWhilePolling
<1>1. ReleaseInv => LiveWhilePolling
  BY PollMeans DEF ReleaseInv, PodInv
<1>. QED BY <1>1, ReleaseInvariant, PTL

\* Versions are recorded without gaps, however hook pods fail, die and are retried.
THEOREM MigratedInOrder == RSpec => []InOrder
<1>1. ReleaseInv => InOrder
  BY DEF ReleaseInv, MigInv
<1>. QED BY <1>1, ReleaseInvariant, PTL

\* What ApplyMigrations read under the advisory lock stays true until it is done.
THEOREM ListIsCurrent == RSpec => []NothingTwice
<1>1. ReleaseInv => NothingTwice
  BY DEF ReleaseInv, MigInv, MapInv, Applying, At, NothingTwice
<1>. QED BY <1>1, ReleaseInvariant, PTL

\* The hook order puts the newest schema before the first lease of its workers.
THEOREM SchemaBeforeWorkers == RSpec => []SchemaFirst
<1>1. ReleaseInv => SchemaFirst
  BY DEF ReleaseInv, SchemaFirst
<1>. QED BY <1>1, ReleaseInvariant, PTL

-----------------------------------------------------------------------------
\* The file a migration runs takes the schema from one version to the next.
LEMMA RunUpgrades ==
    ASSUME MigInv, NEW p \in Pods, Applying(p), NEW v \in Todo(p), RunFile(p, v)
    PROVE  v \in 1 .. p[1] /\ applied = 1 .. v - 1 /\ applied' = 1 .. v
<1>1. known[p] = applied /\ p[1] \in Nat /\ applied \subseteq Nat \ {0}
  BY PodType DEF MigInv, MapInv, MTypeOK
<1>2. v \in 1 .. p[1] /\ v \in Nat \ {0} /\ v \notin applied /\ applied' = applied \cup {v}
  BY <1>1 DEF RunFile, Todo
<1>3. ASSUME NEW u \in 1 .. v - 1 PROVE u \in applied
  <2>1. u \in 1 .. p[1] /\ ~(v <= u)
    BY <1>1, <1>2
  <2>. QED BY <1>1, <2>1 DEF RunFile, IsNext, Todo
<1>4. ASSUME NEW u \in applied PROVE u \in 1 .. v - 1
  <2>1. v \notin 1 .. u
    BY <1>2 DEF MigInv, InOrder
  <2>. QED BY <1>1, <1>2, <2>1
<1>5. applied = 1 .. v - 1
  BY <1>3, <1>4
<1>. QED BY <1>2, <1>5

\* Every step of a hook's pod is an upgrade by one version or leaves the schema alone.
LEMMA MigrateUpgrades ==
    ASSUME MigInv, MNext
    PROVE  UNCHANGED applied \/ \E r \in Revisions : \E v \in 1 .. r : applied = 1 .. v - 1 /\ applied' = 1 .. v
<1>1. PICK p \in Pods : Start(p) \/ Progress(p) \/ Fail(p) \/ Die(p)
  BY DEF MNext
<1>2. UNCHANGED applied \/ (Applying(p) /\ \E v \in Todo(p) : RunFile(p, v))
  BY <1>1 DEF Start, Progress, Lock, List, Apply, Done, SessionEnds, Fail, Die, Applying, At
<1>3. ASSUME Applying(p), NEW v \in Todo(p), RunFile(p, v)
      PROVE  \E r \in Revisions : \E u \in 1 .. r : applied = 1 .. u - 1 /\ applied' = 1 .. u
  <2>1. v \in 1 .. p[1] /\ applied = 1 .. v - 1 /\ applied' = 1 .. v
    BY <1>3, RunUpgrades
  <2>2. p[1] \in Revisions
    BY DEF Pods
  <2>. QED BY <2>1, <2>2
<1>. QED BY <1>2, <1>3

\* Overlapping, failing and retried hook Jobs and the Deployment after them implement
\* one upgrade after the other, for every set of revisions and every backoffLimit.
THEOREM SchemaStepsImplemented == RSpec => ImplementsSchemaSteps
<1>. DEFINE Steps == RInit /\ [][RNext]_rvars
<1>0. RSpec => Steps
  BY PTL DEF RSpec
<1>1. RInit => Versioned!SInit
  BY DEF RInit, MInit, Versioned!SInit
<1>2. ReleaseInv /\ ReleaseInv' /\ [RNext]_rvars => [Versioned!SNext]_(Versioned!svars)
  <2>. SUFFICES ASSUME ReleaseInv, ReleaseInv', [RNext]_rvars
                PROVE  Versioned!SNext \/ UNCHANGED <<applied, deployed>>
    BY DEF Versioned!svars
  <2>1. ASSUME Hook(MNext) PROVE Versioned!SNext \/ UNCHANGED <<applied, deployed>>
    BY <2>1, MigrateUpgrades DEF Hook, ReleaseInv, Versioned!SNext, Versioned!Upgrade
  <2>2. ASSUME Deploy PROVE Versioned!SNext \/ UNCHANGED <<applied, deployed>>
    <3>1. UNCHANGED applied /\ ~deployed /\ deployed' \in BOOLEAN /\ deployed \in BOOLEAN
      BY <2>2 DEF Deploy, ReleaseInv
    <3>2. deployed' => 1 .. Newest \subseteq applied
      BY <3>1 DEF ReleaseInv
    <3>. QED BY <3>1, <3>2 DEF Versioned!SNext, Versioned!Serve
  <2>3. ASSUME Pod(PodNext) \/ UNCHANGED rvars PROVE UNCHANGED <<applied, deployed>>
    BY <2>3 DEF Pod, rvars, mvars
  <2>. QED BY <2>1, <2>2, <2>3 DEF RNext
<1>. QED BY <1>0, <1>1, <1>2, ReleaseInvariant, PTL DEF ImplementsSchemaSteps, Versioned!SSpec

-----------------------------------------------------------------------------
\* Until MaxDelay every delay is longer than the one before it.
LEMMA Lengthens ==
    ASSUME NEW d \in BaseDelay .. MaxDelay
    PROVE  d < advance(d) \/ (d = MaxDelay /\ advance(d) = MaxDelay)
BY DelayAssumption DEF advance, Least

\* Each loop that parks lengthens the delay of all, until MaxDelay.  It gets shorter
\* only when a job was leased, or when the kubelet restarts a pod none of whose idle
\* loops is polling.
DelaySteps ==
    /\ (\E w \in Workers : pc[w] = "lease" /\ pc'[w] = "parked")
        => nominal < nominal' \/ (nominal = MaxDelay /\ nominal' = MaxDelay)
    /\ nominal' < nominal
        => \/ \E w \in Workers : pc[w] = "lease" /\ pc'[w] = "waking"
           \/ since' = Never /\ jobless \subseteq hung

\* The pod's loops move the delay in no other way.
LEMMA DelayStep == PodInv /\ [PodNext]_allVars => DelaySteps
<1>. SUFFICES ASSUME PodInv, [PodNext]_allVars PROVE DelaySteps
  OBVIOUS
<1>0. nominal \in BaseDelay .. MaxDelay /\ nominal \in Int /\ pc \in [Workers -> {"lease", "parked", "waking"}]
  BY DelayAssumption DEF PodInv, PodTypeOK, TypeOK
<1>1. ASSUME NEW w \in Workers, LeasedNone(w) PROVE DelaySteps
  <2>1. nominal' = advance(nominal)
    BY <1>1 DEF LeasedNone, WaitOnce
  <2>2. nominal < nominal' \/ (nominal = MaxDelay /\ nominal' = MaxDelay)
    BY <1>0, <2>1, Lengthens
  <2>3. nominal' \in Int
    BY <1>0, <2>1, Advances, DelayAssumption
  <2>. QED BY <1>0, <2>2, <2>3, DelayAssumption DEF DelaySteps
<1>2. ASSUME NEW w \in Workers, LeasedJob(w) PROVE DelaySteps
  <2>1. pc[w] = "lease" /\ pc' = [pc EXCEPT ![w] = "waking"]
    BY <1>2 DEF LeasedJob, WakeAll
  <2>2. pc'[w] = "waking" /\ ~\E v \in Workers : pc[v] = "lease" /\ pc'[v] = "parked"
    BY <1>0, <2>1
  <2>. QED BY <2>1, <2>2 DEF DelaySteps
<1>3. ASSUME UNCHANGED nominal, \A w \in Workers : pc'[w] = "parked" => pc[w] = "parked" PROVE DelaySteps
  BY <1>0, <1>3 DEF DelaySteps
<1>4. ASSUME NEW w \in Workers, Again(w) PROVE DelaySteps
  <2>1. UNCHANGED nominal /\ pc' = [pc EXCEPT ![w] = "lease"]
    BY <1>4 DEF Again, TimedOut, Woken, Leave, Processed
  <2>. QED BY <1>0, <1>3, <2>1
<1>5. ASSUME UNCHANGED <<nominal, pc>> PROVE DelaySteps
  BY <1>3, <1>5
<1>6. ASSUME Stale, Restart PROVE DelaySteps
  <2>1. jobless \subseteq hung
    BY <1>6, PollMeans DEF PodInv, LiveWhilePolling
  <2>2. since' = Never /\ ~\E w \in Workers : pc'[w] = "parked"
    BY <1>6 DEF Restart
  <2>. QED BY <2>1, <2>2 DEF DelaySteps
<1>7. ASSUME Probe PROVE DelaySteps
  BY <1>5, <1>6, <1>7 DEF Probe, vars
<1>8. ASSUME (\E w \in Workers : Waking(w) \/ Hang(w)) \/ Tick \/ UNCHANGED allVars PROVE DelaySteps
  BY <1>5, <1>8 DEF Waking, SendToken, Hang, Tick, allVars, vars
<1>. QED BY <1>1, <1>2, <1>4, <1>7, <1>8 DEF PodNext, LoopStep

\* The safety part of SlowsDown, for any number of loops and any delays.
THEOREM DelayOnlyGrows == RSpec => [][DelaySteps]_rvars
<1>. DEFINE Steps == RInit /\ [][RNext]_rvars
<1>0. RSpec => Steps
  BY PTL DEF RSpec
<1>1. ReleaseInv /\ [RNext]_rvars => [DelaySteps]_rvars
  <2>. SUFFICES ASSUME ReleaseInv, RNext PROVE DelaySteps
    OBVIOUS
  <2>1. [PodNext]_allVars
    BY DEF RNext, Hook, Deploy, Pod
  <2>. QED BY <2>1, DelayStep DEF ReleaseInv
<1>. QED BY <1>0, <1>1, ReleaseInvariant, PTL
=============================================================================
