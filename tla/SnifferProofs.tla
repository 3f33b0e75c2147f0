---------------------------- MODULE SnifferProofs ----------------------------
(***************************************************************************)
(* Proofs about the sniffer, for every number of instances and rows, every  *)
(* batch size and every bias.                                               *)
(***************************************************************************)
EXTENDS Sniffer, FiniteSetTheorems, TLAPS

\* Every step keeps the types.
LEMMA SniffType == TypeOK /\ [Next]_vars => TypeOK'
<1>. SUFFICES ASSUME TypeOK, [Next]_vars PROVE TypeOK'
  OBVIOUS
<1>. USE SnifferAssumption DEF TypeOK, Mark, source, Goto, EndPoll, NoBatch
<1>1. ASSUME NEW k \in PKs, BeginWrite(k) PROVE TypeOK'
  BY <1>1 DEF BeginWrite
<1>2. ASSUME NEW k \in PKs, CommitWrite(k) PROVE TypeOK'
  BY <1>2 DEF CommitWrite
<1>3. ASSUME Tick PROVE TypeOK'
  BY <1>3 DEF Tick
<1>4. ASSUME NEW s \in Sniffers, Load(s) PROVE TypeOK'
  BY <1>4 DEF Load
<1>5. ASSUME NEW s \in Sniffers, Fetch(s) PROVE TypeOK'
  <2>1. CASE Window(st[s]) = {} /\ EndPoll(s, "load")
    BY <1>5, <2>1 DEF Fetch
  <2>2. ASSUME NEW S \in SUBSET Window(st[s]), NEW k \in S,
               batch' = [batch EXCEPT ![s] = [rows |-> S, last |-> [ts |-> seen[k], pk |-> k]]],
               Goto(s, "enqueue"), UNCHANGED st
        PROVE  TypeOK'
    <3>1. S \in SUBSET PKs /\ k \in PKs
      BY DEF Window
    <3>2. [rows |-> S, last |-> [ts |-> seen[k], pk |-> k]] \in [rows : SUBSET PKs, last : Mark]
      BY <3>1
    <3>3. batch' \in [Sniffers -> [rows : SUBSET PKs, last : Mark]]
      BY <2>2, <3>2
    <3>. QED BY <1>5, <2>2, <3>3 DEF Fetch
  <2>. QED BY <1>5, <2>1, <2>2 DEF Fetch
<1>6. ASSUME NEW s \in Sniffers, EnqueueBatch(s) PROVE TypeOK'
  BY <1>6 DEF EnqueueBatch, Specs
<1>7. ASSUME NEW s \in Sniffers, EnqueueError(s) PROVE TypeOK'
  <2>1. queued' \in SUBSET PKs
    BY <1>7 DEF EnqueueError, Specs
  <2>. QED BY <1>7, <2>1 DEF EnqueueError
<1>8. ASSUME NEW s \in Sniffers, Upsert(s) PROVE TypeOK'
  BY <1>8 DEF Upsert
<1>9. ASSUME NEW s \in Sniffers, PollError(s) PROVE TypeOK'
  BY <1>9 DEF PollError
<1>10. CASE UNCHANGED vars
  BY <1>10 DEF vars
<1>. QED BY <1>1, <1>2, <1>3, <1>4, <1>5, <1>6, <1>7, <1>8, <1>9, <1>10 DEF Next, SnifferStep

\* A watermark is one of the beginning or lies behind the bias.
Behind(m) == m.ts = 0 \/ m.ts + Bias <= now

\* Times: no transaction is older than MaxTx, every watermark in use is behind the bias.
Timely ==
    /\ \A k \in PKs : open[k] # 0 => now - open[k] <= MaxTx
    /\ Behind(mark)
    /\ \A s \in Sniffers : Behind(st[s]) /\ Behind(batch[s].last)

\* What a poll has in hand: all rows up to its batch's last one have a job or are in
\* the batch, and have a job once the batch is enqueued.
InBatch(s) ==
    \A k \in PKs \ Poison :
        seen[k] # 0 /\ ~After(batch[s].last, k)
            => k \in queued \/ (pc[s] = "enqueue" /\ k \in batch[s].rows)

\* The inductive invariant.
SniffInv ==
    /\ TypeOK /\ Timely
    /\ NothingSkipped
    /\ \A s \in Sniffers : Covers(st[s]) /\ InBatch(s)

\* At the start no row is committed.
LEMMA SniffInit == Init => SniffInv
<1>. SUFFICES ASSUME Init PROVE SniffInv
  OBVIOUS
<1>1. TypeOK
  BY SnifferAssumption DEF Init, TypeOK, Mark, NoBatch
<1>2. Timely
  BY DEF Init, Timely, Behind, NoBatch
<1>. QED BY <1>1, <1>2 DEF Init, SniffInv, NothingSkipped, Covers, InBatch

\* Times stay in order.
LEMMA TimelyStep == TypeOK /\ Timely /\ [Next]_vars => Timely'
<1>. SUFFICES ASSUME TypeOK, Timely, [Next]_vars PROVE Timely'
  OBVIOUS
<1>. USE SnifferAssumption DEF TypeOK, Mark, source, Goto, EndPoll, NoBatch, Timely, Behind
<1>1. ASSUME NEW k \in PKs, BeginWrite(k) PROVE Timely'
  BY <1>1 DEF BeginWrite
<1>2. ASSUME NEW k \in PKs, CommitWrite(k) PROVE Timely'
  BY <1>2 DEF CommitWrite
<1>3. ASSUME Tick PROVE Timely'
  BY <1>3 DEF Tick
<1>4. ASSUME NEW s \in Sniffers, Load(s) PROVE Timely'
  BY <1>4 DEF Load
<1>5. ASSUME NEW s \in Sniffers, Fetch(s) PROVE Timely'
  <2>1. CASE Window(st[s]) = {} /\ EndPoll(s, "load")
    BY <1>5, <2>1 DEF Fetch
  <2>2. ASSUME NEW S \in SUBSET Window(st[s]), NEW k \in S,
               batch' = [batch EXCEPT ![s] = [rows |-> S, last |-> [ts |-> seen[k], pk |-> k]]],
               Goto(s, "enqueue"), UNCHANGED st
        PROVE  Timely'
    <3>1. k \in PKs /\ seen[k] + Bias <= now
      BY DEF Window
    <3>. QED BY <1>5, <2>2, <3>1 DEF Fetch
  <2>. QED BY <1>5, <2>1, <2>2 DEF Fetch
<1>6. ASSUME NEW s \in Sniffers, EnqueueBatch(s) PROVE Timely'
  BY <1>6 DEF EnqueueBatch
<1>7. ASSUME NEW s \in Sniffers, EnqueueError(s) PROVE Timely'
  BY <1>7 DEF EnqueueError
<1>8. ASSUME NEW s \in Sniffers, Upsert(s) PROVE Timely'
  BY <1>8 DEF Upsert
<1>9. ASSUME NEW s \in Sniffers, PollError(s) PROVE Timely'
  BY <1>9 DEF PollError
<1>10. CASE UNCHANGED vars
  BY <1>10 DEF vars
<1>. QED BY <1>1, <1>2, <1>3, <1>4, <1>5, <1>6, <1>7, <1>8, <1>9, <1>10 DEF Next, SnifferStep

\* A row that commits is newer than every watermark behind the bias, because its
\* transaction was open for less: what lies before such a watermark lay there before.
LEMMA Settled ==
    ASSUME MaxTx < Bias, TypeOK, Timely, [Next]_vars
    PROVE  \A m \in Mark : Behind(m) =>
             \A k \in PKs : seen'[k] # 0 /\ ~After(m, k)' => seen[k] # 0 /\ ~After(m, k)
<1>. USE SnifferAssumption DEF TypeOK, Mark, Timely, Behind, After
<1>1. ASSUME NEW j \in PKs, CommitWrite(j), NEW m \in Mark, Behind(m), NEW k \in PKs,
             seen'[k] # 0 /\ ~After(m, k)'
      PROVE  seen[k] # 0 /\ ~After(m, k)
  <2>1. CASE k = j
    <3>1. seen'[k] = open[k] /\ open[k] # 0 /\ now - open[k] <= MaxTx
      BY <1>1, <2>1 DEF CommitWrite
    <3>2. open[k] > m.ts
      BY <1>1, <3>1
    <3>. QED BY <1>1, <3>1, <3>2
  <2>2. CASE k # j
    BY <1>1, <2>2 DEF CommitWrite
  <2>. QED BY <2>1, <2>2
<1>2. CASE UNCHANGED seen
  BY <1>2
<1>3. UNCHANGED seen \/ \E j \in PKs : CommitWrite(j)
  BY DEF Next, vars, source, SnifferStep, BeginWrite, Tick, Load, Fetch, EnqueueBatch,
         EnqueueError, Upsert, PollError
<1>. QED BY <1>1, <1>2, <1>3

\* The batch is the first part of the rows after the watermark, so a row up to its last
\* one is in it or had a job.
LEMMA FetchCovers ==
    ASSUME TypeOK, Timely, NEW m \in Mark, Covers(m), NEW S \in SUBSET Window(m), NEW k \in S,
           Limited(S, Window(m)), \A j \in S \ {k} : Earlier(j, k),
           NEW i \in PKs \ Poison, seen[i] # 0, ~After([ts |-> seen[k], pk |-> k], i)
    PROVE  i \in queued \/ i \in S
<1>. USE SnifferAssumption DEF TypeOK, Mark
<1>1. k \in PKs /\ k # 0 /\ seen[k] \in Nat /\ seen[k] <= now - Bias /\ now \in Nat
  BY DEF Window
<1>2. seen[i] <= seen[k] /\ ~(seen[i] = seen[k] /\ i > k)
  BY <1>1 DEF After
<1>3. CASE ~After(m, i)
  BY <1>3 DEF Covers
<1>4. CASE After(m, i)
  <2>1. i \in Window(m)
    BY <1>1, <1>2, <1>4 DEF Window
  <2>2. ASSUME i \notin S PROVE FALSE
    <3>1. Earlier(k, i)
      BY <2>1, <2>2 DEF Limited
    <3>. QED BY <1>1, <1>2, <3>1 DEF Earlier
  <2>. QED BY <2>2
<1>. QED BY <1>3, <1>4

\* A poll that ends leaves nothing behind that could be wrong.
LEMMA NothingAtZero ==
    ASSUME TypeOK, NEW k \in PKs, seen[k] # 0
    PROVE  After([ts |-> 0, pk |-> 0], k)
BY SnifferAssumption DEF TypeOK, After

\* Every step keeps the invariant.
LEMMA SniffStep == ASSUME MaxTx < Bias PROVE SniffInv /\ [Next]_vars => SniffInv'
<1>. SUFFICES ASSUME SniffInv, [Next]_vars PROVE SniffInv'
  OBVIOUS
<1>. DEFINE Good == NothingSkipped /\ \A s \in Sniffers : Covers(st[s]) /\ InBatch(s)
<1>0. TypeOK /\ Timely /\ TypeOK' /\ Timely'
  BY SniffType, TimelyStep DEF SniffInv
<1>1. \A m \in Mark : Behind(m) =>
        \A k \in PKs : seen'[k] # 0 /\ ~After(m, k)' => seen[k] # 0 /\ ~After(m, k)
  BY <1>0, Settled
<1>2. /\ mark \in Mark /\ Behind(mark)
      /\ \A s \in Sniffers : /\ st[s] \in Mark /\ Behind(st[s])
                            /\ batch[s].last \in Mark /\ Behind(batch[s].last)
  BY <1>0 DEF TypeOK, Timely
<1>3. /\ Covers(mark)
      /\ \A s \in Sniffers : Covers(st[s]) /\ InBatch(s)
  BY DEF SniffInv, NothingSkipped
<1>4. ASSUME UNCHANGED <<mark, st, batch, pc, queued>> PROVE Good'
  BY <1>1, <1>2, <1>3, <1>4 DEF NothingSkipped, Covers, InBatch, After
<1>5. ASSUME UNCHANGED seen, queued \subseteq queued', Covers(mark)', NEW s \in Sniffers,
             NEW l, EndPoll(s, l)
      PROVE  Good'
  <2>1. \A t \in Sniffers \ {s} : UNCHANGED <<st[t], batch[t], pc[t]>>
    BY <1>0, <1>5 DEF EndPoll, Goto, TypeOK
  <2>2. st'[s] = [ts |-> 0, pk |-> 0] /\ batch'[s].last = [ts |-> 0, pk |-> 0]
    BY <1>0, <1>5 DEF EndPoll, NoBatch, TypeOK
  <2>3. \A k \in PKs : seen[k] # 0 => After([ts |-> 0, pk |-> 0], k)
    BY <1>0, NothingAtZero
  <2>4. \A t \in Sniffers \ {s} : Covers(st[t])' /\ InBatch(t)'
    BY <1>3, <1>5, <2>1 DEF Covers, InBatch, After
  <2>5. Covers(st[s])' /\ InBatch(s)'
    BY <1>5, <2>2, <2>3 DEF Covers, InBatch, After
  <2>. QED BY <1>5, <2>4, <2>5 DEF NothingSkipped
<1>6. ASSUME UNCHANGED <<seen, mark>>, queued \subseteq queued' PROVE Covers(mark)'
  BY <1>3, <1>6 DEF Covers, After
<1>. USE DEF source
<1>7. ASSUME NEW k \in PKs, BeginWrite(k) \/ CommitWrite(k) PROVE Good'
  BY <1>4, <1>7 DEF BeginWrite, CommitWrite
<1>8. ASSUME NEW s \in Sniffers, Load(s) PROVE Good'
  <2>1. \A t \in Sniffers : /\ st'[t] = st[t] \/ st'[t] = mark
                            /\ pc'[t] = pc[t] \/ pc[t] \in {"load", "failed"}
    BY <1>0, <1>8 DEF Load, Goto, TypeOK
  <2>2. UNCHANGED <<seen, mark, batch, queued>>
    BY <1>8 DEF Load
  <2>3. ASSUME NEW t \in Sniffers PROVE Covers(st[t])'
    <3>1. CASE st'[t] = st[t]
      BY <1>3, <2>2, <3>1 DEF Covers, After
    <3>2. CASE st'[t] = mark
      BY <1>3, <2>2, <3>2 DEF Covers, After
    <3>3. st'[t] = st[t] \/ st'[t] = mark
      BY <2>1
    <3>. QED BY <3>1, <3>2, <3>3
  <2>4. \A t \in Sniffers : InBatch(t)'
    BY <1>3, <2>1, <2>2 DEF InBatch, After
  <2>. QED BY <1>6, <2>2, <2>3, <2>4 DEF NothingSkipped
<1>9. ASSUME NEW s \in Sniffers, Fetch(s) PROVE Good'
  <2>0. UNCHANGED <<seen, mark, queued>>
    BY <1>9 DEF Fetch
  <2>1. CASE EndPoll(s, "load")
    BY <1>5, <1>6, <2>0, <2>1
  <2>2. ASSUME NEW S \in SUBSET Window(st[s]), NEW k \in S,
               Limited(S, Window(st[s])), \A j \in S \ {k} : Earlier(j, k),
               batch' = [batch EXCEPT ![s] = [rows |-> S, last |-> [ts |-> seen[k], pk |-> k]]],
               Goto(s, "enqueue"), UNCHANGED st
        PROVE  Good'
    <3>1. \A i \in PKs \ Poison :
             seen[i] # 0 /\ ~After([ts |-> seen[k], pk |-> k], i) => i \in queued \/ i \in S
      BY <1>0, <1>2, <1>3, <2>2, FetchCovers
    <3>2. batch'[s] = [rows |-> S, last |-> [ts |-> seen[k], pk |-> k]] /\ pc'[s] = "enqueue"
      BY <1>0, <2>2 DEF Goto, TypeOK
    <3>3. \A t \in Sniffers \ {s} : UNCHANGED <<batch[t], pc[t]>>
      BY <1>0, <2>2 DEF Goto, TypeOK
    <3>4. InBatch(s)'
      BY <2>0, <3>1, <3>2 DEF InBatch, After
    <3>5. \A t \in Sniffers \ {s} : InBatch(t)'
      BY <1>3, <2>0, <3>3 DEF InBatch, After
    <3>. QED BY <1>3, <2>0, <2>2, <3>4, <3>5 DEF NothingSkipped, Covers, After
  <2>. QED BY <1>9, <2>1, <2>2 DEF Fetch
<1>10. ASSUME NEW s \in Sniffers, EnqueueBatch(s) PROVE Good'
  <2>1. UNCHANGED <<seen, mark, st, batch>> /\ queued' = queued \cup Specs(s)
    BY <1>10 DEF EnqueueBatch
  <2>2. \A t \in Sniffers \ {s} : pc'[t] = pc[t]
    BY <1>0, <1>10 DEF EnqueueBatch, Goto, TypeOK
  <2>3. \A t \in Sniffers \ {s} : InBatch(t)'
    BY <1>3, <2>1, <2>2 DEF InBatch, After
  <2>4. InBatch(s)'
    BY <1>3, <2>1 DEF InBatch, After, Specs
  <2>. QED BY <1>3, <2>1, <2>3, <2>4 DEF NothingSkipped, Covers, After
<1>11. ASSUME NEW s \in Sniffers, EnqueueError(s) PROVE Good'
  <2>1. UNCHANGED <<seen, mark>> /\ queued \subseteq queued' /\ EndPoll(s, "failed")
    BY <1>11 DEF EnqueueError
  <2>. QED BY <1>5, <1>6, <2>1
<1>12. ASSUME NEW s \in Sniffers, Upsert(s) PROVE Good'
  <2>1. /\ UNCHANGED <<seen, queued>> /\ mark' = batch[s].last
        /\ EndPoll(s, "load") /\ pc[s] = "upsert"
    BY <1>12 DEF Upsert
  <2>2. Covers(mark)'
    BY <1>3, <2>1 DEF Covers, InBatch, After
  <2>. QED BY <1>5, <2>1, <2>2
<1>13. ASSUME NEW s \in Sniffers, PollError(s) PROVE Good'
  <2>1. UNCHANGED <<seen, mark, queued>> /\ EndPoll(s, "failed")
    BY <1>13 DEF PollError
  <2>. QED BY <1>5, <1>6, <2>1
<1>14. ASSUME UNCHANGED vars PROVE Good'
  BY <1>4, <1>14 DEF vars
<1>15. ASSUME Tick PROVE Good'
  BY <1>4, <1>15 DEF Tick
<1>16. Good'
  BY <1>7, <1>8, <1>9, <1>10, <1>11, <1>12, <1>13, <1>14, <1>15 DEF Next, SnifferStep
<1>. QED BY <1>0, <1>16 DEF SniffInv

\* Types: for any number of instances and rows.
THEOREM SniffTyping == Spec => []TypeOK
<1>1. Init => TypeOK
  BY SniffInit DEF SniffInv
<1>. QED BY <1>1, SniffType, PTL DEF Spec

\* No row is skipped: if the bias is longer than any transaction of the source stays
\* open, the watermark never passes a renderable row that has no job, whatever the
\* crashes, errors, batch sizes and overlapping instances.
THEOREM NoRowSkipped == ASSUME MaxTx < Bias PROVE Spec => []NothingSkipped
<1>1. SniffInv /\ [Next]_vars => SniffInv'
  BY SniffStep
<1>2. SniffInv => NothingSkipped
  BY DEF SniffInv
<1>. QED BY <1>1, <1>2, SniffInit, PTL DEF Spec

-----------------------------------------------------------------------------
\* The order of the watermark, (ts, pk).
Beyond(m, n) == m.ts > n.ts \/ (m.ts = n.ts /\ m.pk > n.pk)

\* What a poll has fetched is committed and lies beyond the watermark it loaded; rows
\* with a job are committed and can be rendered.
PollInv ==
    /\ queued \subseteq {k \in PKs \ Poison : seen[k] # 0}
    /\ \A s \in Sniffers :
        /\ \A k \in batch[s].rows : seen[k] # 0
        /\ pc[s] \in {"enqueue", "upsert"} => Beyond(batch[s].last, st[s])

\* A row that is fetched lies beyond the watermark.
LEMMA FetchedBeyond ==
    ASSUME TypeOK, NEW m \in Mark, NEW k \in Window(m)
    PROVE  Beyond([ts |-> seen[k], pk |-> k], m) /\ seen[k] # 0
BY SnifferAssumption DEF TypeOK, Mark, Window, After, Beyond

\* Every step keeps it, whatever the transactions and the bias.
LEMMA PollStep == TypeOK /\ PollInv /\ [Next]_vars => PollInv'
<1>. SUFFICES ASSUME TypeOK, PollInv, [Next]_vars PROVE PollInv'
  OBVIOUS
<1>. USE DEF source
<1>0. \A s \in Sniffers : batch[s].rows \subseteq PKs
  BY DEF TypeOK
<1>1. ASSUME UNCHANGED <<queued, pc, st, batch>>, \A k \in PKs : seen[k] # 0 => seen'[k] # 0 PROVE PollInv'
  BY <1>0, <1>1 DEF PollInv, Beyond
<1>2. ASSUME NEW k \in PKs, BeginWrite(k) \/ CommitWrite(k) PROVE PollInv'
  <2>1. \A j \in PKs : seen[j] # 0 => seen'[j] # 0
    BY <1>2 DEF BeginWrite, CommitWrite, TypeOK
  <2>. QED BY <1>1, <1>2, <2>1 DEF BeginWrite, CommitWrite
<1>3. ASSUME Tick \/ UNCHANGED vars PROVE PollInv'
  BY <1>1, <1>3 DEF Tick, vars
<1>4. ASSUME NEW s \in Sniffers, NEW l \in {"load", "failed"}, EndPoll(s, l), UNCHANGED seen,
             queued' \subseteq queued \cup Specs(s)
      PROVE  PollInv'
  <2>1. \A t \in Sniffers \ {s} : UNCHANGED <<st[t], batch[t], pc[t]>>
    BY <1>4 DEF EndPoll, Goto, TypeOK
  <2>2. batch'[s].rows = {} /\ pc'[s] = l
    BY <1>4 DEF EndPoll, Goto, NoBatch, TypeOK
  <2>3. queued' \subseteq {k \in PKs \ Poison : seen'[k] # 0}
    BY <1>0, <1>4 DEF PollInv, Specs
  <2>. QED BY <1>4, <2>1, <2>2, <2>3 DEF PollInv, Beyond
<1>5. ASSUME NEW s \in Sniffers, Load(s) PROVE PollInv'
  <2>1. \A t \in Sniffers \ {s} : UNCHANGED <<st[t], pc[t]>>
    BY <1>5 DEF Load, Goto, TypeOK
  <2>2. pc'[s] = "fetch" /\ UNCHANGED <<seen, queued, batch>>
    BY <1>5 DEF Load, Goto, TypeOK
  <2>. QED BY <2>1, <2>2 DEF PollInv, Beyond
<1>6. ASSUME NEW s \in Sniffers, Fetch(s) PROVE PollInv'
  <2>1. CASE EndPoll(s, "load")
    BY <1>4, <1>6, <2>1 DEF Fetch
  <2>2. ASSUME NEW S \in SUBSET Window(st[s]), NEW k \in S,
               batch' = [batch EXCEPT ![s] = [rows |-> S, last |-> [ts |-> seen[k], pk |-> k]]],
               Goto(s, "enqueue"), UNCHANGED <<st, seen, queued>>
        PROVE  PollInv'
    <3>1. st[s] \in Mark
      BY DEF TypeOK
    <3>2. Beyond([ts |-> seen[k], pk |-> k], st[s]) /\ \A j \in S : seen[j] # 0
      BY <2>2, <3>1, FetchedBeyond
    <3>3. batch'[s] = [rows |-> S, last |-> [ts |-> seen[k], pk |-> k]]
      BY <2>2 DEF TypeOK
    <3>4. \A t \in Sniffers \ {s} : UNCHANGED <<batch[t], pc[t]>>
      BY <2>2 DEF Goto, TypeOK
    <3>. QED BY <2>2, <3>2, <3>3, <3>4 DEF PollInv, Beyond
  <2>. QED BY <1>6, <2>1, <2>2 DEF Fetch
<1>7. ASSUME NEW s \in Sniffers, EnqueueBatch(s) PROVE PollInv'
  <2>1. queued' \subseteq {k \in PKs \ Poison : seen'[k] # 0}
    BY <1>0, <1>7 DEF EnqueueBatch, PollInv, Specs
  <2>2. \A t \in Sniffers : pc'[t] = pc[t] \/ pc[t] = "enqueue"
    BY <1>7 DEF EnqueueBatch, Goto, TypeOK
  <2>. QED BY <1>7, <2>1, <2>2 DEF EnqueueBatch, PollInv, Beyond
<1>8. ASSUME NEW s \in Sniffers, EnqueueError(s) \/ PollError(s) \/ Upsert(s) PROVE PollInv'
  BY <1>4, <1>8 DEF EnqueueError, PollError, Upsert
<1>. QED BY <1>2, <1>3, <1>5, <1>6, <1>7, <1>8 DEF Next, SnifferStep

\* The invariant of the polls holds without an assumption on transactions.
THEOREM PollInvariant == Spec => [](TypeOK /\ PollInv)
<1>1. Init => TypeOK /\ PollInv
  <2>. SUFFICES ASSUME Init PROVE PollInv
    BY SniffInit DEF SniffInv
  <2>. QED BY DEF Init, PollInv, NoBatch
<1>. QED BY <1>1, SniffType, PollStep, PTL DEF Spec

\* A job stands for a committed row that can be rendered: no open or rolled back
\* version of the source and no poison row gets one.
JobsHaveRows == \A k \in queued : k \notin Poison /\ seen[k] # 0

\* For any instances, batches, crashes and transactions.
THEOREM OnlyRowsQueued == Spec => []JobsHaveRows
<1>1. TypeOK /\ PollInv => JobsHaveRows
  BY DEF PollInv, JobsHaveRows
<1>. QED BY <1>1, PollInvariant, PTL

\* A poll that ends well after fetching rows stores a watermark beyond the one it
\* loaded, even if none of its rows could be rendered: the next poll fetches others.
MovesOn(s) == pc[s] = "upsert" /\ pc'[s] = "load" => Beyond(mark', st[s])

\* The safety part of EveryRowEnqueued.
THEOREM PollsMoveOn == Spec => [][\A s \in Sniffers : MovesOn(s)]_vars
<1>1. TypeOK /\ PollInv /\ [Next]_vars => [\A s \in Sniffers : MovesOn(s)]_vars
  <2>. SUFFICES ASSUME TypeOK, PollInv, Next, NEW s \in Sniffers, pc[s] = "upsert", pc'[s] = "load"
                PROVE  Beyond(mark', st[s])
    BY DEF MovesOn
  <2>1. Upsert(s)
    BY DEF Next, SnifferStep, BeginWrite, CommitWrite, Tick, Load, Fetch, EnqueueBatch, EnqueueError,
           PollError, Upsert, EndPoll, Goto, TypeOK
  <2>. QED BY <2>1 DEF Upsert, PollInv
<1>. QED BY <1>1, PollInvariant, PTL DEF Spec

\* The watermark an instance works from is the stored one.
Current == \A s \in Sniffers : pc[s] \in {"fetch", "enqueue", "upsert"} => st[s] = mark

\* Nobody else moves the watermark of an instance that is alone.
LEMMA AloneStep ==
    ASSUME NEW x, Sniffers = {x}
    PROVE  TypeOK /\ Current /\ [Next]_vars => Current'
<1>. SUFFICES ASSUME TypeOK, Current, [Next]_vars PROVE Current'
  OBVIOUS
<1>. USE DEF source
<1>1. ASSUME UNCHANGED <<mark, pc, st>> PROVE Current'
  BY <1>1 DEF Current
<1>2. ASSUME Load(x) PROVE Current'
  BY <1>2 DEF Load, Goto, TypeOK, Current
<1>3. ASSUME NEW l \in {"load", "failed"}, EndPoll(x, l) PROVE Current'
  BY <1>3 DEF EndPoll, Goto, TypeOK, Current
<1>4. ASSUME Fetch(x), ~EndPoll(x, "load") PROVE Current'
  <2>1. UNCHANGED <<mark, st>> /\ pc[x] = "fetch"
    BY <1>4 DEF Fetch
  <2>. QED BY <2>1 DEF Current
<1>5. ASSUME EnqueueBatch(x) PROVE Current'
  BY <1>5 DEF EnqueueBatch, Current
<1>6. ASSUME EnqueueError(x) \/ PollError(x) \/ Upsert(x) PROVE Current'
  BY <1>3, <1>6 DEF EnqueueError, PollError, Upsert
<1>7. ASSUME (\E k \in PKs : BeginWrite(k) \/ CommitWrite(k)) \/ Tick \/ UNCHANGED vars PROVE Current'
  BY <1>1, <1>7 DEF BeginWrite, CommitWrite, Tick, vars
<1>. QED BY <1>2, <1>3, <1>4, <1>5, <1>6, <1>7 DEF Next, SnifferStep

\* The watermark moves forward or stays.
Forward == mark' = mark \/ Beyond(mark', mark)

\* With one instance the watermark never moves back, whatever fails, is lost or
\* crashes.  With two it may: the slower one stores an older batch's last row.
THEOREM NeverBack ==
    ASSUME NEW x, Sniffers = {x}
    PROVE  Spec => [][Forward]_vars
<1>1. Init => Current
  BY DEF Init, Current
<1>2. TypeOK /\ Current /\ [Next]_vars => Current'
  BY AloneStep
<1>3. TypeOK /\ PollInv /\ Current /\ [Next]_vars => [Forward]_vars
  <2>. SUFFICES ASSUME TypeOK, PollInv, Current, Next PROVE Forward
    OBVIOUS
  <2>1. CASE UNCHANGED mark
    BY <2>1 DEF Forward
  <2>2. CASE Upsert(x)
    BY <2>2 DEF Upsert, PollInv, Current, Forward
  <2>. QED BY <2>1, <2>2 DEF Next, SnifferStep, BeginWrite, CommitWrite, Tick, Load, Fetch,
             EnqueueBatch, EnqueueError, PollError
<1>. QED BY <1>1, <1>2, <1>3, PollInvariant, PTL DEF Spec

-----------------------------------------------------------------------------
\* No poll has more rows in hand than LIMIT lets through.
WithinLimit == \A s \in Sniffers : Cardinality(batch[s].rows) <= BatchSize

\* Every step keeps the batches within the limit.
LEMMA LimitStep == TypeOK /\ WithinLimit /\ [Next]_vars => WithinLimit'
<1>. SUFFICES ASSUME TypeOK, WithinLimit, [Next]_vars PROVE WithinLimit'
  OBVIOUS
<1>0. Cardinality({}) = 0 /\ 0 <= BatchSize
  BY FS_EmptySet, SnifferAssumption
<1>1. ASSUME NEW s \in Sniffers, NEW l, EndPoll(s, l) PROVE WithinLimit'
  BY <1>0, <1>1 DEF EndPoll, NoBatch, WithinLimit, TypeOK
<1>2. ASSUME NEW s \in Sniffers, Fetch(s) PROVE WithinLimit'
  <2>1. ASSUME NEW S \in SUBSET Window(st[s]), NEW k \in S, Limited(S, Window(st[s])),
               batch' = [batch EXCEPT ![s] = [rows |-> S, last |-> [ts |-> seen[k], pk |-> k]]]
        PROVE  WithinLimit'
    BY <2>1 DEF Limited, WithinLimit, TypeOK
  <2>. QED BY <1>1, <1>2, <2>1 DEF Fetch
<1>3. ASSUME UNCHANGED batch PROVE WithinLimit'
  BY <1>3 DEF WithinLimit
<1>. QED BY <1>1, <1>2, <1>3 DEF Next, SnifferStep, BeginWrite, CommitWrite, Tick, Load,
         EnqueueBatch, EnqueueError, Upsert, PollError, vars

\* With five parameters a row and BatchSize rows within the limit of a statement, no
\* poll is refused for its size: nothing but crashes and database errors ends it early.
THEOREM NeverOversized ==
    ASSUME 5 * BatchSize <= MaxParams
    PROVE  Spec => [](Oversized = {})
<1>1. Init => WithinLimit
  <2>1. Cardinality({}) = 0 /\ 0 <= BatchSize
    BY FS_EmptySet, SnifferAssumption
  <2>2. Init => \A s \in Sniffers : batch[s].rows = {}
    BY DEF Init, NoBatch
  <2>. QED BY <2>1, <2>2 DEF WithinLimit
<1>2. ASSUME TypeOK, WithinLimit PROVE Oversized = {}
  <2>1. SUFFICES ASSUME NEW s \in Sniffers
                 PROVE  ~(5 * Cardinality(batch[s].rows \ Poison) > MaxParams)
    BY DEF Oversized
  <2>. DEFINE R == batch[s].rows
  <2>2. IsFiniteSet(R)
    BY <1>2, FS_Subset, SnifferAssumption DEF TypeOK
  <2>3. IsFiniteSet(R \ Poison) /\ Cardinality(R \ Poison) <= Cardinality(R)
    BY <2>2, FS_Subset
  <2>4. Cardinality(R \ Poison) \in Nat /\ Cardinality(R) \in Nat
    BY <2>2, <2>3, FS_CardinalityType
  <2>5. Cardinality(R) <= BatchSize
    BY <1>2 DEF WithinLimit
  <2>. HIDE DEF R
  <2>6. 5 * Cardinality(R \ Poison) <= MaxParams
    BY <2>3, <2>4, <2>5, SnifferAssumption
  <2>. QED BY <2>4, <2>6, SnifferAssumption DEF R
<1>. QED BY <1>1, <1>2, SniffTyping, LimitStep, PTL DEF Spec
=============================================================================
