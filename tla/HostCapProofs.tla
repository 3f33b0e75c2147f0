---------------------------- MODULE HostCapProofs ----------------------------
(***************************************************************************)
(* Proofs about the cluster-wide cap, for every number of workers and every *)
(* Cap.                                                                     *)
(***************************************************************************)
EXTENDS HostCap, FiniteSetTheorems, TLAPS

\* A live transfer holds the lock of the slot it will unlock.
Owned == \A w \in Live : lock[Slot(w)] = w

\* The inductive invariant: held locks and live transfers determine each other.
CapInv == TypeOK /\ ended \subseteq Sending /\ Owned /\ NoSlotLeaked

\* The slot a scan is at is one of the Cap slots.
LEMMA SlotType == TypeOK => \A w \in Workers : Slot(w) \in Slots
BY CapAssumption DEF TypeOK, Slot, SlotAt, Slots

\* Initially nobody sends and every lock is free.
LEMMA CapInit == Init => CapInv
BY CapAssumption DEF Init, CapInv, TypeOK, Slots, Sending, Live, Owned, NoSlotLeaked

\* Every step keeps the types.
LEMMA CapType == TypeOK /\ [Next]_vars => TypeOK'
<1>. SUFFICES ASSUME TypeOK, [Next]_vars PROVE TypeOK'
  OBVIOUS
<1>. USE CapAssumption, SlotType DEF TypeOK, Goto
<1>1. ASSUME NEW w \in Workers, Begin(w) PROVE TypeOK'
  BY <1>1 DEF Begin
<1>2. ASSUME NEW w \in Workers, Probe(w) PROVE TypeOK'
  <2>1. CASE lock[Slot(w)] = Free
    BY <1>2, <2>1 DEF Probe
  <2>2. CASE lock[Slot(w)] # Free
    <3>1. tried' \in [Workers -> Slots]
      BY <1>2, <2>2 DEF Probe, Slots
    <3>. QED BY <1>2, <2>2, <3>1 DEF Probe
  <2>. QED BY <2>1, <2>2
<1>3. ASSUME NEW w \in Workers, Rescan(w) PROVE TypeOK'
  BY <1>3 DEF Rescan, Slots
<1>4. ASSUME NEW w \in Workers, GiveUp(w) PROVE TypeOK'
  BY <1>4 DEF GiveUp
<1>5. ASSUME NEW w \in Workers, Unlock(w) PROVE TypeOK'
  BY <1>5 DEF Unlock
<1>6. ASSUME NEW w \in Workers, SessionLost(w) PROVE TypeOK'
  BY <1>6 DEF SessionLost
<1>7. ASSUME NEW w \in Workers, NEW h \in Slots, Connected(w, h) PROVE TypeOK'
  BY <1>7 DEF Connected, Slots
<1>8. ASSUME NEW s \in Slots, Reaped(s) PROVE TypeOK'
  BY <1>8 DEF Reaped
<1>9. CASE UNCHANGED vars
  BY <1>9 DEF vars
<1>. QED BY <1>1, <1>2, <1>3, <1>4, <1>5, <1>6, <1>7, <1>8, <1>9 DEF Next, Step

\* Every step keeps locks and live transfers together.
LEMMA CapStep == CapInv /\ [Next]_vars => CapInv'
<1>. SUFFICES ASSUME CapInv, [Next]_vars PROVE CapInv'
  OBVIOUS
<1>. DEFINE Good == ended \subseteq Sending /\ Owned /\ NoSlotLeaked
<1>0. TypeOK /\ TypeOK' /\ \A w \in Workers : Slot(w) \in Slots
  BY CapType, SlotType DEF CapInv
<1>. USE <1>0, CapAssumption DEF CapInv, TypeOK, Goto, Sending, Live, Owned, NoSlotLeaked,
     Slot, SlotAt
<1>1. ASSUME NEW w \in Workers, Begin(w) PROVE Good'
  BY <1>1 DEF Begin
<1>2. ASSUME NEW w \in Workers, Probe(w) PROVE Good'
  <2>1. CASE lock[Slot(w)] = Free
    BY <1>2, <2>1 DEF Probe
  <2>2. CASE lock[Slot(w)] # Free
    BY <1>2, <2>2 DEF Probe
  <2>. QED BY <2>1, <2>2
<1>3. ASSUME NEW w \in Workers, Rescan(w) PROVE Good'
  BY <1>3 DEF Rescan
<1>4. ASSUME NEW w \in Workers, GiveUp(w) PROVE Good'
  BY <1>4 DEF GiveUp
<1>5. ASSUME NEW w \in Workers, Unlock(w) PROVE Good'
  <2>1. CASE w \in ended
    BY <1>5, <2>1 DEF Unlock
  <2>2. CASE w \notin ended
    BY <1>5, <2>2 DEF Unlock
  <2>. QED BY <2>1, <2>2
<1>6. ASSUME NEW w \in Workers, SessionLost(w) PROVE Good'
  BY <1>6 DEF SessionLost
<1>7. ASSUME NEW w \in Workers, NEW h \in Slots, Connected(w, h) PROVE Good'
  BY <1>7 DEF Connected
<1>8. ASSUME NEW s \in Slots, Reaped(s) PROVE Good'
  BY <1>8 DEF Reaped
<1>9. CASE UNCHANGED vars
  BY <1>9 DEF vars
<1>. QED BY <1>1, <1>2, <1>3, <1>4, <1>5, <1>6, <1>7, <1>8, <1>9 DEF Next, Step

\* Live transfers hold different slots, so there are at most Cap of them.
LEMMA CapFits == CapInv => IsFiniteSet(Live) /\ Cardinality(Live) <= Cap
<1>. SUFFICES ASSUME CapInv PROVE IsFiniteSet(Live) /\ Cardinality(Live) <= Cap
  OBVIOUS
<1>. DEFINE f == [w \in Live |-> Slot(w)]
<1>1. f \in Injection(Live, Slots)
  <2>1. f \in [Live -> Slots]
    BY SlotType DEF CapInv, Live, Sending
  <2>2. \A v, w \in Live : f[v] = f[w] => v = w
    BY DEF CapInv, Owned
  <2>. QED BY <2>1, <2>2 DEF Injection, IsInjective
<1>2. IsFiniteSet(Slots) /\ Cardinality(Slots) = Cap
  BY FS_Interval, CapAssumption DEF Slots
<1>3. IsFiniteSet(Live) /\ Cardinality(Live) <= Cardinality(Slots)
  BY <1>1, <1>2, FS_Injection
<1>. QED BY <1>2, <1>3

\* The invariant holds in every state.
THEOREM CapInvariant == Spec => []CapInv
BY CapInit, CapStep, PTL DEF Spec

\* Every state is well typed, so a scan never leaves the Cap slots.
THEOREM CapTyping == Spec => []TypeOK
<1>1. CapInv => TypeOK
  BY DEF CapInv
<1>. QED BY <1>1, CapInvariant, PTL

\* "Preserving the EXACT cap": at most Cap transfers to the host have a live session,
\* for every number of workers of any number of pods.
THEOREM CapHolds == Spec => []CapRespected
<1>1. CapInv => CapRespected
  BY CapFits DEF CapRespected, Live
<1>. QED BY <1>1, CapInvariant, PTL

\* No slot leaks: a held lock belongs to a transfer in progress that will unlock it,
\* or to a session that lost its client.
THEOREM SlotsReturn == Spec => []NoSlotLeaked
<1>1. CapInv => NoSlotLeaked
  BY DEF CapInv
<1>. QED BY <1>1, CapInvariant, PTL

-----------------------------------------------------------------------------
\* The remainder of a sum of two slots wraps around once.
LEMMA Wraps ==
    ASSUME NEW h \in Slots, NEW k \in Slots
    PROVE  SlotAt(h, k) = IF h + k < Cap THEN h + k ELSE h + k - Cap
<1>1. h \in Nat /\ k \in Nat /\ h < Cap /\ k < Cap /\ Cap \in Nat \ {0}
  BY CapAssumption DEF Slots
<1>. QED BY <1>1 DEF SlotAt

\* A scan of Cap probes tries every slot, and no slot twice, wherever the hash of dst
\* lets it begin: no slot is overlooked because a scan does not come to it.
THEOREM ScanCovers ==
    \A h \in Slots : [k \in Slots |-> SlotAt(h, k)] \in Bijection(Slots, Slots)
<1>. SUFFICES ASSUME NEW h \in Slots
              PROVE  [k \in Slots |-> SlotAt(h, k)] \in Bijection(Slots, Slots)
  OBVIOUS
<1>. DEFINE f == [k \in Slots |-> SlotAt(h, k)]
<1>0. Slots \subseteq Int /\ Cap \in Int /\ \A s : s \in Slots <=> s \in Int /\ 0 <= s /\ s < Cap
  BY CapAssumption DEF Slots
<1>1. \A k \in Slots : f[k] = IF h + k < Cap THEN h + k ELSE h + k - Cap
  BY Wraps
<1>2. f \in [Slots -> Slots]
  BY <1>0, <1>1
<1>3. \A j, k \in Slots : f[j] = f[k] => j = k
  BY <1>0, <1>1
<1>4. ASSUME NEW s \in Slots PROVE \E k \in Slots : f[k] = s
  <2>1. CASE s >= h
    <3>1. s - h \in Slots /\ f[s - h] = s
      BY <1>0, <1>1, <2>1
    <3>. QED BY <3>1
  <2>2. CASE s < h
    <3>1. s - h + Cap \in Slots /\ f[s - h + Cap] = s
      BY <1>0, <1>1, <2>2
    <3>. QED BY <3>1
  <2>. QED BY <1>0, <2>1, <2>2
<1>. HIDE DEF f
<1>5. f \in Bijection(Slots, Slots)
  BY <1>2, <1>3, <1>4 DEF Bijection, Injection, Surjection, IsInjective
<1>. QED BY <1>5 DEF f

-----------------------------------------------------------------------------
\* So there are after a step that keeps the invariant.
LEMMA CapFitsNext == CapInv' => Cardinality(Live') <= Cap
<1>1. CapInv => Cardinality(Live) <= Cap
  BY CapFits
<1>2. (CapInv => Cardinality(Live) <= Cap)'
  BY <1>1, PTL
<1>. QED BY <1>2

\* The permits are counted the same way.
LEMMA SameCount == \A S : Slotted!Cardinality(S) = Cardinality(S)
BY DEF Slotted!Cardinality, Cardinality

\* The lock of a free slot is a permit: a worker that finds one is granted it while
\* fewer than Cap are out.
LEMMA ProbeGrants ==
    ASSUME CapInv, CapInv', NEW w \in Workers, Probe(w)
    PROVE  UNCHANGED Live \/ Slotted!Grant(w)
<1>0. TypeOK /\ ended \subseteq Sending
  BY DEF CapInv
<1>1. CASE lock[Slot(w)] = Free
  <2>1. w \notin Live /\ Live' = Live \cup {w}
    BY <1>0, <1>1 DEF Probe, Goto, Live, Sending, TypeOK
  <2>2. IsFiniteSet(Live) /\ Cardinality(Live) \in Nat
    BY CapFits, FS_CardinalityType
  <2>3. Cardinality(Live') = Cardinality(Live) + 1
    BY <2>1, <2>2, FS_AddElement
  <2>4. Cardinality(Live') <= Cap
    BY CapFitsNext
  <2>5. Cardinality(Live) < Cap
    BY <2>2, <2>3, <2>4, CapAssumption
  <2>. QED BY <2>1, <2>5, SameCount DEF Slotted!Grant
<1>2. CASE lock[Slot(w)] # Free
  BY <1>0, <1>2 DEF Probe, Goto, Live, Sending, TypeOK
<1>. QED BY <1>1, <1>2

\* Every step of the cap is a step of the permits, or changes none of them.
LEMMA PermitStep == CapInv /\ CapInv' /\ [Next]_vars => [Slotted!PNext]_Live
<1>. SUFFICES ASSUME CapInv, CapInv', [Next]_vars PROVE [Slotted!PNext]_Live
  OBVIOUS
<1>. USE DEF CapInv, TypeOK, Goto, Sending, Live
<1>1. ASSUME NEW w \in Workers, Begin(w) PROVE UNCHANGED Live
  BY <1>1 DEF Begin
<1>2. ASSUME NEW w \in Workers, Probe(w) PROVE UNCHANGED Live \/ Slotted!Grant(w)
  BY <1>2, ProbeGrants
<1>3. ASSUME NEW w \in Workers, Rescan(w) \/ GiveUp(w) PROVE UNCHANGED Live
  BY <1>3 DEF Rescan, GiveUp
<1>4. ASSUME NEW w \in Workers, Unlock(w) PROVE UNCHANGED Live \/ Slotted!GiveBack(w)
  BY <1>4 DEF Unlock, Slotted!GiveBack
<1>5. ASSUME NEW w \in Workers, SessionLost(w) PROVE Slotted!GiveBack(w)
  BY <1>5 DEF SessionLost, Slotted!GiveBack
<1>6. ASSUME NEW w \in Workers, NEW h \in Slots, Connected(w, h) PROVE UNCHANGED Live
  BY <1>6 DEF Connected
<1>7. ASSUME NEW s \in Slots, Reaped(s) PROVE UNCHANGED Live
  BY <1>7 DEF Reaped
<1>8. CASE UNCHANGED vars
  BY <1>8 DEF vars
<1>. HIDE DEF CapInv, TypeOK, Goto, Sending, Live
<1>. QED BY <1>1, <1>2, <1>3, <1>4, <1>5, <1>6, <1>7, <1>8 DEF Next, Step, Slotted!PNext

\* Probing hashed slots for session-level locks implements Cap permits, each taken by
\* one transfer and given back by it or by the end of its session.
THEOREM PermitsImplemented == Spec => ImplementsPermits
<1>1. Init => Slotted!PInit
  BY DEF Init, Slotted!PInit, Live, Sending
<1>. QED BY <1>1, CapInvariant, PermitStep, PTL DEF Spec, ImplementsPermits, Slotted!PSpec
=============================================================================
