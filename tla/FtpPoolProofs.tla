---------------------------- MODULE FtpPoolProofs ----------------------------
(***************************************************************************)
(* Proofs about the FTP pool and the transfers that use it, for every       *)
(* number of callers or workers, every cap and every time-out.              *)
(***************************************************************************)
EXTENDS FtpTransfer, FiniteSetTheorems, SequenceTheorems, TLAPS

Holding == {"noop", "dial", "have"}

\* Adding or removing one element.
LEMMA Counted ==
    ASSUME NEW S, IsFiniteSet(S), NEW c
    PROVE  /\ Cardinality(S) \in Nat
           /\ c \in S => Cardinality(S \cup {c}) = Cardinality(S)
           /\ c \notin S => Cardinality(S \cup {c}) = Cardinality(S) + 1
           /\ c \in S => Cardinality(S \ {c}) = Cardinality(S) - 1
           /\ c \notin S => Cardinality(S \ {c}) = Cardinality(S)
<1>1. Cardinality(S) \in Nat
  BY FS_CardinalityType
<1>2. Cardinality(S \cup {c}) = IF c \in S THEN Cardinality(S) ELSE Cardinality(S)+1
  BY FS_AddElement
<1>3. Cardinality(S \ {c}) = IF c \in S THEN Cardinality(S)-1 ELSE Cardinality(S)
  BY FS_RemoveElement
<1>. QED BY <1>1, <1>2, <1>3

\* One caller moves: what that does to the numbers of holders and of retrying callers.
LEMMA Moved ==
    ASSUME TypeOK, NEW c \in Callers, NEW l \in States, pc' = [pc EXCEPT ![c] = l]
    PROVE  /\ Cardinality(Holders') = Cardinality(Holders)
                + (IF l \in Holding THEN 1 ELSE 0) - (IF pc[c] \in Holding THEN 1 ELSE 0)
           /\ Cardinality(Trying') = Cardinality(Trying)
                + (IF l = "try" THEN 1 ELSE 0) - (IF pc[c] = "try" THEN 1 ELSE 0)
           /\ Cardinality(Holders) \in Nat /\ Cardinality(Trying) \in Nat
<1>1. IsFiniteSet(Holders) /\ IsFiniteSet(Trying)
  BY PoolAssumption, FS_Subset DEF Holders, Trying
<1>2. Holders' = IF l \in Holding THEN Holders \cup {c} ELSE Holders \ {c}
  BY DEF Holders, Holding, TypeOK, States
<1>3. Trying' = IF l = "try" THEN Trying \cup {c} ELSE Trying \ {c}
  BY DEF Trying, TypeOK, States
<1>4. (c \in Holders <=> pc[c] \in Holding) /\ (c \in Trying <=> pc[c] = "try")
  BY DEF Holders, Holding, Trying
<1>. DEFINE H == Holders
            H1 == Holders'
            T == Trying
            T1 == Trying'
<1>5. /\ Cardinality(H) \in Nat
      /\ c \in H => Cardinality(H \cup {c}) = Cardinality(H)
      /\ c \notin H => Cardinality(H \cup {c}) = Cardinality(H) + 1
      /\ c \in H => Cardinality(H \ {c}) = Cardinality(H) - 1
      /\ c \notin H => Cardinality(H \ {c}) = Cardinality(H)
  BY <1>1, Counted
<1>6. /\ Cardinality(T) \in Nat
      /\ c \in T => Cardinality(T \cup {c}) = Cardinality(T)
      /\ c \notin T => Cardinality(T \cup {c}) = Cardinality(T) + 1
      /\ c \in T => Cardinality(T \ {c}) = Cardinality(T) - 1
      /\ c \notin T => Cardinality(T \ {c}) = Cardinality(T)
  BY <1>1, Counted
<1>7. Cardinality(H1) = Cardinality(H)
        + (IF l \in Holding THEN 1 ELSE 0) - (IF pc[c] \in Holding THEN 1 ELSE 0)
  BY <1>2, <1>4, <1>5
<1>8. Cardinality(T1) = Cardinality(T)
        + (IF l = "try" THEN 1 ELSE 0) - (IF pc[c] = "try" THEN 1 ELSE 0)
  BY <1>3, <1>4, <1>6
<1>. QED BY <1>5, <1>6, <1>7, <1>8

\* A queue without its k-th entry.
LEMMA Removed ==
    ASSUME NEW ws \in Seq(Callers), NEW k \in DOMAIN ws
    PROVE  /\ Without(ws, k) \in Seq(Callers) /\ Len(Without(ws, k)) = Len(ws) - 1
           /\ \A j \in 1 .. Len(ws) - 1 :
                 Without(ws, k)[j] = IF j < k THEN ws[j] ELSE ws[j + 1]
<1>. DEFINE n == Len(ws)
            a == SubSeq(ws, 1, k - 1)
            b == SubSeq(ws, k + 1, n)
            vs == a \o b
<1>1. n \in Nat /\ k \in 1 .. n
  OBVIOUS
<1>2. \A j \in 1 .. n : ws[j] \in Callers
  BY ElementOfSeq
<1>3. a \in Seq(Callers) /\ Len(a) = k - 1 /\ \A j \in 1 .. k - 1 : a[j] = ws[j]
  <2>1. /\ a \in Seq(Callers) /\ Len(a) = IF 1 <= k - 1 THEN k - 1 - 1 + 1 ELSE 0
        /\ \A j \in 1 .. k - 1 - 1 + 1 : a[j] = ws[1 + j - 1]
    BY <1>1, <1>2, SubSeqProperties
  <2>. QED BY <1>1, <2>1
<1>4. b \in Seq(Callers) /\ Len(b) = n - k /\ \A j \in 1 .. n - k : b[j] = ws[j + k]
  <2>1. /\ b \in Seq(Callers) /\ Len(b) = IF k + 1 <= n THEN n - (k + 1) + 1 ELSE 0
        /\ \A j \in 1 .. n - (k + 1) + 1 : b[j] = ws[(k + 1) + j - 1]
    BY <1>1, <1>2, SubSeqProperties
  <2>. QED BY <1>1, <2>1
<1>5. /\ vs \in Seq(Callers) /\ Len(vs) = Len(a) + Len(b)
      /\ \A j \in 1 .. Len(a) + Len(b) : vs[j] = IF j <= Len(a) THEN a[j] ELSE b[j - Len(a)]
  BY <1>3, <1>4, ConcatProperties
<1>. HIDE DEF a, b, n, vs
<1>6. Len(a) + Len(b) = n - 1
  BY <1>1, <1>3, <1>4
<1>7. \A j \in 1 .. n - 1 : vs[j] = IF j <= k - 1 THEN a[j] ELSE b[j - (k - 1)]
  BY <1>3, <1>5, <1>6, Zenon
<1>8. ASSUME NEW j \in 1 .. n - 1 PROVE vs[j] = IF j < k THEN ws[j] ELSE ws[j + 1]
  <2>1. CASE j < k
    BY <1>1, <1>3, <1>7, <2>1
  <2>2. CASE ~(j < k)
    <3>1. j - (k - 1) \in 1 .. n - k /\ j - (k - 1) + k = j + 1 /\ ~(j <= k - 1)
      BY <1>1, <2>2
    <3>2. b[j - (k - 1)] = ws[j + 1]
      BY <1>4, <3>1
    <3>. QED BY <1>7, <2>2, <3>1, <3>2
  <2>. QED BY <2>1, <2>2
<1>. QED BY <1>5, <1>6, <1>8, Zenon DEF n, vs, a, b, Without

\* A queue without its first entry.
LEMMA Popped ==
    ASSUME NEW ws \in Seq(Callers), ws # <<>>
    PROVE  /\ Tail(ws) \in Seq(Callers) /\ Len(Tail(ws)) = Len(ws) - 1
           /\ \A j \in 1 .. Len(Tail(ws)) : Tail(ws)[j] = ws[j + 1]
           /\ Head(ws) = ws[1] /\ Head(ws) \in Callers /\ Len(ws) >= 1
OBVIOUS

\* Taking the k-th idle connection leaves the older ones.
LEMMA Shorter ==
    ASSUME TypeOK, NEW k \in DOMAIN idle
    PROVE  /\ SubSeq(idle, 1, k - 1) \in Seq(0 .. AgeCap)
           /\ Len(SubSeq(idle, 1, k - 1)) = k - 1
           /\ k \in 1 .. Len(idle) /\ Len(idle) \in Nat
<1>1. idle \in Seq(0 .. AgeCap) /\ Len(idle) \in Nat /\ k \in 1 .. Len(idle)
  BY DEF TypeOK
<1>2. \A j \in 1 .. Len(idle) : idle[j] \in 0 .. AgeCap
  BY <1>1, ElementOfSeq
<1>3. \A j \in 1 .. k - 1 : idle[j] \in 0 .. AgeCap
  BY <1>1, <1>2
<1>4. 1 \in Int /\ k - 1 \in Int
  BY <1>1
<1>5. /\ SubSeq(idle, 1, k - 1) \in Seq(0 .. AgeCap)
      /\ Len(SubSeq(idle, 1, k - 1)) = IF 1 <= k - 1 THEN k - 1 - 1 + 1 ELSE 0
  BY <1>3, <1>4, SubSeqProperties
<1>. QED BY <1>1, <1>5

\* Ageing keeps the length of the idle list.
LEMMA Older ==
    ASSUME TypeOK
    PROVE  /\ [k \in DOMAIN idle |-> Aged(idle[k])] \in Seq(0 .. AgeCap)
           /\ Len([k \in DOMAIN idle |-> Aged(idle[k])]) = Len(idle)
<1>. DEFINE n == Len(idle)
            f == [k \in DOMAIN idle |-> Aged(idle[k])]
<1>1. n \in Nat /\ DOMAIN idle = 1 .. n /\ \A k \in 1 .. n : idle[k] \in 0 .. AgeCap
  BY LenProperties, ElementOfSeq DEF TypeOK
<1>2. AgeCap \in Nat
  BY PoolAssumption DEF AgeCap
<1>3. f \in [1 .. n -> 0 .. AgeCap]
  BY <1>1, <1>2 DEF Aged
<1>. HIDE DEF f, n
<1>4. f \in Seq(0 .. AgeCap)
  BY <1>1, <1>3, SeqDef
<1>5. Len(f) = n
  BY <1>1, <1>3, <1>4
<1>. QED BY <1>4, <1>5 DEF f, n

\* A released connection joins the idle list, unless broken or the pool is closed.
LEMMA Returned ==
    ASSUME TypeOK, NEW b \in BOOLEAN
    PROVE  /\ IdleAfter(b) \in Seq(0 .. AgeCap)
           /\ Len(IdleAfter(b)) <= Len(idle) + 1 /\ Len(IdleAfter(b)) \in Nat
           /\ closed => IdleAfter(b) = idle
<1>1. AgeCap \in Nat /\ 0 \in 0 .. AgeCap
  BY PoolAssumption DEF AgeCap
<1>2. idle \in Seq(0 .. AgeCap) /\ Len(idle) \in Nat
  BY DEF TypeOK
<1>3. Append(idle, 0) \in Seq(0 .. AgeCap) /\ Len(Append(idle, 0)) = Len(idle) + 1
  BY <1>1, <1>2, AppendProperties
<1>4. IdleAfter(b) = idle \/ (~closed /\ IdleAfter(b) = Append(idle, 0))
  BY DEF IdleAfter, TypeOK
<1>5. CASE IdleAfter(b) = idle
  BY <1>2, <1>5
<1>6. CASE ~closed /\ IdleAfter(b) = Append(idle, 0)
  <2>1. Len(IdleAfter(b)) = Len(idle) + 1
    BY <1>3, <1>6
  <2>. QED BY <1>2, <1>3, <1>6, <2>1
<1>. QED BY <1>4, <1>5, <1>6

\* Every step keeps the types.
LEMMA PoolType == TypeOK /\ HardCap /\ [Next]_vars => TypeOK'
<1>. SUFFICES ASSUME TypeOK, HardCap, [Next]_vars PROVE TypeOK'
  OBVIOUS
<1>. USE PoolAssumption DEF TypeOK
<1>2. ASSUME wakeOneWaiter(waiters, token) \/ \E c \in Callers : wakeOneWaiter(waiters, token \ {c})
      PROVE  waiters' \in Seq(Callers) /\ token' \in SUBSET Callers
  BY <1>2, Popped DEF wakeOneWaiter
<1>3. ASSUME NEW c \in Callers, pc[c] \in Holding PROVE inUse - 1 \in Nat
  <2>1. IsFiniteSet(Holders) /\ c \in Holders
    BY <1>3, FS_Subset DEF Holders, Holding
  <2>2. Cardinality(Holders) \in Nat /\ Cardinality(Holders) # 0
    BY <2>1, FS_CardinalityType, FS_EmptySet
  <2>. QED BY <2>2 DEF HardCap
<1>4. ASSUME NEW c \in Callers, Refused(c) \/ Ready(c) PROVE TypeOK'
  BY <1>4 DEF Refused, Ready, States
<1>5. ASSUME NEW c \in Callers, TakeIdle(c) PROVE TypeOK'
  <2>1. idle' \in Seq(0 .. AgeCap)
    BY <1>5, Shorter DEF TakeIdle
  <2>. QED BY <1>5, <2>1 DEF TakeIdle, States
<1>6. ASSUME NEW c \in Callers, StartDial(c) PROVE TypeOK'
  BY <1>6 DEF StartDial, States
<1>7. ASSUME NEW c \in Callers, Park(c) PROVE TypeOK'
  BY <1>7 DEF Park, States
<1>8. ASSUME NEW c \in Callers, NoopFail(c) PROVE TypeOK'
  BY <1>2, <1>3, <1>8 DEF NoopFail, States, Holding
<1>9. ASSUME NEW c \in Callers, DialFail(c) PROVE TypeOK'
  BY <1>2, <1>3, <1>9 DEF DialFail, States, Holding
<1>10. ASSUME NEW c \in Callers, Wake(c) PROVE TypeOK'
  BY <1>10 DEF Wake, States
<1>11. ASSUME NEW c \in Callers, CancelWait(c) PROVE TypeOK'
  BY <1>2, <1>11, Removed DEF CancelWait, States
<1>12. ASSUME NEW c \in Callers, NEW b \in BOOLEAN, Release(c, b) PROVE TypeOK'
  BY <1>2, <1>3, <1>12, Returned DEF Release, States, Holding
<1>13. ASSUME Close PROVE TypeOK'
  BY <1>13 DEF Close
<1>14. ASSUME Tick PROVE TypeOK'
  BY <1>14, Older DEF Tick
<1>15. CASE UNCHANGED vars
  BY <1>15 DEF vars
<1>. QED BY <1>4, <1>5, <1>6, <1>7, <1>8, <1>9, <1>10, <1>11, <1>12, <1>13, <1>14, <1>15
         DEF Next, CallerStep, Acquiring

\* The callers P are those in the queue ws, once each, and those with a token in tk.
OnceEach(ws, tk, P) ==
    /\ \A j, k \in DOMAIN ws : ws[j] = ws[k] => j = k
    /\ \A c \in Callers : c \in P <=> (c \in tk \/ \E k \in DOMAIN ws : ws[k] = c)
    /\ \A k \in DOMAIN ws : ws[k] \notin tk

Parked == {c \in Callers : pc[c] = "wait"}

\* A token goes to the first parked caller, if there is one.
LEMMA Woke ==
    ASSUME NEW ws \in Seq(Callers), NEW tk \in SUBSET Callers, NEW P, OnceEach(ws, tk, P),
           wakeOneWaiter(ws, tk)
    PROVE  /\ waiters' # <<>> => ws # <<>> /\ Cardinality(token') = Cardinality(tk) + 1
           /\ OnceEach(waiters', token', P)
<1>1. CASE ws = <<>>
  BY <1>1 DEF wakeOneWaiter
<1>2. CASE ws # <<>>
  <2>. DEFINE h == ws[1]
              vs == Tail(ws)
  <2>1. /\ vs \in Seq(Callers) /\ Len(vs) = Len(ws) - 1
        /\ \A j \in 1 .. Len(vs) : vs[j] = ws[j + 1]
        /\ Head(ws) = h /\ h \in Callers /\ Len(ws) >= 1
    BY <1>2, Popped
  <2>2. waiters' = vs /\ token' = tk \cup {h}
    BY <1>2, <2>1 DEF wakeOneWaiter
  <2>3. h \notin tk
    BY <2>1 DEF OnceEach
  <2>4. IsFiniteSet(tk)
    BY PoolAssumption, FS_Subset
  <2>5. Cardinality(token') = Cardinality(tk) + 1
    BY <2>2, <2>3, <2>4, Counted
  <2>. HIDE DEF h, vs
  <2>6. OnceEach(vs, tk \cup {h}, P)
    <3>1. Len(vs) \in Nat /\ DOMAIN vs = 1 .. Len(vs) /\ DOMAIN ws = 1 .. Len(vs) + 1
      BY <2>1
    <3>2. /\ 1 \in DOMAIN ws
          /\ \A k \in DOMAIN vs : /\ k \in Nat /\ k # 0
                                   /\ k + 1 \in DOMAIN ws /\ vs[k] = ws[k + 1]
          /\ \A k \in DOMAIN ws \ {1} : k \in Nat /\ k - 1 \in DOMAIN vs
      BY <2>1, <3>1
    <3>3. ASSUME NEW j \in DOMAIN vs, NEW k \in DOMAIN vs, vs[j] = vs[k] PROVE j = k
      <4>1. j + 1 = k + 1
        BY <3>2, <3>3 DEF OnceEach
      <4>. QED BY <3>2, <4>1
    <3>4. ASSUME NEW k \in DOMAIN vs PROVE vs[k] \notin tk \cup {h}
      <4>1. k + 1 # 1
        BY <3>2
      <4>. QED BY <3>2, <4>1 DEF OnceEach, h
    <3>5. ASSUME NEW c \in Callers
          PROVE  (\E k \in DOMAIN ws : ws[k] = c) <=> (c = h \/ \E k \in DOMAIN vs : vs[k] = c)
      <4>1. ASSUME NEW k \in DOMAIN ws, ws[k] = c, k # 1
            PROVE  \E j \in DOMAIN vs : vs[j] = c
        <5>1. k - 1 \in DOMAIN vs /\ (k - 1) + 1 = k
          BY <3>2, <4>1
        <5>2. vs[k - 1] = c
          BY <3>2, <4>1, <5>1
        <5>. QED BY <5>1, <5>2
      <4>2. ASSUME NEW k \in DOMAIN vs, vs[k] = c PROVE \E j \in DOMAIN ws : ws[j] = c
        BY <3>2, <4>2
      <4>3. c = h => \E j \in DOMAIN ws : ws[j] = c
        BY <3>2 DEF h
      <4>. QED BY <4>1, <4>2, <4>3 DEF h
    <3>. QED BY <3>3, <3>4, <3>5 DEF OnceEach
  <2>. QED BY <1>2, <2>2, <2>5, <2>6
<1>. QED BY <1>1, <1>2

\* A cancelled caller leaves the queue.
LEMMA Unparked ==
    ASSUME NEW ws \in Seq(Callers), NEW tk \in SUBSET Callers, NEW P, OnceEach(ws, tk, P),
           NEW i \in DOMAIN ws
    PROVE  OnceEach(Without(ws, i), tk, P \ {ws[i]})
<1>. DEFINE n == Len(ws)
            vs == Without(ws, i)
            Old(j) == IF j < i THEN j ELSE j + 1
<1>1. n \in Nat /\ DOMAIN ws = 1 .. n /\ i \in 1 .. n
  OBVIOUS
<1>2. DOMAIN vs = 1 .. n - 1 /\ \A j \in 1 .. n - 1 : vs[j] = IF j < i THEN ws[j] ELSE ws[j + 1]
  BY Removed, LenProperties
<1>. HIDE DEF n, vs
<1>3. \A j \in DOMAIN vs : Old(j) \in DOMAIN ws /\ Old(j) # i /\ vs[j] = ws[Old(j)] /\ j \in Nat
  BY <1>1, <1>2
<1>4. ASSUME NEW k \in DOMAIN ws, k # i PROVE \E j \in DOMAIN vs : vs[j] = ws[k]
  <2>1. CASE k < i
    BY <1>1, <1>2, <1>4, <2>1
  <2>2. CASE ~(k < i)
    <3>1. k - 1 \in DOMAIN vs /\ ~(k - 1 < i) /\ (k - 1) + 1 = k
      BY <1>1, <1>2, <1>4, <2>2
    <3>. QED BY <1>2, <3>1
  <2>. QED BY <2>1, <2>2
<1>5. ASSUME NEW j \in DOMAIN vs, NEW k \in DOMAIN vs, vs[j] = vs[k] PROVE j = k
  <2>1. Old(j) = Old(k)
    BY <1>3, <1>5 DEF OnceEach
  <2>. QED BY <1>1, <1>3, <2>1
<1>6. \A j \in DOMAIN vs : vs[j] \notin tk
  BY <1>3 DEF OnceEach
<1>7. ASSUME NEW c \in Callers
      PROVE  c \in P \ {ws[i]} <=> (c \in tk \/ \E k \in DOMAIN vs : vs[k] = c)
  BY <1>3, <1>4 DEF OnceEach
<1>. QED BY <1>5, <1>6, <1>7 DEF OnceEach, vs

\* Every step keeps the parked callers queued once or with a token.
LEMMA ParkedStep == TypeOK /\ ParkedOnce /\ [Next]_vars => ParkedOnce'
<1>. SUFFICES ASSUME TypeOK, ParkedOnce, [Next]_vars PROVE OnceEach(waiters', token', Parked')
  BY DEF ParkedOnce, OnceEach, Parked
<1>0. OnceEach(waiters, token, Parked)
  BY DEF ParkedOnce, OnceEach, Parked
<1>1. waiters \in Seq(Callers) /\ token \in SUBSET Callers /\ pc \in [Callers -> States]
  BY DEF TypeOK
<1>2. ASSUME UNCHANGED <<waiters, token>>, Parked' = Parked
      PROVE  OnceEach(waiters', token', Parked')
  BY <1>0, <1>2
<1>3. ASSUME wakeOneWaiter(waiters, token), Parked' = Parked
      PROVE  OnceEach(waiters', token', Parked')
  BY <1>0, <1>1, <1>3, Woke
<1>4. ASSUME NEW c \in Callers, Refused(c) \/ Ready(c) \/ TakeIdle(c) \/ StartDial(c)
      PROVE  OnceEach(waiters', token', Parked')
  <2>1. UNCHANGED <<waiters, token>> /\ Parked' = Parked
    BY <1>1, <1>4 DEF Refused, Ready, TakeIdle, StartDial, Parked
  <2>. QED BY <1>2, <2>1
<1>5. ASSUME NEW c \in Callers,
             NoopFail(c) \/ DialFail(c) \/ \E b \in BOOLEAN : Release(c, b)
      PROVE  OnceEach(waiters', token', Parked')
  <2>1. wakeOneWaiter(waiters, token) /\ Parked' = Parked
    BY <1>1, <1>5 DEF NoopFail, DialFail, Release, Parked
  <2>. QED BY <1>3, <2>1
<1>6. ASSUME NEW c \in Callers, Park(c) PROVE OnceEach(waiters', token', Parked')
  <2>1. waiters' = Append(waiters, c) /\ token' = token /\ Parked' = Parked \cup {c} /\ c \notin Parked
    BY <1>1, <1>6 DEF Park, Parked
  <2>2. /\ DOMAIN waiters = 1 .. Len(waiters) /\ Len(waiters) \in Nat
        /\ DOMAIN waiters' = 1 .. Len(waiters) + 1
        /\ \A i \in 1 .. Len(waiters) : waiters'[i] = waiters[i]
        /\ waiters'[Len(waiters) + 1] = c
    BY <1>1, <2>1, AppendProperties, LenProperties
  <2>3. c \notin token /\ \A k \in DOMAIN waiters : waiters[k] # c
    BY <1>0, <2>1 DEF OnceEach
  <2>4. /\ DOMAIN waiters' = DOMAIN waiters \cup {Len(waiters) + 1}
        /\ Len(waiters) + 1 \notin DOMAIN waiters
    BY <2>2
  <2>. QED BY <1>0, <2>1, <2>2, <2>3, <2>4 DEF OnceEach
<1>7. ASSUME NEW c \in Callers, Wake(c) PROVE OnceEach(waiters', token', Parked')
  <2>1. waiters' = waiters /\ token' = token \ {c} /\ Parked' = Parked \ {c} /\ c \in token
    BY <1>1, <1>7 DEF Wake, Parked
  <2>. QED BY <1>0, <2>1 DEF OnceEach
<1>8. ASSUME NEW c \in Callers, CancelWait(c) PROVE OnceEach(waiters', token', Parked')
  <2>1. Parked' = Parked \ {c} /\ c \in Parked
    BY <1>1, <1>8 DEF CancelWait, Parked
  <2>2. ASSUME NEW k \in DOMAIN waiters, waiters[k] = c, waiters' = Without(waiters, k), token' = token
        PROVE  OnceEach(waiters', token', Parked')
    BY <1>0, <1>1, <2>1, <2>2, Unparked
  <2>3. ASSUME \A k \in DOMAIN waiters : waiters[k] # c, wakeOneWaiter(waiters, token \ {c})
        PROVE  OnceEach(waiters', token', Parked')
    <3>1. OnceEach(waiters, token \ {c}, Parked \ {c})
      BY <1>0, <2>3 DEF OnceEach
    <3>. QED BY <1>1, <2>1, <2>3, <3>1, Woke
  <2>. QED BY <1>8, <2>2, <2>3 DEF CancelWait
<1>9. ASSUME Close \/ Tick \/ UNCHANGED vars PROVE OnceEach(waiters', token', Parked')
  BY <1>2, <1>9 DEF Close, Tick, vars, Parked
<1>. QED BY <1>4, <1>5, <1>6, <1>7, <1>8, <1>9 DEF Next, CallerStep, Acquiring

\* The inductive invariant of the pool: its properties rest on each other.
PoolInv == TypeOK /\ HardCap /\ ParkedOnce /\ NoLostWakeup /\ ClosedKeepsNone

\* A caller moves to l; what a caller at l adds to the holders and to the retrying.
Jump(c, l) == pc' = [pc EXCEPT ![c] = l]
Held(l) == IF l \in Holding THEN 1 ELSE 0
Tries(l) == IF l = "try" THEN 1 ELSE 0

\* Every step counts slots exactly, keeps to the cap and loses no wake-up.
LEMMA CountStep == PoolInv /\ [Next]_vars => (HardCap /\ NoLostWakeup /\ ClosedKeepsNone)'
<1>. SUFFICES ASSUME PoolInv, [Next]_vars PROVE (HardCap /\ NoLostWakeup /\ ClosedKeepsNone)'
  OBVIOUS
<1>. DEFINE Good == HardCap /\ NoLostWakeup /\ ClosedKeepsNone
            H == Cardinality(Holders)
            T == Cardinality(Trying)
            K == Cardinality(token)
<1>0. TypeOK /\ HardCap /\ ParkedOnce /\ NoLostWakeup /\ ClosedKeepsNone
  BY DEF PoolInv
<1>1. K \in Nat /\ H \in Nat /\ T \in Nat /\ Len(idle) \in Nat /\ inUse \in Nat /\ MaxPerHost \in Nat
  BY <1>0, PoolAssumption, FS_Subset, FS_CardinalityType DEF TypeOK, Holders, Trying
<1>2. inUse = H /\ inUse + Len(idle) <= MaxPerHost
  BY <1>0 DEF HardCap
<1>3. ~closed /\ waiters # <<>> => inUse + K + T >= MaxPerHost
  BY <1>0 DEF NoLostWakeup
<1>4. closed => idle = <<>>
  BY <1>0 DEF ClosedKeepsNone
<1>5. waiters \in Seq(Callers) /\ token \in SUBSET Callers /\ OnceEach(waiters, token, Parked)
  BY <1>0 DEF TypeOK, ParkedOnce, OnceEach, Parked
<1>6. ASSUME wakeOneWaiter(waiters, token) PROVE waiters' # <<>> => waiters # <<>> /\ K' = K + 1
  BY <1>5, <1>6, Woke
<1>. HIDE DEF H, T, K
<1>7. ASSUME inUse' = H', inUse' + Len(idle') <= MaxPerHost, closed' => idle' = <<>>,
             ~closed' /\ waiters' # <<>> => inUse' + K' + T' >= MaxPerHost
      PROVE  Good'
  BY <1>7 DEF HardCap, NoLostWakeup, ClosedKeepsNone, H, T, K
<1>8. ASSUME NEW c \in Callers, NEW l \in States, Jump(c, l)
      PROVE  H' = H + Held(l) - Held(pc[c]) /\ T' = T + Tries(l) - Tries(pc[c])
  BY <1>0, <1>8, Moved DEF H, T, Jump, Held, Tries
<1>9. ASSUME NEW c \in Callers, Refused(c) PROVE Good'
  <2>1. H' = H
    <3>1. H' = H + Held("out") - Held(pc[c]) /\ T' = T + Tries("out") - Tries(pc[c])
      <4>1. Jump(c, "out") /\ "out" \in States
        BY <1>9 DEF Refused, Jump, States
      <4>. QED BY <1>8, <4>1
    <3>. QED BY <1>1, <1>9, <3>1 DEF Refused, Held, Tries, Holding
  <2>. QED BY <1>1, <1>2, <1>4, <1>7, <1>9, <2>1 DEF Refused
<1>10. ASSUME NEW c \in Callers, TakeIdle(c) PROVE Good'
  <2>1. PICK k \in DOMAIN idle : idle' = SubSeq(idle, 1, k - 1)
    BY <1>10 DEF TakeIdle
  <2>2. Len(idle') = k - 1 /\ k \in 1 .. Len(idle)
    BY <1>0, <2>1, Shorter
  <2>3. H' = H + 1 /\ (T' = T \/ T' = T - 1)
    <3>1. PICK l \in {"noop", "have"} : Jump(c, l)
      BY <1>10 DEF TakeIdle, Jump
    <3>2. H' = H + Held(l) - Held(pc[c]) /\ T' = T + Tries(l) - Tries(pc[c])
      <4>1. l \in States
        BY DEF States
      <4>. QED BY <1>8, <3>1, <4>1
    <3>. QED BY <1>1, <1>10, <3>2 DEF TakeIdle, Held, Tries, Holding
  <2>4. inUse' = inUse + 1 /\ K' = K /\ waiters' = waiters /\ ~closed /\ ~closed'
    BY <1>10 DEF TakeIdle, K
  <2>7. inUse' = H' /\ inUse' + Len(idle') <= MaxPerHost
    BY <1>1, <1>2, <1>3, <2>2, <2>3, <2>4
  <2>8. ~closed' /\ waiters' # <<>> => inUse' + K' + T' >= MaxPerHost
    <3>1. SUFFICES ASSUME waiters # <<>> PROVE inUse' + K' + T' >= MaxPerHost
      BY <2>4
    <3>2. inUse + K + T >= MaxPerHost
      BY <1>3, <3>1, <2>4
    <3>. QED BY <1>1, <3>2, <2>3, <2>4
  <2>9. ~closed'
    BY <1>1, <1>2, <1>3, <2>2, <2>3, <2>4
  <2>. QED BY <1>7, <2>7, <2>8, <2>9
<1>11. ASSUME NEW c \in Callers, StartDial(c) PROVE Good'
  <2>1. H' = H + 1 /\ (T' = T \/ T' = T - 1)
    <3>1. H' = H + Held("dial") - Held(pc[c]) /\ T' = T + Tries("dial") - Tries(pc[c])
      <4>1. Jump(c, "dial") /\ "dial" \in States
        BY <1>11 DEF StartDial, Jump, States
      <4>. QED BY <1>8, <4>1
    <3>. QED BY <1>1, <1>11, <3>1 DEF StartDial, Held, Tries, Holding
  <2>2. /\ inUse' = inUse + 1 /\ K' = K /\ waiters' = waiters /\ ~closed'
        /\ Len(idle') = 0 /\ inUse < MaxPerHost /\ ~closed
    BY <1>11 DEF StartDial, HasRoom, K
  <2>7. inUse' = H' /\ inUse' + Len(idle') <= MaxPerHost
    BY <1>1, <1>2, <1>3, <2>1, <2>2
  <2>8. ~closed' /\ waiters' # <<>> => inUse' + K' + T' >= MaxPerHost
    <3>1. SUFFICES ASSUME waiters # <<>> PROVE inUse' + K' + T' >= MaxPerHost
      BY <2>2
    <3>2. inUse + K + T >= MaxPerHost
      BY <1>3, <3>1, <2>2
    <3>. QED BY <1>1, <3>2, <2>1, <2>2
  <2>9. ~closed'
    BY <1>1, <1>2, <1>3, <2>1, <2>2
  <2>. QED BY <1>7, <2>7, <2>8, <2>9
<1>12. ASSUME NEW c \in Callers, Park(c) PROVE Good'
  <2>1. H' = H /\ (T' = T \/ (T' = T - 1 /\ T >= 1))
    <3>1. H' = H + Held("wait") - Held(pc[c]) /\ T' = T + Tries("wait") - Tries(pc[c])
      <4>1. Jump(c, "wait") /\ "wait" \in States
        BY <1>12 DEF Park, Jump, States
      <4>. QED BY <1>8, <4>1
    <3>2. pc[c] = "try" => T >= 1
      <4>1. SUFFICES ASSUME pc[c] = "try" PROVE T >= 1
        OBVIOUS
      <4>2. IsFiniteSet(Trying) /\ c \in Trying
        BY <4>1, PoolAssumption, FS_Subset DEF Trying
      <4>. QED BY <1>1, <4>2, FS_EmptySet DEF T
    <3>. QED BY <1>1, <1>12, <3>1, <3>2 DEF Park, Held, Tries, Holding
  <2>2. /\ inUse' = inUse /\ K' = K /\ K' \in Nat /\ ~closed'
        /\ Len(idle') = 0 /\ ~(inUse < MaxPerHost)
    <3>1. inUse' = inUse /\ K' = K /\ ~closed' /\ Len(idle') = 0 /\ ~(inUse < MaxPerHost)
      BY <1>12 DEF Park, HasRoom, K
    <3>. QED BY <1>1, <3>1
  <2>7. inUse' = H' /\ inUse' + Len(idle') <= MaxPerHost
    BY <1>1, <1>2, <2>1, <2>2
  <2>8. inUse' + K' + T' >= MaxPerHost
    BY <1>1, <2>1, <2>2
  <2>9. ~closed'
    BY <1>1, <1>2, <2>1, <2>2
  <2>. QED BY <1>7, <2>7, <2>8, <2>9
<1>13. ASSUME NEW c \in Callers, Ready(c) PROVE Good'
  <2>1. H' = H /\ T' = T
    <3>1. H' = H + Held("have") - Held(pc[c]) /\ T' = T + Tries("have") - Tries(pc[c])
      <4>1. Jump(c, "have") /\ "have" \in States
        BY <1>13 DEF Ready, Jump, States
      <4>. QED BY <1>8, <4>1
    <3>. QED BY <1>1, <1>13, <3>1 DEF Ready, Held, Tries, Holding
  <2>2. K' = K
    BY <1>13 DEF Ready, K
  <2>. QED BY <1>1, <1>2, <1>3, <1>4, <1>7, <1>13, <2>1, <2>2 DEF Ready
<1>14. ASSUME NEW c \in Callers, NoopFail(c) PROVE Good'
  <2>1. H' = H - 1 /\ T' = T + 1
    <3>1. H' = H + Held("try") - Held(pc[c]) /\ T' = T + Tries("try") - Tries(pc[c])
      <4>1. Jump(c, "try") /\ "try" \in States
        BY <1>14 DEF NoopFail, Jump, States
      <4>. QED BY <1>8, <4>1
    <3>. QED BY <1>1, <1>14, <3>1 DEF NoopFail, Held, Tries, Holding
  <2>. QED BY <1>1, <1>2, <1>3, <1>4, <1>6, <1>7, <1>14, <2>1 DEF NoopFail
<1>15. ASSUME NEW c \in Callers, DialFail(c) PROVE Good'
  <2>1. H' = H - 1 /\ T' = T
    <3>1. H' = H + Held("out") - Held(pc[c]) /\ T' = T + Tries("out") - Tries(pc[c])
      <4>1. Jump(c, "out") /\ "out" \in States
        BY <1>15 DEF DialFail, Jump, States
      <4>. QED BY <1>8, <4>1
    <3>. QED BY <1>1, <1>15, <3>1 DEF DialFail, Held, Tries, Holding
  <2>. QED BY <1>1, <1>2, <1>3, <1>4, <1>6, <1>7, <1>15, <2>1 DEF DialFail
<1>16. ASSUME NEW c \in Callers, Wake(c) PROVE Good'
  <2>1. H' = H /\ T' = T + 1
    <3>1. H' = H + Held("try") - Held(pc[c]) /\ T' = T + Tries("try") - Tries(pc[c])
      <4>1. Jump(c, "try") /\ "try" \in States
        BY <1>16 DEF Wake, Jump, States
      <4>. QED BY <1>8, <4>1
    <3>. QED BY <1>1, <1>16, <3>1 DEF Wake, Held, Tries, Holding
  <2>2. K' = K - 1
    BY <1>5, <1>16, PoolAssumption, FS_Subset, FS_RemoveElement DEF Wake, K
  <2>. QED BY <1>1, <1>2, <1>3, <1>4, <1>7, <1>16, <2>1, <2>2 DEF Wake
<1>17. ASSUME NEW c \in Callers, CancelWait(c) PROVE Good'
  <2>1. H' = H /\ T' = T
    <3>1. H' = H + Held("out") - Held(pc[c]) /\ T' = T + Tries("out") - Tries(pc[c])
      <4>1. Jump(c, "out") /\ "out" \in States
        BY <1>17 DEF CancelWait, Jump, States
      <4>. QED BY <1>8, <4>1
    <3>. QED BY <1>1, <1>17, <3>1 DEF CancelWait, Held, Tries, Holding
  <2>2. waiters' # <<>> => waiters # <<>> /\ K' = K
    <3>1. ASSUME NEW k \in DOMAIN waiters, UNCHANGED token PROVE waiters # <<>> /\ K' = K
      BY <3>1 DEF K
    <3>2. ASSUME \A k \in DOMAIN waiters : waiters[k] # c, wakeOneWaiter(waiters, token \ {c})
          PROVE  waiters' # <<>> => waiters # <<>> /\ K' = K
      <4>1. OnceEach(waiters, token \ {c}, Parked \ {c})
        BY <1>5, <3>2 DEF OnceEach
      <4>2. waiters' # <<>> => waiters # <<>> /\ K' = Cardinality(token \ {c}) + 1
        BY <1>5, <3>2, <4>1, Woke DEF K
      <4>3. c \in token
        BY <1>5, <1>17, <3>2 DEF OnceEach, Parked, CancelWait
      <4>4. Cardinality(token \ {c}) = K - 1
        BY <1>5, <4>3, PoolAssumption, FS_Subset, FS_RemoveElement DEF K
      <4>. QED BY <1>1, <4>2, <4>4
    <3>. QED BY <1>17, <3>1, <3>2 DEF CancelWait
  <2>. QED BY <1>1, <1>2, <1>3, <1>4, <1>7, <1>17, <2>1, <2>2 DEF CancelWait
<1>18. ASSUME NEW c \in Callers, NEW b \in BOOLEAN, Release(c, b) PROVE Good'
  <2>1. H' = H - 1 /\ T' = T
    <3>1. H' = H + Held("out") - Held(pc[c]) /\ T' = T + Tries("out") - Tries(pc[c])
      <4>1. Jump(c, "out") /\ "out" \in States
        BY <1>18 DEF Release, Jump, States
      <4>. QED BY <1>8, <4>1
    <3>. QED BY <1>1, <1>18, <3>1 DEF Release, Held, Tries, Holding
  <2>2. Len(idle') <= Len(idle) + 1 /\ Len(idle') \in Nat /\ (closed => idle' = idle)
    BY <1>0, <1>18, Returned DEF Release
  <2>. QED BY <1>1, <1>2, <1>3, <1>4, <1>6, <1>7, <1>18, <2>1, <2>2 DEF Release
<1>19. ASSUME Close PROVE Good'
  BY <1>1, <1>2, <1>7, <1>19 DEF Close, H, Holders
<1>20. ASSUME Tick PROVE Good'
  <2>1. Len(idle') = Len(idle) /\ (closed => idle' = <<>>)
    BY <1>0, <1>4, <1>20, Older DEF Tick
  <2>. QED BY <1>1, <1>2, <1>3, <1>7, <1>20, <2>1 DEF Tick, H, Holders, T, Trying, K
<1>21. ASSUME UNCHANGED vars PROVE Good'
  BY <1>2, <1>3, <1>4, <1>7, <1>21 DEF vars, H, Holders, T, Trying, K
<1>22. Good'
  BY <1>9, <1>10, <1>11, <1>12, <1>13, <1>14, <1>15, <1>16, <1>17, <1>18, <1>19, <1>20, <1>21
     DEF Next, CallerStep, Acquiring
<1>. QED BY <1>22

\* NewPool and an empty hostPool satisfy the invariant.
LEMMA PoolInit == Init => PoolInv
<1>. SUFFICES ASSUME Init PROVE PoolInv
  OBVIOUS
<1>1. TypeOK
  <2>1. <<>> \in Seq(0 .. AgeCap) /\ <<>> \in Seq(Callers)
    OBVIOUS
  <2>2. pc \in [Callers -> States]
    BY DEF Init, States
  <2>. QED BY <2>1, <2>2 DEF Init, TypeOK
<1>2. Holders = {}
  BY DEF Init, Holders
<1>3. HardCap
  BY <1>2, PoolAssumption, FS_EmptySet DEF Init, HardCap
<1>. QED BY <1>1, <1>3 DEF Init, PoolInv, ParkedOnce, NoLostWakeup, ClosedKeepsNone

\* Every section under p.mu keeps the pool's invariant.
LEMMA PoolStep == PoolInv /\ [Next]_vars => PoolInv'
BY PoolType, ParkedStep, CountStep DEF PoolInv

\* What the pool promises its callers, whatever they do: the cap is kept and counted
\* exactly on every path of Acquire and Release, every parked caller is queued once
\* or has its token, no wake-up is lost, and nothing stays in a closed pool.
THEOREM PoolSafe ==
    Spec => [](TypeOK /\ HardCap /\ ParkedOnce /\ NoLostWakeup /\ ClosedKeepsNone)
<1>1. Spec => []PoolInv
  BY PoolInit, PoolStep, PTL DEF Spec
<1>2. PoolInv => TypeOK /\ HardCap /\ ParkedOnce /\ NoLostWakeup /\ ClosedKeepsNone
  BY DEF PoolInv
<1>. QED BY <1>1, <1>2, PTL

-----------------------------------------------------------------------------
\* The workers' transfers use the pool as its interface allows: a step of a transfer
\* is a step of the pool or none.
LEMMA TransferUsesPool == [TNext]_tvars => [Next]_vars
<1>1. \A w \in Workers : Src(w) \in Callers /\ Dst(w) \in Callers
  BY CallersAssumption DEF WorkerCalls, Src, Dst
<1>2. ASSUME NEW w \in Workers, Open(w) PROVE [Next]_vars
  BY <1>1, <1>2 DEF Open, Next, CallerStep
<1>3. ASSUME NEW w \in Workers, Send(w) PROVE [Next]_vars
  BY <1>1, <1>3 DEF Send, Next, CallerStep, Acquiring
<1>4. ASSUME NEW w \in Workers, CloseBody(w) PROVE [Next]_vars
  BY <1>1, <1>4 DEF CloseBody, Next, CallerStep
<1>5. ASSUME NEW w \in Workers, Cancelled(w) PROVE [Next]_vars
  BY <1>1, <1>5 DEF Cancelled, Next, CallerStep
<1>. QED BY <1>2, <1>3, <1>4, <1>5 DEF TNext, WorkerStep, Next, tvars

\* A transfer's own steps move only its two calls, so who holds what stays in order.
LEMMA OrderStep == TypeOK /\ HeldInOrder /\ [TNext]_tvars => HeldInOrder'
<1>. SUFFICES ASSUME TypeOK, HeldInOrder, [TNext]_tvars PROVE HeldInOrder'
  OBVIOUS
<1>0. \A w \in Workers : Src(w) \in Callers /\ Dst(w) \in Callers
  BY CallersAssumption DEF WorkerCalls, Src, Dst
<1>1. \A v, w \in Workers : Src(v) # Dst(w) /\ (Src(v) = Src(w) => v = w) /\ (Dst(v) = Dst(w) => v = w)
  BY DEF Src, Dst
<1>2. pc \in [Callers -> States] /\ stage \in [Workers -> {"open", "send", "close"}]
  BY DEF TypeOK, HeldInOrder
<1>3. ASSUME NEW w \in Workers, NEW c \in {Src(w), Dst(w)}, CallerStep(c)
      PROVE  pc' \in [Callers -> States] /\ \A d \in Callers \ {c} : pc'[d] = pc[d]
  <2>1. c \in Callers
    BY <1>0
  <2>2. \E l \in States : pc' = [pc EXCEPT ![c] = l]
    BY <1>3, <2>1 DEF CallerStep, Acquiring, Refused, TakeIdle, StartDial, Park, Ready,
       NoopFail, DialFail, Wake, CancelWait, Release, States
  <2>. QED BY <1>2, <2>1, <2>2
<1>4. ASSUME NEW w \in Workers, NEW c \in {Src(w), Dst(w)}, CallerStep(c) \/ UNCHANGED pc,
             NEW s \in {"open", "send", "close"}, stage' = [stage EXCEPT ![w] = s],
             s # "open" => pc'[Src(w)] = "have", s # "send" => pc'[Dst(w)] = "out"
      PROVE  HeldInOrder'
  <2>1. \A d \in Callers \ {c} : pc'[d] = pc[d]
    BY <1>3, <1>4
  <2>2. \A v \in Workers \ {w} : pc'[Src(v)] = pc[Src(v)] /\ pc'[Dst(v)] = pc[Dst(v)]
    BY <1>0, <1>1, <2>1
  <2>3. stage' \in [Workers -> {"open", "send", "close"}] /\ stage'[w] = s
    BY <1>2, <1>4
  <2>4. ASSUME NEW v \in Workers
        PROVE  (stage'[v] # "open" => pc'[Src(v)] = "have") /\ (stage'[v] # "send" => pc'[Dst(v)] = "out")
    <3>1. CASE v = w
      BY <1>4, <2>3, <3>1
    <3>2. CASE v # w
      <4>1. stage'[v] = stage[v]
        BY <1>2, <1>4, <3>2
      <4>. QED BY <2>2, <3>2, <4>1 DEF HeldInOrder, At
    <3>. QED BY <3>1, <3>2
  <2>. QED BY <2>3, <2>4 DEF HeldInOrder, At
<1>5. ASSUME NEW w \in Workers, UNCHANGED stage PROVE stage' = [stage EXCEPT ![w] = stage[w]]
  BY <1>2, <1>5
<1>6. ASSUME NEW w \in Workers
      PROVE  /\ stage[w] \in {"open", "send", "close"}
             /\ stage[w] # "open" => pc[Src(w)] = "have"
             /\ stage[w] # "send" => pc[Dst(w)] = "out"
  BY <1>2 DEF HeldInOrder, At
<1>7. ASSUME NEW w \in Workers, Open(w) PROVE HeldInOrder'
  <2>1. stage[w] = "open" /\ pc[Dst(w)] = "out" /\ pc'[Dst(w)] = pc[Dst(w)]
    <3>1. CallerStep(Src(w)) \/ UNCHANGED pc
      BY <1>7 DEF Open, CallerStep, vars
    <3>2. pc'[Dst(w)] = pc[Dst(w)]
      BY <1>0, <1>1, <1>3, <3>1
    <3>. QED BY <1>6, <1>7, <3>2 DEF Open, At
  <2>2. CASE CallerStep(Src(w)) /\ UNCHANGED stage
    BY <1>4, <1>5, <2>1, <2>2
  <2>3. CASE pc[Src(w)] = "have" /\ Goto(w, "send") /\ UNCHANGED vars
    BY <1>4, <2>3 DEF Goto, vars
  <2>. QED BY <1>7, <2>2, <2>3 DEF Open, CallerStep
<1>8. ASSUME NEW w \in Workers, stage[w] = "send", CallerStep(Dst(w)),
             UNCHANGED stage \/ (pc'[Dst(w)] = "out" /\ Goto(w, "close"))
      PROVE  HeldInOrder'
  <2>1. pc'[Src(w)] = "have"
    BY <1>0, <1>1, <1>3, <1>6, <1>8
  <2>2. CASE UNCHANGED stage
    <3>1. stage' = [stage EXCEPT ![w] = "send"]
      BY <1>5, <1>8, <2>2
    <3>. QED BY <1>4, <1>8, <2>1, <3>1
  <2>3. CASE pc'[Dst(w)] = "out" /\ Goto(w, "close")
    <3>1. stage' = [stage EXCEPT ![w] = "close"]
      BY <2>3 DEF Goto
    <3>. QED BY <1>4, <1>8, <2>1, <2>3, <3>1
  <2>. QED BY <1>8, <2>2, <2>3
<1>9. ASSUME NEW w \in Workers, Send(w) PROVE HeldInOrder'
  <2>1. stage[w] = "send" /\ CallerStep(Dst(w))
    BY <1>9 DEF Send, At, CallerStep, Acquiring
  <2>2. UNCHANGED stage \/ (pc'[Dst(w)] = "out" /\ Goto(w, "close"))
    BY <1>0, <1>2, <1>9 DEF Send, Refused, DialFail, Release
  <2>. QED BY <1>8, <2>1, <2>2
<1>10. ASSUME NEW w \in Workers, CloseBody(w) PROVE HeldInOrder'
  <2>1. stage[w] = "close" /\ CallerStep(Src(w)) /\ stage' = [stage EXCEPT ![w] = "open"]
    BY <1>10 DEF CloseBody, At, Goto, CallerStep
  <2>2. pc'[Dst(w)] = "out"
    BY <1>0, <1>1, <1>3, <1>6, <2>1
  <2>. QED BY <1>4, <2>1, <2>2
<1>11. ASSUME NEW w \in Workers, Cancelled(w) PROVE HeldInOrder'
  <2>1. CASE At(w, "open") /\ CancelWait(Src(w)) /\ UNCHANGED stage
    <3>1. CallerStep(Src(w)) /\ stage' = [stage EXCEPT ![w] = "open"]
      BY <1>5, <2>1 DEF CallerStep, At
    <3>2. pc'[Dst(w)] = "out"
      BY <1>0, <1>1, <1>3, <1>6, <2>1, <3>1 DEF At
    <3>. QED BY <1>4, <3>1, <3>2
  <2>2. CASE At(w, "send") /\ CancelWait(Dst(w)) /\ Goto(w, "close")
    <3>1. CallerStep(Dst(w)) /\ stage[w] = "send"
      BY <2>2 DEF CallerStep, At
    <3>2. pc'[Dst(w)] = "out"
      BY <1>0, <1>2, <2>2 DEF CancelWait
    <3>. QED BY <1>8, <2>2, <3>1, <3>2
  <2>. QED BY <1>11, <2>1, <2>2 DEF Cancelled
<1>12. CASE UNCHANGED <<pc, stage>>
  BY <1>12 DEF HeldInOrder, At
<1>. QED BY <1>7, <1>9, <1>10, <1>11, <1>12 DEF TNext, WorkerStep, Close, Tick, tvars, vars

\* The transfers' part of TSpec that says what may happen.
TransferSteps == TInit /\ [][TNext]_tvars

\* Transfers through one pool keep its invariant and hold their connections in order.
THEOREM TransferInvariant == TSpec => [](PoolInv /\ HeldInOrder)
<1>1. TSpec => TransferSteps
  BY PTL DEF TSpec, TransferSteps
<1>2. TInit => PoolInv /\ HeldInOrder
  <2>1. TInit => PoolInv
    BY PoolInit DEF TInit
  <2>2. TInit => HeldInOrder
    <3>1. \A w \in Workers : Src(w) \in Callers /\ Dst(w) \in Callers
      BY CallersAssumption DEF WorkerCalls, Src, Dst
    <3>. QED BY <3>1 DEF TInit, Init, HeldInOrder, At
  <2>. QED BY <2>1, <2>2
<1>3. PoolInv /\ HeldInOrder /\ [TNext]_tvars => (PoolInv /\ HeldInOrder)'
  BY TransferUsesPool, PoolStep, OrderStep DEF PoolInv
<1>. QED BY <1>1, <1>2, <1>3, PTL DEF TransferSteps

\* The pool's fields keep their types while transfers come and go.
THEOREM TransferTyping == TSpec => []TypeOK
<1>1. PoolInv => TypeOK
  BY DEF PoolInv
<1>. QED BY <1>1, TransferInvariant, PTL

\* maxPerHost is a hard cap and inUse an exact count, through every failure of NOOP,
\* dial, RETR, STOR and the ctx.
THEOREM TransferCap == TSpec => []HardCap
<1>1. PoolInv => HardCap
  BY DEF PoolInv
<1>. QED BY <1>1, TransferInvariant, PTL

\* A caller parked in Acquire is in the queue once or has its token, however
\* cancellations and releases race.
THEOREM TransferParked == TSpec => []ParkedOnce
<1>1. PoolInv => ParkedOnce
  BY DEF PoolInv
<1>. QED BY <1>1, TransferInvariant, PTL

\* No release, failure or cancellation leaves a free slot unannounced while a caller
\* is parked.
THEOREM TransferWakeups == TSpec => []NoLostWakeup
<1>1. PoolInv => NoLostWakeup
  BY DEF PoolInv
<1>. QED BY <1>1, TransferInvariant, PTL

\* Close empties the pool for good: transfers that end later put nothing back.
THEOREM TransferClosed == TSpec => []ClosedKeepsNone
<1>1. PoolInv => ClosedKeepsNone
  BY DEF PoolInv
<1>. QED BY <1>1, TransferInvariant, PTL

\* A transfer holds the source's connection all through Send, and no connection of
\* the destination outside it.
THEOREM TransferOrder == TSpec => []HeldInOrder
BY TransferInvariant, PTL

-----------------------------------------------------------------------------
\* In the queue ws, c is before d.
Before(ws, c, d) == \E j, k \in DOMAIN ws : j < k /\ ws[j] = c /\ ws[k] = d

\* Waking the first caller keeps the others' places.
LEMMA WokenFirst ==
    ASSUME NEW tk \in SUBSET Callers, waiters \in Seq(Callers), wakeOneWaiter(waiters, tk),
           NEW c, NEW d, Ahead(c, d)
    PROVE  Before(waiters', c, d) \/ c \in token'
<1>1. PICK j \in DOMAIN waiters, k \in DOMAIN waiters : j < k /\ waiters[j] = c /\ waiters[k] = d
  BY DEF Ahead
<1>2. waiters # <<>>
  BY <1>1
<1>3. /\ Len(Tail(waiters)) = Len(waiters) - 1 /\ Tail(waiters) \in Seq(Callers)
      /\ \A i \in 1 .. Len(Tail(waiters)) : Tail(waiters)[i] = waiters[i + 1]
      /\ Head(waiters) = waiters[1]
  BY <1>2, Popped
<1>4. waiters' = Tail(waiters) /\ token' = tk \cup {waiters[1]}
  BY <1>2, <1>3 DEF wakeOneWaiter
<1>5. Len(waiters) \in Nat /\ j \in 1 .. Len(waiters) /\ k \in 1 .. Len(waiters)
  BY <1>1
<1>6. CASE j = 1
  BY <1>1, <1>4, <1>6
<1>7. CASE j # 1
  <2>1. /\ j - 1 \in 1 .. Len(Tail(waiters)) /\ k - 1 \in 1 .. Len(Tail(waiters))
        /\ j - 1 < k - 1 /\ (j - 1) + 1 = j /\ (k - 1) + 1 = k
    BY <1>1, <1>3, <1>5, <1>7
  <2>2. DOMAIN waiters' = 1 .. Len(Tail(waiters))
    BY <1>3, <1>4, LenProperties
  <2>3. waiters'[j - 1] = c /\ waiters'[k - 1] = d
    BY <1>1, <1>3, <1>4, <2>1
  <2>. QED BY <2>1, <2>2, <2>3 DEF Before
<1>. QED BY <1>6, <1>7

\* Leaving the queue keeps the others' places.
LEMMA LeftInOrder ==
    ASSUME waiters \in Seq(Callers), NEW i \in DOMAIN waiters, waiters' = Without(waiters, i),
           NEW c, NEW d, Ahead(c, d), waiters[i] \notin {c, d}
    PROVE  Before(waiters', c, d)
<1>. DEFINE n == Len(waiters)
            New(j) == IF j < i THEN j ELSE j - 1
<1>1. PICK j \in DOMAIN waiters, k \in DOMAIN waiters : j < k /\ waiters[j] = c /\ waiters[k] = d
  BY DEF Ahead
<1>2. n \in Nat /\ i \in 1 .. n /\ j \in 1 .. n /\ k \in 1 .. n /\ j # i /\ k # i
  BY <1>1
<1>3. /\ DOMAIN waiters' = 1 .. n - 1
      /\ \A m \in 1 .. n - 1 : waiters'[m] = IF m < i THEN waiters[m] ELSE waiters[m + 1]
  BY Removed, LenProperties
<1>. HIDE DEF n
<1>4. New(j) \in 1 .. n - 1 /\ New(k) \in 1 .. n - 1 /\ New(j) < New(k)
  BY <1>1, <1>2
<1>5. ASSUME NEW m \in 1 .. n, m # i PROVE New(m) \in 1 .. n - 1 => waiters'[New(m)] = waiters[m]
  <2>1. CASE m < i
    BY <1>2, <1>3, <2>1
  <2>2. CASE ~(m < i)
    <3>1. New(m) = m - 1 /\ ~(m - 1 < i) /\ (m - 1) + 1 = m
      BY <1>2, <1>5, <2>2
    <3>. QED BY <1>3, <3>1
  <2>. QED BY <2>1, <2>2
<1>. HIDE DEF New
<1>6. waiters'[New(j)] = c /\ waiters'[New(k)] = d
  BY <1>1, <1>2, <1>4, <1>5
<1>. QED BY <1>3, <1>4, <1>6 DEF Before

\* What a step may do to two callers, the first of which parked before the other.
LEMMA InOrderStep ==
    ASSUME TypeOK, [Next]_vars, NEW c \in Callers, NEW d \in Callers, Ahead(c, d)
    PROVE  Ahead(c, d)' \/ c \in token' \/ "out" \in {pc'[c], pc'[d]}
<1>. DEFINE Kept == Before(waiters', c, d) \/ c \in token' \/ "out" \in {pc'[c], pc'[d]}
<1>. SUFFICES Kept
  BY DEF Before, Ahead
<1>1. waiters \in Seq(Callers) /\ token \in SUBSET Callers /\ pc \in [Callers -> States]
  BY DEF TypeOK
<1>2. ASSUME UNCHANGED waiters PROVE Kept
  BY <1>2 DEF Before, Ahead
<1>3. ASSUME NEW x \in Callers, Refused(x) \/ TakeIdle(x) \/ StartDial(x) \/ Ready(x) \/ Wake(x)
      PROVE  Kept
  BY <1>2, <1>3 DEF Refused, TakeIdle, StartDial, Ready, Wake
<1>4. ASSUME NEW x \in Callers, NoopFail(x) \/ DialFail(x) \/ \E b \in BOOLEAN : Release(x, b)
      PROVE  Kept
  BY <1>1, <1>4, WokenFirst DEF NoopFail, DialFail, Release
<1>5. ASSUME NEW x \in Callers, Park(x) PROVE Kept
  <2>1. /\ DOMAIN waiters = 1 .. Len(waiters) /\ Len(waiters) \in Nat
        /\ DOMAIN waiters' = 1 .. Len(waiters) + 1
        /\ \A i \in 1 .. Len(waiters) : waiters'[i] = waiters[i]
    BY <1>1, <1>5, AppendProperties, LenProperties DEF Park
  <2>2. \A i \in DOMAIN waiters : i \in DOMAIN waiters' /\ waiters'[i] = waiters[i]
    BY <2>1
  <2>. QED BY <2>2 DEF Before, Ahead
<1>6. ASSUME NEW x \in Callers, CancelWait(x) PROVE Kept
  <2>1. pc'[x] = "out"
    BY <1>1, <1>6 DEF CancelWait
  <2>2. ASSUME NEW i \in DOMAIN waiters, waiters[i] = x, waiters' = Without(waiters, i) PROVE Kept
    <3>1. CASE x \in {c, d}
      BY <2>1, <3>1
    <3>2. CASE x \notin {c, d}
      BY <1>1, <2>2, <3>2, LeftInOrder
    <3>. QED BY <3>1, <3>2
  <2>3. ASSUME wakeOneWaiter(waiters, token \ {x}) PROVE Kept
    <3>1. token \ {x} \in SUBSET Callers
      BY <1>1
    <3>. QED BY <1>1, <2>3, <3>1, WokenFirst
  <2>. QED BY <1>6, <2>2, <2>3 DEF CancelWait
<1>7. ASSUME Close \/ Tick \/ UNCHANGED vars PROVE Kept
  BY <1>2, <1>7 DEF Close, Tick, vars
<1>. QED BY <1>3, <1>4, <1>5, <1>6, <1>7 DEF Next, CallerStep, Acquiring

\* First come, first served among the parked callers, for every length of the queue and
\* every race of releases, failures and cancellations.
THEOREM ServedInOrder == TSpec => WokenInOrder
<1>1. TSpec => TransferSteps
  BY PTL DEF TSpec, TransferSteps
<1>2. TypeOK /\ [TNext]_tvars
        => [\A c, d \in Callers :
              Ahead(c, d) => Ahead(c, d)' \/ c \in token' \/ "out" \in {pc'[c], pc'[d]}]_vars
  BY TransferUsesPool, InOrderStep
<1>. QED BY <1>1, <1>2, TransferTyping, PTL DEF TransferSteps, WokenInOrder

-----------------------------------------------------------------------------
\* The permits are counted the same way.
LEMMA SameCount == \A S : Pooled!Cardinality(S) = Cardinality(S)
BY DEF Pooled!Cardinality, Cardinality

\* A caller that takes a connection, idle or to be dialled, finds fewer than MaxPerHost
\* out.
LEMMA TakeGrants ==
    ASSUME PoolInv, NEW c \in Callers, TakeIdle(c) \/ StartDial(c)
    PROVE  Pooled!Grant(c)
<1>1. inUse = Cardinality(Holders) /\ inUse + Len(idle) <= MaxPerHost
  BY DEF PoolInv, HardCap
<1>2. inUse \in Nat /\ Len(idle) \in Nat /\ MaxPerHost \in Nat /\ pc \in [Callers -> States]
  BY PoolAssumption DEF PoolInv, TypeOK
<1>3. inUse < MaxPerHost
  <2>1. CASE TakeIdle(c)
    <3>1. \E k \in DOMAIN idle : TRUE
      BY <2>1 DEF TakeIdle
    <3>2. Len(idle) > 0
      BY <3>1, <1>2 DEF PoolInv, TypeOK
    <3>. QED BY <1>1, <1>2, <3>2
  <2>2. CASE StartDial(c)
    BY <2>2 DEF StartDial, HasRoom
  <2>. QED BY <2>1, <2>2
<1>4. c \notin Holders /\ Holders' = Holders \cup {c}
  BY <1>2 DEF TakeIdle, StartDial, Holders
<1>. QED BY <1>1, <1>3, <1>4, SameCount DEF Pooled!Grant

\* Every section under p.mu is a step of the permits, or changes none of them.
LEMMA PermitStep == PoolInv /\ [Next]_vars => [Pooled!PNext]_Holders
<1>. SUFFICES ASSUME PoolInv, [Next]_vars PROVE [Pooled!PNext]_Holders
  OBVIOUS
<1>0. pc \in [Callers -> States]
  BY DEF PoolInv, TypeOK
<1>1. ASSUME NEW c \in Callers, TakeIdle(c) \/ StartDial(c) PROVE Pooled!Grant(c)
  BY <1>1, TakeGrants
<1>2. ASSUME NEW c \in Callers,
             NoopFail(c) \/ DialFail(c) \/ \E b \in BOOLEAN : Release(c, b)
      PROVE  Pooled!GiveBack(c)
  <2>1. c \in Holders /\ Holders' = Holders \ {c}
    BY <1>0, <1>2 DEF NoopFail, DialFail, Release, Holders
  <2>. QED BY <2>1 DEF Pooled!GiveBack
<1>3. ASSUME NEW c \in Callers, Refused(c) \/ Park(c) \/ Ready(c) \/ Wake(c) \/ CancelWait(c)
      PROVE  UNCHANGED Holders
  BY <1>0, <1>3 DEF Refused, Park, Ready, Wake, CancelWait, Holders
<1>4. ASSUME Close \/ Tick \/ UNCHANGED vars PROVE UNCHANGED Holders
  BY <1>4 DEF Close, Tick, vars, Holders
<1>. QED BY <1>1, <1>2, <1>3, <1>4 DEF Next, CallerStep, Acquiring, Pooled!PNext

\* The pool implements MaxPerHost permits, whoever calls it.
THEOREM PoolIsPermits == Spec => ImplementsPermits
<1>1. Init => Pooled!PInit
  BY DEF Init, Pooled!PInit, Holders
<1>2. Spec => []PoolInv
  BY PoolInit, PoolStep, PTL DEF Spec
<1>. QED BY <1>1, <1>2, PermitStep, PTL DEF Spec, ImplementsPermits, Pooled!PSpec

-----------------------------------------------------------------------------
\* More connections than workers of the pod.
Roomy == Cardinality(Workers) < MaxPerHost

\* If every job in progress were parked, each would hold its source's connection at
\* most, and nobody would be on the way to a free one.
LEMMA AllBlocked ==
    ASSUME PoolInv, HeldInOrder, \A v \in Workers : Busy(v) => Blocked(v)
    PROVE  token = {} /\ Trying = {} /\ \A w \in Workers : Dst(w) \notin Holders
<1>1. \A c \in Callers : \E w \in Workers : c \in {Src(w), Dst(w)}
  BY CallersAssumption DEF WorkerCalls, Src, Dst
<1>2. \A c \in token : c \in Callers /\ pc[c] = "wait"
  BY DEF PoolInv, TypeOK, ParkedOnce
<1>3. ASSUME NEW w \in Workers
      PROVE  /\ pc[Src(w)] \in {"out", "have"} \/ (pc[Src(w)] = "wait" /\ Src(w) \notin token)
             /\ pc[Dst(w)] = "out" \/ (pc[Dst(w)] = "wait" /\ Dst(w) \notin token)
  <2>1. /\ stage[w] \in {"open", "send", "close"}
        /\ stage[w] # "open" => pc[Src(w)] = "have"
        /\ stage[w] # "send" => pc[Dst(w)] = "out"
    BY DEF HeldInOrder, At
  <2>2. CASE ~Busy(w)
    BY <2>1, <2>2 DEF Busy, At
  <2>3. CASE Blocked(w)
    BY <2>1, <2>3 DEF Blocked
  <2>. QED BY <2>2, <2>3
<1>4. token = {}
  BY <1>1, <1>2, <1>3
<1>5. Trying = {}
  BY <1>1, <1>3 DEF Trying
<1>. QED BY <1>3, <1>4, <1>5 DEF Holders

\* Then at most as many connections are in use as there are workers.
LEMMA OnePerWorker ==
    ASSUME \A w \in Workers : Dst(w) \notin Holders
    PROVE  Cardinality(Holders) <= Cardinality(Workers) /\ Cardinality(Workers) \in Nat
<1>1. IsFiniteSet(Workers)
  <2>. DEFINE f == [w \in Workers |-> Src(w)]
  <2>1. f \in Injection(Workers, Callers)
    BY CallersAssumption DEF WorkerCalls, Src, Injection, IsInjective
  <2>. QED BY <2>1, PoolAssumption, FS_Injection
<1>2. Holders \in SUBSET {Src(w) : w \in Workers}
  BY CallersAssumption DEF WorkerCalls, Src, Dst, Holders
<1>. DEFINE g == [c \in Holders |-> c[1]]
<1>3. g \in Injection(Holders, Workers)
  <2>1. \A c \in Holders : \E w \in Workers : c = Src(w) /\ c[1] = w
    BY <1>2 DEF Src
  <2>. QED BY <2>1 DEF Injection, IsInjective
<1>. HIDE DEF g
<1>. QED BY <1>1, <1>3, FS_Injection, FS_CardinalityType

\* So a state of the pool in which nobody can go on has at least as many workers as
\* connections.
LEMMA NotAllBlocked == Roomy /\ PoolInv /\ HeldInOrder => SomeoneMoves
<1>. SUFFICES ASSUME Roomy, PoolInv, HeldInOrder, ~closed, NEW w \in Workers, Blocked(w),
                     \A v \in Workers : Busy(v) => Blocked(v)
              PROVE  FALSE
  BY DEF SomeoneMoves
<1>1. token = {} /\ Trying = {} /\ \A v \in Workers : Dst(v) \notin Holders
  BY AllBlocked
<1>2. waiters # <<>>
  <2>1. PICK c \in {Src(w), Dst(w)} : pc[c] = "wait" /\ c \notin token
    BY DEF Blocked
  <2>2. c \in Callers
    BY CallersAssumption DEF WorkerCalls, Src, Dst
  <2>3. \E k \in DOMAIN waiters : waiters[k] = c
    BY <2>1, <2>2 DEF PoolInv, ParkedOnce
  <2>. QED BY <2>3
<1>3. inUse + 0 + 0 >= MaxPerHost
  <2>1. Cardinality(token) = 0 /\ Cardinality(Trying) = 0
    BY <1>1, FS_EmptySet
  <2>. QED BY <1>2, <2>1 DEF PoolInv, NoLostWakeup
<1>4. inUse = Cardinality(Holders) /\ inUse \in Nat
  BY DEF PoolInv, HardCap, TypeOK
<1>5. inUse <= Cardinality(Workers) /\ Cardinality(Workers) \in Nat
  BY <1>1, <1>4, OnePerWorker
<1>. QED BY <1>3, <1>4, <1>5, PoolAssumption DEF Roomy

\* With more connections than workers there is no deadlock between jobs that hold
\* their source's connection and wait for the destination's, for every number of both.
THEOREM NoPoolDeadlock == Roomy => (TSpec => []SomeoneMoves)
<1>. SUFFICES ASSUME Roomy PROVE TSpec => []SomeoneMoves
  OBVIOUS
<1>1. PoolInv /\ HeldInOrder => SomeoneMoves
  BY NotAllBlocked
<1>. QED BY <1>1, TransferInvariant, PTL
=============================================================================
