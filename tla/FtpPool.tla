------------------------------ MODULE FtpPool ------------------------------
(***************************************************************************)
(* The FTP connection pool of one host: idle connections, the cap, parked  *)
(* callers and their wake-up tokens.  A section under p.mu is one step;    *)
(* NOOP, dial, the wait for a token and the transfer lie between steps.    *)
(* Hosts share nothing but the closed flag.                                *)
(***************************************************************************)
EXTENDS Integers, Sequences, FiniteSets

CONSTANTS
    Callers,       \* calls of Acquire that can be under way at a time
    MaxPerHost,    \* PoolConfig.MaxPerHost
    IdleTTL,       \* PoolConfig.IdleTTL, in ticks
    NoopAfter      \* PoolConfig.NoopAfter, in ticks

ASSUME PoolAssumption ==
    /\ MaxPerHost \in Nat \ {0} /\ IdleTTL \in Nat /\ NoopAfter \in Nat
    /\ IsFiniteSet(Callers)

VARIABLES
    inUse,     \* hostPool.inUse
    idle,      \* hostPool.idle, each entry by its age in ticks, saturating
    waiters,   \* hostPool.waiters, each channel by the caller that made it
    token,     \* callers with a token in their channel
    closed,    \* Pool.closed
    pc         \* where a caller is

vars == <<inUse, idle, waiters, token, closed, pc>>

States == {"out", "try", "noop", "dial", "wait", "have"}

Init ==
    /\ inUse = 0
    /\ idle = <<>>
    /\ waiters = <<>>
    /\ token = {}
    /\ closed = FALSE
    /\ pc = [c \in Callers |-> "out"]

-----------------------------------------------------------------------------
\* Faulty: the popped channel gets no token.
wakeNobody(ws, tk) ==
    /\ waiters' = IF ws = <<>> THEN ws ELSE Tail(ws)
    /\ token' = tk

\* Faulty: the caller that parked last is woken first.
wakeLastWaiter(ws, tk) ==
    IF ws = <<>> THEN waiters' = ws /\ token' = tk
    ELSE /\ waiters' = SubSeq(ws, 1, Len(ws) - 1)
         /\ token' = tk \cup {ws[Len(ws)]}

\* Pops the first parked caller and sends it a token.
wakeOneWaiter(ws, tk) ==
    IF ws = <<>> THEN waiters' = ws /\ token' = tk
    ELSE waiters' = Tail(ws) /\ token' = tk \cup {Head(ws)}

Expired(k) == idle[k] > IdleTTL

\* Acquire refuses, a new call or one that comes back from its wait or its NOOP.
Refused(c) ==
    /\ closed
    /\ pc[c] \in {"out", "try"}
    /\ pc' = [pc EXCEPT ![c] = "out"]
    /\ UNCHANGED <<inUse, idle, waiters, token, closed>>

\* The newest idle connection within its TTL; the expired ones on top are closed.
TakeIdle(c) ==
    \E k \in DOMAIN idle :
        /\ ~closed
        /\ pc[c] \in {"out", "try"}
        /\ ~Expired(k) /\ \A j \in DOMAIN idle : j > k => Expired(j)
        /\ idle' = SubSeq(idle, 1, k - 1)
        /\ inUse' = inUse + 1
        /\ pc' = [pc EXCEPT ![c] = IF idle[k] > NoopAfter THEN "noop" ELSE "have"]
        /\ UNCHANGED <<waiters, token, closed>>

\* Faulty: one connection is kept in reserve.
HasRoomShort == inUse + 1 < MaxPerHost

HasRoom == inUse < MaxPerHost

\* No usable idle connection and room for one more: the slot is taken, then dialled.
StartDial(c) ==
    /\ ~closed
    /\ pc[c] \in {"out", "try"}
    /\ \A k \in DOMAIN idle : Expired(k)
    /\ HasRoom
    /\ idle' = <<>>
    /\ inUse' = inUse + 1
    /\ pc' = [pc EXCEPT ![c] = "dial"]
    /\ UNCHANGED <<waiters, token, closed>>

\* At the cap: the caller parks.
Park(c) ==
    /\ ~closed
    /\ pc[c] \in {"out", "try"}
    /\ \A k \in DOMAIN idle : Expired(k)
    /\ ~HasRoom
    /\ idle' = <<>>
    /\ waiters' = Append(waiters, c)
    /\ pc' = [pc EXCEPT ![c] = "wait"]
    /\ UNCHANGED <<inUse, token, closed>>

\* The NOOP, or dial and login, succeeded.
Ready(c) ==
    /\ pc[c] \in {"noop", "dial"}
    /\ pc' = [pc EXCEPT ![c] = "have"]
    /\ UNCHANGED <<inUse, idle, waiters, token, closed>>

\* Faulty: the slot of a dead connection is not given back.
NoopFailLeak(c) ==
    /\ pc[c] = "noop"
    /\ wakeOneWaiter(waiters, token)
    /\ pc' = [pc EXCEPT ![c] = "try"]
    /\ UNCHANGED <<inUse, idle, closed>>

\* Faulty: the dead connection goes back to the idle list.
NoopFailKept(c) ==
    /\ pc[c] = "noop"
    /\ inUse' = inUse - 1
    /\ idle' = IF closed THEN idle ELSE Append(idle, NoopAfter + 1)
    /\ pc' = [pc EXCEPT ![c] = "try"]
    /\ UNCHANGED <<waiters, token, closed>>

\* The NOOP failed: the slot is freed, a waiter woken, and the caller tries again.
NoopFail(c) ==
    /\ pc[c] = "noop"
    /\ inUse' = inUse - 1
    /\ wakeOneWaiter(waiters, token)
    /\ pc' = [pc EXCEPT ![c] = "try"]
    /\ UNCHANGED <<idle, closed>>

\* Dial or login failed (or its ctx ended): Acquire returns the error.
DialFail(c) ==
    /\ pc[c] = "dial"
    /\ inUse' = inUse - 1
    /\ wakeOneWaiter(waiters, token)
    /\ pc' = [pc EXCEPT ![c] = "out"]
    /\ UNCHANGED <<idle, closed>>

\* A parked caller receives its token.
Wake(c) ==
    /\ pc[c] = "wait"
    /\ c \in token
    /\ token' = token \ {c}
    /\ pc' = [pc EXCEPT ![c] = "try"]
    /\ UNCHANGED <<inUse, idle, waiters, closed>>

\* A queue without its k-th entry.
Without(ws, k) == SubSeq(ws, 1, k - 1) \o SubSeq(ws, k + 1, Len(ws))

\* Faulty: a token that came with the cancellation is dropped.
CancelDropsToken(c) ==
    /\ pc[c] = "wait"
    /\ \/ \E k \in DOMAIN waiters :
            /\ waiters[k] = c
            /\ waiters' = Without(waiters, k)
            /\ UNCHANGED token
       \/ /\ \A k \in DOMAIN waiters : waiters[k] # c
          /\ token' = token \ {c}
          /\ UNCHANGED waiters
    /\ pc' = [pc EXCEPT ![c] = "out"]
    /\ UNCHANGED <<inUse, idle, closed>>

\* The ctx of a parked caller ends: it leaves the queue, or passes its token on.
CancelWait(c) ==
    /\ pc[c] = "wait"
    /\ \/ \E k \in DOMAIN waiters :
            /\ waiters[k] = c
            /\ waiters' = Without(waiters, k)
            /\ UNCHANGED token
       \/ /\ \A k \in DOMAIN waiters : waiters[k] # c
          /\ wakeOneWaiter(waiters, token \ {c})
    /\ pc' = [pc EXCEPT ![c] = "out"]
    /\ UNCHANGED <<inUse, idle, closed>>

\* Faulty: a connection goes back to a closed pool.
IdleAfterReopened(broken) == IF broken THEN idle ELSE Append(idle, 0)

IdleAfter(broken) == IF broken \/ closed THEN idle ELSE Append(idle, 0)

\* PooledConn.Release.
Release(c, broken) ==
    /\ pc[c] = "have"
    /\ inUse' = inUse - 1
    /\ idle' = IdleAfter(broken)
    /\ wakeOneWaiter(waiters, token)
    /\ pc' = [pc EXCEPT ![c] = "out"]
    /\ UNCHANGED closed

Close ==
    /\ closed' = TRUE
    /\ idle' = <<>>
    /\ UNCHANGED <<inUse, waiters, token, pc>>

AgeCap == (IF IdleTTL > NoopAfter THEN IdleTTL ELSE NoopAfter) + 1

Aged(a) == IF a < AgeCap THEN a + 1 ELSE a

Tick ==
    /\ idle' = [k \in DOMAIN idle |-> Aged(idle[k])]
    /\ UNCHANGED <<inUse, waiters, token, closed, pc>>

-----------------------------------------------------------------------------
Acquiring(c) == Refused(c) \/ TakeIdle(c) \/ StartDial(c) \/ Park(c)

CallerStep(c) ==
    \/ Acquiring(c)
    \/ Ready(c) \/ NoopFail(c) \/ DialFail(c)
    \/ Wake(c) \/ CancelWait(c)
    \/ \E broken \in BOOLEAN : Release(c, broken)

Next == (\E c \in Callers : CallerStep(c)) \/ Close \/ Tick

Spec == Init /\ [][Next]_vars

-----------------------------------------------------------------------------
Holders == {c \in Callers : pc[c] \in {"noop", "dial", "have"}}
Trying == {c \in Callers : pc[c] = "try"}

\* Types of the state.
TypeOK ==
    /\ inUse \in Nat
    /\ idle \in Seq(0 .. AgeCap)
    /\ waiters \in Seq(Callers)
    /\ token \in SUBSET Callers
    /\ closed \in BOOLEAN
    /\ pc \in [Callers -> States]

\* "hard cap on concurrent in-use + idle conns per host", with inUse the number of
\* callers that dial, ping or use a connection: no failure path leaks or returns a
\* slot twice.
HardCap ==
    /\ inUse = Cardinality(Holders)
    /\ inUse + Len(idle) <= MaxPerHost

\* Every parked caller is queued exactly once, or has been sent its token: no
\* cancellation racing a release makes the pool forget one or wake it twice.
ParkedOnce ==
    /\ \A j, k \in DOMAIN waiters : waiters[j] = waiters[k] => j = k
    /\ \A c \in Callers :
        pc[c] = "wait" <=> (c \in token \/ \E k \in DOMAIN waiters : waiters[k] = c)
    /\ \A k \in DOMAIN waiters : waiters[k] \notin token

\* No lost wake-up: while somebody is parked, every slot is in use or a token or a
\* retrying caller is on its way to it.
NoLostWakeup ==
    ~closed /\ waiters # <<>>
        => inUse + Cardinality(token) + Cardinality(Trying) >= MaxPerHost

\* c parked before d, and both wait without a token.
Ahead(c, d) == \E j, k \in DOMAIN waiters : j < k /\ waiters[j] = c /\ waiters[k] = d

\* First come, first served: whoever parked first stays in front until it has a token
\* or one of the two gives up.  A cancellation in the middle of the queue and a token
\* passed on change no one else's place.
WokenInOrder ==
    [][\A c, d \in Callers :
         Ahead(c, d) => Ahead(c, d)' \/ c \in token' \/ "out" \in {pc'[c], pc'[d]}]_vars

Pooled == INSTANCE Permits WITH Clients <- Callers, Limit <- MaxPerHost, held <- Holders

\* Idle list, dials, NOOPs and wake-ups implement MaxPerHost permits: a caller gets one
\* only while fewer are out, and each failure gives back its own and no other.
ImplementsPermits == Pooled!PSpec

\* A closed pool keeps no connection: one released after Close is closed, not kept.
ClosedKeepsNone == closed => idle = <<>>

\* A new call takes the slot that a woken caller is on its way to.
Barging ==
    /\ token # {} \/ Trying # {}
    /\ \E c \in Callers : pc[c] = "out" /\ pc'[c] \in {"noop", "dial", "have"}

\* A parked caller gets a connection, or dials one, or is cancelled, unless new calls
\* overtake woken callers again and again or the pool is closed.
WaiterServed ==
    (<>[][~Barging]_vars /\ []~closed)
        => \A c \in Callers : pc[c] = "wait" ~> pc[c] \notin {"wait", "try"}
=============================================================================
