------------------------------ MODULE HostCap ------------------------------
(***************************************************************************)
(* The cluster-wide cap on transfers to one FTP host: CapTransport.Send    *)
(* takes one of Cap session-level advisory locks, probing from a           *)
(* hash-derived slot, and keeps it while the wrapped transport sends.      *)
(* Workers of all pods are alike here: the locks live in the database.     *)
(***************************************************************************)
EXTENDS Integers, FiniteSets

CONSTANTS
    Workers,       \* goroutines that send to the host, of all pods
    Cap,           \* Config.Cap
    Faults,        \* subset of {"cancel", "sessionloss"}
    Free,          \* no session holds the lock
    Orphan         \* a session holds it that its client no longer uses

ASSUME CapAssumption ==
    Cap \in Nat \ {0} /\ Free \notin Workers /\ Orphan \notin Workers /\ Free # Orphan

Slots == 0 .. Cap - 1

VARIABLES
    pc,        \* where the job of a worker is
    first,     \* slotHash of its dst: where the scan starts
    tried,     \* slots probed in this scan
    lock,      \* which worker's session holds the advisory lock of a slot
    ended      \* workers that send although their database session has ended

vars == <<pc, first, tried, lock, ended>>

Init ==
    /\ pc = [w \in Workers |-> "out"]
    /\ first = [w \in Workers |-> 0]
    /\ tried = [w \in Workers |-> 0]
    /\ lock = [s \in Slots |-> Free]
    /\ ended = {}

Goto(w, l) == pc' = [pc EXCEPT ![w] = l]

\* Faulty: the scan ends at the last slot instead of wrapping around.
SlotNoWrap(h, k) == IF h + k < Cap THEN h + k ELSE Cap - 1

\* The k-th slot of a scan that starts at h.
SlotAt(h, k) == (h + k) % Cap

Slot(w) == SlotAt(first[w], tried[w])

\* Send is called with the source open, and waits for a connection of the pgx pool.
Begin(w) ==
    /\ pc[w] = "out"
    /\ Goto(w, "conn")
    /\ UNCHANGED <<first, tried, lock, ended>>

\* It has one, and scans: any dst, so any first slot.
Connected(w, h) ==
    /\ pc[w] = "conn"
    /\ first' = [first EXCEPT ![w] = h]
    /\ tried' = [tried EXCEPT ![w] = 0]
    /\ Goto(w, "scan")
    /\ UNCHANGED <<lock, ended>>

\* Faulty: a scan that found every slot taken lets the transfer through.
ProbeLenient(w) ==
    /\ pc[w] = "scan"
    /\ IF lock[Slot(w)] = Free
       THEN lock' = [lock EXCEPT ![Slot(w)] = w] /\ Goto(w, "send") /\ UNCHANGED tried
       ELSE /\ IF tried[w] + 1 < Cap
               THEN tried' = [tried EXCEPT ![w] = @ + 1] /\ UNCHANGED pc
               ELSE Goto(w, "send") /\ UNCHANGED tried
            /\ UNCHANGED lock
    /\ UNCHANGED <<first, ended>>

\* pg_try_advisory_lock on the next slot; after the last one the caller backs off.
Probe(w) ==
    /\ pc[w] = "scan"
    /\ IF lock[Slot(w)] = Free
       THEN lock' = [lock EXCEPT ![Slot(w)] = w] /\ Goto(w, "send") /\ UNCHANGED tried
       ELSE /\ IF tried[w] + 1 < Cap
               THEN tried' = [tried EXCEPT ![w] = @ + 1] /\ UNCHANGED pc
               ELSE Goto(w, "wait") /\ UNCHANGED tried
            /\ UNCHANGED lock
    /\ UNCHANGED <<first, ended>>

\* The backoff, bounded by maxBackoff and jittered, is over: a new scan.
Rescan(w) ==
    /\ pc[w] = "wait"
    /\ tried' = [tried EXCEPT ![w] = 0]
    /\ Goto(w, "scan")
    /\ UNCHANGED <<first, lock, ended>>

\* The ctx ends, or pool.Acquire or a probe fails.  A lock granted to a lost answer
\* stays with its session until the server ends that.
GiveUp(w) ==
    /\ "cancel" \in Faults
    /\ pc[w] \in {"conn", "scan", "wait"}
    /\ \/ UNCHANGED lock
       \/ pc[w] = "scan" /\ lock[Slot(w)] = Free /\ lock' = [lock EXCEPT ![Slot(w)] = Orphan]
    /\ Goto(w, "out")
    /\ UNCHANGED <<first, tried, ended>>

\* Faulty: the slot the scan started from is unlocked.
UnlockFirst(w) ==
    /\ pc[w] = "send"
    /\ lock' = IF lock[first[w]] = w THEN [lock EXCEPT ![first[w]] = Free] ELSE lock
    /\ ended' = ended \ {w}
    /\ Goto(w, "out")
    /\ UNCHANGED <<first, tried>>

\* The wrapped Send returned: the deferred unlock, whose error is dropped.  On a
\* session that ended it does nothing; when its connection breaks, the lock stays with
\* the session until the server ends that.
Unlock(w) ==
    /\ pc[w] = "send"
    /\ IF w \in ended
       THEN UNCHANGED lock
       ELSE \E l \in {Free} \cup (IF "sessionloss" \in Faults THEN {Orphan} ELSE {}) :
              lock' = [lock EXCEPT ![Slot(w)] = l]
    /\ ended' = ended \ {w}
    /\ Goto(w, "out")
    /\ UNCHANGED <<first, tried>>

\* The database ends the session of a transfer: its lock is gone, the transfer is
\* not told.
SessionLost(w) ==
    /\ "sessionloss" \in Faults
    /\ pc[w] = "send" /\ w \notin ended
    /\ lock' = [lock EXCEPT ![Slot(w)] = Free]
    /\ ended' = ended \cup {w}
    /\ UNCHANGED <<pc, first, tried>>

\* The server ends a session without a client (external).
Reaped(s) ==
    /\ lock[s] = Orphan
    /\ lock' = [lock EXCEPT ![s] = Free]
    /\ UNCHANGED <<pc, first, tried, ended>>

Step(w) ==
    \/ Begin(w)
    \/ \E h \in Slots : Connected(w, h)
    \/ Probe(w) \/ Rescan(w) \/ GiveUp(w) \/ Unlock(w) \/ SessionLost(w)

Next == (\E w \in Workers : Step(w)) \/ \E s \in Slots : Reaped(s)

Spec == Init /\ [][Next]_vars

\* A scan goes on and a backoff ends.  Nothing is assumed of transfers: one may hang.
FairSpec == Spec /\ \A w \in Workers : WF_vars(Probe(w)) /\ WF_vars(Rescan(w))

-----------------------------------------------------------------------------
\* Types of the state.
TypeOK ==
    /\ pc \in [Workers -> {"out", "conn", "scan", "wait", "send"}]
    /\ first \in [Workers -> Slots]
    /\ tried \in [Workers -> Slots]
    /\ lock \in [Slots -> Workers \cup {Free, Orphan}]
    /\ ended \in SUBSET Workers

Sending == {w \in Workers : pc[w] = "send"}

\* "Preserving the EXACT cap": however the probes of the pods interleave, no more
\* than Cap transfers to the host are in progress, not counting those whose
\* database session ended under them.
CapRespected == Cardinality(Sending \ ended) <= Cap

\* Transfers whose database session lives.
Live == Sending \ ended

Slotted == INSTANCE Permits WITH Clients <- Workers, Limit <- Cap, held <- Live

\* The scans, locks and sessions implement a cap that hands out Cap permits: a
\* transfer gets one only while fewer than Cap are out, none gets two, and a lost
\* session gives its own back and no other.
ImplementsPermits == Slotted!PSpec

\* No slot leaks: a lock that is held belongs to a transfer in progress that will
\* unlock exactly this slot, whatever slot its scan began with, or to a session that
\* lost its client and that the server will end.
NoSlotLeaked ==
    \A s \in Slots :
        lock[s] \notin {Free, Orphan} => lock[s] \in Sending \ ended /\ Slot(lock[s]) = s

\* No free slot is overlooked: a caller does not wait for ever beside a slot that
\* stays free, even if the transfers in the other slots hang.
NoSlotOverlooked ==
    \A w \in Workers, s \in Slots :
        ~<>[](pc[w] \in {"scan", "wait"} /\ lock[s] = Free)
=============================================================================
