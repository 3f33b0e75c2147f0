---------------------------- MODULE FtpTransfer ----------------------------
(***************************************************************************)
(* Workers of one pod that copy from an FTP host to the same host, both    *)
(* ends through the pod's one connection pool: ProcessJob opens the source *)
(* and keeps its connection while Send acquires another.                   *)
(***************************************************************************)
EXTENDS FtpPool

CONSTANT Workers

\* A worker calls Acquire for its source and for its destination.
WorkerCalls == Workers \X {"src", "dst"}

ASSUME CallersAssumption == Callers = WorkerCalls

VARIABLE stage    \* where ProcessJob is

tvars == <<vars, stage>>

Src(w) == <<w, "src">>
Dst(w) == <<w, "dst">>

TInit == Init /\ stage = [w \in Workers |-> "open"]

At(w, s) == stage[w] = s
Goto(w, s) == stage' = [stage EXCEPT ![w] = s]

\* Faulty: a refused RETR releases the connection and the reader is used all the same.
OpenReleased(w) ==
    /\ At(w, "open")
    /\ \/ /\ \/ Acquiring(Src(w)) \/ Ready(Src(w)) \/ NoopFail(Src(w))
             \/ DialFail(Src(w)) \/ Wake(Src(w))
          /\ UNCHANGED stage
       \/ Release(Src(w), TRUE) /\ Goto(w, "send")

\* Source.Open: Acquire, SIZE, RETR.  A refused RETR breaks the connection and ends
\* the job; a failed Acquire ends it with nothing held.
Open(w) ==
    /\ At(w, "open")
    /\ \/ /\ \/ Acquiring(Src(w)) \/ Ready(Src(w)) \/ NoopFail(Src(w))
             \/ DialFail(Src(w)) \/ Wake(Src(w))
             \/ Release(Src(w), TRUE)
          /\ UNCHANGED stage
       \/ /\ pc[Src(w)] = "have"
          /\ Goto(w, "send")
          /\ UNCHANGED vars

\* Transport.Send: Acquire, STOR, rename, Release; an error ends the call as well.
Send(w) ==
    /\ At(w, "send")
    /\ \/ /\ \/ TakeIdle(Dst(w)) \/ StartDial(Dst(w)) \/ Park(Dst(w))
             \/ Ready(Dst(w)) \/ NoopFail(Dst(w)) \/ Wake(Dst(w))
          /\ UNCHANGED stage
       \/ /\ \/ Refused(Dst(w)) \/ DialFail(Dst(w))
             \/ \E broken \in BOOLEAN : Release(Dst(w), broken)
          /\ Goto(w, "close")

\* body.Close, explicit or deferred, releases the source's connection.  Whether it is
\* broken may depend on a Read that a cancelled Send left behind.
CloseBody(w) ==
    /\ At(w, "close")
    /\ \E broken \in BOOLEAN : Release(Src(w), broken)
    /\ Goto(w, "open")

\* The ctx ends while the worker is parked: Acquire returns the error.
Cancelled(w) ==
    \/ At(w, "open") /\ CancelWait(Src(w)) /\ UNCHANGED stage
    \/ At(w, "send") /\ CancelWait(Dst(w)) /\ Goto(w, "close")

WorkerStep(w) == Open(w) \/ Send(w) \/ CloseBody(w)

TNext ==
    \/ \E w \in Workers : WorkerStep(w) \/ Cancelled(w)
    \/ (Close \/ Tick) /\ UNCHANGED stage

\* A worker with a job goes on: dials time out and transfers end.  A job has no
\* deadline of its own, so nothing forces a cancellation, and nothing a new job.
TSpec ==
    /\ TInit /\ [][TNext]_tvars
    /\ \A w \in Workers :
        WF_tvars(~(At(w, "open") /\ pc[Src(w)] = "out") /\ WorkerStep(w))

-----------------------------------------------------------------------------
\* Types, and who holds what: a worker that sends or closes has its source's
\* connection, one that opens has no other.
HeldInOrder ==
    /\ stage \in [Workers -> {"open", "send", "close"}]
    /\ \A w \in Workers :
        /\ ~At(w, "open") => pc[Src(w)] = "have"
        /\ ~At(w, "send") => pc[Dst(w)] = "out"

\* A worker parked in Acquire that nobody has sent a token.
Blocked(w) == \E c \in {Src(w), Dst(w)} : pc[c] = "wait" /\ c \notin token

\* A worker in the middle of a job.
Busy(w) == ~(At(w, "open") /\ pc[Src(w)] = "out")

\* No deadlock in the pool: when somebody is parked some other job can go on, it is not
\* that all hold their source's connection and wait for one more.
SomeoneMoves ==
    ~closed /\ (\E w \in Workers : Blocked(w)) => \E v \in Workers : Busy(v) /\ ~Blocked(v)

\* Some transfer always ends: while a worker is in Send, one will leave it.  Holding
\* the source's connection while waiting for the destination's does not stop them
\* all.
SendsEnd ==
    []~closed =>
      ((\E w \in Workers : At(w, "send")) ~> (\E w \in Workers : At(w, "close")))
=============================================================================
