------------------------------ MODULE SendFile ------------------------------
(***************************************************************************)
(* What ProcessJob does to the destination: Send writes a temporary file   *)
(* and renames it to dst, on a local file system or on an FTP server, and  *)
(* the size is verified afterwards.  Several workers may send to one dst:  *)
(* a job leased again while its late holder still sends, or jobs that      *)
(* share the dst.  Connections are FtpTransfer's matter.                   *)
(***************************************************************************)

CONSTANTS
    Workers,   \* goroutines, each of a process of its own
    Dsts,      \* destinations: dst_protocol and path
    Locals,    \* those with dst_protocol "localfs"; the others are on FTP servers
    None       \* no file, no path, no result

VARIABLES
    stage,     \* where ProcessJob of a worker is
    dst,       \* the dst of its job
    res,       \* "full": the stream had the size the source announced; "short": less
    file,      \* what is at a path
    fd,        \* the path at which the file a worker writes is linked
    met        \* history: dsts whose temporary file two senders used at a time

vars == <<stage, dst, res, file, fd, met>>

\* Faulty: a fixed name beside dst for local files, too.
TmpBeside(w, d) == <<"tmp", d, None>>

\* os.CreateTemp makes a new name, the FTP transport appends ".imgsync.tmp" to dst.
TmpOf(w, d) == IF d \in Locals THEN <<"tmp", d, w>> ELSE <<"tmp", d, None>>

Final(d) == <<"dst", d, None>>

Paths == {Final(d) : d \in Dsts} \cup {TmpOf(w, d) : w \in Workers, d \in Dsts}

Kinds == {"part", "full", "short", "spoilt"}

\* What can be at a path: a file that one sender writes, what its stream left there,
\* or one that two of them wrote to.
Contents == {<<k, w>> : k \in Kinds, w \in Workers \cup {None}}

ASSUME NoneAssumption ==
    /\ Locals \subseteq Dsts
    /\ None \notin Dsts /\ None \notin Workers
    /\ None \notin Paths /\ None \notin Contents /\ None \notin Kinds

Tmp(w) == TmpOf(w, dst[w])

Init ==
    /\ stage = [w \in Workers |-> "out"]
    /\ dst = [w \in Workers |-> None]
    /\ res = [w \in Workers |-> None]
    /\ file = [p \in Paths |-> None]
    /\ fd = [w \in Workers |-> None]
    /\ met = {}

At(w, s) == stage[w] = s
Goto(w, s) == stage' = [stage EXCEPT ![w] = s]

\* A local temporary file left behind is not seen again: its name is not used twice.
Left(w) == IF dst[w] \in Locals THEN [file EXCEPT ![Tmp(w)] = None] ELSE file

-----------------------------------------------------------------------------
\* The source is open and Send is called.
Begin(w, d) ==
    /\ At(w, "out")
    /\ dst' = [dst EXCEPT ![w] = d]
    /\ Goto(w, "create")
    /\ UNCHANGED <<res, file, fd, met>>

Writing(w) == stage[w] \in {"stor", "rename", "undo"}

\* Nobody else uses the temporary file.
Alone(w) == \A v \in Workers \ {w} : Writing(v) => Tmp(v) # Tmp(w)

\* CreateTemp creates the file; STOR creates or truncates it.
Create(w) ==
    /\ At(w, "create")
    /\ file' = [file EXCEPT ![Tmp(w)] = <<"part", w>>]
    /\ fd' = [fd EXCEPT ![w] = Tmp(w)]
    /\ met' = IF Alone(w) THEN met ELSE met \cup {dst[w]}
    /\ Goto(w, "stor")
    /\ UNCHANGED <<dst, res>>

\* The ctx has ended or there is no file: FTP cleans up, the local Send returns.
CreateFails(w) ==
    /\ At(w, "create")
    /\ Goto(w, IF dst[w] \in Locals THEN "close" ELSE "undo")
    /\ UNCHANGED <<dst, res, file, fd, met>>

\* A chunk goes to the worker's file, wherever that is linked now.
Chunk(w) ==
    /\ At(w, "stor") /\ fd[w] # None
    /\ file' = [file EXCEPT ![fd[w]] = IF @ = <<"part", w>> THEN @ ELSE <<"spoilt", None>>]
    /\ UNCHANGED <<stage, dst, res, fd, met>>

\* The source ends and the file is closed: after fsync, or with the server's 226.
Eof(w, r) ==
    /\ At(w, "stor")
    /\ file' = IF fd[w] # None /\ file[fd[w]] = <<"part", w>>
               THEN [file EXCEPT ![fd[w]] = <<r, w>>] ELSE file
    /\ fd' = [fd EXCEPT ![w] = None]
    /\ res' = [res EXCEPT ![w] = r]
    /\ Goto(w, "rename")
    /\ UNCHANGED <<dst, met>>

\* Reading, writing or closing fails, or the ctx ends under a Read.
StreamFails(w) ==
    /\ At(w, "stor")
    /\ fd' = [fd EXCEPT ![w] = None]
    /\ Goto(w, "undo")
    /\ UNCHANGED <<dst, res, file, met>>

\* The temporary file replaces the one at dst; whoever writes to either goes on doing so.
Replace(w) ==
    /\ file[Tmp(w)] # None
    /\ file' = [file EXCEPT ![Final(dst[w])] = file[Tmp(w)], ![Tmp(w)] = None]
    /\ fd' = [v \in Workers |-> IF fd[v] = Tmp(w) THEN Final(dst[w])
                                ELSE IF fd[v] = Final(dst[w]) THEN None ELSE fd[v]]

Rename(w) ==
    /\ At(w, "rename")
    /\ Replace(w)
    /\ met' = IF Alone(w) /\ file[Tmp(w)] = <<res[w], w>> THEN met \ {dst[w]} ELSE met
    /\ Goto(w, "close")
    /\ UNCHANGED <<dst, res>>

\* The rename fails, or its answer is lost.
RenameFails(w) ==
    /\ At(w, "rename")
    /\ UNCHANGED <<file, fd>> \/ Replace(w)
    /\ res' = [res EXCEPT ![w] = None]
    /\ Goto(w, "undo")
    /\ UNCHANGED <<dst, met>>

\* Faulty: a failed Send removes dst as well.
UndoAll(w) ==
    /\ At(w, "undo")
    /\ file' = [file EXCEPT ![Tmp(w)] = None, ![Final(dst[w])] = None]
    /\ fd' = [v \in Workers |-> IF fd[v] \in {Tmp(w), Final(dst[w])} THEN None ELSE fd[v]]
    /\ Goto(w, "close")
    /\ UNCHANGED <<dst, res, met>>

\* Best-effort removal of the temporary file.
Undo(w) ==
    /\ At(w, "undo")
    /\ \/ file' = Left(w) /\ UNCHANGED fd
       \/ /\ file' = [file EXCEPT ![Tmp(w)] = None]
          /\ fd' = [v \in Workers |-> IF fd[v] = Tmp(w) THEN None ELSE fd[v]]
    /\ Goto(w, "close")
    /\ UNCHANGED <<dst, res, met>>

End(w) ==
    /\ stage' = [stage EXCEPT ![w] = "out"]
    /\ dst' = [dst EXCEPT ![w] = None]
    /\ res' = [res EXCEPT ![w] = None]

\* Faulty: the size is not compared.
SucceedUnverified(w) ==
    /\ At(w, "close") /\ res[w] # None
    /\ End(w)
    /\ UNCHANGED <<file, fd, met>>

\* The size is right and the source closes without error: writeSuccess.
Succeed(w) ==
    /\ At(w, "close") /\ res[w] = "full"
    /\ End(w)
    /\ UNCHANGED <<file, fd, met>>

\* Send failed, the size is wrong or the source's Close failed.
GiveUp(w) ==
    /\ At(w, "close")
    /\ End(w)
    /\ UNCHANGED <<file, fd, met>>

\* The process dies; what it was writing stays as it is.
Die(w) ==
    /\ ~At(w, "out")
    /\ End(w)
    /\ fd' = [fd EXCEPT ![w] = None]
    /\ file' = Left(w)
    /\ UNCHANGED met

Step(w) ==
    \/ \E d \in Dsts : Begin(w, d)
    \/ Create(w) \/ CreateFails(w) \/ Chunk(w)
    \/ \E r \in {"full", "short"} : Eof(w, r)
    \/ StreamFails(w) \/ Rename(w) \/ RenameFails(w) \/ Undo(w)
    \/ Succeed(w) \/ GiveUp(w) \/ Die(w)

Next == \E w \in Workers : Step(w)

Spec == Init /\ [][Next]_vars

-----------------------------------------------------------------------------
\* No file, or all that one sender's stream gave it.
Whole(d) ==
    \/ file[Final(d)] = None
    \/ \E w \in Workers, r \in {"full", "short"} : file[Final(d)] = <<r, w>>

\* Nobody sees a file at dst that is partly written or mixed, whoever is interrupted,
\* killed or overtaken.  On an FTP server, whose temporary name is that of dst, this
\* needs that no two senders used it at a time; on a local file system they never do.
DstWhole == met \cap Locals = {} /\ \A d \in Dsts \ met : Whole(d)

\* What can be relied on at a dst: nothing while its senders have met.
Shown == [d \in Dsts |-> IF d \in met THEN <<"spoilt", None>> ELSE file[Final(d)]]

Atomic == INSTANCE AtomicReplace
    WITH Senders <- Workers, Places <- Dsts, Shared <- Dsts \ Locals,
         Spoilt <- <<"spoilt", None>>, shown <- Shown, target <- dst

\* Temporary file, stream, rename and clean-up implement the atomic replacement of dst
\* by one whole stream of a job in progress: a failed, killed or late sender shows
\* nothing, and only senders that meet at an FTP dst can spoil it.
ImplementsAtomicReplace == Atomic!ASpec

KeepsFiles == \A d \in Dsts : file[Final(d)] # None => file'[Final(d)] # None

\* A file at dst is replaced in one step: no failure, clean-up or second sender ever
\* leaves dst without the file it had.
DstStays == [][KeepsFiles]_vars

SucceedsWithFile ==
    \A w \in Workers : Succeed(w) =>
        dst[w] \in met \/ file[Final(dst[w])] \notin {None, <<"short", w>>}

\* A job succeeds only with a file at dst that is not its own short one.
SuccessVerified == [][SucceedsWithFile]_vars
=============================================================================
