--------------------------- MODULE SendFileProofs ---------------------------
(***************************************************************************)
(* What dst holds, for any number of senders and destinations: only whole  *)
(* files, never none again, and nothing short that passed for a success.   *)
(***************************************************************************)
EXTENDS SendFile, TLAPS

Stages == {"out", "create", "stor", "rename", "undo", "close"}

Typed ==
    /\ stage \in [Workers -> Stages]
    /\ dst \in [Workers -> Dsts \cup {None}]
    /\ res \in [Workers -> {"full", "short", None}]
    /\ file \in [Paths -> Contents \cup {None}]
    /\ fd \in [Workers -> Paths \cup {None}]
    /\ met \subseteq Dsts \ Locals

\* A worker has a dst exactly beyond "out"; it writes only while it streams, and to no file but
\* its own, wherever that has been moved; it has a result from the end of the stream on.
Control(w) ==
    /\ stage[w] # "out" => dst[w] \in Dsts
    /\ stage[w] = "out" => dst[w] = None
    /\ fd[w] # None => stage[w] = "stor" /\ fd[w] \in {Tmp(w), Final(dst[w])}
    /\ stage[w] = "rename" => res[w] # None
    /\ res[w] # None => stage[w] \in {"rename", "close"}

\* A dst whose senders have not met is whole and nobody writes to it.
Sound(d) == Whole(d) /\ \A w \in Workers : fd[w] # Final(d)

\* The temporary file of a sender that met nobody is as that sender left it, unless a
\* clean-up has removed it.
Intact(w) ==
    /\ stage[w] = "stor" => \/ fd[w] = Tmp(w) /\ file[Tmp(w)] = <<"part", w>>
                            \/ fd[w] = None /\ file[Tmp(w)] = None
    /\ stage[w] = "rename" => file[Tmp(w)] \in {None, <<res[w], w>>}
    /\ stage[w] = "close" /\ res[w] = "full" =>
           file[Final(dst[w])] \notin {None, <<"short", w>>}

Using(w) == stage[w] \in {"stor", "rename"}

Apart(v, w) == Using(v) /\ Using(w) /\ Tmp(v) = Tmp(w) => dst[w] \in met

SendInv ==
    /\ Typed
    /\ \A w \in Workers : Control(w)
    /\ \A d \in Dsts \ met : Sound(d)
    /\ \A w \in Workers : dst[w] \in Dsts \ met => Intact(w)
    /\ \A w \in Workers : \A v \in Workers \ {w} : Apart(v, w)

-----------------------------------------------------------------------------
\* The names of temporary files are those of their dst, of CreateTemp's also of their
\* sender; no dst is one.
LEMMA Names ==
    /\ \A d \in Dsts : Final(d) \in Paths /\ Final(d) # None
    /\ \A w \in Workers, d \in Dsts : TmpOf(w, d) \in Paths /\ TmpOf(w, d) # None
    /\ \A c, d \in Dsts : Final(c) = Final(d) => c = d
    /\ \A w \in Workers, c, d \in Dsts : TmpOf(w, c) # Final(d)
    /\ \A v, w \in Workers, c, d \in Dsts :
          TmpOf(v, c) = TmpOf(w, d) => c = d /\ (c \in Locals => v = w)
    /\ \A v, w \in Workers, d \in Dsts \ Locals : TmpOf(v, d) = TmpOf(w, d)
<1>1. \A d \in Dsts : Final(d) \in Paths /\ Final(d) # None
  BY NoneAssumption DEF Paths
<1>2. \A w \in Workers, d \in Dsts : TmpOf(w, d) \in Paths /\ TmpOf(w, d) # None
  BY NoneAssumption DEF Paths
<1>3. \A c, d \in Dsts : Final(c) = Final(d) => c = d
  BY DEF Final
<1>4. \A w \in Workers, c, d \in Dsts : TmpOf(w, c) # Final(d)
  BY DEF Final, TmpOf
<1>5. \A v, w \in Workers, c, d \in Dsts :
          TmpOf(v, c) = TmpOf(w, d) => c = d /\ (c \in Locals => v = w)
  BY DEF TmpOf
<1>6. \A v, w \in Workers, d \in Dsts \ Locals : TmpOf(v, d) = TmpOf(w, d)
  BY DEF TmpOf
<1>. QED BY <1>1, <1>2, <1>3, <1>4, <1>5, <1>6

\* Contents tell who wrote what and are not the absence of a file.
LEMMA Marks ==
    /\ \A k \in Kinds, w \in Workers \cup {None} : <<k, w>> \in Contents /\ <<k, w>> # None
    /\ \A k, l \in Kinds, v, w \in Workers \cup {None} :
          <<k, v>> = <<l, w>> => k = l /\ v = w
<1>1. \A k \in Kinds, w \in Workers \cup {None} : <<k, w>> \in Contents
  BY DEF Contents
<1>. QED BY <1>1, NoneAssumption

\* Nobody has begun: there are no files.
LEMMA InitInv == Init => SendInv
<1>. SUFFICES ASSUME Init PROVE SendInv
  OBVIOUS
<1>1. Typed
  BY DEF Init, Typed, Stages
<1>2. \A w \in Workers : Control(w)
  BY DEF Init, Control
<1>3. \A d \in Dsts \ met : Sound(d)
  BY Names DEF Init, Sound, Whole
<1>4. \A w \in Workers : ~ dst[w] \in Dsts
  BY NoneAssumption DEF Init
<1>5. \A w \in Workers : \A v \in Workers \ {w} : Apart(v, w)
  BY DEF Init, Apart, Using
<1>. QED BY <1>1, <1>2, <1>3, <1>4, <1>5 DEF SendInv

\* What a rename does to the paths.
LEMMA Moves ==
    ASSUME SendInv, NEW w \in Workers, At(w, "rename"), Replace(w)
    PROVE  /\ dst[w] \in Dsts /\ res[w] \in {"full", "short"} /\ fd[w] = None
           /\ file' \in [Paths -> Contents \cup {None}]
           /\ fd' \in [Workers -> Paths \cup {None}]
           /\ file[Tmp(w)] # None
           /\ file'[Final(dst[w])] = file[Tmp(w)] /\ file'[Tmp(w)] = None
           /\ \A p \in Paths \ {Final(dst[w]), Tmp(w)} : file'[p] = file[p]
           /\ \A v \in Workers : fd'[v] = IF fd[v] = Tmp(w) THEN Final(dst[w])
                                         ELSE IF fd[v] = Final(dst[w]) THEN None ELSE fd[v]
<1>1. dst[w] \in Dsts /\ res[w] \in {"full", "short"} /\ fd[w] = None
  BY NoneAssumption DEF SendInv, Typed, Control, At
<1>2. /\ Final(dst[w]) \in Paths /\ Tmp(w) \in Paths /\ Final(dst[w]) # Tmp(w)
  BY <1>1, Names DEF Tmp
<1>. QED BY <1>1, <1>2 DEF SendInv, Typed, Replace

\* A sender that met nobody moves its own whole file, and nobody writes to it any more.
LEMMA MovesOwn ==
    ASSUME SendInv, NEW w \in Workers, At(w, "rename"), Replace(w),
           \/ dst[w] \notin met
           \/ Alone(w) /\ file[Tmp(w)] = <<res[w], w>>
    PROVE  /\ file'[Final(dst[w])] = <<res[w], w>>
           /\ \A v \in Workers : fd'[v] # Final(dst[w]) /\ fd[v] # Tmp(w)
           /\ \A v \in Workers \ {w} : Using(v) => Tmp(v) # Tmp(w)
<1>1. file'[Final(dst[w])] = <<res[w], w>>
  BY Moves DEF SendInv, Intact, At
<1>2. \A v \in Workers \ {w} : Using(v) => Tmp(v) # Tmp(w)
  <2>1. CASE dst[w] \notin met
    BY <2>1 DEF SendInv, Apart, Using, At
  <2>2. CASE Alone(w)
    BY <2>2 DEF Alone, Using, Writing
  <2>. QED BY <2>1, <2>2
<1>3. ASSUME NEW v \in Workers PROVE fd[v] # Tmp(w)
  <2>1. Tmp(w) # None
    BY Moves, Names DEF Tmp
  <2>2. CASE v = w
    BY <2>1, <2>2, Moves
  <2>3. CASE v # w /\ fd[v] = Tmp(w)
    <3>1. stage[v] = "stor" /\ fd[v] \in {Tmp(v), Final(dst[v])} /\ dst[v] \in Dsts
      BY <2>1, <2>3 DEF SendInv, Control
    <3>2. fd[v] # Final(dst[v])
      BY <2>3, <3>1, Moves, Names DEF Tmp
    <3>. QED BY <1>2, <2>3, <3>1, <3>2 DEF Using
  <2>. QED BY <2>2, <2>3
<1>4. \A v \in Workers : fd'[v] # Final(dst[w])
  BY <1>3, Moves, Names
<1>. QED BY <1>1, <1>2, <1>3, <1>4

\* No step of ProcessJob or Send, of whatever worker, breaks the invariant.
LEMMA StepInv ==
    ASSUME SendInv, NEW w \in Workers, Step(w)
    PROVE  SendInv'
<1>. USE NoneAssumption DEF At, Goto, Tmp
<1>0. /\ Typed
      /\ \A u \in Workers : Control(u)
      /\ \A e \in Dsts \ met : Sound(e)
      /\ \A u \in Workers : dst[u] \in Dsts \ met => Intact(u)
      /\ \A u \in Workers : \A v \in Workers \ {u} : Apart(v, u)
  BY DEF SendInv
<1>1. ASSUME NEW d \in Dsts, Begin(w, d) PROVE SendInv'
  <2>1. Typed'
    BY <1>0, <1>1 DEF Begin, Typed, Stages
  <2>2. ASSUME NEW u \in Workers PROVE Control(u)'
    BY <1>0, <1>1, Names DEF Begin, Typed, Control
  <2>3. ASSUME NEW e \in Dsts \ met' PROVE Sound(e)'
    BY <1>0, <1>1 DEF Begin, Sound, Whole
  <2>4. ASSUME NEW u \in Workers, dst'[u] \in Dsts \ met' PROVE Intact(u)'
    BY <1>0, <1>1, <2>4 DEF Begin, Control, Intact
  <2>5. ASSUME NEW u \in Workers, NEW v \in Workers \ {u} PROVE Apart(v, u)'
    BY <1>0, <1>1 DEF Begin, Apart, Using
  <2>. QED BY <2>1, <2>2, <2>3, <2>4, <2>5 DEF SendInv
<1>2. ASSUME Create(w) PROVE SendInv'
  <2>1. Typed'
    BY <1>0, <1>2, Names, Marks DEF Create, Alone, Writing, Typed, Stages, Control, Kinds
  <2>2. ASSUME NEW u \in Workers PROVE Control(u)'
    BY <1>0, <1>2 DEF Create, Typed, Control
  <2>3. ASSUME NEW e \in Dsts \ met' PROVE Sound(e)'
    BY <1>0, <1>2, Names DEF Create, Alone, Writing, Control, Sound, Whole
  <2>4. ASSUME NEW u \in Workers, dst'[u] \in Dsts \ met' PROVE Intact(u)'
    BY <1>0, <1>2, <2>4, Names DEF Create, Alone, Writing, Typed, Control, Intact
  <2>5. ASSUME NEW u \in Workers, NEW v \in Workers \ {u} PROVE Apart(v, u)'
    BY <1>0, <1>2, Names DEF Create, Alone, Writing, Control, Apart, Using
  <2>. QED BY <2>1, <2>2, <2>3, <2>4, <2>5 DEF SendInv
<1>3. ASSUME CreateFails(w) PROVE SendInv'
  <2>1. Typed'
    BY <1>0, <1>3 DEF CreateFails, Typed, Stages
  <2>2. ASSUME NEW u \in Workers PROVE Control(u)'
    BY <1>0, <1>3, Names DEF CreateFails, Typed, Control
  <2>3. ASSUME NEW e \in Dsts \ met' PROVE Sound(e)'
    BY <1>0, <1>3 DEF CreateFails, Sound, Whole
  <2>4. ASSUME NEW u \in Workers, dst'[u] \in Dsts \ met' PROVE Intact(u)'
    BY <1>0, <1>3, <2>4 DEF CreateFails, Control, Intact, Kinds
  <2>5. ASSUME NEW u \in Workers, NEW v \in Workers \ {u} PROVE Apart(v, u)'
    BY <1>0, <1>3 DEF CreateFails, Apart, Using
  <2>. QED BY <2>1, <2>2, <2>3, <2>4, <2>5 DEF SendInv
<1>4. ASSUME Chunk(w) PROVE SendInv'
  <2>1. Typed'
    BY <1>0, <1>4, Marks DEF Chunk, Typed, Kinds
  <2>2. ASSUME NEW u \in Workers PROVE Control(u)'
    BY <1>0, <1>4, Names DEF Chunk, Typed, Control
  <2>3. ASSUME NEW e \in Dsts \ met' PROVE Sound(e)'
    BY <1>0, <1>4 DEF Chunk, Sound, Whole
  <2>4. ASSUME NEW u \in Workers, dst'[u] \in Dsts \ met' PROVE Intact(u)'
    BY <1>0, <1>4, <2>4, Names DEF Chunk, Typed, Control, Intact
  <2>5. ASSUME NEW u \in Workers, NEW v \in Workers \ {u} PROVE Apart(v, u)'
    BY <1>0, <1>4 DEF Chunk, Apart, Using
  <2>. QED BY <2>1, <2>2, <2>3, <2>4, <2>5 DEF SendInv
<1>5. ASSUME NEW r \in {"full", "short"}, Eof(w, r) PROVE SendInv'
  <2>1. Typed'
    BY <1>0, <1>5, Marks DEF Eof, Typed, Stages, Kinds
  <2>2. ASSUME NEW u \in Workers PROVE Control(u)'
    BY <1>0, <1>5, Names DEF Eof, Typed, Control, Kinds
  <2>3. ASSUME NEW e \in Dsts \ met' PROVE Sound(e)'
    BY <1>0, <1>5, Names DEF Eof, Sound, Whole
  <2>4. ASSUME NEW u \in Workers, dst'[u] \in Dsts \ met' PROVE Intact(u)'
    BY <1>0, <1>5, <2>4, Names DEF Eof, Typed, Control, Intact, Apart, Using
  <2>5. ASSUME NEW u \in Workers, NEW v \in Workers \ {u} PROVE Apart(v, u)'
    BY <1>0, <1>5 DEF Eof, Apart, Using
  <2>. QED BY <2>1, <2>2, <2>3, <2>4, <2>5 DEF SendInv
<1>6. ASSUME StreamFails(w) PROVE SendInv'
  <2>1. Typed'
    BY <1>0, <1>6 DEF StreamFails, Typed, Stages
  <2>2. ASSUME NEW u \in Workers PROVE Control(u)'
    BY <1>0, <1>6, Names DEF StreamFails, Typed, Control
  <2>3. ASSUME NEW e \in Dsts \ met' PROVE Sound(e)'
    BY <1>0, <1>6, Names DEF StreamFails, Sound, Whole
  <2>4. ASSUME NEW u \in Workers, dst'[u] \in Dsts \ met' PROVE Intact(u)'
    BY <1>0, <1>6, <2>4 DEF StreamFails, Typed, Intact
  <2>5. ASSUME NEW u \in Workers, NEW v \in Workers \ {u} PROVE Apart(v, u)'
    BY <1>0, <1>6 DEF StreamFails, Apart, Using
  <2>. QED BY <2>1, <2>2, <2>3, <2>4, <2>5 DEF SendInv
<1>7. ASSUME Rename(w) PROVE SendInv'
  <2>. DEFINE d == dst[w]
  <2>0. /\ At(w, "rename") /\ Replace(w)
        /\ stage' = [stage EXCEPT ![w] = "close"] /\ dst' = dst /\ res' = res
        /\ \/ met' = met
           \/ Alone(w) /\ file[Tmp(w)] = <<res[w], w>> /\ met' = met \ {d}
    BY <1>7 DEF Rename
  <2>m. ASSUME d \notin met'
        PROVE  /\ file'[Final(d)] = <<res[w], w>>
               /\ \A v \in Workers : fd'[v] # Final(d) /\ fd[v] # Tmp(w)
               /\ \A v \in Workers \ {w} : Using(v) => Tmp(v) # Tmp(w)
    BY <2>0, <2>m, MovesOwn
  <2>1. Typed'
    BY <1>0, <2>0, Moves DEF Typed, Stages
  <2>2. ASSUME NEW u \in Workers PROVE Control(u)'
    BY <1>0, <1>7, Names DEF Rename, Replace, Control
  <2>3. ASSUME NEW e \in Dsts \ met' PROVE Sound(e)'
    <3>1. CASE e = d
      BY <2>0, <2>3, <2>m, <3>1, Moves DEF Sound, Whole
    <3>2. CASE e # d
      BY <1>0, <2>0, <3>2, Moves, Names DEF Sound, Whole
    <3>. QED BY <3>1, <3>2
  <2>4. ASSUME NEW u \in Workers, dst'[u] \in Dsts \ met' PROVE Intact(u)'
    <3>1. CASE dst[u] # d
      BY <1>0, <2>0, <2>4, <3>1, Moves, Names DEF Intact, Typed
    <3>2. CASE dst[u] = d /\ u # w
      <4>1. Using(u) => d \notin met /\ Tmp(u) # Tmp(w)
        BY <1>0, <2>0, <2>4, <2>m, <3>2, Names DEF Typed
      <4>2. file'[Final(d)] \notin {None, <<"short", u>>}
        BY <2>0, <2>4, <2>m, <3>2, Moves, Marks DEF Kinds
      <4>. QED BY <1>0, <2>0, <2>4, <2>m, <3>2, <4>1, <4>2, Moves, Names DEF Intact, Typed, Using
    <3>3. CASE u = w
      BY <2>0, <2>4, <2>m, <3>3, Moves DEF Intact
    <3>. QED BY <3>1, <3>2, <3>3
  <2>5. ASSUME NEW u \in Workers, NEW v \in Workers \ {u} PROVE Apart(v, u)'
    <3>1. SUFFICES ASSUME Using(u)', Using(v)', Tmp(u)' = Tmp(v)' PROVE dst[u] \in met'
      BY <2>0 DEF Apart
    <3>2. /\ u # w /\ v # w /\ Using(u) /\ Using(v) /\ Tmp(u) = Tmp(v) /\ dst[u] \in met
      BY <1>0, <2>0, <3>1 DEF Typed, Using, Apart
    <3>3. dst[u] = d => Tmp(u) = Tmp(w)
      BY <1>0, <3>2, Moves, Names DEF Typed
    <3>. QED BY <2>0, <2>m, <3>2, <3>3
  <2>. QED BY <2>1, <2>2, <2>3, <2>4, <2>5 DEF SendInv
<1>8. ASSUME RenameFails(w) PROVE SendInv'
  <2>1. Typed'
    BY <1>0, <1>8, Moves DEF RenameFails, Typed, Stages
  <2>2. ASSUME NEW u \in Workers PROVE Control(u)'
    BY <1>0, <1>8, Names DEF RenameFails, Replace, Typed, Control
  <2>3. ASSUME NEW e \in Dsts \ met' PROVE Sound(e)'
    BY <1>0, <1>8, Names, Marks DEF RenameFails, Replace, Typed, Control, Sound, Whole, Intact
  <2>4. ASSUME NEW u \in Workers, dst'[u] \in Dsts \ met' PROVE Intact(u)'
    BY <1>0, <1>8, <2>4, Names DEF RenameFails, Replace, Typed, Control, Intact
  <2>5. ASSUME NEW u \in Workers, NEW v \in Workers \ {u} PROVE Apart(v, u)'
    BY <1>0, <1>8 DEF RenameFails, Apart, Using
  <2>. QED BY <2>1, <2>2, <2>3, <2>4, <2>5 DEF SendInv
<1>9. ASSUME Undo(w) PROVE SendInv'
  <2>1. Typed'
    <3>1. file' \in [Paths -> Contents \cup {None}]
      BY <1>0, <1>9 DEF Undo, Left, Typed
    <3>2. fd' \in [Workers -> Paths \cup {None}]
      BY <1>0, <1>9 DEF Undo, Typed
    <3>. QED BY <1>0, <1>9, <3>1, <3>2 DEF Undo, Typed, Stages
  <2>2. ASSUME NEW u \in Workers PROVE Control(u)'
    BY <1>0, <1>9, Names DEF Undo, Left, Typed, Control
  <2>3. ASSUME NEW e \in Dsts \ met' PROVE Sound(e)'
    BY <1>0, <1>9, Names, Marks DEF Undo, Left, Typed, Sound, Whole
  <2>4. ASSUME NEW u \in Workers, dst'[u] \in Dsts \ met' PROVE Intact(u)'
    BY <1>0, <1>9, <2>4, Names DEF Undo, Left, Typed, Control, Intact, Kinds
  <2>5. ASSUME NEW u \in Workers, NEW v \in Workers \ {u} PROVE Apart(v, u)'
    BY <1>0, <1>9 DEF Undo, Apart, Using
  <2>. QED BY <2>1, <2>2, <2>3, <2>4, <2>5 DEF SendInv
<1>10. ASSUME Succeed(w) PROVE SendInv'
  <2>1. Typed'
    BY <1>0, <1>10 DEF Succeed, End, Typed, Stages
  <2>2. ASSUME NEW u \in Workers PROVE Control(u)'
    BY <1>0, <1>10, Names DEF Succeed, End, Typed, Control
  <2>3. ASSUME NEW e \in Dsts \ met' PROVE Sound(e)'
    BY <1>0, <1>10 DEF Succeed, Sound, Whole
  <2>4. ASSUME NEW u \in Workers, dst'[u] \in Dsts \ met' PROVE Intact(u)'
    BY <1>0, <1>10, <2>4 DEF Succeed, End, Typed, Intact
  <2>5. ASSUME NEW u \in Workers, NEW v \in Workers \ {u} PROVE Apart(v, u)'
    BY <1>0, <1>10 DEF Succeed, End, Apart, Using
  <2>. QED BY <2>1, <2>2, <2>3, <2>4, <2>5 DEF SendInv
<1>11. ASSUME GiveUp(w) PROVE SendInv'
  <2>1. Typed'
    BY <1>0, <1>11 DEF GiveUp, End, Typed, Stages
  <2>2. ASSUME NEW u \in Workers PROVE Control(u)'
    BY <1>0, <1>11, Names DEF GiveUp, End, Typed, Control
  <2>3. ASSUME NEW e \in Dsts \ met' PROVE Sound(e)'
    BY <1>0, <1>11 DEF GiveUp, Sound, Whole
  <2>4. ASSUME NEW u \in Workers, dst'[u] \in Dsts \ met' PROVE Intact(u)'
    BY <1>0, <1>11, <2>4 DEF GiveUp, End, Typed, Intact
  <2>5. ASSUME NEW u \in Workers, NEW v \in Workers \ {u} PROVE Apart(v, u)'
    BY <1>0, <1>11 DEF GiveUp, End, Apart, Using
  <2>. QED BY <2>1, <2>2, <2>3, <2>4, <2>5 DEF SendInv
<1>12. ASSUME Die(w) PROVE SendInv'
  <2>1. Typed'
    BY <1>0, <1>12, Names DEF Die, End, Left, Typed, Stages
  <2>2. ASSUME NEW u \in Workers PROVE Control(u)'
    BY <1>0, <1>12 DEF Die, End, Typed, Control
  <2>3. ASSUME NEW e \in Dsts \ met' PROVE Sound(e)'
    BY <1>0, <1>12, Names DEF Die, Left, Sound, Whole
  <2>4. ASSUME NEW u \in Workers, dst'[u] \in Dsts \ met' PROVE Intact(u)'
    BY <1>0, <1>12, <2>4, Names DEF Die, End, Left, Typed, Intact
  <2>5. ASSUME NEW u \in Workers, NEW v \in Workers \ {u} PROVE Apart(v, u)'
    BY <1>0, <1>12 DEF Die, End, Typed, Apart, Using
  <2>. QED BY <2>1, <2>2, <2>3, <2>4, <2>5 DEF SendInv
<1>. QED BY <1>1, <1>2, <1>3, <1>4, <1>5, <1>6, <1>7, <1>8, <1>9, <1>10, <1>11, <1>12 DEF Step

\* The invariant is inductive.
LEMMA NextInv == SendInv /\ [Next]_vars => SendInv'
<1>1. ASSUME SendInv, UNCHANGED vars PROVE SendInv'
  BY <1>1 DEF vars, SendInv, Typed, Control, Sound, Whole, Intact, Using, Apart, Tmp
<1>. QED BY <1>1, StepInv DEF Next

\* Behind DstWhole: a sender streams to a file nobody else touches, or its dst is in met.
THEOREM SendInvariant == Spec => []SendInv
BY InitInv, NextInv, PTL DEF Spec

\* A rename puts a whole file at dst or nothing happens to dst, however many senders
\* stop, die or race.
THEOREM DstAlwaysWhole == Spec => []DstWhole
<1>1. SendInv => DstWhole
  BY DEF SendInv, Typed, Sound, DstWhole
<1>. QED BY <1>1, SendInvariant, PTL

\* Only a rename puts something else at dst, and it has a file to put there.
LEMMA StepKeeps ==
    ASSUME SendInv, NEW w \in Workers, Step(w), NEW d \in Dsts, file[Final(d)] # None
    PROVE  file'[Final(d)] # None
<1>. USE DEF Tmp
<1>0. Typed /\ Control(w) /\ (stage[w] # "out" => Tmp(w) # Final(d))
  BY Names DEF SendInv, Control
<1>1. ASSUME Replace(w), At(w, "rename") PROVE file'[Final(d)] # None
  BY <1>0, <1>1, Moves, Names
<1>2. CASE Chunk(w)
  <2>1. <<"spoilt", None>> # None
    BY Marks DEF Kinds
  <2>. QED BY <1>0, <1>2, <2>1, Names DEF Chunk, Typed
<1>3. ASSUME NEW r \in {"full", "short"}, Eof(w, r) PROVE file'[Final(d)] # None
  <2>1. <<r, w>> # None
    BY Marks DEF Kinds
  <2>. QED BY <1>0, <1>3, <2>1, Names DEF Eof, Typed
<1>4. CASE Create(w) \/ Undo(w) \/ Die(w)
  BY <1>0, <1>4, Names DEF Create, Undo, Die, Left, At, Typed
<1>. QED
  BY <1>1, <1>2, <1>3, <1>4
  DEF Step, Begin, CreateFails, StreamFails, Rename, RenameFails, Succeed, GiveUp

\* No Send that fails, is undone, dies or is overtaken takes away the file at dst.
THEOREM DstNeverVanishes == Spec => DstStays
<1>1. SendInv /\ [Next]_vars => [KeepsFiles]_vars
  BY StepKeeps DEF Next, KeepsFiles
<1>. QED BY <1>1, SendInvariant, PTL DEF Spec, DstStays

\* writeSuccess is reached only with a file at dst that is not the job's own short one.
THEOREM SuccessNeedsFile == Spec => SuccessVerified
<1>1. SendInv => SucceedsWithFile
  BY DEF SendInv, SucceedsWithFile, Succeed, At, Control, Intact
<1>. QED BY <1>1, SendInvariant, PTL DEF Spec, SuccessVerified

-----------------------------------------------------------------------------
\* What is shown of a dst changes with its file or with the senders' meeting only.
LEMMA SameShown ==
    ASSUME met' = met, \A d \in Dsts \ met : file'[Final(d)] = file[Final(d)]
    PROVE  Shown' = Shown
BY DEF Shown

\* A sender delivers with the rename, whether or not it learns of it, and only its own
\* whole stream; if it shared the temporary file, nothing is shown.
LEMMA RenameDelivers ==
    ASSUME SendInv, NEW w \in Workers, At(w, "rename"), Replace(w), UNCHANGED dst,
           \/ met' = met
           \/ Alone(w) /\ file[Tmp(w)] = <<res[w], w>> /\ met' = met \ {dst[w]}
    PROVE  UNCHANGED Atomic!avars \/ Atomic!Deliver(w, res[w])
<1>. DEFINE d == dst[w]
<1>1. /\ d \in Dsts /\ d # None
      /\ \A p \in Paths \ {Final(d), Tmp(w)} : file'[p] = file[p]
  BY Moves, NoneAssumption
<1>2. \A e \in Dsts \ {d} : file'[Final(e)] = file[Final(e)]
  BY <1>1, Names DEF Tmp
<1>3. CASE d \in met'
  BY <1>2, <1>3, SameShown DEF Atomic!avars
<1>4. CASE d \notin met'
  <2>1. file'[Final(d)] = <<res[w], w>>
    BY <1>4, MovesOwn
  <2>2. Shown' = [Shown EXCEPT ![d] = <<res[w], w>>]
    BY <1>1, <1>2, <1>4, <2>1 DEF Shown
  <2>. QED BY <1>1, <2>2 DEF Atomic!Deliver
<1>. QED BY <1>3, <1>4

\* Only senders of an FTP dst can come to use one temporary file.
LEMMA CreateSpoils ==
    ASSUME SendInv, NEW w \in Workers, Create(w)
    PROVE  UNCHANGED Atomic!avars \/ Atomic!Spoil(w)
<1>. DEFINE d == dst[w]
<1>0. d \in Dsts /\ Typed
  BY DEF SendInv, Control, Create, At
<1>1. \A e \in Dsts : file'[Final(e)] = file[Final(e)]
  BY <1>0, Names DEF Create, Tmp, Typed
<1>2. CASE met' = met
  BY <1>1, <1>2, SameShown DEF Atomic!avars, Create
<1>3. CASE met' = met \cup {d} /\ ~Alone(w)
  <2>1. PICK v \in Workers \ {w} : Writing(v) /\ Tmp(v) = Tmp(w)
    BY <1>3 DEF Alone
  <2>2. dst[v] \in Dsts
    BY <2>1 DEF SendInv, Control, Writing
  <2>3. d \notin Locals
    BY <1>0, <2>1, <2>2, Names DEF Tmp
  <2>4. Shown' = [Shown EXCEPT ![d] = <<"spoilt", None>>]
    BY <1>0, <1>1, <1>3 DEF Shown
  <2>. QED BY <1>0, <2>3, <2>4 DEF Atomic!Spoil, Create
<1>. QED BY <1>2, <1>3 DEF Create

\* Every step of a sender is a step of the atomic replacement, or shows nothing.
LEMMA AtomicStep ==
    ASSUME SendInv, NEW w \in Workers, Step(w)
    PROVE  [Atomic!ANext]_(Atomic!avars)
<1>0. Typed /\ Control(w)
  BY DEF SendInv
<1>1. ASSUME NEW d \in Dsts, Begin(w, d) PROVE Atomic!Begin(w, d)
  BY <1>0, <1>1 DEF Begin, Control, At, Atomic!Begin, Shown
<1>2. ASSUME Create(w) PROVE UNCHANGED Atomic!avars \/ Atomic!Spoil(w)
  BY <1>2, CreateSpoils
<1>3. ASSUME CreateFails(w) \/ StreamFails(w) PROVE UNCHANGED Atomic!avars
  BY <1>3 DEF CreateFails, StreamFails, Atomic!avars, Shown
<1>4. ASSUME UNCHANGED <<dst, met>>, NEW p \in {Tmp(w), fd[w]}, dst[w] \in Dsts,
             \A q \in Paths \ {p} : file'[q] = file[q],
             p # None
      PROVE  UNCHANGED Atomic!avars
  <2>1. \A d \in Dsts \ met : p # Final(d)
    BY <1>4, Names DEF SendInv, Sound, Tmp
  <2>. QED BY <1>4, <2>1, Names, SameShown DEF Atomic!avars
<1>5. ASSUME Chunk(w) PROVE UNCHANGED Atomic!avars
  <2>1. fd[w] # None /\ dst[w] \in Dsts /\ UNCHANGED <<dst, met>>
    BY <1>0, <1>5 DEF Chunk, Control, At
  <2>2. \A q \in Paths \ {fd[w]} : file'[q] = file[q]
    BY <1>0, <1>5 DEF Chunk, Typed
  <2>. QED BY <1>4, <2>1, <2>2
<1>6. ASSUME NEW r \in {"full", "short"}, Eof(w, r) PROVE UNCHANGED Atomic!avars
  <2>0. dst[w] \in Dsts /\ UNCHANGED <<dst, met>>
    BY <1>0, <1>6 DEF Eof, Control, At
  <2>1. CASE fd[w] # None
    <3>1. \A q \in Paths \ {fd[w]} : file'[q] = file[q]
      BY <1>0, <1>6 DEF Eof, Typed
    <3>. QED BY <1>4, <2>0, <2>1, <3>1
  <2>2. CASE fd[w] = None
    BY <1>6, <2>0, <2>2 DEF Eof, Atomic!avars, Shown
  <2>. QED BY <2>1, <2>2
<1>7. ASSUME Rename(w) PROVE UNCHANGED Atomic!avars \/ Atomic!Deliver(w, res[w])
  BY <1>7, RenameDelivers DEF Rename
<1>8. ASSUME RenameFails(w) PROVE UNCHANGED Atomic!avars \/ Atomic!Deliver(w, res[w])
  <2>1. CASE UNCHANGED file
    BY <1>8, <2>1 DEF RenameFails, Atomic!avars, Shown
  <2>2. CASE Replace(w)
    BY <1>8, <2>2, RenameDelivers DEF RenameFails
  <2>. QED BY <1>8, <2>1, <2>2 DEF RenameFails
<1>9. ASSUME Undo(w) PROVE UNCHANGED Atomic!avars
  <2>1. Tmp(w) # None /\ dst[w] \in Dsts /\ UNCHANGED <<dst, met>>
    BY <1>0, <1>9, Names DEF Undo, Control, At, Tmp
  <2>2. \A q \in Paths \ {Tmp(w)} : file'[q] = file[q]
    BY <1>0, <1>9 DEF Undo, Left, Typed
  <2>. QED BY <1>4, <2>1, <2>2
<1>10. ASSUME Succeed(w) \/ GiveUp(w) PROVE Atomic!End(w)
  BY <1>0, <1>10, NoneAssumption DEF Succeed, GiveUp, End, At, Control, Atomic!End, Shown
<1>11. ASSUME Die(w) PROVE Atomic!End(w)
  <2>1. dst[w] \in Dsts /\ dst[w] # None /\ met' = met
    BY <1>0, <1>11, NoneAssumption DEF Die, At, Control
  <2>2. \A e \in Dsts : file'[Final(e)] = file[Final(e)]
    BY <1>0, <1>11, <2>1, Names DEF Die, Left, Tmp, Typed
  <2>3. Shown' = Shown
    BY <2>1, <2>2, SameShown
  <2>. QED BY <1>11, <2>1, <2>3 DEF Die, End, Atomic!End
<1>12. res[w] # None => res[w] \in {"full", "short"}
  BY <1>0 DEF Typed
<1>13. At(w, "rename") => res[w] \in {"full", "short"}
  BY <1>0, <1>12 DEF Control, At
<1>. QED
  BY <1>1, <1>2, <1>3, <1>5, <1>6, <1>7, <1>8, <1>9, <1>10, <1>11, <1>13
  DEF Step, Rename, RenameFails, Atomic!ANext

\* Send implements the atomic replacement of dst, for any number of senders and
\* destinations, through every failure, kill and meeting.
THEOREM SendIsAtomic == Spec => ImplementsAtomicReplace
<1>1. Init => Atomic!AInit
  BY Names DEF Init, Atomic!AInit, Shown
<1>2. SendInv /\ [Next]_vars => [Atomic!ANext]_(Atomic!avars)
  <2>1. ASSUME UNCHANGED vars PROVE UNCHANGED Atomic!avars
    BY <2>1 DEF vars, Atomic!avars, Shown
  <2>. QED BY <2>1, AtomicStep DEF Next
<1>. QED BY <1>1, <1>2, SendInvariant, PTL DEF Spec, ImplementsAtomicReplace, Atomic!ASpec
=============================================================================
