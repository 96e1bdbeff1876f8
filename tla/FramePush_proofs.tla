------------------------- MODULE FramePush_proofs -------------------------
(***************************************************************************)
(* No frame is lost or reordered on the way to any number of browsers, for *)
(* every capacity of their channels.                                       *)
(***************************************************************************)
EXTENDS FramePush, TLAPS

---------------------------------------------------------------------------
(* What the operations on a pipe do to it *)

\* A send adds m at the end.
LEMMA AppendPipe ==
  ASSUME NEW q \in Seq(Messages), NEW m \in Messages
  PROVE  /\ Append(q, m) \in Seq(Messages)
         /\ Len(Append(q, m)) = Len(q) + 1
         /\ \A i \in 1..Len(q) : Append(q, m)[i] = q[i]
         /\ Append(q, m)[Len(q) + 1] = m
  OBVIOUS

\* A write takes the first message away.
LEMMA TailPipe ==
  ASSUME NEW q \in Seq(Messages), q # << >>
  PROVE  /\ Tail(q) \in Seq(Messages)
         /\ Len(q) \in Nat \ {0}
         /\ Len(Tail(q)) = Len(q) - 1
         /\ \A i \in 1..Len(q) - 1 : Tail(q)[i] = q[i + 1]
         /\ Head(q) = q[1] /\ q[1] \in Messages
  OBVIOUS

\* A change of the framebuffer leaves nothing fresh.
LEMMA StalePipe ==
  ASSUME NEW q \in Seq(Messages)
  PROVE  LET r == [i \in 1..Len(q) |-> Stale(q[i])]
         IN  /\ r \in Seq(Messages)
             /\ Len(r) = Len(q)
             /\ \A i \in 1..Len(q) : r[i] \notin Fresh
  <1> DEFINE r == [i \in 1..Len(q) |-> Stale(q[i])]
  <1>1. Len(q) \in Nat
    OBVIOUS
  <1>2. \A i \in 1..Len(q) : Stale(q[i]) \in Messages /\ Stale(q[i]) \notin Fresh
    BY DEF Stale, Messages, Fresh, Outdated
  <1>3. r \in Seq(Messages)
    BY <1>1, <1>2
  <1> QED BY <1>1, <1>2, <1>3

---------------------------------------------------------------------------
(* Types *)

\* A bridge that starts has nothing to show and nobody to show it to.
LEMMA InitIInv == Init => IInv
  <1> SUFFICES ASSUME Init PROVE IInv
    OBVIOUS
  <1>1. TypeOK
    <2>1. << >> \in Seq(Messages) /\ Len(<< >>) = 0
      OBVIOUS
    <2>2. pipe \in [Viewers -> Seq(Messages)]
      BY <2>1 DEF Init
    <2>3. \A s \in Viewers : Len(pipe[s]) <= (IF s \in busy THEN Cap + 1 ELSE Cap)
      <3>1. \A s \in Viewers : Len(pipe[s]) = 0
        BY <2>1 DEF Init
      <3>2. 0 <= Cap /\ 0 <= Cap + 1
        BY CapAssumption
      <3> QED BY <3>1, <3>2
    <2> QED BY <2>2, <2>3 DEF Init, TypeOK, None
  <1>2. LatestOnItsWay
    BY DEF Init, LatestOnItsWay, subs
  <1>3. PushesInOrder /\ OldPush /\ Holding
    BY DEF Init, PushesInOrder, InOrder, OldPush, Holding, None
  <1> QED BY <1>1, <1>2, <1>3 DEF IInv

\* What a decoded packet does to the variables it may touch.
LEMMA DecodeTypes ==
  ASSUME TypeOK, NEW o \in Outcomes, Decode(o), agg' \in BOOLEAN
  PROVE  TypeOK'
  <1>1. CASE o = "change"
    <2>1. \A s \in Viewers : /\ pipe'[s] \in Seq(Messages)
                             /\ Len(pipe'[s]) = Len(pipe[s])
      BY <1>1, StalePipe DEF Decode, TypeOK
    <2>2. pipe' \in [Viewers -> Seq(Messages)]
      BY <1>1, <2>1 DEF Decode
    <2>3. buf' \in {"push", "oldPush", None} /\ initial' \in [Viewers -> {"init", "oldInit", None}]
      BY <1>1 DEF Decode, TypeOK, Stale, None
    <2> QED BY <1>1, <2>1, <2>2, <2>3 DEF Decode, TypeOK
  <1>2. CASE o # "change"
    BY <1>2 DEF Decode, TypeOK
  <1> QED BY <1>1, <1>2

\* What a send to every subscriber does to the pipes.
LEMMA SentTypes ==
  ASSUME TypeOK, NEW m \in Messages, pipe' = sentToAll(m)
  PROVE  /\ pipe' \in [Viewers -> Seq(Messages)]
         /\ \A s \in Viewers : Len(pipe'[s]) <= (IF s \in busy THEN Cap + 1 ELSE Cap)
  <1>1. ASSUME NEW s \in Viewers
        PROVE  /\ pipe'[s] \in Seq(Messages)
               /\ Len(pipe'[s]) <= (IF s \in busy THEN Cap + 1 ELSE Cap)
    BY <1>1, AppendPipe, CapAssumption DEF TypeOK, sentToAll, HasRoom
  <1> QED BY <1>1 DEF sentToAll

\* Every step keeps the types.
LEMMA NextTypeOK == TypeOK /\ Holding /\ [Next]_vars => TypeOK'
  <1> SUFFICES ASSUME TypeOK, Holding, [Next]_vars PROVE TypeOK'
    OBVIOUS
  <1>1. ASSUME NEW o \in Outcomes, TileStart(o) \/ TileCont(o) \/ RawTile(o) PROVE TypeOK'
    BY <1>1, DecodeTypes DEF TileStart, TileCont, RawTile, TypeOK, viewerVars
  <1>2. CASE HandleCursorShape
    BY <1>2, SentTypes DEF HandleCursorShape, TypeOK, fbVars, Messages
  <1>3. CASE Teardown \/ Serialize
    BY <1>3 DEF Teardown, Serialize, TypeOK, viewerVars
  <1>4. CASE Broadcast
    BY <1>4, SentTypes DEF Broadcast, TypeOK, fbVars, Messages, Fresh, Outdated, subs, None
  <1>5. ASSUME NEW s \in Viewers, Subscribe(s) \/ SerializeInitial(s) PROVE TypeOK'
    BY <1>5 DEF Subscribe, SerializeInitial, TypeOK, fbVars
  <1>6. ASSUME NEW s \in Viewers, QueueInitial(s) PROVE TypeOK'
    <2>1. initial[s] \in Messages
      BY <1>6 DEF QueueInitial, TypeOK, Holding, Messages, Fresh, Outdated
    <2>2. pipe' \in [Viewers -> Seq(Messages)]
      BY <1>6, <2>1, AppendPipe DEF QueueInitial, TypeOK
    <2>3. \A t \in Viewers : Len(pipe'[t]) <= (IF t \in busy' THEN Cap + 1 ELSE Cap)
      BY <1>6, <2>1, AppendPipe, CapAssumption DEF QueueInitial, TypeOK, HasRoom
    <2>4. missed' \subseteq Viewers
      BY <1>6 DEF QueueInitial, TypeOK
    <2> QED BY <1>6, <2>2, <2>3, <2>4 DEF QueueInitial, TypeOK, fbVars
  <1>7. ASSUME NEW s \in Viewers, Take(s) PROVE TypeOK'
    BY <1>7, CapAssumption DEF Take, TypeOK, fbVars
  <1>8. ASSUME NEW s \in Viewers, Written(s) \/ WriteError(s) PROVE TypeOK'
    <2>1. /\ Tail(pipe[s]) \in Seq(Messages)
          /\ Len(Tail(pipe[s])) = Len(pipe[s]) - 1 /\ Len(pipe[s]) \in Nat \ {0}
          /\ Head(pipe[s]) \in Messages
      BY <1>8, TailPipe DEF Written, WriteError, TypeOK, Holding
    <2>2. /\ pipe' = [pipe EXCEPT ![s] = Tail(@)] /\ busy' = busy \ {s}
          /\ UNCHANGED <<fbVars, buf, stage, initial, missed>>
      BY <1>8 DEF Written, WriteError
    <2>3. screen' \in [Viewers -> Fresh \cup {None}] /\ gone' \subseteq Viewers
      <3>1. drawn(Head(pipe[s]), screen[s]) \in Fresh \cup {None}
        BY DEF drawn, TypeOK
      <3>2. CASE Written(s)
        BY <3>1, <3>2 DEF Written, TypeOK
      <3>3. CASE WriteError(s)
        BY <3>3 DEF WriteError, TypeOK
      <3> QED BY <1>8, <3>2, <3>3
    <2>4. \A t \in Viewers : Len(pipe'[t]) <= (IF t \in busy' THEN Cap + 1 ELSE Cap)
      BY <2>1, <2>2, CapAssumption DEF TypeOK
    <2> QED BY <2>1, <2>2, <2>3, <2>4 DEF TypeOK, fbVars
  <1>9. CASE UNCHANGED vars
    BY <1>9 DEF vars, fbVars, viewerVars, TypeOK
  <1> QED
    BY <1>1, <1>2, <1>3, <1>4, <1>5, <1>6, <1>7, <1>8, <1>9
    DEF Next, HandleVideoFrame, ServeWS, WriteWS

---------------------------------------------------------------------------
(* What the operations on a pipe do to what it ends in *)

\* A send keeps a pipe in order when an old push meets no newer one.
LEMMA SendKeeps ==
  ASSUME TypeOK, NEW s \in Viewers, NEW m \in Messages,
         pipe'[s] = Append(pipe[s], m), screen'[s] = screen[s]
  PROVE  /\ InOrder(s) /\ (m = "oldPush" => NoPush(s)) => InOrder(s)'
         /\ NoPush(s) /\ m # "push" => NoPush(s)'
         /\ m \in Fresh => EndsFresh(s)'
         /\ EndsFresh(s) /\ m \notin Outdated => EndsFresh(s)'
  <1>0. PICK n \in Nat : n = Len(pipe[s])
    BY DEF TypeOK
  <1>1. n \in Nat /\ n = Len(pipe[s]) /\ pipe[s] \in Seq(Messages)
    BY <1>0 DEF TypeOK
  <1>2. /\ Len(pipe'[s]) = n + 1
        /\ \A i \in 1..n : pipe'[s][i] = pipe[s][i]
        /\ pipe'[s][n + 1] = m
    BY <1>1, AppendPipe
  <1>3. \A i \in 0..n : At(s, i)' = At(s, i)
    BY <1>1, <1>2 DEF At
  <1>4. At(s, n + 1)' = m
    <2>1. n + 1 # 0
      BY <1>1
    <2> QED BY <1>2, <2>1 DEF At
  <1>5. InOrder(s) /\ (m = "oldPush" => NoPush(s)) => InOrder(s)'
    BY <1>1, <1>2, <1>3, <1>4 DEF InOrder, NoPush
  <1>6. ASSUME NoPush(s), m # "push" PROVE NoPush(s)'
    <2> SUFFICES ASSUME NEW i \in 0..n + 1 PROVE At(s, i)' # "push"
      BY <1>2 DEF NoPush
    <2>1. i \in 0..n \/ i = n + 1
      BY <1>1
    <2>2. \A k \in 0..n : At(s, k) # "push"
      BY <1>1, <1>6 DEF NoPush
    <2> QED BY <1>3, <1>4, <1>6, <2>1, <2>2
  <1>7. ASSUME m \in Fresh PROVE EndsFresh(s)'
    <2>1. n + 1 \in 0..Len(pipe'[s]) /\ \A j \in 1..Len(pipe'[s]) : ~(j > n + 1)
      BY <1>1, <1>2
    <2>2. At(s, n + 1)' \in Fresh
      BY <1>4, <1>7
    <2> QED BY <2>1, <2>2 DEF EndsFresh
  <1>8. ASSUME EndsFresh(s), m \notin Outdated PROVE EndsFresh(s)'
    <2>1. PICK i \in 0..n : /\ At(s, i) \in Fresh
                            /\ \A j \in 1..n : j > i => pipe[s][j] \notin Outdated
      BY <1>1, <1>8 DEF EndsFresh
    <2>2. i \in 0..Len(pipe'[s]) /\ At(s, i)' \in Fresh
      BY <1>1, <1>2, <1>3, <2>1
    <2>3. \A j \in 1..Len(pipe'[s]) : j > i => pipe'[s][j] \notin Outdated
      BY <1>1, <1>2, <1>8, <2>1
    <2> QED BY <2>2, <2>3 DEF EndsFresh
  <1> QED BY <1>5, <1>6, <1>7, <1>8

\* A write moves the first message to the screen, or nowhere when it fails.
LEMMA WriteKeeps ==
  ASSUME TypeOK, NEW s \in Viewers, pipe[s] # << >>, pipe'[s] = Tail(pipe[s]),
         \/ screen'[s] = drawn(Head(pipe[s]), screen[s])
         \/ screen'[s] = None
  PROVE  /\ InOrder(s) => InOrder(s)'
         /\ NoPush(s) => NoPush(s)'
         /\ screen'[s] = drawn(Head(pipe[s]), screen[s]) /\ EndsFresh(s) => EndsFresh(s)'
  <1> DEFINE n == Len(pipe[s])
  <1>1. /\ n \in Nat \ {0} /\ Len(pipe'[s]) = n - 1
        /\ \A i \in 1..n - 1 : pipe'[s][i] = pipe[s][i + 1]
        /\ Head(pipe[s]) = pipe[s][1] /\ pipe[s][1] \in Messages
    BY TailPipe DEF TypeOK
  <1>2. \A i \in 1..n - 1 : At(s, i)' = At(s, i + 1)
    BY <1>1 DEF At
  <1>3. At(s, 0)' = screen'[s] /\ At(s, 0) = screen[s] /\ At(s, 1) = pipe[s][1]
    BY DEF At
  <1>4. screen'[s] \in {screen[s], pipe[s][1], None}
    BY <1>1 DEF drawn
  <1> HIDE DEF n
  <1>5. ASSUME InOrder(s) PROVE InOrder(s)'
    <2> SUFFICES ASSUME NEW i \in 0..n - 1, NEW j \in 1..n - 1, i < j, At(s, i)' = "push"
                 PROVE  pipe'[s][j] # "oldPush"
      BY <1>1 DEF InOrder
    <2>1. \A k \in 0..n, l \in 1..n : k < l /\ At(s, k) = "push" => pipe[s][l] # "oldPush"
      BY <1>5 DEF InOrder, n
    <2>2. j + 1 \in 1..n /\ pipe'[s][j] = pipe[s][j + 1]
      BY <1>1
    <2>3. CASE i = 0
      <3>1. At(s, 0) = "push" \/ At(s, 1) = "push"
        BY <1>3, <1>4, <2>3 DEF None
      <3> QED BY <1>1, <2>1, <2>2, <3>1
    <2>4. CASE i # 0
      <3>1. At(s, i + 1) = "push" /\ i + 1 \in 0..n
        BY <1>1, <1>2, <2>4
      <3> QED BY <1>1, <2>1, <2>2, <3>1
    <2> QED BY <2>3, <2>4
  <1>6. ASSUME NoPush(s) PROVE NoPush(s)'
    <2> SUFFICES ASSUME NEW i \in 0..n - 1 PROVE At(s, i)' # "push"
      BY <1>1 DEF NoPush
    <2>1. \A k \in 0..n : At(s, k) # "push"
      BY <1>6 DEF NoPush, n
    <2>2. CASE i = 0
      BY <1>1, <1>3, <1>4, <2>1, <2>2 DEF None
    <2>3. CASE i # 0
      BY <1>1, <1>2, <2>1, <2>3
    <2> QED BY <2>2, <2>3
  <1>7. ASSUME EndsFresh(s), screen'[s] = drawn(Head(pipe[s]), screen[s]) PROVE EndsFresh(s)'
    <2>1. PICK i \in 0..n : /\ At(s, i) \in Fresh
                            /\ \A j \in 1..n : j > i => pipe[s][j] \notin Outdated
      BY <1>7 DEF EndsFresh, n
    <2>2. \A j \in 1..n - 1 : j + 1 \in 1..n /\ (j + 1 > i => pipe'[s][j] \notin Outdated)
      BY <1>1, <2>1
    <2>3. CASE i \in {0, 1}
      <3>1. At(s, 0)' \in Fresh
        BY <1>1, <1>3, <1>7, <2>1, <2>3 DEF drawn, Fresh, Outdated, Messages
      <3>2. 0 \in 0..Len(pipe'[s]) /\ \A j \in 1..Len(pipe'[s]) : j > 0 => pipe'[s][j] \notin Outdated
        BY <1>1, <2>2, <2>3
      <3> QED BY <3>1, <3>2 DEF EndsFresh
    <2>4. CASE i \notin {0, 1}
      <3>1. i - 1 \in 1..n - 1 /\ At(s, i - 1)' \in Fresh
        BY <1>1, <1>2, <2>1, <2>4
      <3>2. \A j \in 1..Len(pipe'[s]) : j > i - 1 => pipe'[s][j] \notin Outdated
        <4> SUFFICES ASSUME NEW j \in 1..n - 1, j > i - 1 PROVE pipe'[s][j] \notin Outdated
          BY <1>1
        <4>1. j + 1 > i
          BY <1>1, <2>1
        <4> QED BY <2>2, <4>1
      <3> QED BY <1>1, <3>1, <3>2 DEF EndsFresh
    <2> QED BY <2>3, <2>4
  <1> QED BY <1>5, <1>6, <1>7

---------------------------------------------------------------------------
(* The inductive invariant *)

\* Nothing is a push, and nothing is behind a push, once the screen has changed.
LEMMA DecodeKeeps ==
  ASSUME IInv, NEW o \in Outcomes, Decode(o)
  PROVE  LatestOnItsWay' /\ PushesInOrder' /\ OldPush' /\ Holding'
  <1> USE DEF IInv
  <1>1. CASE o = "change"
    <2>1. dirty' = TRUE
      BY <1>1 DEF Decode, TypeOK
    <2>2. ASSUME NEW s \in Viewers PROVE NoPush(s)' /\ InOrder(s)'
      <3>1. /\ Len(pipe'[s]) = Len(pipe[s]) /\ Len(pipe[s]) \in Nat
            /\ \A i \in 1..Len(pipe[s]) : pipe'[s][i] \notin Fresh
        BY <1>1, StalePipe DEF Decode, TypeOK
      <3>2. screen'[s] = None
        BY <1>1 DEF Decode
      <3>3. NoPush(s)'
        BY <3>1, <3>2 DEF NoPush, At, None, Fresh
      <3> QED BY <3>3 DEF NoPush, InOrder
    <2>3. Holding'
      <3>1. \A s \in Viewers : initial'[s] = None <=> initial[s] = None
        <4>1. \A s \in Viewers : initial'[s] = Stale(initial[s]) /\ initial[s] \in {"init", "oldInit", None}
          BY <1>1 DEF Decode, TypeOK
        <4> QED BY <4>1 DEF Stale, None
      <3>2. \A s \in Viewers : pipe[s] # << >> => pipe'[s] # << >>
        <4>1. \A s \in Viewers : /\ pipe[s] \in Seq(Messages) /\ pipe'[s] \in Seq(Messages)
                                 /\ Len(pipe'[s]) = Len(pipe[s])
          BY <1>1, StalePipe DEF Decode, TypeOK
        <4> QED BY <4>1
      <3> QED BY <3>1, <3>2 DEF Decode, Holding
    <2> QED BY <2>1, <2>2, <2>3 DEF LatestOnItsWay, PushesInOrder, OldPush
  <1>2. CASE o # "change"
    <2>1. UNCHANGED <<buf, viewerVars>> /\ (dirty => dirty')
      BY <1>2 DEF Decode, viewerVars
    <2> QED
      BY <2>1
      DEF viewerVars, LatestOnItsWay, EndsFresh, subs, PushesInOrder, InOrder, OldPush, NoPush, Holding, At
  <1> QED BY <1>1, <1>2

\* What the steps of pushLoop, and of the cursor, do to all the pipes.
LEMMA SentKeeps ==
  ASSUME IInv, NEW m \in Messages, pipe' = sentToAll(m), UNCHANGED <<busy, screen, stage, initial>>,
         m = "oldPush" => \A s \in Viewers : NoPush(s)
  PROVE  /\ PushesInOrder' /\ Holding'
         /\ \A s \in Viewers : NoPush(s) /\ m # "push" => NoPush(s)'
         /\ \A s \in subs : HasRoom(s) /\ m \in Fresh => EndsFresh(s)'
         /\ \A s \in Viewers : EndsFresh(s) /\ m \notin Outdated => EndsFresh(s)'
  <1> USE DEF IInv
  <1>1. ASSUME NEW s \in Viewers
        PROVE  /\ InOrder(s)'
               /\ NoPush(s) /\ m # "push" => NoPush(s)'
               /\ s \in subs /\ HasRoom(s) /\ m \in Fresh => EndsFresh(s)'
               /\ EndsFresh(s) /\ m \notin Outdated => EndsFresh(s)'
               /\ pipe[s] # << >> => pipe'[s] # << >>
    <2>1. InOrder(s)
      BY DEF PushesInOrder
    <2>2. CASE s \in subs /\ HasRoom(s)
      <3>1. pipe'[s] = Append(pipe[s], m) /\ screen'[s] = screen[s]
        BY <2>2 DEF sentToAll
      <3>2. pipe'[s] # << >>
        <4>1. Len(pipe'[s]) = Len(pipe[s]) + 1 /\ Len(pipe[s]) \in Nat
          BY <3>1, AppendPipe DEF TypeOK
        <4> QED BY <4>1
      <3> QED BY <2>1, <3>1, <3>2, SendKeeps
    <2>3. CASE ~(s \in subs /\ HasRoom(s))
      <3>1. pipe'[s] = pipe[s] /\ screen'[s] = screen[s]
        BY <2>3 DEF sentToAll
      <3> QED BY <2>1, <2>3, <3>1 DEF InOrder, NoPush, EndsFresh, At
    <2> QED BY <2>2, <2>3
  <1>2. subs \subseteq Viewers
    BY DEF subs
  <1> QED BY <1>1, <1>2 DEF PushesInOrder, Holding

\* Every step keeps the invariant.
LEMMA NextIInv == IInv /\ [Next]_vars => IInv'
  <1> SUFFICES ASSUME IInv, [Next]_vars
               PROVE  LatestOnItsWay' /\ PushesInOrder' /\ OldPush' /\ Holding'
    BY NextTypeOK DEF IInv
  <1> DEFINE Goal == LatestOnItsWay' /\ PushesInOrder' /\ OldPush' /\ Holding'
  <1>0. TypeOK /\ LatestOnItsWay /\ PushesInOrder /\ OldPush /\ Holding
    BY DEF IInv
  <1>1. ASSUME UNCHANGED <<dirty, buf, viewerVars>> PROVE Goal
    BY <1>0, <1>1
    DEF viewerVars, LatestOnItsWay, EndsFresh, subs, PushesInOrder, InOrder, OldPush, NoPush, Holding, At
  <1>2. ASSUME NEW o \in Outcomes, TileStart(o) \/ TileCont(o) \/ RawTile(o) PROVE Goal
    BY <1>1, <1>2, DecodeKeeps DEF TileStart, TileCont, RawTile
  <1>3. CASE HandleCursorShape
    <2>1. /\ PushesInOrder' /\ Holding'
          /\ \A s \in Viewers : NoPush(s) => NoPush(s)'
          /\ \A s \in Viewers : EndsFresh(s) => EndsFresh(s)'
      BY <1>3, SentKeeps DEF HandleCursorShape, Messages, Fresh, Outdated
    <2> QED BY <1>0, <1>3, <2>1 DEF HandleCursorShape, fbVars, LatestOnItsWay, OldPush, subs
  <1>4. CASE Teardown
    BY <1>1, <1>4 DEF Teardown
  <1>5. CASE Serialize
    <2>1. buf' = "push" /\ UNCHANGED viewerVars
      BY <1>5 DEF Serialize
    <2> QED
      BY <1>0, <2>1 DEF viewerVars, LatestOnItsWay, PushesInOrder, InOrder, OldPush, Holding, At
  <1>6. CASE Broadcast
    <2>1. buf \in Messages /\ (buf \in Fresh <=> buf = "push") /\ buf' = None
      BY <1>0, <1>6 DEF Broadcast, TypeOK, Messages, Fresh, Outdated
    <2>2. /\ PushesInOrder' /\ Holding'
          /\ \A s \in subs : HasRoom(s) /\ buf \in Fresh => EndsFresh(s)'
      BY <1>0, <1>6, <2>1, SentKeeps DEF Broadcast, OldPush
    <2>3. OldPush'
      BY <2>1 DEF OldPush, None
    <2>4. LatestOnItsWay'
      BY <1>0, <1>6, <2>1, <2>2 DEF Broadcast, LatestOnItsWay, OldPush, TypeOK, fbVars, subs
    <2> QED BY <2>2, <2>3, <2>4
  <1>7. ASSUME NEW s \in Viewers, Subscribe(s) \/ SerializeInitial(s) PROVE Goal
    <2>1. UNCHANGED <<dirty, buf, pipe, busy, gone, screen, missed>>
      BY <1>7 DEF Subscribe, SerializeInitial, fbVars
    <2>2. \A t \in Viewers : /\ EndsFresh(t) => EndsFresh(t)'
                             /\ InOrder(t) => InOrder(t)'
                             /\ NoPush(t) => NoPush(t)'
      BY <2>1 DEF EndsFresh, InOrder, NoPush, At
    <2>3. PushesInOrder' /\ OldPush'
      BY <1>0, <2>1, <2>2 DEF PushesInOrder, OldPush
    <2>4. /\ \A t \in Viewers \ {s} : initial'[t] = initial[t] /\ stage'[t] = stage[t]
          /\ \/ stage'[s] = "subscribed" /\ initial'[s] = None
             \/ stage'[s] = "serialized" /\ initial'[s] = "init"
      <3>1. CASE Subscribe(s)
        <4>1. initial[s] = None
          BY <1>0, <3>1 DEF Subscribe, Holding
        <4> QED BY <1>0, <3>1, <4>1 DEF Subscribe, TypeOK
      <3>2. CASE SerializeInitial(s)
        BY <1>0, <3>2 DEF SerializeInitial, TypeOK
      <3> QED BY <1>7, <3>1, <3>2
    <2>5. Holding'
      BY <1>0, <2>1, <2>4 DEF Holding, None
    <2>6. LatestOnItsWay'
      BY <1>0, <2>1, <2>2, <2>4 DEF LatestOnItsWay, subs
    <2> QED BY <2>3, <2>5, <2>6
  <1>8. ASSUME NEW s \in Viewers, QueueInitial(s) PROVE Goal
    <2>1. initial[s] \in {"init", "oldInit"} /\ initial[s] \in Messages
      BY <1>0, <1>8 DEF QueueInitial, TypeOK, Holding, Messages, Fresh, Outdated
    <2>2. \A t \in Viewers \ {s} : pipe'[t] = pipe[t] /\ initial'[t] = initial[t] /\ stage'[t] = stage[t]
      BY <1>0, <1>8 DEF QueueInitial, TypeOK
    <2>3. \A t \in Viewers \ {s} : /\ InOrder(t) => InOrder(t)'
                                   /\ NoPush(t) => NoPush(t)'
                                   /\ EndsFresh(t) => EndsFresh(t)'
      BY <1>8, <2>2 DEF QueueInitial, InOrder, NoPush, EndsFresh, At
    <2>4. /\ InOrder(s) => InOrder(s)'
          /\ NoPush(s) => NoPush(s)'
          /\ HasRoom(s) /\ initial[s] = "init" => EndsFresh(s)'
          /\ pipe[s] # << >> => pipe'[s] # << >>
      <3>1. CASE HasRoom(s)
        <4>1. pipe'[s] = Append(pipe[s], initial[s]) /\ screen'[s] = screen[s]
          BY <1>0, <1>8, <3>1 DEF QueueInitial, TypeOK
        <4>2. Len(pipe'[s]) = Len(pipe[s]) + 1 /\ Len(pipe[s]) \in Nat
          BY <1>0, <2>1, <4>1, AppendPipe DEF TypeOK
        <4>3. pipe'[s] # << >>
          BY <4>2
        <4> QED BY <1>0, <2>1, <4>1, <4>3, SendKeeps DEF Fresh
      <3>2. CASE ~HasRoom(s)
        <4>1. UNCHANGED <<pipe, screen>>
          BY <1>8, <3>2 DEF QueueInitial
        <4> QED BY <3>2, <4>1 DEF InOrder, NoPush, At
      <3> QED BY <3>1, <3>2
    <2>5. PushesInOrder' /\ OldPush'
      BY <1>0, <1>8, <2>3, <2>4 DEF QueueInitial, fbVars, PushesInOrder, OldPush
    <2>6. Holding'
      <3>1. initial'[s] = None /\ stage'[s] = "served" /\ busy' = busy
        BY <1>0, <1>8 DEF QueueInitial, TypeOK
      <3> QED BY <1>0, <2>2, <2>4, <3>1 DEF Holding
    <2>7. LatestOnItsWay'
      <3> SUFFICES ASSUME NEW t \in Viewers, t \in subs', t \notin gone', t \notin missed',
                          ~dirty', buf' # "push", stage'[t] # "subscribed", initial'[t] # "init"
                   PROVE  EndsFresh(t)'
        BY DEF LatestOnItsWay, subs
      <3>1. dirty' = dirty /\ buf' = buf /\ gone' = gone /\ t \in subs
        BY <1>0, <1>8, <2>2 DEF QueueInitial, fbVars, subs, TypeOK
      <3>2. CASE t # s
        <4>1. t \notin missed
          BY <1>8, <3>2 DEF QueueInitial
        <4>2. EndsFresh(t)
          BY <1>0, <2>2, <3>1, <3>2, <4>1 DEF LatestOnItsWay
        <4> QED BY <2>3, <3>2, <4>2
      <3>3. CASE t = s
        <4>1. /\ HasRoom(s)
              /\ initial[s] = "init" \/ s \notin missed
          <5>1. s \notin missed'
            BY <3>3
          <5>2. ASSUME ~HasRoom(s) PROVE FALSE
            BY <1>8, <5>1, <5>2 DEF QueueInitial
          <5>3. ASSUME initial[s] # "init", s \in missed PROVE FALSE
            BY <1>8, <5>1, <5>3 DEF QueueInitial
          <5>4. HasRoom(s)
            BY <5>2
          <5>5. initial[s] = "init" \/ s \notin missed
            BY <5>3
          <5> QED BY <5>4, <5>5
        <4>2. CASE initial[s] = "init"
          BY <2>4, <3>3, <4>1, <4>2
        <4>3. CASE initial[s] # "init"
          <5>1. stage[s] # "subscribed"
            BY <1>8 DEF QueueInitial
          <5>2. ASSUME EndsFresh(s) PROVE FALSE
            BY <1>8, <3>3, <4>3, <5>2 DEF QueueInitial
          <5> QED BY <1>0, <3>1, <3>3, <4>1, <4>3, <5>1, <5>2 DEF LatestOnItsWay
        <4> QED BY <4>2, <4>3
      <3> QED BY <3>2, <3>3
    <2> QED BY <2>5, <2>6, <2>7
  <1>9. ASSUME NEW s \in Viewers, Take(s) PROVE Goal
    BY <1>0, <1>9
    DEF Take, fbVars, LatestOnItsWay, EndsFresh, subs, PushesInOrder, InOrder, OldPush, NoPush, Holding, At
  <1>10. ASSUME NEW s \in Viewers, Written(s) \/ WriteError(s) PROVE Goal
    <2>1. /\ pipe[s] # << >> /\ pipe'[s] = Tail(pipe[s]) /\ busy' = busy \ {s}
          /\ UNCHANGED <<dirty, buf, stage, initial, missed>>
          /\ \A t \in Viewers \ {s} : pipe'[t] = pipe[t] /\ screen'[t] = screen[t]
      BY <1>0, <1>10 DEF Written, WriteError, TypeOK, Holding, fbVars
    <2>2. \/ screen'[s] = drawn(Head(pipe[s]), screen[s]) /\ gone' = gone
          \/ screen'[s] = None /\ gone' = gone \cup {s}
      BY <1>0, <1>10 DEF Written, WriteError, TypeOK
    <2>3. \A t \in Viewers : /\ InOrder(t) => InOrder(t)'
                             /\ NoPush(t) => NoPush(t)'
                             /\ t \notin gone' /\ EndsFresh(t) => EndsFresh(t)'
      <3>1. \A t \in Viewers \ {s} : /\ InOrder(t) => InOrder(t)'
                                     /\ NoPush(t) => NoPush(t)'
                                     /\ EndsFresh(t) => EndsFresh(t)'
        BY <2>1 DEF InOrder, NoPush, EndsFresh, At
      <3>2. /\ InOrder(s) => InOrder(s)'
            /\ NoPush(s) => NoPush(s)'
            /\ s \notin gone' /\ EndsFresh(s) => EndsFresh(s)'
        BY <1>0, <2>1, <2>2, WriteKeeps
      <3> QED BY <3>1, <3>2
    <2>4. Holding'
      BY <1>0, <2>1 DEF Holding
    <2>5. PushesInOrder' /\ OldPush'
      BY <1>0, <2>1, <2>3 DEF PushesInOrder, OldPush
    <2>6. LatestOnItsWay'
      BY <1>0, <2>1, <2>2, <2>3 DEF LatestOnItsWay, subs
    <2> QED BY <2>4, <2>5, <2>6
  <1>11. CASE UNCHANGED vars
    BY <1>1, <1>11 DEF vars, fbVars
  <1> QED
    BY <1>2, <1>3, <1>4, <1>5, <1>6, <1>7, <1>8, <1>9, <1>10, <1>11
    DEF Next, HandleVideoFrame, ServeWS, WriteWS

\* The bridge is in the states of the inductive invariant for ever.
LEMMA Invariance == Spec => []IInv
  BY InitIInv, NextIInv, PTL DEF Spec

\* No channel ever holds more frames than it has places, for any number of
\* browsers that read slowly, hang or go away.
THEOREM TypeCorrect == Spec => []TypeOK
  <1>1. IInv => TypeOK
    BY DEF IInv
  <1> QED BY <1>1, Invariance, PTL

\* Clearing Dirty before the frame is sent loses no change: for each browser
\* that dropped or overtook nothing, the newest contents are on their way.
THEOREM NothingLost == Spec => []LatestOnItsWay
  <1>1. IInv => LatestOnItsWay
    BY DEF IInv
  <1> QED BY <1>1, Invariance, PTL

\* pushLoop's frames are queued and drawn in the order they were made.
THEOREM PushOrder == Spec => []PushesInOrder
  <1>1. IInv => PushesInOrder
    BY DEF IInv
  <1> QED BY <1>1, Invariance, PTL
===========================================================================
