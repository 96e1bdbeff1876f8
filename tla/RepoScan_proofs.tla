--------------------------- MODULE RepoScan_proofs ---------------------------
(***************************************************************************)
(* What the walks over the event log and the sensor records promise, for   *)
(* any number of requests, any log, any limit and any number of chunks.    *)
(*                                                                         *)
(* The inductive invariant ties a walk to the log: as long as the log is   *)
(* not cleared the record it reads next stands right behind the ones it    *)
(* has, and what is read of it under a reservation that stands is of the   *)
(* version in the repository.                                              *)
(***************************************************************************)
EXTENDS RepoScan, TLAPS

\* Record IDs name one record each.
IdsUnique ==
    /\ \A i \in DOMAIN log : log[i].id <= lastId
    /\ \A i, j \in DOMAIN log : log[i].id = log[j].id => i = j

\* A walk that is not under way has nothing.
IdleEmpty ==
    \A p \in Scanners : at[p] = "idle" =>
        out[p] = <<>> /\ buf[p] = <<>> /\ rid[p] = 0 /\ seen[p] = 0

\* A walk of the event log below its limit, and only such a walk, goes on.
BelowLimit ==
    \A p \in Scanners : (kind = "sel" /\ Scanning(p)) => Len(out[p]) < Limit

\* The walk stands right behind the records it has.
Behind(p) ==
    IF out[p] = <<>>
    THEN rid[p] = 0
    ELSE Len(out[p]) < Len(log) /\ rid[p] = log[Len(out[p]) + 1].id

WalkInv ==
    \A p \in Scanners \ cleared :
        /\ Len(out[p]) <= Len(log)
        /\ \A i \in DOMAIN out[p] : out[p][i] = log[i].id
        /\ seen[p] <= Len(log)
        /\ Scanning(p) => Behind(p)
        /\ at[p] = "done" => Len(out[p]) >= enough(p)

\* What is read of a record while the reservation stands is what the repository has.
ReadsCurrent(p) ==
    \E i \in Place(p) :
        /\ \A j \in DOMAIN buf[p] : buf[p][j] = log[i].ver
        /\ nxt[p] = following(i)

BufInv ==
    \A p \in Scanners : buf[p] # <<>> =>
        /\ kind = "sdr"
        /\ at[p] = "get"
        /\ p \in valid => ReadsCurrent(p)

IInv == TypeOK /\ IdsUnique /\ IdleEmpty /\ BelowLimit /\ WalkInv /\ BufInv /\ torn = {}

---------------------------------------------------------------------------

\* Before any request there is a repository and no walk.
LEMMA InitIInv == Init => IInv
<1> SUFFICES ASSUME Init PROVE IInv
    OBVIOUS
<1> USE DEF Init
<1>1. /\ log \in Seq([id : 1..MaxLog, ver : {0, 1}])
      /\ Len(log) = lastId
      /\ DOMAIN log = 1..lastId
      /\ \A i \in 1..lastId : log[i].id = i
    BY ScanAssumption
<1>2. TypeOK
    BY <1>1, ScanAssumption DEF TypeOK, parts, End
<1>3. IdsUnique
    BY <1>1 DEF IdsUnique
<1>4. IdleEmpty /\ BelowLimit /\ BufInv
    BY ScanAssumption DEF IdleEmpty, BelowLimit, BufInv, Scanning
<1>5. WalkInv
  <2> SUFFICES ASSUME NEW p \in Scanners
               PROVE /\ Len(out[p]) <= Len(log)
                     /\ \A i \in DOMAIN out[p] : out[p][i] = log[i].id
                     /\ seen[p] <= Len(log)
                     /\ at[p] = "idle"
      BY DEF WalkInv, Scanning
  <2>1. out[p] = <<>> /\ seen[p] = 0 /\ at[p] = "idle"
      OBVIOUS
  <2> QED
      BY <2>1, <1>1, ScanAssumption
<1> QED
    BY <1>2, <1>3, <1>4, <1>5 DEF IInv

---------------------------------------------------------------------------
(* What a walk reads *)

\* What stands in a sequence over S is in S.
LEMMA Element == ASSUME NEW S, NEW s \in Seq(S), NEW k \in DOMAIN s PROVE s[k] \in S
    OBVIOUS

\* The empty sequence is a sequence over S and has length zero.
LEMMA EmptySeq == ASSUME NEW S PROVE <<>> \in Seq(S) /\ Len(<<>>) = 0
    OBVIOUS

\* Changing a function at one place keeps its type.
LEMMA ExceptType ==
    ASSUME NEW S, NEW T, NEW f \in [S -> T], NEW x \in S, NEW e \in T
    PROVE  [f EXCEPT ![x] = e] \in [S -> T]
    OBVIOUS

\* The log's records and where they stand.
LEMMA LogElement ==
    ASSUME TypeOK
    PROVE  /\ Len(log) \in Nat /\ DOMAIN log = 1..Len(log)
           /\ \A k \in DOMAIN log : log[k].id \in 1..MaxLog /\ log[k].ver \in {0, 1}
<1>1. log \in Seq([id : 1..MaxLog, ver : {0, 1}])
    BY DEF TypeOK
<1>2. \A k \in DOMAIN log : log[k] \in [id : 1..MaxLog, ver : {0, 1}]
    BY <1>1, Element
<1> QED
    BY <1>1, <1>2

\* The record a walk asks for is the one behind those it has.
LEMMA PlaceIsBehind ==
    ASSUME IInv, NEW p \in Scanners \ cleared, at[p] = "get", NEW i \in Place(p)
    PROVE  i = Len(out[p]) + 1
<1> USE DEF IInv
<1>1. i \in DOMAIN log /\ (IF rid[p] = 0 THEN i = 1 ELSE log[i].id = rid[p])
    BY DEF Place
<1>2. Behind(p)
    BY DEF WalkInv, Scanning
<1>3. out[p] \in Seq(1..MaxLog) /\ log \in Seq([id : 1..MaxLog, ver : {0, 1}])
    BY DEF TypeOK
<1>4. CASE out[p] = <<>>
    BY <1>1, <1>2, <1>4 DEF Behind
<1>5. CASE out[p] # <<>>
  <2>1. Len(out[p]) < Len(log) /\ rid[p] = log[Len(out[p]) + 1].id
      BY <1>2, <1>5 DEF Behind
  <2>2. Len(out[p]) + 1 \in DOMAIN log
      BY <2>1, <1>3
  <2>3. rid[p] # 0
      BY <2>1, <2>2, LogElement, ScanAssumption
  <2> QED
      BY <2>1, <2>2, <2>3, <1>1 DEF IdsUnique
<1> QED
    BY <1>4, <1>5

\* The next record ID is that of the record behind, or the end mark.
LEMMA FollowingIs ==
    ASSUME TypeOK, NEW i \in DOMAIN log
    PROVE  /\ following(i) \in 1..End
           /\ following(i) = End <=> i = Len(log)
           /\ following(i) # End => i + 1 \in DOMAIN log /\ following(i) = log[i + 1].id
<1>1. log \in Seq([id : 1..MaxLog, ver : {0, 1}]) /\ i \in 1..Len(log) /\ Len(log) \in Nat
    BY DEF TypeOK
<1>2. CASE i < Len(log)
  <2>1. i + 1 \in DOMAIN log
      BY <1>1, <1>2
  <2>2. log[i + 1].id \in 1..MaxLog
      BY <2>1, LogElement
  <2> QED
      BY <2>1, <2>2, <1>1, <1>2, ScanAssumption DEF following, End
<1>3. CASE i = Len(log)
    BY <1>1, <1>3, ScanAssumption DEF following, End
<1> QED
    BY <1>1, <1>2, <1>3

\* Two places of one record ID are one place.
LEMMA PlaceUnique ==
    ASSUME IInv, NEW p \in Scanners, NEW i \in Place(p), NEW j \in Place(p)
    PROVE  i = j
    BY DEF IInv, IdsUnique, Place
---------------------------------------------------------------------------
(* The operations preserve the invariant *)

\* A record that is complete and of one version.
LEMMA StepOnKeeps ==
    ASSUME IInv, NEW p \in Scanners, at[p] = "get", p \in valid, NEW i \in Place(p),
           NEW vers, IsUniform(vers), stepOn(p, log[i].id, vers, following(i)),
           UNCHANGED <<repo, valid, seen, cleared>>
    PROVE  IInv'
<1> DEFINE n == following(i)
<1>1. i \in DOMAIN log /\ i \in 1..Len(log)
    BY LogElement DEF Place, IInv
<1>2. n \in 1..End /\ (n = End <=> i = Len(log))
    BY <1>1, FollowingIs DEF IInv
<1>3. n # End => i + 1 \in DOMAIN log /\ n = log[i + 1].id
    BY <1>1, FollowingIs DEF IInv
<1>4. log[i].id \in 1..MaxLog
    BY <1>1, LogElement DEF IInv
<1>5. /\ out' = [out EXCEPT ![p] = Append(@, log[i].id)]
      /\ torn' = torn
      /\ buf' = [buf EXCEPT ![p] = <<>>]
      /\ nxt' = [nxt EXCEPT ![p] = End]
      /\ \/ /\ n = End \/ (kind = "sdr" /\ n = rid[p]) \/ (kind = "sel" /\ Len(out[p]) + 1 >= Limit)
            /\ at' = [at EXCEPT ![p] = "done"] /\ rid' = rid
         \/ /\ n # End /\ ~(kind = "sel" /\ Len(out[p]) + 1 >= Limit)
            /\ rid' = [rid EXCEPT ![p] = n] /\ at' = at
    BY DEF stepOn
<1>6. /\ kind' = kind /\ log' = log /\ lastId' = lastId
      /\ valid' = valid /\ seen' = seen /\ cleared' = cleared
    BY DEF repo
<1>7. out[p] \in Seq(1..MaxLog) /\ Len(out[p]) \in Nat
    BY DEF IInv, TypeOK
<1>8. /\ out'[p] = Append(out[p], log[i].id)
      /\ out'[p] \in Seq(1..MaxLog)
      /\ Len(out'[p]) = Len(out[p]) + 1
      /\ \A q \in Scanners : q # p => out'[q] = out[q]
    BY <1>4, <1>5, <1>7 DEF IInv, TypeOK
<1>9. kind = "sel" => Len(out[p]) < Limit
    BY DEF IInv, BelowLimit, Scanning
<1>10. TypeOK'
  <2>1. rid' \in [Scanners -> 0..MaxLog]
    <3>1. n # End => n \in 0..MaxLog
        BY <1>2, ScanAssumption DEF End
    <3> QED
        BY <3>1, <1>5 DEF IInv, TypeOK
  <2>2. at' \in [Scanners \cup Clearers -> {"idle", "reserve", "get", "clear", "done"}]
      BY <1>5 DEF IInv, TypeOK
  <2>3. out' \in [Scanners -> Seq(1..MaxLog)]
      BY <1>5, <1>8 DEF IInv, TypeOK
  <2>4. buf' \in [Scanners -> Seq({0, 1})] /\ \A q \in Scanners : Len(buf'[q]) < parts'
    <3>1. /\ buf \in [Scanners -> Seq({0, 1})]
          /\ \A q \in Scanners : Len(buf[q]) < parts
        BY DEF IInv, TypeOK
    <3>2. parts' = parts /\ parts \in Nat \ {0}
        BY <1>6, ScanAssumption DEF parts
    <3>3. Len(buf'[p]) = 0 /\ \A q \in Scanners : q # p => buf'[q] = buf[q]
        BY <1>5, <3>1, EmptySeq
    <3>4. buf' \in [Scanners -> Seq({0, 1})]
      <4>1. <<>> \in Seq({0, 1})
          BY EmptySeq
      <4>2. [buf EXCEPT ![p] = <<>>] \in [Scanners -> Seq({0, 1})]
          BY <4>1, <3>1, ExceptType
      <4>3. buf' = [buf EXCEPT ![p] = <<>>]
          BY <1>5
      <4> QED
          BY <4>2, <4>3, Zenon
    <3>5. \A q \in Scanners : Len(buf'[q]) < parts'
        BY <3>1, <3>2, <3>3
    <3> QED
        BY <3>4, <3>5, Zenon
  <2>5. \A q \in Scanners : kind' = "sel" => Len(out'[q]) <= Limit
    <3>1. \A q \in Scanners : kind = "sel" => Len(out[q]) <= Limit
        BY DEF IInv, TypeOK
    <3>2. kind = "sel" => Len(out'[p]) <= Limit
        BY <1>7, <1>8, <1>9, ScanAssumption
    <3> QED
        BY <3>1, <3>2, <1>6, <1>8
  <2>6. nxt' \in [Scanners -> 1..End]
      BY <1>5, ScanAssumption DEF IInv, TypeOK, End
  <2> QED
      BY <2>1, <2>2, <2>3, <2>4, <2>5, <2>6, <1>5, <1>6 DEF IInv, TypeOK
<1>11. IdsUnique'
    BY <1>6 DEF IInv, IdsUnique
<1>12. IdleEmpty'
    BY <1>5, <1>6 DEF IInv, IdleEmpty, TypeOK
<1>13. BelowLimit'
  <2> SUFFICES ASSUME NEW q \in Scanners, kind = "sel", Scanning(q)'
               PROVE  Len(out'[q]) < Limit
      BY <1>6 DEF BelowLimit
  <2>1. CASE q # p
    <3>1. at'[q] = at[q] /\ out'[q] = out[q]
        BY <2>1, <1>5, <1>8 DEF IInv, TypeOK
    <3> QED
        BY <3>1 DEF IInv, BelowLimit, Scanning
  <2>2. CASE q = p
    <3>1. ~(Len(out[p]) + 1 >= Limit)
        BY <2>2, <1>5 DEF IInv, TypeOK, Scanning
    <3> QED
        BY <3>1, <2>2, <1>7, <1>8, ScanAssumption
  <2> QED
      BY <2>1, <2>2
<1>14. WalkInv'
  <2> SUFFICES ASSUME NEW q \in Scanners \ cleared
               PROVE  (/\ Len(out[q]) <= Len(log)
                       /\ \A k \in DOMAIN out[q] : out[q][k] = log[k].id
                       /\ seen[q] <= Len(log)
                       /\ Scanning(q) => Behind(q)
                       /\ at[q] = "done" => Len(out[q]) >= enough(q))'
      BY <1>6 DEF WalkInv
  <2>1. CASE q # p
      BY <2>1, <1>5, <1>6, <1>8 DEF IInv, WalkInv, Scanning, Behind, enough, LessOf, TypeOK
  <2>2. CASE q = p
    <3>1. i = Len(out[p]) + 1
        BY <2>2, PlaceIsBehind
    <3>2. Len(out'[p]) = i /\ \A k \in DOMAIN out'[p] : out'[p][k] = log[k].id
        BY <3>1, <1>7, <1>8, <2>2 DEF IInv, WalkInv
    <3>3. Len(out'[p]) <= Len(log) /\ seen[p] <= Len(log)
        BY <3>2, <1>1, <2>2 DEF IInv, WalkInv
    <3>4. ~(kind = "sdr" /\ n = rid[p] /\ n # End)
      <4> SUFFICES ASSUME n = rid[p], n # End PROVE FALSE
          OBVIOUS
      <4>1. rid[p] = log[i + 1].id /\ i + 1 \in DOMAIN log
          BY <1>3
      <4>2. rid[p] \in 1..MaxLog
          BY <4>1, LogElement DEF IInv
      <4>3. log[i].id = rid[p]
          BY <4>2, ScanAssumption DEF Place
      <4> QED
          BY <4>1, <4>3, <1>1 DEF IInv, IdsUnique
    <3>5. (Scanning(p) => Behind(p))'
      <4>1. SUFFICES ASSUME Scanning(p)' PROVE Behind(p)'
          OBVIOUS
      <4>2. n # End /\ rid' = [rid EXCEPT ![p] = n]
          BY <4>1, <1>5 DEF Scanning, IInv, TypeOK
      <4>3. rid'[p] = log[i + 1].id /\ i < Len(log)
        <5>1. rid \in [Scanners -> 0..MaxLog]
            BY DEF IInv, TypeOK
        <5>2. rid'[p] = n
            BY <4>2, <5>1
        <5> QED
            BY <4>2, <5>2, <1>1, <1>2, <1>3
      <4>4. out'[p] # <<>>
          BY <3>2, <1>1
      <4> QED
          BY <4>3, <4>4, <3>2, <1>6 DEF Behind
    <3>6. (at[p] = "done" => Len(out[p]) >= enough(p))'
      <4> SUFFICES ASSUME at'[p] = "done" PROVE Len(out'[p]) >= enough(p)'
          OBVIOUS
      <4>1. n = End \/ (kind = "sel" /\ Len(out[p]) + 1 >= Limit)
          BY <1>5, <3>4
      <4>2. Limit \in Nat /\ seen[p] \in Nat /\ Len(log) \in Nat /\ i \in Nat
        <5>1. TypeOK /\ seen \in [Scanners -> 0..MaxLog]
            BY DEF IInv, TypeOK
        <5>2. Len(log) \in Nat
            BY <5>1, LogElement
        <5> QED
            BY <5>1, <5>2, <1>1, ScanAssumption
      <4>3. i = Len(log) \/ (kind = "sel" /\ i >= Limit)
          BY <4>1, <3>1, <1>2
      <4>4. enough(p)' = IF kind = "sel" THEN LessOf(Limit, seen[p]) ELSE seen[p]
          BY <1>6 DEF enough
      <4> QED
          BY <4>2, <4>3, <4>4, <3>2, <3>3 DEF LessOf
    <3> QED
        BY <2>2, <3>2, <3>3, <3>5, <3>6, <1>6
  <2> QED
      BY <2>1, <2>2
<1>15. BufInv'
  <2> SUFFICES ASSUME NEW q \in Scanners, buf'[q] # <<>>
               PROVE  (kind = "sdr" /\ at[q] = "get" /\ (q \in valid => ReadsCurrent(q)))'
      BY DEF BufInv
  <2>1. q # p /\ buf'[q] = buf[q]
      BY <1>5 DEF IInv, TypeOK
  <2>2. kind = "sdr" /\ at[q] = "get" /\ (q \in valid => ReadsCurrent(q))
      BY <2>1 DEF IInv, BufInv
  <2>3. rid'[q] = rid[q] /\ nxt'[q] = nxt[q] /\ at'[q] = at[q]
      BY <2>1, <1>5 DEF IInv, TypeOK
  <2> QED
      BY <2>1, <2>2, <2>3, <1>6 DEF ReadsCurrent, Place, following
<1> QED
    BY <1>5, <1>10, <1>11, <1>12, <1>13, <1>14, <1>15 DEF IInv

\* The request is over and forgets what it had.
LEMMA AnsweredKeeps ==
    ASSUME IInv, NEW p \in Scanners \cup Clearers, answered(p), UNCHANGED <<repo, valid>>
    PROVE  IInv'
<1>1. /\ kind' = kind /\ log' = log /\ lastId' = lastId /\ valid' = valid
      /\ at' = [at EXCEPT ![p] = "idle"]
    BY DEF repo, answered
<1>2. CASE p \in Scanners
  <2>1. /\ rid' = [rid EXCEPT ![p] = 0]
        /\ nxt' = [nxt EXCEPT ![p] = End]
        /\ buf' = [buf EXCEPT ![p] = <<>>]
        /\ out' = [out EXCEPT ![p] = <<>>]
        /\ torn' = torn \ {p}
        /\ seen' = [seen EXCEPT ![p] = 0]
        /\ cleared' = cleared \ {p}
      BY <1>2 DEF answered
  <2>2. /\ out'[p] = <<>> /\ buf'[p] = <<>> /\ rid'[p] = 0 /\ seen'[p] = 0 /\ at'[p] = "idle"
        /\ Len(out'[p]) = 0 /\ Len(buf'[p]) = 0
      BY <2>1, <1>1, <1>2, EmptySeq DEF IInv, TypeOK
  <2>3. \A q \in Scanners : q # p =>
            /\ out'[q] = out[q] /\ buf'[q] = buf[q] /\ rid'[q] = rid[q]
            /\ seen'[q] = seen[q] /\ at'[q] = at[q] /\ nxt'[q] = nxt[q]
      BY <2>1, <1>1 DEF IInv, TypeOK
  <2>4. parts' = parts /\ parts \in Nat \ {0} /\ Limit \in Nat
      BY <1>1, ScanAssumption DEF parts
  <2>5. TypeOK'
    <3>1. /\ rid' \in [Scanners -> 0..MaxLog]
          /\ nxt' \in [Scanners -> 1..End]
          /\ seen' \in [Scanners -> 0..MaxLog]
          /\ at' \in [Scanners \cup Clearers -> {"idle", "reserve", "get", "clear", "done"}]
        BY <2>1, <1>1, <1>2, ScanAssumption DEF IInv, TypeOK, End
    <3>2. buf' \in [Scanners -> Seq({0, 1})] /\ out' \in [Scanners -> Seq(1..MaxLog)]
        BY <2>1, <1>2, EmptySeq, ExceptType DEF IInv, TypeOK
    <3>3. \A q \in Scanners : Len(buf'[q]) < parts' /\ (kind' = "sel" => Len(out'[q]) <= Limit)
      <4>1. \A q \in Scanners : Len(buf[q]) < parts /\ (kind = "sel" => Len(out[q]) <= Limit)
          BY DEF IInv, TypeOK
      <4> QED
          BY <4>1, <2>2, <2>3, <2>4, <1>1
    <3> QED
        BY <3>1, <3>2, <3>3, <2>1, <1>1 DEF IInv, TypeOK
  <2>6. IdsUnique' /\ torn' = {}
      BY <1>1, <2>1 DEF IInv, IdsUnique
  <2>7. IdleEmpty'
      BY <2>2, <2>3 DEF IInv, IdleEmpty
  <2>8. BelowLimit'
      BY <2>2, <2>3, <1>1 DEF IInv, BelowLimit, Scanning
  <2>9. WalkInv'
    <3> SUFFICES ASSUME NEW q \in Scanners \ cleared'
                 PROVE  (/\ Len(out[q]) <= Len(log)
                         /\ \A k \in DOMAIN out[q] : out[q][k] = log[k].id
                         /\ seen[q] <= Len(log)
                         /\ Scanning(q) => Behind(q)
                         /\ at[q] = "done" => Len(out[q]) >= enough(q))'
        BY DEF WalkInv
    <3>1. CASE q = p
        BY <3>1, <2>2, <1>1, LogElement DEF Scanning, IInv
    <3>2. CASE q # p
      <4>1. q \in Scanners \ cleared
          BY <3>2, <2>1
      <4> QED
          BY <4>1, <3>2, <2>3, <1>1 DEF IInv, WalkInv, Scanning, Behind, enough
    <3> QED
        BY <3>1, <3>2
  <2>10. BufInv'
      BY <2>2, <2>3, <1>1 DEF IInv, BufInv, ReadsCurrent, Place, following
  <2> QED
      BY <2>5, <2>6, <2>7, <2>8, <2>9, <2>10 DEF IInv
<1>3. CASE p \notin Scanners
  <2>1. /\ rid' = rid /\ nxt' = nxt /\ buf' = buf /\ out' = out /\ torn' = torn
        /\ seen' = seen /\ cleared' = cleared
      BY <1>3 DEF answered, walk
  <2>2. \A q \in Scanners : at'[q] = at[q]
      BY <1>1, <1>3 DEF IInv, TypeOK
  <2>3. TypeOK' /\ IdsUnique' /\ torn' = {}
      BY <1>1, <2>1 DEF IInv, TypeOK, parts, IdsUnique
  <2>4. IdleEmpty' /\ BelowLimit' /\ BufInv'
      BY <1>1, <2>1, <2>2 DEF IInv, IdleEmpty, BelowLimit, Scanning, BufInv, ReadsCurrent, Place, following
  <2>5. WalkInv'
      BY <1>1, <2>1, <2>2 DEF IInv, WalkInv, Scanning, Behind, enough
  <2> QED
      BY <2>3, <2>4, <2>5 DEF IInv
<1> QED
    BY <1>2, <1>3

\* A walk begins.
LEMMA StartScanKeeps == ASSUME IInv, NEW p \in Scanners, StartScan(p) PROVE IInv'
<1>1. /\ at[p] = "idle" /\ at' = [at EXCEPT ![p] = "reserve"]
      /\ seen' = [seen EXCEPT ![p] = Len(log)]
      /\ kind' = kind /\ log' = log /\ lastId' = lastId /\ valid' = valid
      /\ rid' = rid /\ nxt' = nxt /\ buf' = buf /\ out' = out /\ torn' = torn
      /\ cleared' = cleared
    BY DEF StartScan, repo, walk
<1>2. \A q \in Scanners : q # p => at'[q] = at[q] /\ seen'[q] = seen[q]
    BY <1>1 DEF IInv, TypeOK
<1>3. at'[p] = "reserve" /\ seen'[p] = Len(log)
    BY <1>1 DEF IInv, TypeOK
<1>4. out[p] = <<>> /\ buf[p] = <<>> /\ rid[p] = 0 /\ Len(out[p]) = 0
    BY <1>1, EmptySeq DEF IInv, IdleEmpty
<1>5. Len(log) \in 0..MaxLog
    BY LogElement, ScanAssumption DEF IInv, TypeOK
<1>6. seen' \in [Scanners -> 0..MaxLog]
    BY <1>1, <1>5, ExceptType DEF IInv, TypeOK
<1>7. TypeOK' /\ IdsUnique' /\ torn' = {}
    BY <1>1, <1>6 DEF IInv, TypeOK, parts, IdsUnique
<1>8. IdleEmpty' /\ BufInv'
    BY <1>1, <1>2, <1>3, <1>4 DEF IInv, IdleEmpty, BufInv, ReadsCurrent, Place, following
<1>9. BelowLimit'
    BY <1>1, <1>2, <1>3, <1>4, ScanAssumption DEF IInv, BelowLimit, Scanning
<1>10. WalkInv'
  <2> SUFFICES ASSUME NEW q \in Scanners \ cleared
               PROVE  (/\ Len(out[q]) <= Len(log)
                       /\ \A k \in DOMAIN out[q] : out[q][k] = log[k].id
                       /\ seen[q] <= Len(log)
                       /\ Scanning(q) => Behind(q)
                       /\ at[q] = "done" => Len(out[q]) >= enough(q))'
      BY <1>1 DEF WalkInv
  <2>1. CASE q = p
      BY <2>1, <1>1, <1>3, <1>4, <1>5 DEF Behind, Scanning
  <2>2. CASE q # p
      BY <2>2, <1>1, <1>2 DEF IInv, WalkInv, Scanning, Behind, enough
  <2> QED
      BY <2>1, <2>2
<1> QED
    BY <1>7, <1>8, <1>9, <1>10 DEF IInv

\* A reservation is made.
LEMMA ReserveKeeps == ASSUME IInv, NEW p \in Scanners \cup Clearers, Reserve(p) PROVE IInv'
<1>1. /\ at[p] = "reserve" /\ valid' = {p}
      /\ at' = [at EXCEPT ![p] = IF p \in Scanners THEN "get" ELSE "clear"]
      /\ kind' = kind /\ log' = log /\ lastId' = lastId
      /\ rid' = rid /\ nxt' = nxt /\ buf' = buf /\ out' = out /\ torn' = torn
      /\ seen' = seen /\ cleared' = cleared
    BY DEF Reserve, repo, walk
<1>2. \A q \in Scanners : q # p => at'[q] = at[q]
    BY <1>1 DEF IInv, TypeOK
<1>3. p \in Scanners => at'[p] = "get" /\ buf[p] = <<>>
    BY <1>1 DEF IInv, TypeOK, BufInv
<1>4. TypeOK' /\ IdsUnique' /\ torn' = {}
    BY <1>1 DEF IInv, TypeOK, parts, IdsUnique
<1>5. IdleEmpty' /\ BelowLimit'
    BY <1>1, <1>2, <1>3 DEF IInv, IdleEmpty, BelowLimit, Scanning
<1>6. WalkInv'
    BY <1>1, <1>2, <1>3 DEF IInv, WalkInv, Scanning, Behind, enough
<1>7. BufInv'
    BY <1>1, <1>2, <1>3 DEF IInv, BufInv
<1> QED
    BY <1>4, <1>5, <1>6, <1>7 DEF IInv

\* A walk whose reservation is cancelled drops the record it was reading.
LEMMA CancelledKeeps == ASSUME IInv, NEW p \in Scanners, Cancelled(p) PROVE IInv'
<1>1. /\ at[p] = "get" /\ at' = [at EXCEPT ![p] = "reserve"]
      /\ kind' = kind /\ log' = log /\ lastId' = lastId /\ valid' = valid
      /\ rid' = rid /\ out' = out /\ torn' = torn /\ seen' = seen /\ cleared' = cleared
    BY DEF Cancelled, repo
<1>2. buf' = [buf EXCEPT ![p] = <<>>] /\ nxt' = [nxt EXCEPT ![p] = End]
    BY DEF Cancelled
<1>3. \A q \in Scanners : q # p => at'[q] = at[q] /\ buf'[q] = buf[q] /\ nxt'[q] = nxt[q]
    BY <1>1, <1>2 DEF IInv, TypeOK
<1>4. at'[p] = "reserve" /\ buf'[p] = <<>> /\ Len(buf'[p]) = 0
    BY <1>1, <1>2, EmptySeq DEF IInv, TypeOK
<1>5. TypeOK'
  <2>1. buf' \in [Scanners -> Seq({0, 1})]
    <3>1. <<>> \in Seq({0, 1}) /\ buf \in [Scanners -> Seq({0, 1})]
        BY EmptySeq DEF IInv, TypeOK
    <3>2. [buf EXCEPT ![p] = <<>>] \in [Scanners -> Seq({0, 1})]
        BY <3>1, ExceptType
    <3> QED
        BY <3>2, <1>2, Zenon
  <2>2. \A q \in Scanners : Len(buf'[q]) < parts'
    <3>1. parts' = parts /\ parts \in Nat \ {0} /\ \A q \in Scanners : Len(buf[q]) < parts
        BY <1>1, ScanAssumption DEF parts, IInv, TypeOK
    <3> QED
        BY <3>1, <1>3, <1>4
  <2>3. nxt' \in [Scanners -> 1..End]
      BY <1>2, ScanAssumption DEF IInv, TypeOK, End
  <2> QED
      BY <2>1, <2>2, <2>3, <1>1 DEF IInv, TypeOK
<1>6. IdsUnique' /\ torn' = {}
    BY <1>1 DEF IInv, IdsUnique
<1>7. IdleEmpty' /\ BelowLimit'
    BY <1>1, <1>3, <1>4 DEF IInv, IdleEmpty, BelowLimit, Scanning
<1>8. WalkInv'
    BY <1>1, <1>3, <1>4 DEF IInv, WalkInv, Scanning, Behind, enough
<1>9. BufInv'
    BY <1>1, <1>3, <1>4 DEF IInv, BufInv, ReadsCurrent, Place, following
<1> QED
    BY <1>5, <1>6, <1>7, <1>8, <1>9 DEF IInv

\* A reply to a command is the record's, or the record's next part.
LEMMA GetEntryKeeps == ASSUME IInv, NEW p \in Scanners, GetEntry(p) PROVE IInv'
<1>1. at[p] = "get" /\ p \in valid /\ UNCHANGED <<repo, valid, seen, cleared>>
    BY DEF GetEntry
<1> DEFINE read(i) == Append(buf[p], log[i].ver)
           n(i) == IF buf[p] = <<>> THEN following(i) ELSE nxt[p]
<1>2. PICK i \in Place(p) :
        IF Len(read(i)) = parts
        THEN stepOn(p, log[i].id, read(i), n(i))
        ELSE /\ buf' = [buf EXCEPT ![p] = read(i)]
             /\ nxt' = [nxt EXCEPT ![p] = n(i)]
             /\ UNCHANGED <<at, rid, out, torn>>
    BY DEF GetEntry
<1>3. i \in DOMAIN log /\ log[i].ver \in {0, 1} /\ following(i) \in 1..End
    BY LogElement, FollowingIs DEF Place, IInv
<1>4. buf[p] \in Seq({0, 1}) /\ Len(buf[p]) \in Nat /\ Len(buf[p]) < parts
    BY DEF IInv, TypeOK
<1>5. /\ read(i) \in Seq({0, 1}) /\ Len(read(i)) = Len(buf[p]) + 1 /\ read(i) # <<>>
      /\ \A j \in DOMAIN read(i) :
            (j \in DOMAIN buf[p] /\ read(i)[j] = buf[p][j]) \/ read(i)[j] = log[i].ver
    BY <1>3, <1>4
<1>6. n(i) = following(i) /\ \A j \in DOMAIN read(i) : read(i)[j] = log[i].ver
  <2>1. CASE buf[p] = <<>>
      BY <2>1, <1>5
  <2>2. CASE buf[p] # <<>>
    <3>1. PICK k \in Place(p) : (\A j \in DOMAIN buf[p] : buf[p][j] = log[k].ver) /\ nxt[p] = following(k)
        BY <2>2, <1>1 DEF IInv, BufInv, ReadsCurrent
    <3>2. k = i
        BY <3>1, PlaceUnique
    <3> QED
        BY <3>1, <3>2, <1>5, <2>2
  <2> QED
      BY <2>1, <2>2
<1>7. CASE Len(read(i)) = parts
  <2>1. IsUniform(read(i))
      BY <1>6 DEF IsUniform
  <2>2. stepOn(p, log[i].id, read(i), following(i))
      BY <1>2, <1>6, <1>7
  <2> HIDE DEF read
  <2> QED
      BY <2>1, <2>2, <1>1, StepOnKeeps
<1>8. CASE Len(read(i)) # parts
  <2>1. /\ buf' = [buf EXCEPT ![p] = read(i)]
        /\ nxt' = [nxt EXCEPT ![p] = following(i)]
        /\ at' = at /\ rid' = rid /\ out' = out /\ torn' = torn
      BY <1>2, <1>6, <1>8
  <2>2. /\ kind' = kind /\ log' = log /\ lastId' = lastId
        /\ valid' = valid /\ seen' = seen /\ cleared' = cleared
      BY <1>1 DEF repo
  <2>3. parts' = parts /\ parts \in Nat
      BY <2>2, ScanAssumption DEF parts
  <2>4. Len(read(i)) < parts /\ kind = "sdr"
    <3>1. Len(buf[p]) + 1 # parts
        BY <1>5, <1>8
    <3> QED
        BY <3>1, <1>4, <1>5, <2>3 DEF parts, IInv, TypeOK
  <2>5. buf'[p] = read(i) /\ nxt'[p] = following(i)
      BY <2>1 DEF IInv, TypeOK
  <2>6. \A q \in Scanners : q # p => buf'[q] = buf[q] /\ nxt'[q] = nxt[q]
      BY <2>1 DEF IInv, TypeOK
  <2> HIDE DEF read, n
  <2>7. TypeOK'
    <3>1. buf' \in [Scanners -> Seq({0, 1})] /\ nxt' \in [Scanners -> 1..End]
      <4>1. [buf EXCEPT ![p] = read(i)] \in [Scanners -> Seq({0, 1})]
          BY <1>5, ExceptType DEF IInv, TypeOK
      <4>2. [nxt EXCEPT ![p] = following(i)] \in [Scanners -> 1..End]
          BY <1>3, ExceptType DEF IInv, TypeOK
      <4> QED
          BY <4>1, <4>2, <2>1
    <3>2. \A q \in Scanners : Len(buf'[q]) < parts'
      <4>1. \A q \in Scanners : Len(buf[q]) < parts
          BY DEF IInv, TypeOK
      <4> QED
          BY <4>1, <2>3, <2>4, <2>5, <2>6
    <3> QED
        BY <3>1, <3>2, <2>1, <2>2 DEF IInv, TypeOK
  <2>8. IdsUnique' /\ torn' = {} /\ BelowLimit'
      BY <2>1, <2>2 DEF IInv, IdsUnique, BelowLimit, Scanning
  <2>9. IdleEmpty'
      BY <2>1, <2>2, <2>6, <1>1 DEF IInv, IdleEmpty
  <2>10. WalkInv'
      BY <2>1, <2>2 DEF IInv, WalkInv, Scanning, Behind, enough
  <2>11. BufInv'
    <3> SUFFICES ASSUME NEW q \in Scanners, buf'[q] # <<>>
                 PROVE  (kind = "sdr" /\ at[q] = "get" /\ (q \in valid => ReadsCurrent(q)))'
        BY DEF BufInv
    <3>1. CASE q = p
      <4>1. Place(p)' = Place(p) /\ following(i)' = following(i)
          BY <2>1, <2>2 DEF Place, following
      <4>2. ReadsCurrent(p)'
          BY <4>1, <2>2, <2>5, <1>6 DEF ReadsCurrent
      <4> QED
          BY <4>2, <3>1, <2>1, <2>2, <2>4, <1>1
    <3>2. CASE q # p
        BY <3>2, <2>1, <2>2, <2>6 DEF IInv, BufInv, ReadsCurrent, Place, following
    <3> QED
        BY <3>1, <3>2
  <2> QED
      BY <2>7, <2>8, <2>9, <2>10, <2>11 DEF IInv
<1> QED
    BY <1>7, <1>8

\* A record that ends early is of one version too.
LEMMA EmptyChunkKeeps == ASSUME IInv, NEW p \in Scanners, EmptyChunk(p) PROVE IInv'
<1>1. /\ at[p] = "get" /\ p \in valid /\ buf[p] # <<>> /\ UNCHANGED <<repo, valid, seen, cleared>>
    BY DEF EmptyChunk
<1>2. PICK i \in Place(p) : stepOn(p, log[i].id, buf[p], nxt[p])
    BY DEF EmptyChunk
<1>3. PICK k \in Place(p) : (\A j \in DOMAIN buf[p] : buf[p][j] = log[k].ver) /\ nxt[p] = following(k)
    BY <1>1 DEF IInv, BufInv, ReadsCurrent
<1>4. k = i
    BY <1>2, <1>3, PlaceUnique
<1>5. IsUniform(buf[p]) /\ stepOn(p, log[i].id, buf[p], following(i))
    BY <1>2, <1>3, <1>4 DEF IsUniform
<1> QED
    BY <1>1, <1>5, StepOnKeeps

\* The log is cleared.
LEMMA ClearKeeps == ASSUME IInv, NEW c \in Clearers, ClearSEL(c) PROVE IInv'
<1>1. /\ at' = [at EXCEPT ![c] = "idle"]
      /\ kind' = kind /\ rid' = rid /\ nxt' = nxt /\ buf' = buf /\ out' = out /\ torn' = torn
      /\ seen' = seen
    BY DEF ClearSEL, walk
<1>2. \A q \in Scanners : at'[q] = at[q]
    BY <1>1, ActorsAssumption DEF IInv, TypeOK
<1>3. IdleEmpty' /\ BelowLimit' /\ torn' = {}
    BY <1>1, <1>2 DEF IInv, IdleEmpty, BelowLimit, Scanning
<1>4. CASE c \in valid
  <2>1. /\ log' = <<>> /\ lastId' \in {0, lastId} /\ valid' = {}
        /\ cleared' = {p \in Scanners : at[p] # "idle"}
      BY <1>4 DEF ClearSEL
  <2>2. log' \in Seq([id : 1..MaxLog, ver : {0, 1}]) /\ Len(log') = 0
      BY <2>1, EmptySeq
  <2>3. TypeOK'
      BY <2>1, <2>2, <1>1, ScanAssumption DEF IInv, TypeOK, parts
  <2>4. IdsUnique' /\ BufInv'
      BY <2>1, <1>1, <1>2 DEF IInv, IdsUnique, BufInv
  <2>5. WalkInv'
    <3> SUFFICES ASSUME NEW q \in Scanners \ cleared'
                 PROVE  (/\ Len(out[q]) <= Len(log)
                         /\ \A k \in DOMAIN out[q] : out[q][k] = log[k].id
                         /\ seen[q] <= Len(log)
                         /\ Scanning(q) => Behind(q)
                         /\ at[q] = "done" => Len(out[q]) >= enough(q))'
        BY DEF WalkInv
    <3>1. at'[q] = "idle" /\ at[q] = "idle"
        BY <2>1, <1>2
    <3>2. out'[q] = <<>> /\ seen'[q] = 0 /\ Len(out'[q]) = 0
        BY <3>1, <1>1, EmptySeq DEF IInv, IdleEmpty
    <3> QED
        BY <3>1, <3>2, <2>2 DEF Scanning
  <2> QED
      BY <2>3, <2>4, <2>5, <1>3 DEF IInv
<1>5. CASE c \notin valid
  <2>1. log' = log /\ lastId' = lastId /\ valid' = valid /\ cleared' = cleared
      BY <1>5 DEF ClearSEL
  <2>2. TypeOK' /\ IdsUnique'
      BY <2>1, <1>1 DEF IInv, TypeOK, parts, IdsUnique
  <2>3. WalkInv'
      BY <2>1, <1>1, <1>2 DEF IInv, WalkInv, Scanning, Behind, enough
  <2>4. BufInv'
      BY <2>1, <1>1, <1>2 DEF IInv, BufInv, ReadsCurrent, Place, following
  <2> QED
      BY <2>2, <2>3, <2>4, <1>3 DEF IInv
<1> QED
    BY <1>4, <1>5

\* The BMC adds a record.
LEMMA AppendKeeps == ASSUME IInv, Append1 PROVE IInv'
<1> DEFINE rec == [id |-> lastId + 1, ver |-> 0]
<1>1. /\ lastId < MaxLog /\ lastId' = lastId + 1 /\ log' = Append(log, rec)
      /\ valid' = IF kind = "sel" THEN valid ELSE {}
      /\ kind' = kind /\ at' = at
      /\ rid' = rid /\ nxt' = nxt /\ buf' = buf /\ out' = out /\ torn' = torn
      /\ seen' = seen /\ cleared' = cleared
    BY DEF Append1, walk
<1>2. lastId \in Nat /\ rec \in [id : 1..MaxLog, ver : {0, 1}]
    BY <1>1, ScanAssumption DEF IInv, TypeOK
<1>3. log \in Seq([id : 1..MaxLog, ver : {0, 1}]) /\ Len(log) \in Nat /\ DOMAIN log = 1..Len(log)
    BY DEF IInv, TypeOK
<1>4. /\ log' \in Seq([id : 1..MaxLog, ver : {0, 1}])
      /\ Len(log') = Len(log) + 1 /\ DOMAIN log' = 1..Len(log) + 1
      /\ \A k \in 1..Len(log) : log'[k] = log[k]
      /\ log'[Len(log) + 1] = rec
  <2> HIDE DEF rec
  <2> DEFINE R == [id : 1..MaxLog, ver : {0, 1}]
  <2>1. rec \in R /\ log \in Seq(R)
      BY <1>2, <1>3
  <2> HIDE DEF R
  <2>2. /\ log' \in Seq(R)
        /\ Len(log') = Len(log) + 1 /\ DOMAIN log' = 1..Len(log) + 1
        /\ \A k \in 1..Len(log) : log'[k] = log[k]
        /\ log'[Len(log) + 1] = rec
      BY <2>1, <1>1
  <2> QED
      BY <2>2 DEF R
<1>5. TypeOK'
  <2>1. lastId' \in 0..MaxLog /\ Len(log') <= lastId'
      BY <1>1, <1>2, <1>3, <1>4, ScanAssumption DEF IInv, TypeOK
  <2>2. valid' \subseteq Scanners \cup Clearers
      BY <1>1 DEF IInv, TypeOK
  <2> QED
      BY <2>1, <2>2, <1>1, <1>4 DEF IInv, TypeOK, parts
<1>6. IdsUnique'
  <2>1. rec.id = lastId + 1
      OBVIOUS
  <2>2. \A k \in 1..Len(log) : log'[k].id <= lastId /\ log'[k].id \in Nat
      BY <1>3, <1>4, LogElement DEF IInv, IdsUnique
  <2>3. \A i \in DOMAIN log' : i \in 1..Len(log) \/ (i = Len(log) + 1 /\ log'[i].id = lastId + 1)
      BY <1>3, <1>4, <2>1
  <2>4. \A i \in DOMAIN log' : log'[i].id <= lastId'
      BY <2>2, <2>3, <1>1, <1>2
  <2>5. ASSUME NEW i \in DOMAIN log', NEW j \in DOMAIN log', log'[i].id = log'[j].id
        PROVE  i = j
    <3>1. CASE i \in 1..Len(log) /\ j \in 1..Len(log)
        BY <3>1, <2>5, <1>3, <1>4 DEF IInv, IdsUnique
    <3>2. CASE ~(i \in 1..Len(log) /\ j \in 1..Len(log))
        BY <3>2, <2>5, <2>2, <2>3, <1>2
    <3> QED
        BY <3>1, <3>2
  <2> QED
      BY <2>4, <2>5 DEF IdsUnique
<1>7. IdleEmpty' /\ BelowLimit' /\ torn' = {}
    BY <1>1 DEF IInv, IdleEmpty, BelowLimit, Scanning
<1>8. WalkInv'
  <2> SUFFICES ASSUME NEW q \in Scanners \ cleared
               PROVE  (/\ Len(out[q]) <= Len(log)
                       /\ \A k \in DOMAIN out[q] : out[q][k] = log[k].id
                       /\ seen[q] <= Len(log)
                       /\ Scanning(q) => Behind(q)
                       /\ at[q] = "done" => Len(out[q]) >= enough(q))'
      BY <1>1 DEF WalkInv
  <2>1. /\ Len(out[q]) <= Len(log) /\ Len(out[q]) \in Nat /\ DOMAIN out[q] = 1..Len(out[q])
        /\ \A k \in DOMAIN out[q] : out[q][k] = log[k].id
        /\ seen[q] <= Len(log) /\ seen[q] \in Nat
        /\ Scanning(q) => Behind(q)
        /\ at[q] = "done" => Len(out[q]) >= enough(q)
      BY DEF IInv, WalkInv, TypeOK
  <2>2. Len(out[q]) <= Len(log') /\ seen[q] <= Len(log')
      BY <2>1, <1>3, <1>4
  <2>3. \A k \in DOMAIN out[q] : out[q][k] = log'[k].id
      BY <2>1, <1>3, <1>4
  <2>4. (Scanning(q) => Behind(q))'
      BY <2>1, <1>1, <1>3, <1>4 DEF Scanning, Behind
  <2> QED
      BY <2>1, <2>2, <2>3, <2>4, <1>1 DEF enough
<1>9. BufInv'
    BY <1>1 DEF IInv, BufInv
<1> QED
    BY <1>5, <1>6, <1>7, <1>8, <1>9 DEF IInv

\* The BMC changes a sensor record.
LEMMA UpdateKeeps == ASSUME IInv, NEW i \in DOMAIN log, Update(i) PROVE IInv'
<1>1. /\ log' = [log EXCEPT ![i].ver = 1 - @] /\ valid' = {}
      /\ kind' = kind /\ lastId' = lastId /\ at' = at
      /\ rid' = rid /\ nxt' = nxt /\ buf' = buf /\ out' = out /\ torn' = torn
      /\ seen' = seen /\ cleared' = cleared
    BY DEF Update, walk
<1> DEFINE R == [id : 1..MaxLog, ver : {0, 1}]
           new == [log[i] EXCEPT !.ver = 1 - @]
<1>2. log \in Seq(R) /\ log[i] \in R
    BY Element DEF IInv, TypeOK
<1>3. new \in R /\ new.id = log[i].id
    BY <1>2
<1>4. log' = [log EXCEPT ![i] = new]
    BY <1>1
<1> HIDE DEF R, new
<1>5. /\ log' \in Seq(R) /\ DOMAIN log' = DOMAIN log /\ Len(log') = Len(log)
      /\ \A k \in DOMAIN log : log'[k] = IF k = i THEN new ELSE log[k]
    BY <1>2, <1>3, <1>4
<1>6. \A k \in DOMAIN log : log'[k].id = log[k].id
    BY <1>3, <1>5
<1>7. TypeOK'
    BY <1>1, <1>5 DEF IInv, TypeOK, parts, R
<1>8. IdsUnique' /\ torn' = {}
    BY <1>1, <1>5, <1>6 DEF IInv, IdsUnique
<1>9. IdleEmpty' /\ BelowLimit' /\ BufInv'
    BY <1>1 DEF IInv, IdleEmpty, BelowLimit, Scanning, BufInv
<1>10. WalkInv'
  <2> SUFFICES ASSUME NEW q \in Scanners \ cleared
               PROVE  (/\ Len(out[q]) <= Len(log)
                       /\ \A k \in DOMAIN out[q] : out[q][k] = log[k].id
                       /\ seen[q] <= Len(log)
                       /\ Scanning(q) => Behind(q)
                       /\ at[q] = "done" => Len(out[q]) >= enough(q))'
      BY <1>1 DEF WalkInv
  <2>1. /\ Len(out[q]) <= Len(log) /\ Len(out[q]) \in Nat /\ DOMAIN out[q] = 1..Len(out[q])
        /\ \A k \in DOMAIN out[q] : out[q][k] = log[k].id
        /\ seen[q] <= Len(log)
        /\ Scanning(q) => Behind(q)
        /\ at[q] = "done" => Len(out[q]) >= enough(q)
        /\ DOMAIN log = 1..Len(log) /\ Len(log) \in Nat
      BY LogElement DEF IInv, WalkInv, TypeOK
  <2>2. \A k \in DOMAIN out[q] : out[q][k] = log'[k].id
      BY <2>1, <1>6
  <2>3. (Scanning(q) => Behind(q))'
      BY <2>1, <1>1, <1>5, <1>6 DEF Scanning, Behind
  <2> QED
      BY <2>1, <2>2, <2>3, <1>1, <1>5 DEF enough
<1> QED
    BY <1>7, <1>8, <1>9, <1>10 DEF IInv

\* Steps that touch neither the repository nor what a walk has.
LEMMA OtherKeeps ==
    ASSUME IInv, (\E c \in Clearers : StartClear(c)) \/ Cancel \/ UNCHANGED vars
    PROVE  IInv'
<1>1. /\ kind' = kind /\ log' = log /\ lastId' = lastId
      /\ rid' = rid /\ nxt' = nxt /\ buf' = buf /\ out' = out /\ torn' = torn
      /\ seen' = seen /\ cleared' = cleared
    BY DEF StartClear, Cancel, vars, repo, walk
<1>2. valid' \subseteq valid /\ \A q \in Scanners : at'[q] = at[q]
    BY ActorsAssumption DEF StartClear, Cancel, vars, IInv, TypeOK
<1>3. TypeOK' /\ IdsUnique' /\ torn' = {}
  <2>1. at' \in [Scanners \cup Clearers -> {"idle", "reserve", "get", "clear", "done"}]
      BY DEF StartClear, Cancel, vars, IInv, TypeOK
  <2> QED
      BY <2>1, <1>1, <1>2 DEF IInv, TypeOK, parts, IdsUnique
<1>4. IdleEmpty' /\ BelowLimit'
    BY <1>1, <1>2 DEF IInv, IdleEmpty, BelowLimit, Scanning
<1>5. WalkInv'
    BY <1>1, <1>2 DEF IInv, WalkInv, Scanning, Behind, enough
<1>6. BufInv'
    BY <1>1, <1>2 DEF IInv, BufInv, ReadsCurrent, Place, following
<1> QED
    BY <1>3, <1>4, <1>5, <1>6 DEF IInv

\* Every step keeps the invariant.
LEMMA NextIInv == IInv /\ [Next]_vars => IInv'
<1> SUFFICES ASSUME IInv, [Next]_vars PROVE IInv'
    OBVIOUS
<1>1. ASSUME NEW p \in Scanners \cup Clearers, Step(p) PROVE IInv'
  <2>1. CASE Reserve(p)
      BY <2>1, ReserveKeeps
  <2>2. CASE Answer(p)
      BY <2>2, AnsweredKeeps DEF Answer
  <2>3. CASE p \in Scanners /\ Cancelled(p)
      BY <2>3, CancelledKeeps
  <2>4. CASE p \in Scanners /\ NotFound(p)
      BY <2>4, AnsweredKeeps DEF NotFound
  <2>5. CASE p \in Scanners /\ GetEntry(p)
      BY <2>5, GetEntryKeeps
  <2>6. CASE p \in Scanners /\ EmptyChunk(p)
      BY <2>6, EmptyChunkKeeps
  <2>7. CASE p \in Clearers /\ ClearSEL(p)
      BY <2>7, ClearKeeps
  <2> QED
      BY <1>1, <2>1, <2>2, <2>3, <2>4, <2>5, <2>6, <2>7 DEF Step
<1>2. ASSUME NEW p \in Scanners \cup Clearers, CallFails(p) PROVE IInv'
    BY <1>2, AnsweredKeeps DEF CallFails
<1>3. ASSUME NEW p \in Scanners, StartScan(p) PROVE IInv'
    BY <1>3, StartScanKeeps
<1>4. CASE Append1
    BY <1>4, AppendKeeps
<1>5. ASSUME NEW i \in DOMAIN log, Update(i) PROVE IInv'
    BY <1>5, UpdateKeeps
<1>6. CASE (\E c \in Clearers : StartClear(c)) \/ Cancel \/ UNCHANGED vars
    BY <1>6, OtherKeeps
<1> QED
    BY <1>1, <1>2, <1>3, <1>4, <1>5, <1>6 DEF Next

\* The invariant holds in every reachable state.
LEMMA Invariant == Spec => []IInv
    BY InitIInv, NextIInv, PTL DEF Spec

---------------------------------------------------------------------------
(* Theorems *)

\* Every variable of the walks keeps its type: no walk of the event log returns
\* more than it was asked for, and no record is read past its last part.
THEOREM TypeCorrect == Spec => []TypeOK
    BY Invariant, PTL DEF IInv

\* What ScanSEL and ScanSensors return while the log is not cleared is the
\* repository from its first record on, without gap or repetition, and all there
\* was when they began or as much as was asked for.
THEOREM PrefixWalks == Spec => []WalkIsPrefix
<1>1. IInv => WalkIsPrefix
    BY DEF IInv, WalkInv, WalkIsPrefix
<1> QED
    BY <1>1, Invariant, PTL

\* getSDRRecord never returns a record put together from two versions, although
\* the repository may change between any two of its commands.
THEOREM RecordsWhole == Spec => []NoTornRecord
<1>1. IInv => NoTornRecord
    BY DEF IInv, NoTornRecord
<1> QED
    BY <1>1, Invariant, PTL

---------------------------------------------------------------------------
(* A scan ends *)

\* The records a walk can still read, and the commands it can still give for the
\* one it reads.
entriesLeft(p) == (IF kind = "sel" THEN Limit ELSE MaxLog) - Len(out[p])
partsLeft(p) == parts - Len(buf[p])

Same(p) == entriesLeft(p)' = entriesLeft(p) /\ partsLeft(p)' = partsLeft(p)

Nearer(p) ==
    \/ entriesLeft(p)' < entriesLeft(p)
    \/ entriesLeft(p)' = entriesLeft(p) /\ partsLeft(p)' < partsLeft(p)

\* Every command that is answered brings the walk nearer to its end, and as long as
\* the walk goes on nothing takes it back but a reservation it lost: that costs what
\* is read of one record, never a record.
ScanShrinks ==
    \A p \in Scanners :
        /\ GetEntry(p) \/ EmptyChunk(p) => Nearer(p)
        /\ Scanning(p)' =>
            \/ Nearer(p)
            \/ Same(p)
            \/ Cancelled(p) /\ entriesLeft(p)' = entriesLeft(p) /\ partsLeft(p)' = parts

\* There is no command that clears the sensor records.
OnlySelCleared == kind = "sdr" => cleared = {} /\ \A c \in Clearers : at[c] = "idle"

\* No step of a handler clears them.
LEMMA NextOnlySelCleared == IInv /\ OnlySelCleared /\ [Next]_vars => OnlySelCleared'
<1> SUFFICES ASSUME IInv, OnlySelCleared, [Next]_vars, kind' = "sdr"
             PROVE  cleared' = {} /\ \A c \in Clearers : at'[c] = "idle"
    BY DEF OnlySelCleared
<1>1. kind' = kind
    BY DEF Next, vars, repo, Step, StartScan, Answer, Reserve, CallFails, Cancelled, NotFound,
           GetEntry, EmptyChunk, StartClear, ClearSEL, Append1, Update, Cancel
<1>2. kind = "sdr" /\ cleared = {} /\ \A c \in Clearers : at[c] = "idle"
    BY <1>1 DEF OnlySelCleared
<1>3. at \in [Scanners \cup Clearers -> {"idle", "reserve", "get", "clear", "done"}]
    BY DEF IInv, TypeOK
<1>4. ASSUME NEW p \in Scanners \cup Clearers, answered(p)
      PROVE  cleared' = {} /\ \A c \in Clearers : at'[c] = "idle"
    BY <1>2, <1>3, <1>4 DEF answered
<1>5. ASSUME NEW p \in Scanners, \/ StartScan(p) \/ Reserve(p) \/ Cancelled(p)
      PROVE  cleared' = {} /\ \A c \in Clearers : at'[c] = "idle"
    BY <1>2, <1>3, <1>5, ActorsAssumption DEF StartScan, Reserve, Cancelled
<1>6. ASSUME NEW p \in Scanners, GetEntry(p) \/ EmptyChunk(p)
      PROVE  cleared' = {} /\ \A c \in Clearers : at'[c] = "idle"
    <2>1. cleared' = cleared /\ (at' = at \/ at' = [at EXCEPT ![p] = "done"])
        BY <1>6 DEF GetEntry, EmptyChunk, stepOn
    <2> QED
        BY <1>2, <1>3, <2>1, ActorsAssumption
<1>7. ASSUME NEW c \in Clearers, Reserve(c) \/ ClearSEL(c) \/ StartClear(c) PROVE FALSE
    BY <1>2, <1>7 DEF Reserve, ClearSEL, StartClear
<1>8. ASSUME Append1 \/ Cancel \/ (\E i \in DOMAIN log : Update(i)) \/ UNCHANGED vars
      PROVE  cleared' = {} /\ \A c \in Clearers : at'[c] = "idle"
    BY <1>2, <1>8 DEF Append1, Cancel, Update, vars
<1> QED
    BY <1>4, <1>5, <1>6, <1>7, <1>8 DEF Next, Step, Answer, CallFails, NotFound

\* The sensor repository is never seen cleared.
LEMMA SdrInvariant == Spec => []OnlySelCleared
<1>1. Init => OnlySelCleared
    BY DEF Init, OnlySelCleared
<1> QED
    BY <1>1, NextOnlySelCleared, Invariant, PTL DEF Spec

\* A walk has a definite number of records and commands before it.
LEMMA LeftIsNat ==
    ASSUME IInv, OnlySelCleared, NEW p \in Scanners
    PROVE  entriesLeft(p) \in Nat /\ partsLeft(p) \in Nat
<1>1. /\ Limit \in Nat /\ Parts \in Nat /\ MaxLog \in Nat
      /\ kind \in {"sel", "sdr"}
      /\ out[p] \in Seq(1..MaxLog) /\ buf[p] \in Seq({0, 1})
      /\ Len(buf[p]) < parts
      /\ kind = "sel" => Len(out[p]) <= Limit
      /\ lastId \in 0..MaxLog /\ Len(log) <= lastId
      /\ log \in Seq([id : 1..MaxLog, ver : {0, 1}])
    BY ScanAssumption DEF IInv, TypeOK
<1>2. Len(out[p]) \in Nat /\ Len(buf[p]) \in Nat /\ Len(log) \in Nat
    BY <1>1
<1>3. kind = "sdr" => Len(out[p]) <= Len(log)
    BY DEF IInv, WalkInv, OnlySelCleared
<1>4. entriesLeft(p) \in Nat
    BY <1>1, <1>2, <1>3 DEF entriesLeft
<1>5. parts \in Nat
    BY <1>1 DEF parts
<1>6. partsLeft(p) \in Nat
    BY <1>1, <1>2, <1>5 DEF partsLeft
<1> QED
    BY <1>4, <1>6

\* A command that is answered.
LEMMA CommandNearer ==
    ASSUME IInv, NEW p \in Scanners, GetEntry(p) \/ EmptyChunk(p)
    PROVE  Nearer(p)
<1>1. kind' = kind
    BY DEF GetEntry, EmptyChunk, repo
<1>2. /\ out \in [Scanners -> Seq(1..MaxLog)] /\ buf \in [Scanners -> Seq({0, 1})]
      /\ log \in Seq([id : 1..MaxLog, ver : {0, 1}])
    BY DEF IInv, TypeOK
<1>3. Len(out[p]) \in Nat /\ Len(buf[p]) \in Nat
    BY <1>2
<1>4. Limit \in Nat /\ MaxLog \in Nat /\ parts \in Nat /\ parts' = parts
    BY <1>1, ScanAssumption DEF parts
<1>5. ASSUME NEW i \in Place(p), NEW vers, NEW n, stepOn(p, log[i].id, vers, n) PROVE Nearer(p)
    <2>1. log[i].id \in 1..MaxLog
        BY LogElement DEF IInv, Place
    <2>2. out'[p] = Append(out[p], log[i].id)
        BY <1>2, <1>5 DEF stepOn
    <2>3. Len(out'[p]) = Len(out[p]) + 1
        BY <1>2, <2>1, <2>2
    <2>4. PICK top \in Nat : top = IF kind = "sel" THEN Limit ELSE MaxLog
        BY <1>4
    <2>5. entriesLeft(p) = top - Len(out[p]) /\ entriesLeft(p)' = top - Len(out'[p])
        BY <1>1, <2>4 DEF entriesLeft
    <2>6. entriesLeft(p)' < entriesLeft(p)
        BY <1>3, <2>3, <2>4, <2>5
    <2> QED
        BY <2>6 DEF Nearer
<1>6. ASSUME NEW i \in Place(p), out' = out, buf' = [buf EXCEPT ![p] = Append(@, log[i].ver)]
      PROVE  Nearer(p)
    <2>1. log[i].ver \in {0, 1}
        BY LogElement DEF IInv, Place
    <2>2. Len(buf'[p]) = Len(buf[p]) + 1
        BY <1>2, <1>6, <2>1
    <2>3. entriesLeft(p)' = entriesLeft(p)
        BY <1>1, <1>6 DEF entriesLeft
    <2>4. partsLeft(p) = parts - Len(buf[p]) /\ partsLeft(p)' = parts - Len(buf'[p])
        BY <1>4 DEF partsLeft
    <2>5. partsLeft(p)' < partsLeft(p)
        BY <1>3, <1>4, <2>2, <2>4
    <2> QED
        BY <2>3, <2>5 DEF Nearer
<1> QED
    BY <1>5, <1>6 DEF GetEntry, EmptyChunk

\* What each step does to the walk of p.
LEMMA NextScanShrinks == IInv /\ [Next]_vars => ScanShrinks
<1> SUFFICES ASSUME IInv, [Next]_vars, NEW p \in Scanners, Scanning(p)'
             PROVE  \/ Nearer(p)
                    \/ Same(p)
                    \/ Cancelled(p) /\ entriesLeft(p)' = entriesLeft(p) /\ partsLeft(p)' = parts
    BY CommandNearer DEF ScanShrinks
<1>1. kind' = kind
    BY DEF Next, vars, repo, Step, StartScan, Answer, Reserve, CallFails, Cancelled, NotFound,
           GetEntry, EmptyChunk, StartClear, ClearSEL, Append1, Update, Cancel
<1>2. /\ out \in [Scanners -> Seq(1..MaxLog)] /\ buf \in [Scanners -> Seq({0, 1})]
      /\ at \in [Scanners \cup Clearers -> {"idle", "reserve", "get", "clear", "done"}]
    BY DEF IInv, TypeOK
<1>3. ASSUME out'[p] = out[p], buf'[p] = buf[p] PROVE Same(p)
    BY <1>1, <1>3 DEF Same, entriesLeft, partsLeft, parts
<1>4. ASSUME UNCHANGED walk PROVE Same(p)
    BY <1>3, <1>4 DEF walk
<1>5. ASSUME NEW q \in Scanners \cup Clearers, answered(q) PROVE Same(p)
    <2>1. q # p
        BY <1>2, <1>5 DEF answered, Scanning
    <2>2. out'[p] = out[p] /\ buf'[p] = buf[p]
        BY <1>2, <1>5, <2>1 DEF answered, walk
    <2> QED
        BY <1>3, <2>2
<1>6. ASSUME NEW q \in Scanners, q # p, GetEntry(q) \/ EmptyChunk(q) \/ Cancelled(q) PROVE Same(p)
    <2>1. out'[p] = out[p] /\ buf'[p] = buf[p]
        BY <1>2, <1>6 DEF GetEntry, EmptyChunk, Cancelled, stepOn
    <2> QED
        BY <1>3, <2>1
<1>7. ASSUME Cancelled(p) PROVE entriesLeft(p)' = entriesLeft(p) /\ partsLeft(p)' = parts
    <2>1. out' = out /\ buf'[p] = <<>>
        BY <1>2, <1>7 DEF Cancelled
    <2>2. parts' = parts /\ parts \in Nat
        BY <1>1, ScanAssumption DEF parts
    <2>3. partsLeft(p)' = parts - 0
        BY <2>1, <2>2, EmptySeq DEF partsLeft
    <2> QED
        BY <1>1, <2>1, <2>2, <2>3 DEF entriesLeft
<1>8. ASSUME NEW q \in Scanners \cup Clearers, Reserve(q) \/ StartScan(q) \/ StartClear(q) \/ ClearSEL(q)
      PROVE  Same(p)
    BY <1>4, <1>8 DEF Reserve, StartScan, StartClear, ClearSEL
<1>9. ASSUME Append1 \/ Cancel \/ (\E i \in DOMAIN log : Update(i)) \/ UNCHANGED vars PROVE Same(p)
    BY <1>4, <1>9 DEF Append1, Cancel, Update, vars
<1> QED
    BY <1>5, <1>6, <1>7, <1>8, <1>9, CommandNearer DEF Next, Step, Answer, CallFails, NotFound

\* ScanSEL and ScanSensors end when their reservation lasts: each answered command
\* takes a walk down in a well-founded order, entries before commands, whatever the
\* other requests and the BMC do, and a lost reservation never costs a record.
THEOREM ScansMakeProgress ==
    Spec => /\ [](\A p \in Scanners : entriesLeft(p) \in Nat /\ partsLeft(p) \in Nat)
            /\ [][ScanShrinks]_vars
<1>1. IInv /\ OnlySelCleared => \A p \in Scanners : entriesLeft(p) \in Nat /\ partsLeft(p) \in Nat
    BY LeftIsNat
<1> QED
    BY <1>1, NextScanShrinks, Invariant, SdrInvariant, PTL DEF Spec
============================================================================
