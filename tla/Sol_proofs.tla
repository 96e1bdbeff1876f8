----------------------------- MODULE Sol_proofs -----------------------------
(***************************************************************************)
(* What the serial console promises, for every range of sequence numbers,  *)
(* any number of packets under way and any output.                         *)
(*                                                                         *)
(* The heart is what an acknowledgement under way tells: its piece was     *)
(* delivered or passed over, or it has the number of the piece delivered   *)
(* last.  Within a lap equal numbers mean equal pieces, so the second case *)
(* is the first; what readLoop hands on is in order beyond a lap as well.  *)
(***************************************************************************)
EXTENDS Sol, TLAPS

\* The piece whose number is in lastRxSeq.
Latest == IF rd \in {"deliver", "onData"} THEN msg ELSE last

\* The newest piece readLoop knows of: the one in its hands, if any.
InHand == IF rd \in {"deliver", "onData", "lock", "send"} THEN msg ELSE last

Held ==
    /\ rd \in {"deliver", "onData"} => msg > last
    /\ rd \in {"lock", "send"} => msg >= last /\ last > 0 /\ seqOf(msg) = seqOf(last)

Numbered == lastRxSeq = IF Latest = 0 THEN 0 ELSE seqOf(Latest)

\* Earlier entries of a queue are not the newer ones.
Sorted(s) == \A i, j \in 1..Len(s) : i <= j => s[i] <= s[j]

ConsoleOrder ==
    /\ InHand <= item
    /\ \A i \in 1..Len(toCon) : InHand <= toCon[i] /\ toCon[i] <= item
    /\ Sorted(toCon)

\* An acknowledgement is not newer than what is in hand or under way, and either its
\* piece is not newer than the one delivered last or it has the same number.
Acknowledges(a) ==
    /\ last > 0 /\ a <= item
    /\ a <= last \/ seqOf(a) = seqOf(last)
    /\ rd \in {"deliver", "onData", "lock", "send"} => a <= msg
    /\ \A j \in 1..Len(toCon) : a <= toCon[j]

AckOrder == \A i \in 1..Len(toBmc) : Acknowledges(toBmc[i])

\* The goroutines start with the session.
Unopened == h = "open" => rd = "idle" /\ ka = "idle"

SeqInv == Held /\ Numbered /\ ConsoleOrder /\ AckOrder /\ Unopened

\* Who holds txMu, and that nobody else has a number.
LockInv ==
    /\ rd = "send" <=> txMu = "reader"
    /\ ka = "send" <=> txMu = "keepalive"
    /\ h \in {"send", "deactivating"} <=> txMu = "handler"
    /\ held \subseteq {txMu}
    /\ h = "deactivating" => held = {}

\* Past the wait in Close the reader finds done closed before it reads again.
JoinInv ==
    /\ h \in {"join", "deactivate", "deactivating", "session", "closing"} => done
    /\ h \in {"deactivate", "deactivating", "session", "closing"} => rd # "read"

IInv == TypeOK /\ SeqInv /\ LockInv /\ JoinInv

---------------------------------------------------------------------------
(* Sequence numbers and queues *)

\* Numbers of pieces less than SeqMax apart are equal only for equal pieces.
LEMMA SeqOfInjective ==
    ASSUME NEW a \in Nat \ {0}, NEW b \in Nat, a <= b, b - a < SeqMax, seqOf(a) = seqOf(b)
    PROVE  a = b
<1> DEFINE x == a - 1
           y == b - 1
           S == SeqMax
<1>1. S \in Nat \ {0} /\ x \in Nat /\ y \in Nat /\ x <= y /\ y - x < S
    BY SeqAssumption
<1>2. x % S = y % S
  <2>1. x % S \in Int /\ y % S \in Int
      BY <1>1
  <2> QED
      BY <2>1 DEF seqOf
<1>3. PICK q \in Int : x = S * q + (x % S)
  <2>1. x \div S \in Int /\ x = S * (x \div S) + (x % S)
      BY <1>1
  <2> QED
      BY <2>1
<1>4. PICK p \in Int : y = S * p + (y % S)
  <2>1. y \div S \in Int /\ y = S * (y \div S) + (y % S)
      BY <1>1
  <2> QED
      BY <2>1
<1>5. y - x = S * (p - q)
    BY <1>1, <1>2, <1>3, <1>4
<1>6. p - q = 0
    BY <1>1, <1>5
<1> QED
    BY <1>1, <1>5, <1>6

\* A sequence number is one of the code's.
LEMMA SeqOfRange == ASSUME NEW d \in Nat \ {0} PROVE seqOf(d) \in 1..SeqMax
    BY SeqAssumption DEF seqOf

\* What stands in a queue over S is in S.
LEMMA ElementIn == ASSUME NEW S, NEW s \in Seq(S), NEW i \in 1..Len(s) PROVE s[i] \in S
    OBVIOUS

\* The head of a queue is taken.
LEMMA TailIs ==
    ASSUME NEW S, NEW s \in Seq(S), s # <<>>
    PROVE  /\ Head(s) \in S /\ Head(s) = s[1] /\ Len(s) > 0
           /\ Tail(s) \in Seq(S) /\ Len(Tail(s)) = Len(s) - 1
           /\ \A i \in 1..Len(Tail(s)) : Tail(s)[i] = s[i + 1]
    OBVIOUS

\* An entry is put behind a queue.
LEMMA AppendIs ==
    ASSUME NEW S, NEW s \in Seq(S), NEW e \in S
    PROVE  /\ Append(s, e) \in Seq(S) /\ Len(Append(s, e)) = Len(s) + 1
           /\ \A i \in 1..Len(s) : Append(s, e)[i] = s[i]
           /\ Append(s, e)[Len(s) + 1] = e
    OBVIOUS
\* A queue stays sorted when its head is taken.
LEMMA SortedTail ==
    ASSUME NEW S, NEW s \in Seq(S), s # <<>>, Sorted(s)
    PROVE  Sorted(Tail(s)) /\ \A i \in 1..Len(Tail(s)) : s[1] <= Tail(s)[i]
<1>1. Len(s) \in Nat /\ Len(Tail(s)) = Len(s) - 1 /\ Len(s) > 0
    OBVIOUS
<1>2. \A i \in 1..Len(Tail(s)) : Tail(s)[i] = s[i + 1] /\ i + 1 \in 1..Len(s) /\ 1 <= i + 1
    BY <1>1, TailIs
<1>3. \A i, j \in 1..Len(Tail(s)) : i <= j => i + 1 <= j + 1
    BY <1>1
<1> QED
    BY <1>1, <1>2, <1>3 DEF Sorted

\* A queue stays sorted when a newer entry is put behind.
LEMMA SortedAppend ==
    ASSUME NEW S, NEW s \in Seq(S), NEW e \in S, S \subseteq Nat, Sorted(s),
           \A i \in 1..Len(s) : s[i] <= e
    PROVE  Sorted(Append(s, e))
<1> SUFFICES ASSUME NEW i \in 1..Len(Append(s, e)), NEW j \in 1..Len(Append(s, e)), i <= j
             PROVE  Append(s, e)[i] <= Append(s, e)[j]
    BY DEF Sorted
<1>1. Len(s) \in Nat /\ Len(Append(s, e)) = Len(s) + 1
    OBVIOUS
<1>2. CASE j \in 1..Len(s)
  <2>1. i \in 1..Len(s)
      BY <1>1, <1>2
  <2> QED
      BY <2>1, <1>2, AppendIs DEF Sorted
<1>3. CASE j = Len(s) + 1
  <2>1. Append(s, e)[j] = e /\ e <= e
      BY <1>3, AppendIs
  <2>2. CASE i \in 1..Len(s)
      BY <2>1, <2>2, AppendIs
  <2>3. CASE i = j
      BY <2>1, <2>3
  <2> QED
      BY <1>1, <1>3, <2>2, <2>3
<1> QED
    BY <1>1, <1>2, <1>3

---------------------------------------------------------------------------
(* The invariant holds at first *)

\* Nothing is under way when serveSOL begins.
LEMMA InitIInv == Init => IInv
<1> SUFFICES ASSUME Init PROVE IInv
    OBVIOUS
<1> USE DEF Init
<1>1. TypeOK
  <2>1. toCon \in Seq(1..MaxItems) /\ toBmc \in Seq(1..MaxItems) /\ Len(toCon) = 0 /\ Len(toBmc) = 0
      OBVIOUS
  <2>2. held \subseteq Goroutines /\ done \in BOOLEAN
      OBVIOUS
  <2> QED
      BY <2>1, <2>2, SeqAssumption, BoundsAssumption DEF TypeOK
<1>2. SeqInv
    BY DEF SeqInv, Held, Numbered, ConsoleOrder, AckOrder, Sorted, Unopened, Latest, InHand
<1>3. LockInv /\ JoinInv
    BY DEF LockInv, JoinInv
<1> QED
    BY <1>1, <1>2, <1>3 DEF IInv

---------------------------------------------------------------------------
(* Types *)

\* Every step keeps the types.
LEMMA TypeNext == ASSUME IInv, [Next]_vars PROVE TypeOK'
<1> USE DEF net, rvars, hvars, locks, process
<1>0. TypeOK
    BY DEF IInv
<1>1. CASE Top \/ ReadNothing \/ ReadError \/ OnData
    BY <1>0, <1>1 DEF TypeOK, Top, ReadNothing, ReadError, OnData
<1>2. CASE ReadPacket
  <2>1. Head(toCon) \in 1..MaxItems /\ Tail(toCon) \in Seq(1..MaxItems) /\ Len(Tail(toCon)) <= NetCap
      BY <1>0, <1>2, TailIs, BoundsAssumption DEF TypeOK, ReadPacket
  <2>2. seqOf(Head(toCon)) \in 0..SeqMax
    <3>1. Head(toCon) \in Nat \ {0}
        BY <2>1, BoundsAssumption
    <3>2. seqOf(Head(toCon)) \in 1..SeqMax
        BY <3>1, SeqOfRange
    <3> QED
        BY <3>2, SeqAssumption
  <2> QED
      BY <1>0, <1>2, <2>1, <2>2, BoundsAssumption DEF TypeOK, ReadPacket
<1>3. CASE OnDataReturn
    BY <1>0, <1>3 DEF TypeOK, OnDataReturn
<1>4. CASE AckLock
    BY <1>0, <1>4 DEF TypeOK, AckLock, takeNumber, Goroutines
<1>5. CASE AckSend
  <2>1. msg \in 1..MaxItems
      BY <1>0, <1>5, BoundsAssumption DEF TypeOK, IInv, SeqInv, Held, AckSend
  <2>2. toBmc' \in Seq(1..MaxItems) /\ Len(toBmc') <= AckCap
    <3>1. CASE toBmc' = toBmc
        BY <3>1, <1>0 DEF TypeOK
    <3>2. CASE Len(toBmc) < AckCap /\ toBmc' = Append(toBmc, msg)
      <4>1. toBmc \in Seq(1..MaxItems) /\ Len(toBmc) \in Nat
          BY <1>0 DEF TypeOK
      <4> QED
          BY <3>2, <4>1, <2>1, AppendIs, BoundsAssumption
    <3> QED
        BY <3>1, <3>2, <1>5 DEF AckSend
  <2>3. held' \subseteq Goroutines /\ txMu' \in Goroutines \cup {"free"} /\ wmu' = wmu
      BY <1>0, <1>5 DEF TypeOK, AckSend, written
  <2> QED
      BY <1>0, <1>5, <2>2, <2>3, BoundsAssumption DEF TypeOK, AckSend
<1>6. CASE KeepaliveStop \/ Tick
    BY <1>0, <1>6 DEF TypeOK, KeepaliveStop, Tick
<1>7. CASE KeepaliveLock \/ KeepaliveSend
  <2>1. held' \subseteq Goroutines /\ txMu' \in Goroutines \cup {"free"} /\ wmu' = wmu
      BY <1>0, <1>7 DEF TypeOK, KeepaliveLock, KeepaliveSend, takeNumber, written, Goroutines
  <2> QED
      BY <1>0, <1>7, <2>1 DEF TypeOK, KeepaliveLock, KeepaliveSend
<1>8. CASE OpenSOL \/ WriteText \/ WriteTextReturn \/ BrowserLeft
    BY <1>0, <1>8 DEF TypeOK, OpenSOL, WriteText, WriteTextReturn, BrowserLeft
<1>9. CASE Write
  <2>1. txSeq' \in 0..SeqMax
      BY <1>0, <1>9, SeqAssumption DEF TypeOK, Write
  <2> QED
      BY <1>0, <1>9, <2>1 DEF TypeOK, Write
<1>10. CASE KeyLock \/ KeySend
  <2>1. held' \subseteq Goroutines /\ txMu' \in Goroutines \cup {"free"} /\ wmu' = wmu
      BY <1>0, <1>10 DEF TypeOK, KeyLock, KeySend, takeNumber, written, Goroutines
  <2> QED
      BY <1>0, <1>10, <2>1 DEF TypeOK, KeyLock, KeySend
<1>11. CASE CloseDone \/ Join \/ SessionClose \/ HangUp
  <2>1. CASE CloseDone
      BY <1>0, <2>1 DEF TypeOK, CloseDone
  <2>2. CASE Join \/ SessionClose \/ HangUp
      BY <1>0, <2>2 DEF TypeOK, Join, SessionClose, HangUp
  <2> QED
      BY <1>11, <2>1, <2>2
<1>12. CASE Deactivate \/ Deactivated
  <2>1. txMu' \in Goroutines \cup {"free"} /\ h' \in {"deactivating", "session"}
      BY <1>12 DEF Deactivate, Deactivated, Goroutines
  <2>2. /\ item' = item /\ net' = net /\ rvars' = rvars /\ ka' = ka /\ txSeq' = txSeq
        /\ browser' = browser /\ done' = done /\ wmu' = wmu /\ held' = held
      BY <1>12 DEF Deactivate, Deactivated
  <2> QED
      BY <1>0, <2>1, <2>2 DEF TypeOK
<1>13. CASE SocketClose
  <2>1. toCon' \in Seq(1..MaxItems) /\ toBmc' \in Seq(1..MaxItems) /\ Len(toCon') = 0 /\ Len(toBmc') = 0
      BY <1>13 DEF SocketClose
  <2> QED
      BY <1>0, <1>13, <2>1, BoundsAssumption DEF TypeOK, SocketClose
<1>14. CASE BmcSend
  <2>1. item \in 1..MaxItems /\ toCon \in Seq(1..MaxItems) /\ Len(toCon) \in Nat
      BY <1>0, <1>14, BoundsAssumption DEF TypeOK, BmcSend
  <2>2. toCon' \in Seq(1..MaxItems) /\ Len(toCon') <= NetCap
      BY <2>1, <1>14, AppendIs, BoundsAssumption DEF BmcSend
  <2> QED
      BY <1>0, <1>14, <2>2 DEF TypeOK, BmcSend
<1>15. CASE BmcAck
  <2>1. Tail(toBmc) \in Seq(1..MaxItems) /\ Len(Tail(toBmc)) <= AckCap
      BY <1>0, <1>15, TailIs, BoundsAssumption DEF TypeOK, BmcAck
  <2>2. item' \in 1..(MaxItems + 1)
    <3>1. (item <= MaxItems /\ item' = item + 1) \/ item' = item
        BY <1>15 DEF BmcAck
    <3>2. item \in 1..(MaxItems + 1)
        BY <1>0 DEF TypeOK
    <3> QED
        BY <3>1, <3>2, BoundsAssumption, SeqAssumption
  <2> QED
      BY <1>0, <1>15, <2>1, <2>2 DEF TypeOK, BmcAck
<1>16. CASE BmcGivesUp
  <2>1. item' \in 1..(MaxItems + 1)
      BY <1>0, <1>16, BoundsAssumption, SeqAssumption DEF TypeOK, BmcGivesUp
  <2> QED
      BY <1>0, <1>16, <2>1 DEF TypeOK, BmcGivesUp
<1>17. CASE Lose
  <2>1. Tail(toCon) \in Seq(1..MaxItems) /\ Len(Tail(toCon)) <= NetCap
      BY <1>0, <1>17, TailIs, BoundsAssumption DEF TypeOK, Lose
  <2> QED
      BY <1>0, <1>17, <2>1 DEF TypeOK, Lose
<1>18. CASE Browser
    BY <1>0, <1>18 DEF TypeOK, Browser
<1>19. CASE UNCHANGED vars
    BY <1>0, <1>19 DEF TypeOK, vars
<1> QED
    BY <1>1, <1>2, <1>3, <1>4, <1>5, <1>6, <1>7, <1>8, <1>9, <1>10, <1>11, <1>12, <1>13, <1>14,
       <1>15, <1>16, <1>17, <1>18, <1>19
    DEF Next, Reader, Keepalive, Handler, Environment
---------------------------------------------------------------------------
(* txMu and Close *)

\* A number is taken under txMu and given away with it.
LEMMA LockNext == ASSUME IInv, [Next]_vars PROVE LockInv'
<1> USE DEF net, rvars, hvars, locks, process
<1>0. TypeOK /\ LockInv
    BY DEF IInv
<1>1. CASE AckLock \/ KeepaliveLock \/ KeyLock
  <2>1. held = {}
      BY <1>0, <1>1 DEF TypeOK, LockInv, AckLock, KeepaliveLock, KeyLock, takeNumber, Goroutines
  <2>2. CASE AckLock
      BY <1>0, <2>1, <2>2 DEF LockInv, AckLock, takeNumber
  <2>3. CASE KeepaliveLock
      BY <1>0, <2>1, <2>3 DEF LockInv, KeepaliveLock, takeNumber
  <2>4. CASE KeyLock
      BY <1>0, <2>1, <2>4 DEF LockInv, KeyLock, takeNumber
  <2> QED
      BY <1>1, <2>2, <2>3, <2>4
<1>2. CASE AckSend
    BY <1>0, <1>2 DEF LockInv, AckSend, written
<1>3. CASE KeepaliveSend
    BY <1>0, <1>3 DEF LockInv, KeepaliveSend, written
<1>4. CASE KeySend
    BY <1>0, <1>4 DEF LockInv, KeySend, written
<1>5. CASE Deactivate
  <2>1. held = {}
      BY <1>0, <1>5 DEF TypeOK, LockInv, Deactivate, Goroutines
  <2> QED
      BY <1>0, <1>5, <2>1 DEF LockInv, Deactivate
<1>6. CASE Deactivated
    BY <1>0, <1>6 DEF LockInv, Deactivated
<1>7. CASE Top \/ ReadNothing \/ ReadError \/ ReadPacket \/ OnData \/ OnDataReturn
    BY <1>0, <1>7 DEF LockInv, Top, ReadNothing, ReadError, ReadPacket, OnData, OnDataReturn
<1>8. CASE KeepaliveStop \/ Tick
    BY <1>0, <1>8 DEF LockInv, KeepaliveStop, Tick
<1>9. CASE OpenSOL
  <2>1. rd = "idle" /\ ka = "idle"
      BY <1>9 DEF IInv, SeqInv, Unopened, OpenSOL
  <2> QED
      BY <1>0, <1>9, <2>1 DEF LockInv, OpenSOL
<1>10. CASE WriteText \/ WriteTextReturn \/ Write \/ BrowserLeft
    BY <1>0, <1>10 DEF LockInv, WriteText, WriteTextReturn, Write, BrowserLeft
<1>11. CASE CloseDone \/ Join \/ SessionClose \/ SocketClose \/ HangUp
    BY <1>0, <1>11 DEF LockInv, CloseDone, Join, SessionClose, SocketClose, HangUp
<1>12. CASE Environment
    BY <1>0, <1>12 DEF LockInv, Environment, BmcSend, BmcAck, BmcGivesUp, Lose, Browser
<1>13. CASE UNCHANGED vars
    BY <1>0, <1>13 DEF LockInv, vars
<1> QED
    BY <1>1, <1>2, <1>3, <1>4, <1>5, <1>6, <1>7, <1>8, <1>9, <1>10, <1>11, <1>12, <1>13
    DEF Next, Reader, Keepalive, Handler

\* Close closes done before it waits, and the reader looks at it before it reads.
LEMMA JoinNext == ASSUME IInv, [Next]_vars PROVE JoinInv'
<1> USE DEF net, rvars, hvars, locks, process
<1>0. TypeOK /\ JoinInv
    BY DEF IInv
<1>1. CASE Top
    BY <1>0, <1>1 DEF JoinInv, Top, TypeOK
<1>2. CASE ReadNothing \/ ReadError \/ ReadPacket \/ OnData \/ OnDataReturn \/ AckLock \/ AckSend
    BY <1>0, <1>2 DEF JoinInv, ReadNothing, ReadError, ReadPacket, OnData, OnDataReturn, AckLock, AckSend
<1>3. CASE KeepaliveStop \/ Tick \/ KeepaliveLock \/ KeepaliveSend
    BY <1>0, <1>3 DEF JoinInv, KeepaliveStop, Tick, KeepaliveLock, KeepaliveSend
<1>4. CASE OpenSOL \/ WriteText \/ WriteTextReturn \/ Write \/ KeyLock \/ KeySend \/ BrowserLeft
    BY <1>0, <1>4 DEF JoinInv, OpenSOL, WriteText, WriteTextReturn, Write, KeyLock, KeySend, BrowserLeft
<1>5. CASE CloseDone \/ Join
    BY <1>0, <1>5 DEF JoinInv, CloseDone, Join
<1>6. CASE Deactivate \/ Deactivated \/ SessionClose \/ SocketClose \/ HangUp
    BY <1>0, <1>6 DEF JoinInv, Deactivate, Deactivated, SessionClose, SocketClose, HangUp
<1>7. CASE Environment
    BY <1>0, <1>7 DEF JoinInv, Environment, BmcSend, BmcAck, BmcGivesUp, Lose, Browser
<1>8. CASE UNCHANGED vars
    BY <1>0, <1>8 DEF JoinInv, vars
<1> QED
    BY <1>1, <1>2, <1>3, <1>4, <1>5, <1>6, <1>7, <1>8 DEF Next, Reader, Keepalive, Handler
---------------------------------------------------------------------------
(* Pieces and their numbers *)

\* What the invariant says of the pieces, with their types.
LEMMA Facts ==
    ASSUME IInv
    PROVE  /\ item \in Nat \ {0} /\ msg \in Nat /\ last \in Nat
           /\ toCon \in Seq(1..MaxItems) /\ Len(toCon) \in Nat
           /\ toBmc \in Seq(1..MaxItems) /\ Len(toBmc) \in Nat
           /\ InHand \in Nat /\ last <= InHand /\ InHand <= item /\ last <= item
           /\ \A i \in 1..Len(toCon) : toCon[i] \in Nat \ {0}
           /\ \A i \in 1..Len(toBmc) : toBmc[i] \in Nat \ {0}
<1>1. /\ item \in Nat \ {0} /\ msg \in Nat /\ last \in Nat
      /\ toCon \in Seq(1..MaxItems) /\ Len(toCon) \in Nat
      /\ toBmc \in Seq(1..MaxItems) /\ Len(toBmc) \in Nat
    BY SeqAssumption, BoundsAssumption DEF IInv, TypeOK
<1>2. InHand \in Nat /\ last <= InHand
    BY <1>1 DEF InHand, IInv, SeqInv, Held
<1>3. InHand <= item
    BY DEF IInv, SeqInv, ConsoleOrder
<1>4. last <= item
    BY <1>1, <1>2, <1>3
<1>5. \A i \in 1..Len(toCon) : toCon[i] \in 1..MaxItems
    BY <1>1, ElementIn
<1>6. \A i \in 1..Len(toBmc) : toBmc[i] \in 1..MaxItems
    BY <1>1, ElementIn
<1>7. 1..MaxItems \subseteq Nat \ {0}
    BY BoundsAssumption
<1>8. /\ \A i \in 1..Len(toCon) : toCon[i] \in Nat \ {0}
      /\ \A i \in 1..Len(toBmc) : toBmc[i] \in Nat \ {0}
    BY <1>5, <1>6, <1>7
<1> QED
    BY <1>1, <1>2, <1>3, <1>4, <1>8

\* A packet that is not taken for a repetition is a new piece; one that is has the
\* number of the piece delivered last.
LEMMA ReadPacketKeeps == ASSUME IInv, ReadPacket PROVE SeqInv'
<1> DEFINE d == Head(toCon)
<1>1. /\ rd = "read" /\ toCon # <<>> /\ toCon' = Tail(toCon) /\ msg' = d /\ lastRxSeq' = seqOf(d)
      /\ rd' = IF isDup(d) THEN "lock" ELSE "deliver"
      /\ item' = item /\ toBmc' = toBmc /\ last' = last /\ ka' = ka /\ h' = h
    BY DEF ReadPacket, hvars
<1>2. d \in 1..MaxItems /\ d = toCon[1] /\ Len(toCon) > 0 /\ Tail(toCon) \in Seq(1..MaxItems)
    BY <1>1, TailIs, Facts
<1>3. Len(Tail(toCon)) = Len(toCon) - 1 /\ \A i \in 1..Len(Tail(toCon)) : Tail(toCon)[i] = toCon[i + 1]
    BY <1>1, TailIs, Facts
<1>4. Latest = last /\ InHand = last
    BY <1>1 DEF Latest, InHand
<1>5. last <= d /\ d <= item /\ d \in Nat \ {0} /\ last \in Nat
    BY <1>2, <1>4, Facts DEF IInv, SeqInv, ConsoleOrder
<1>6. lastRxSeq = IF last = 0 THEN 0 ELSE seqOf(last)
    BY <1>4 DEF IInv, SeqInv, Numbered
<1>7. seqOf(d) # 0
  <2>1. seqOf(d) \in 1..SeqMax
      BY <1>5, SeqOfRange
  <2> QED
      BY <2>1, SeqAssumption
<1>8. isDup(d) => last > 0 /\ seqOf(d) = seqOf(last)
  <2>1. isDup(d) => last # 0 /\ seqOf(d) = seqOf(last)
      BY <1>6, <1>7 DEF isDup
  <2> QED
      BY <2>1, <1>5
<1>9. ~isDup(d) => d > last
  <2>1. ~isDup(d) => d # last
      BY <1>5, <1>6 DEF isDup
  <2> QED
      BY <2>1, <1>5
<1>10. Held'
  <2>1. CASE isDup(d)
      BY <2>1, <1>1, <1>5, <1>8 DEF Held, seqOf
  <2>2. CASE ~isDup(d)
      BY <2>2, <1>1, <1>9 DEF Held
  <2> QED
      BY <2>1, <2>2
<1>11. Numbered'
  <2>1. CASE isDup(d)
    <3>1. Latest' = last
        BY <2>1, <1>1 DEF Latest
    <3>2. lastRxSeq' = seqOf(last) /\ last # 0
        BY <2>1, <1>1, <1>5, <1>8
    <3> QED
        BY <3>1, <3>2, <1>1 DEF Numbered, seqOf
  <2>2. CASE ~isDup(d)
    <3>1. Latest' = d /\ d # 0
        BY <2>2, <1>1, <1>5 DEF Latest
    <3> QED
        BY <3>1, <1>1 DEF Numbered, seqOf
  <2> QED
      BY <2>1, <2>2
<1>12. ConsoleOrder'
  <2>1. \A i \in 1..Len(toCon') : i + 1 \in 1..Len(toCon) /\ toCon'[i] = toCon[i + 1]
      BY <1>1, <1>3, Facts
  <2>2. InHand' = d
      BY <1>1 DEF InHand
  <2>3. Sorted(toCon') /\ \A i \in 1..Len(toCon') : d <= toCon'[i]
      BY <1>1, <1>2, Facts, SortedTail DEF IInv, SeqInv, ConsoleOrder
  <2>4. \A i \in 1..Len(toCon') : toCon'[i] <= item
      BY <2>1 DEF IInv, SeqInv, ConsoleOrder
  <2> QED
      BY <2>2, <2>3, <2>4, <1>1, <1>5 DEF ConsoleOrder, Sorted
<1>13. AckOrder'
  <2> SUFFICES ASSUME NEW i \in 1..Len(toBmc) PROVE Acknowledges(toBmc[i])'
      BY <1>1 DEF AckOrder, Acknowledges, seqOf
  <2>1. Acknowledges(toBmc[i])
      BY DEF IInv, SeqInv, AckOrder
  <2>2. toBmc[i] <= d
      BY <2>1, <1>2, Facts DEF Acknowledges
  <2>3. \A j \in 1..Len(toCon') : toBmc[i] <= toCon'[j]
    <3>1. \A j \in 1..Len(toCon') : j + 1 \in 1..Len(toCon) /\ toCon'[j] = toCon[j + 1]
        BY <1>1, <1>3, Facts
    <3> QED
        BY <3>1, <2>1 DEF Acknowledges
  <2> QED
      BY <2>1, <2>2, <2>3, <1>1 DEF Acknowledges, seqOf
<1>14. Unopened'
    BY <1>1 DEF IInv, SeqInv, Unopened
<1> QED
    BY <1>10, <1>11, <1>12, <1>13, <1>14 DEF SeqInv

\* The acknowledgement sent has the number of the piece delivered last.
LEMMA AckSendKeeps == ASSUME IInv, AckSend PROVE SeqInv'
<1>1. /\ rd = "send" /\ rd' = "top" /\ msg' = 0
      /\ item' = item /\ toCon' = toCon /\ lastRxSeq' = lastRxSeq /\ last' = last
      /\ ka' = ka /\ h' = h
      /\ toBmc' = toBmc \/ toBmc' = Append(toBmc, msg)
    BY DEF AckSend, hvars
<1>2. /\ msg >= last /\ last > 0 /\ seqOf(msg) = seqOf(last)
      /\ Latest = last /\ Latest' = last /\ InHand = msg /\ InHand' = last
    BY <1>1 DEF IInv, SeqInv, Held, Latest, InHand
<1>3. Held' /\ Unopened'
    BY <1>1 DEF IInv, SeqInv, Held, Unopened
<1>4. Numbered'
    BY <1>1, <1>2 DEF IInv, SeqInv, Numbered, seqOf
<1>5. ConsoleOrder'
  <2>1. last <= item /\ \A i \in 1..Len(toCon) : last <= toCon[i] /\ toCon[i] <= item
      BY <1>2, Facts DEF IInv, SeqInv, ConsoleOrder
  <2> QED
      BY <2>1, <1>1, <1>2 DEF IInv, SeqInv, ConsoleOrder, Sorted
<1>6. Acknowledges(msg)
    BY <1>2, Facts DEF IInv, SeqInv, ConsoleOrder, Acknowledges
<1>7. \A i \in 1..Len(toBmc') : Acknowledges(toBmc'[i])
  <2>1. \A i \in 1..Len(toBmc) : Acknowledges(toBmc[i])
      BY DEF IInv, SeqInv, AckOrder
  <2>2. CASE toBmc' = toBmc
      BY <2>1, <2>2
  <2>3. CASE toBmc' = Append(toBmc, msg)
    <3>1. msg \in 1..MaxItems
        BY <1>2, Facts, BoundsAssumption DEF IInv, TypeOK
    <3>2. /\ Len(toBmc') = Len(toBmc) + 1
          /\ \A i \in 1..Len(toBmc) : toBmc'[i] = toBmc[i]
          /\ toBmc'[Len(toBmc) + 1] = msg
        BY <2>3, <3>1, AppendIs, Facts
    <3>3. \A i \in 1..Len(toBmc') : i \in 1..Len(toBmc) \/ i = Len(toBmc) + 1
        BY <3>2, Facts
    <3> QED
        BY <3>2, <3>3, <2>1, <1>6
  <2> QED
      BY <2>2, <2>3, <1>1
<1>8. AckOrder'
    BY <1>1, <1>7 DEF AckOrder, Acknowledges, seqOf
<1> QED
    BY <1>3, <1>4, <1>5, <1>8 DEF SeqInv

\* Within a lap an acknowledgement with the number of the piece being sent is that
\* piece's, and the piece has been delivered.
LEMMA AckMatches ==
    ASSUME IInv, WithinLap, toBmc # <<>>, seqOf(Head(toBmc)) = seqOf(item)
    PROVE  last = item
<1>1. Head(toBmc) = toBmc[1] /\ 1 \in 1..Len(toBmc)
    BY TailIs, Facts
<1>2. Acknowledges(toBmc[1]) /\ toBmc[1] \in Nat \ {0} /\ item \in Nat
    BY <1>1, Facts DEF IInv, SeqInv, AckOrder
<1>3. toBmc[1] <= item /\ item - toBmc[1] < SeqMax
    BY <1>1, <1>2 DEF Acknowledges, WithinLap
<1>4. toBmc[1] = item
    BY <1>1, <1>2, <1>3, SeqOfInjective
<1>5. last \in Nat \ {0} /\ last <= item /\ item - last < SeqMax
    BY <1>2, Facts DEF Acknowledges, WithinLap
<1>6. CASE item <= last
    BY <1>5, <1>6, Facts
<1>7. CASE seqOf(item) = seqOf(last)
    BY <1>2, <1>5, <1>7, SeqOfInjective
<1> QED
    BY <1>2, <1>4, <1>6, <1>7 DEF Acknowledges

\* An acknowledgement reaches the BMC, or it goes on to the next piece without one.
LEMMA BmcAckKeeps == ASSUME IInv, BmcAck \/ BmcGivesUp PROVE SeqInv'
<1>1. /\ toBmc' = toBmc \/ (toBmc # <<>> /\ toBmc' = Tail(toBmc))
      /\ item' = item \/ item' = item + 1
      /\ toCon' = toCon
      /\ rd' = rd /\ msg' = msg /\ lastRxSeq' = lastRxSeq /\ last' = last /\ ka' = ka /\ h' = h
    BY DEF BmcAck, BmcGivesUp, process, rvars, hvars, net
<1>2. Latest' = Latest /\ InHand' = InHand
    BY <1>1 DEF Latest, InHand
<1>3. item \in Nat /\ item' \in Nat /\ item <= item'
    BY <1>1, Facts
<1>4. Held' /\ Numbered' /\ Unopened'
    BY <1>1, <1>2 DEF IInv, SeqInv, Held, Numbered, Unopened, seqOf
<1>5. ConsoleOrder'
  <2>1. InHand <= item' /\ \A i \in 1..Len(toCon) : InHand <= toCon[i] /\ toCon[i] <= item'
      BY <1>3, Facts DEF IInv, SeqInv, ConsoleOrder
  <2> QED
      BY <2>1, <1>1, <1>2 DEF IInv, SeqInv, ConsoleOrder, Sorted
<1>6. \A i \in 1..Len(toBmc') : \E j \in 1..Len(toBmc) : toBmc'[i] = toBmc[j]
  <2>1. CASE toBmc' = toBmc
      BY <2>1
  <2>2. CASE toBmc # <<>> /\ toBmc' = Tail(toBmc)
    <3>1. \A i \in 1..Len(toBmc') : i + 1 \in 1..Len(toBmc) /\ toBmc'[i] = toBmc[i + 1]
        BY <2>2, TailIs, Facts
    <3> QED
        BY <3>1
  <2> QED
      BY <2>1, <2>2, <1>1
<1>7. AckOrder'
  <2> SUFFICES ASSUME NEW i \in 1..Len(toBmc') PROVE Acknowledges(toBmc[i])'
      BY DEF AckOrder
  <2>1. PICK j \in 1..Len(toBmc) : toBmc'[i] = toBmc[j]
      BY <1>6
  <2>2. Acknowledges(toBmc[j]) /\ toBmc[j] \in Nat
      BY Facts DEF IInv, SeqInv, AckOrder
  <2>3. toBmc[j] <= item'
      BY <2>2, <1>3 DEF Acknowledges
  <2> QED
      BY <2>1, <2>2, <2>3, <1>1 DEF Acknowledges, seqOf
<1> QED
    BY <1>4, <1>5, <1>7 DEF SeqInv

\* The BMC sends its piece, for the first time or again.
LEMMA BmcSendKeeps == ASSUME IInv, BmcSend PROVE SeqInv'
<1>1. /\ toCon' = Append(toCon, item) /\ toBmc' = toBmc /\ item' = item /\ item <= MaxItems
      /\ rd' = rd /\ msg' = msg /\ lastRxSeq' = lastRxSeq /\ last' = last /\ ka' = ka /\ h' = h
    BY DEF BmcSend, process, rvars, hvars
<1>2. Latest' = Latest /\ InHand' = InHand
    BY <1>1 DEF Latest, InHand
<1>3. item \in 1..MaxItems
    BY <1>1, Facts, BoundsAssumption
<1>4. /\ Len(toCon') = Len(toCon) + 1
      /\ \A i \in 1..Len(toCon) : toCon'[i] = toCon[i]
      /\ toCon'[Len(toCon) + 1] = item
    BY <1>1, <1>3, AppendIs, Facts
<1>5. \A i \in 1..Len(toCon') : i \in 1..Len(toCon) \/ i = Len(toCon) + 1
    BY <1>4, Facts
<1>6. InHand <= item /\ item <= item /\ \A i \in 1..Len(toCon) : InHand <= toCon[i] /\ toCon[i] <= item
    BY Facts DEF IInv, SeqInv, ConsoleOrder
<1>7. \A i \in 1..Len(toCon') : InHand <= toCon'[i] /\ toCon'[i] <= item
    BY <1>4, <1>5, <1>6
<1>8. Sorted(toCon')
  <2>1. 1..MaxItems \subseteq Nat /\ toCon \in Seq(1..MaxItems) /\ Sorted(toCon)
      BY Facts DEF IInv, SeqInv, ConsoleOrder
  <2>2. Sorted(Append(toCon, item))
      BY <2>1, <1>3, <1>6, SortedAppend
  <2> QED
      BY <2>2, <1>1
<1>9. ConsoleOrder'
    BY <1>1, <1>2, <1>6, <1>7, <1>8 DEF ConsoleOrder, Sorted
<1>10. AckOrder'
  <2> SUFFICES ASSUME NEW i \in 1..Len(toBmc) PROVE Acknowledges(toBmc[i])'
      BY <1>1 DEF AckOrder, Acknowledges, seqOf
  <2>1. Acknowledges(toBmc[i])
      BY DEF IInv, SeqInv, AckOrder
  <2>2. \A j \in 1..Len(toCon') : toBmc[i] <= toCon'[j]
      BY <2>1, <1>4, <1>5 DEF Acknowledges
  <2> QED
      BY <2>1, <2>2, <1>1 DEF Acknowledges, seqOf
<1>11. Held' /\ Numbered' /\ Unopened'
    BY <1>1, <1>2 DEF IInv, SeqInv, Held, Numbered, Unopened, seqOf
<1> QED
    BY <1>9, <1>10, <1>11 DEF SeqInv

\* A packet is lost.
LEMMA LoseKeeps == ASSUME IInv, Lose PROVE SeqInv'
<1>1. /\ toCon # <<>> /\ toCon' = Tail(toCon) /\ toBmc' = toBmc /\ item' = item
      /\ rd' = rd /\ msg' = msg /\ lastRxSeq' = lastRxSeq /\ last' = last /\ ka' = ka /\ h' = h
    BY DEF Lose, process, rvars, hvars
<1>2. Latest' = Latest /\ InHand' = InHand
    BY <1>1 DEF Latest, InHand
<1>3. \A i \in 1..Len(toCon') : i + 1 \in 1..Len(toCon) /\ toCon'[i] = toCon[i + 1]
    BY <1>1, TailIs, Facts
<1>4. Sorted(toCon')
    BY <1>1, Facts, SortedTail DEF IInv, SeqInv, ConsoleOrder
<1>5. ConsoleOrder'
  <2>1. \A i \in 1..Len(toCon') : InHand <= toCon'[i] /\ toCon'[i] <= item
      BY <1>3 DEF IInv, SeqInv, ConsoleOrder
  <2> QED
      BY <1>1, <1>2, <1>4, <2>1, Facts DEF ConsoleOrder, Sorted
<1>6. AckOrder'
  <2> SUFFICES ASSUME NEW i \in 1..Len(toBmc) PROVE Acknowledges(toBmc[i])'
      BY <1>1 DEF AckOrder, Acknowledges, seqOf
  <2>1. Acknowledges(toBmc[i])
      BY DEF IInv, SeqInv, AckOrder
  <2>2. \A j \in 1..Len(toCon') : toBmc[i] <= toCon'[j]
      BY <2>1, <1>3 DEF Acknowledges
  <2> QED
      BY <2>1, <2>2, <1>1 DEF Acknowledges, seqOf
<1>7. Held' /\ Numbered' /\ Unopened'
    BY <1>1, <1>2 DEF IInv, SeqInv, Held, Numbered, Unopened, seqOf
<1> QED
    BY <1>5, <1>6, <1>7 DEF SeqInv

\* Every step keeps the order of the pieces.
LEMMA SeqNext == ASSUME IInv, [Next]_vars PROVE SeqInv'
<1> USE DEF net, rvars, hvars, locks, process
<1>0. SeqInv
    BY DEF IInv
<1>1. CASE Top \/ ReadNothing \/ ReadError \/ AckLock \/ OnData
  <2>1. /\ \/ rd' \in {"read", "top", "ended"} /\ rd \in {"top", "read"}
           \/ rd = "lock" /\ rd' = "send"
           \/ rd = "deliver" /\ rd' = "onData"
        /\ item' = item /\ toCon' = toCon /\ toBmc' = toBmc
        /\ msg' = msg /\ lastRxSeq' = lastRxSeq /\ last' = last /\ ka' = ka /\ h' = h
      BY <1>1 DEF Top, ReadNothing, ReadError, AckLock, OnData, TypeOK, IInv
  <2>2. Latest' = Latest /\ InHand' = InHand
      BY <2>1 DEF Latest, InHand
  <2> QED
      BY <1>0, <2>1, <2>2 DEF SeqInv, Held, Numbered, ConsoleOrder, AckOrder, Acknowledges, Unopened
<1>2. CASE ReadPacket
    BY <1>2, ReadPacketKeeps
<1>3. CASE OnDataReturn
  <2>1. /\ rd = "onData" /\ rd' = "lock" /\ last' = msg
        /\ item' = item /\ toCon' = toCon /\ toBmc' = toBmc
        /\ msg' = msg /\ lastRxSeq' = lastRxSeq /\ ka' = ka /\ h' = h
      BY <1>3 DEF OnDataReturn
  <2>2. Latest = msg /\ Latest' = msg /\ InHand' = InHand /\ msg > last
      BY <1>0, <2>1 DEF Latest, InHand, SeqInv, Held
  <2>3. Held' /\ Unopened'
      BY <1>0, <2>1, <2>2, Facts DEF SeqInv, Held, Unopened
  <2>4. Numbered' /\ ConsoleOrder'
      BY <1>0, <2>1, <2>2 DEF SeqInv, Numbered, ConsoleOrder
  <2>5. AckOrder'
    <3> SUFFICES ASSUME NEW i \in 1..Len(toBmc) PROVE Acknowledges(toBmc[i])'
        BY <2>1 DEF AckOrder
    <3>1. Acknowledges(toBmc[i])
        BY <1>0 DEF SeqInv, AckOrder
    <3>2. toBmc[i] <= msg /\ msg > 0
        BY <3>1, <2>1, <2>2, Facts DEF Acknowledges
    <3> QED
        BY <3>1, <3>2, <2>1 DEF Acknowledges
  <2> QED
      BY <2>3, <2>4, <2>5 DEF SeqInv
<1>4. CASE AckSend
    BY <1>4, AckSendKeeps
<1>5. CASE KeepaliveStop \/ Tick \/ KeepaliveLock \/ KeepaliveSend
  <2>1. /\ rd' = rd /\ h' = h /\ ka # "idle"
        /\ item' = item /\ toCon' = toCon /\ toBmc' = toBmc
        /\ msg' = msg /\ lastRxSeq' = lastRxSeq /\ last' = last
      BY <1>5 DEF KeepaliveStop, Tick, KeepaliveLock, KeepaliveSend
  <2> QED
      BY <1>0, <2>1 DEF SeqInv, Held, Numbered, ConsoleOrder, AckOrder, Acknowledges, Unopened, Latest, InHand
<1>6. CASE OpenSOL
  <2>1. /\ h = "open" /\ h' # "open" /\ rd' \in {"top", rd}
        /\ item' = item /\ toCon' = toCon /\ toBmc' = toBmc
        /\ msg' = msg /\ lastRxSeq' = lastRxSeq /\ last' = last
      BY <1>6 DEF OpenSOL
  <2>2. rd = "idle"
      BY <1>0, <2>1 DEF SeqInv, Unopened
  <2> QED
      BY <1>0, <2>1, <2>2 DEF SeqInv, Held, Numbered, ConsoleOrder, AckOrder, Acknowledges, Unopened, Latest, InHand
<1>7. CASE WriteText \/ WriteTextReturn \/ Write \/ KeyLock \/ KeySend \/ BrowserLeft
  <2>1. /\ h' # "open" /\ rd' = rd
        /\ item' = item /\ toCon' = toCon /\ toBmc' = toBmc
        /\ msg' = msg /\ lastRxSeq' = lastRxSeq /\ last' = last
      BY <1>7 DEF WriteText, WriteTextReturn, Write, KeyLock, KeySend, BrowserLeft
  <2> QED
      BY <1>0, <2>1 DEF SeqInv, Held, Numbered, ConsoleOrder, AckOrder, Acknowledges, Unopened, Latest, InHand
<1>8. CASE CloseDone \/ Join \/ Deactivate \/ Deactivated \/ SessionClose \/ HangUp
  <2>1. /\ h' # "open" /\ rd' = rd
        /\ item' = item /\ toCon' = toCon /\ toBmc' = toBmc
        /\ msg' = msg /\ lastRxSeq' = lastRxSeq /\ last' = last
      BY <1>8 DEF CloseDone, Join, Deactivate, Deactivated, SessionClose, HangUp
  <2> QED
      BY <1>0, <2>1 DEF SeqInv, Held, Numbered, ConsoleOrder, AckOrder, Acknowledges, Unopened, Latest, InHand
<1>9. CASE SocketClose
  <2>1. /\ h' # "open" /\ rd' = rd
        /\ item' = item
        /\ msg' = msg /\ lastRxSeq' = lastRxSeq /\ last' = last
        /\ Len(toCon') = 0 /\ Len(toBmc') = 0
      BY <1>9 DEF SocketClose
  <2>2. ConsoleOrder' /\ AckOrder'
      BY <1>0, <2>1 DEF SeqInv, ConsoleOrder, AckOrder, Sorted, InHand
  <2> QED
      BY <1>0, <2>1, <2>2 DEF SeqInv, Held, Numbered, Unopened, Latest
<1>10. CASE Browser \/ UNCHANGED vars
  <2>1. /\ h' = h /\ rd' = rd /\ ka' = ka
        /\ item' = item /\ toCon' = toCon /\ toBmc' = toBmc
        /\ msg' = msg /\ lastRxSeq' = lastRxSeq /\ last' = last
      BY <1>10 DEF Browser, vars
  <2> QED
      BY <1>0, <2>1 DEF SeqInv, Held, Numbered, ConsoleOrder, AckOrder, Acknowledges, Unopened, Latest, InHand
<1>11. CASE BmcSend \/ BmcAck \/ BmcGivesUp \/ Lose
    BY <1>11, BmcSendKeeps, BmcAckKeeps, LoseKeeps
<1> QED
    BY <1>1, <1>2, <1>3, <1>4, <1>5, <1>6, <1>7, <1>8, <1>9, <1>10, <1>11
    DEF Next, Reader, Keepalive, Handler, Environment

\* The invariant holds in every reachable state.
LEMMA Invariant == Spec => []IInv
<1>1. IInv /\ [Next]_vars => IInv'
    BY TypeNext, SeqNext, LockNext, JoinNext DEF IInv
<1> QED
    BY <1>1, InitIInv, PTL DEF Spec

---------------------------------------------------------------------------
(* Theorems *)

\* Every variable of the serial console keeps its type; Write's numbers stay
\* between 1 and the largest.
THEOREM TypeCorrect == Spec => []TypeOK
    BY Invariant, PTL DEF IInv

\* onData gets the console's output in order and nothing twice, although packets
\* are lost and repeated and their numbers wrap.
THEOREM OutputInOrder == Spec => []InOrder
<1>1. IInv => InOrder
    BY DEF IInv, SeqInv, Held, InOrder
<1> QED
    BY <1>1, Invariant, PTL

\* When Close reads its replies readLoop does not read from the same socket.
THEOREM SingleReader == Spec => []OneReader
<1>1. IInv => OneReader
    BY DEF IInv, JoinInv, OneReader
<1> QED
    BY <1>1, Invariant, PTL

\* sendPacket writes its packets in the order of their session sequence numbers.
THEOREM PacketsInOrder == Spec => []NumbersInOrder
<1>1. IInv => NumbersInOrder
    BY DEF IInv, LockInv, NumbersInOrder
<1> QED
    BY <1>1, Invariant, PTL

\* Within a lap of the numbers, what the BMC takes for acknowledged has been handed
\* to onData.
THEOREM NothingUndelivered == Spec => AckedDelivered
<1>1. ASSUME IInv, [Next]_vars
      PROVE  [WithinLap /\ item' # item /\ toBmc' # toBmc => last = item]_vars
  <2> SUFFICES ASSUME WithinLap, item' # item, toBmc' # toBmc PROVE last = item
      OBVIOUS
  <2> USE DEF net, rvars, hvars, locks, process
  <2>1. BmcAck
      BY <1>1 DEF Next, Reader, Keepalive, Handler, Environment, vars,
         Top, ReadNothing, ReadError, ReadPacket, OnData, OnDataReturn, AckLock, AckSend,
         KeepaliveStop, Tick, KeepaliveLock, KeepaliveSend, OpenSOL, WriteText, WriteTextReturn,
         Write, KeyLock, KeySend, BrowserLeft, CloseDone, Join, Deactivate, Deactivated,
         SessionClose, SocketClose, HangUp, BmcSend, BmcGivesUp, Lose, Browser
  <2>2. toBmc # <<>> /\ seqOf(Head(toBmc)) = seqOf(item)
      BY <2>1 DEF BmcAck
  <2> QED
      BY <1>1, <2>2, AckMatches
<1> QED
    BY <1>1, Invariant, PTL DEF Spec, AckedDelivered
============================================================================
