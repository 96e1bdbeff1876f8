------------------------- MODULE IpmiClient_proofs -------------------------
(***************************************************************************)
(* Safety of the shared IPMI client for any number of handlers, attempts   *)
(* and packets on the network.                                             *)
(***************************************************************************)
EXTENDS IpmiClient, TLAPS

\* The values a bounded sum can take.
LEMMA AtMostBound ==
  ASSUME NEW n \in Nat, NEW cap \in Nat
  PROVE  AtMost(n, cap) \in 0..cap /\ AtMost(n, cap) <= n
  BY DEF AtMost

\* A bridge that starts has no call in progress.
LEMMA InitIInv == Init => IInv
  <1> SUFFICES ASSUME Init PROVE IInv
    OBVIOUS
  <1>1. TypeOK
    <2>1. attempt \in 0..(Attempts - 1)
      BY BoundsAssumption DEF Init
    <2>2. flight \in [Packets -> 0..FlightCap]
      BY BoundsAssumption DEF Init
    <2>3. sock \in Seq(Packets) /\ Len(sock) <= SockCap
      BY BoundsAssumption DEF Init
    <2> QED
      BY <2>1, <2>2, <2>3, NoneAssumption DEF Init, TypeOK, States
  <1> QED
    BY <1>1, NoneAssumption
    DEF Init, IInv, MutexOwners, CallInProgress, NothingUnderWay, InStepUntilLate, Packets

\* The handlers' own steps keep the types.
LEMMA HandlerTypeOK ==
  ASSUME TypeOK, NEW h \in Handlers,
         \/ Request(h) \/ EnsureLock(h) \/ Dial(h) \/ DialFail(h)
         \/ \E to \in {"ready", "sel"} : EnsureReturn(h, to)
         \/ (\E to \in {"locked", "hung"} : HandlerLock(h, to)) \/ Reject(h) \/ Hung(h) \/ NextCall(h) \/ ScanReturn(h) \/ HandlerReturn(h)
  PROVE  TypeOK'
  <1> USE NoneAssumption, BoundsAssumption
  <1>1. CASE Dial(h)
    BY <1>1 DEF TypeOK, States, Packets, Dial
  <1>2. CASE Hung(h)
    BY <1>2 DEF TypeOK, Hung, vars, bridge, wire
  <1> QED
    BY <1>1, <1>2
  DEF TypeOK, States, Request, EnsureLock, Dial, DialFail, EnsureReturn, HandlerLock, Reject, NextCall,
      ScanReturn, HandlerReturn, Answer, bridge, wire

\* Every step keeps the types.
LEMMA NextTypeOK == TypeOK /\ [Next]_vars => TypeOK'
  <1> SUFFICES ASSUME TypeOK, [Next]_vars PROVE TypeOK'
    OBVIOUS
  <1> USE NoneAssumption, BoundsAssumption DEF TypeOK, Packets, bridge, wire
  <1>1. ASSUME NEW h \in Handlers, Send(h) PROVE TypeOK'
    <2>1. flight' \in [Packets -> 0..FlightCap]
      <3>1. flight["own"] + flight["old"] \in Nat
        OBVIOUS
      <3>2. AtMost(flight["own"] + flight["old"], FlightCap) \in 0..FlightCap
        BY <3>1, AtMostBound
      <3> QED BY <1>1, <3>2 DEF Send, rawCall
    <2>2. sock' \in Seq(Packets) /\ Len(sock') = Len(sock)
      BY <1>1 DEF Send, rawCall
    <2> QED
      BY <1>1, <2>1, <2>2 DEF Send, rawCall
  <1>2. CASE Write
    <2>1. flight' \in [Packets -> 0..FlightCap]
      <3>1. flight["own"] + 1 \in Nat
        OBVIOUS
      <3>2. AtMost(flight["own"] + 1, FlightCap) \in 0..FlightCap
        BY <3>1, AtMostBound
      <3> QED BY <1>2, <3>2 DEF Write
    <2> QED
      BY <1>2, <2>1 DEF Write
  <1>3. CASE WriteError \/ Timeout
    BY <1>3 DEF WriteError, Timeout
  <1>4. CASE Read \/ BadPacket
    <2>1. sock # <<>> /\ sock' = Tail(sock)
      BY <1>4 DEF Read, BadPacket
    <2>2. sock' \in Seq(Packets) /\ Len(sock') <= SockCap /\ Head(sock) \in Packets
      BY <2>1
    <2> QED
      BY <1>4, <2>2 DEF Read, BadPacket
  <1>5. CASE Retry
    BY <1>5 DEF Retry
  <1>6. ASSUME NEW p \in Packets, Deliver(p) \/ Lose(p) PROVE TypeOK'
    <2>1. flight' \in [Packets -> 0..FlightCap]
      <3>1. flight[p] - 1 \in 0..FlightCap
        BY <1>6 DEF Deliver, Lose
      <3> QED BY <1>6, <3>1 DEF Deliver, Lose
    <2>2. sock' \in Seq(Packets) /\ Len(sock') <= SockCap
      <3>1. sock' = sock \/ (Len(sock) < SockCap /\ sock' = Append(sock, p))
        BY <1>6 DEF Deliver, Lose
      <3> QED
        BY <3>1
    <2> QED
      BY <1>6, <2>1, <2>2 DEF Deliver, Lose
  <1>7. CASE UNCHANGED vars
    BY <1>7 DEF vars
  <1> QED
    BY <1>1, <1>2, <1>3, <1>4, <1>5, <1>6, <1>7, HandlerTypeOK DEF Next, Roundtrip

\* Who holds the two mutexes, after any step.
LEMMA NextOwners ==
  ASSUME IInv, [Next]_vars
  PROVE  MutexOwners' /\ CallInProgress'
  <1> USE NoneAssumption DEF IInv, TypeOK, MutexOwners, CallInProgress, Calling, States
  <1>1. ASSUME NEW h \in Handlers, \/ Request(h) \/ EnsureLock(h) \/ Dial(h)
                                    \/ \E to \in {"locked", "hung"} : HandlerLock(h, to)
        PROVE  MutexOwners' /\ CallInProgress'
    BY <1>1 DEF Request, EnsureLock, HandlerLock, Dial
  <1>2. ASSUME NEW h \in Handlers, DialFail(h) \/ Reject(h) PROVE MutexOwners' /\ CallInProgress'
    BY <1>2 DEF DialFail, Reject, Answer
  <1>3. ASSUME NEW h \in Handlers, NEW to \in {"ready", "sel"}, EnsureReturn(h, to)
        PROVE  MutexOwners' /\ CallInProgress'
    BY <1>3 DEF EnsureReturn
  <1>4. ASSUME NEW h \in Handlers, Send(h) PROVE MutexOwners' /\ CallInProgress'
    BY <1>4 DEF Send, rawCall, bridge
  <1>5. ASSUME NEW h \in Handlers, NextCall(h) \/ ScanReturn(h) \/ HandlerReturn(h)
        PROVE  MutexOwners' /\ CallInProgress'
    BY <1>5 DEF NextCall, ScanReturn, HandlerReturn, Returned, Answer, bridge
  <1>6. CASE Roundtrip
    BY <1>6 DEF Roundtrip, Write, WriteError, Read, BadPacket, Timeout, Retry, bridge
  <1>7. ASSUME NEW p \in Packets, Deliver(p) \/ Lose(p) PROVE MutexOwners' /\ CallInProgress'
    BY <1>7 DEF Deliver, Lose, bridge
  <1>8. CASE UNCHANGED vars \/ \E h \in Handlers : Hung(h)
    BY <1>8 DEF Hung, vars, bridge
  <1> QED
    BY <1>1, <1>2, <1>3, <1>4, <1>5, <1>6, <1>7, <1>8 DEF Next

\* What is under way, and whose reply was returned last, after any step.
LEMMA NextUnderWay ==
  ASSUME IInv, [Next]_vars
  PROVE  NothingUnderWay' /\ InStepUntilLate'
  <1> USE NoneAssumption, BoundsAssumption
      DEF IInv, TypeOK, NothingUnderWay, InStepUntilLate, Packets, bridge, wire
  <1>1. ASSUME NEW h \in Handlers,
               \/ Request(h) \/ EnsureLock(h) \/ Dial(h) \/ DialFail(h)
               \/ \E to \in {"ready", "sel"} : EnsureReturn(h, to)
               \/ (\E to \in {"locked", "hung"} : HandlerLock(h, to)) \/ Reject(h) \/ Hung(h)
        PROVE  NothingUnderWay' /\ InStepUntilLate'
    <2>1. CASE Dial(h)
      <3> SUFFICES ASSUME ~late' PROVE NothingUnderWay' /\ InStepUntilLate'
        BY DEF NothingUnderWay, InStepUntilLate
      <3>1. ~late /\ flight' = [flight EXCEPT !["old"] = 0]
        <4>1. PICK n \in 0..FlightCap :
                flight' = [flight EXCEPT !["old"] = n] /\ late' = (late \/ n > 0)
          BY <2>1 DEF Dial
        <4>2. ~(late \/ n > 0)
          BY <4>1, Zenon
        <4>3. n = 0
          BY <4>1, <4>2
        <4> QED
          BY <4>1, <4>2, <4>3
      <3>2. UNCHANGED <<io, sock, got>>
        BY <2>1 DEF Dial
      <3> QED
        BY <3>1, <3>2
    <2>2. CASE ~Dial(h)
      BY <1>1, <2>2 DEF Request, EnsureLock, DialFail, EnsureReturn, HandlerLock, Reject, Hung, vars
    <2> QED
      BY <2>1, <2>2
  <1>2. ASSUME NEW h \in Handlers, NextCall(h) \/ ScanReturn(h) \/ HandlerReturn(h)
        PROVE  NothingUnderWay' /\ InStepUntilLate'
    BY <1>2 DEF NextCall, ScanReturn, HandlerReturn, Returned
  <1>3. ASSUME NEW h \in Handlers, Send(h) PROVE NothingUnderWay' /\ InStepUntilLate'
    <2> SUFFICES ASSUME ~late PROVE NothingUnderWay' /\ InStepUntilLate'
      BY <1>3 DEF Send
    <2>1. io = "none"
      BY <1>3 DEF Send, CallInProgress
    <2>2. flight["own"] = 0 /\ flight["old"] = 0 /\ sock = <<>>
      BY <2>1
    <2>3. flight'["own"] = 0 /\ flight'["old"] = 0
      BY <1>3, <2>2, AtMostBound DEF Send, rawCall
    <2>4. sock' = <<>>
      BY <1>3, <2>2 DEF Send, rawCall
    <2> QED
      BY <1>3, <2>3, <2>4 DEF Send, rawCall
  <1>4. CASE Write
    <2>1. flight'["own"] <= flight["own"] + 1 /\ flight'["own"] \in Nat /\ flight'["old"] = flight["old"]
      <3>1. flight["own"] + 1 \in Nat
        OBVIOUS
      <3>2. /\ AtMost(flight["own"] + 1, FlightCap) \in 0..FlightCap
            /\ AtMost(flight["own"] + 1, FlightCap) <= flight["own"] + 1
        BY <3>1, AtMostBound, Zenon
      <3> QED BY <1>4, <3>2 DEF Write
    <2> QED
      BY <1>4, <2>1 DEF Write
  <1>5. CASE WriteError \/ BadPacket \/ Timeout \/ Retry
    BY <1>5 DEF WriteError, BadPacket, Timeout, Retry
  <1>6. CASE Read
    BY <1>6 DEF Read
  <1>7. ASSUME NEW p \in Packets, Deliver(p) PROVE NothingUnderWay' /\ InStepUntilLate'
    <2> SUFFICES ASSUME ~late PROVE NothingUnderWay' /\ InStepUntilLate'
      BY <1>7 DEF Deliver
    <2>1. p = "own" /\ flight["own"] = 1 /\ sock = <<>>
      BY <1>7 DEF Deliver
    <2>2. flight'["own"] = 0 /\ flight'["old"] = 0
      BY <1>7, <2>1 DEF Deliver
    <2>3. sock' = <<>> \/ sock' = <<"own">>
      BY <1>7, <2>1 DEF Deliver
    <2> QED
      BY <1>7, <2>1, <2>2, <2>3 DEF Deliver
  <1>8. ASSUME NEW p \in Packets, Lose(p) PROVE NothingUnderWay' /\ InStepUntilLate'
    BY <1>8 DEF Lose
  <1>9. CASE UNCHANGED vars
    BY <1>9 DEF vars
  <1> QED
    BY <1>1, <1>2, <1>3, <1>4, <1>5, <1>6, <1>7, <1>8, <1>9 DEF Next, Roundtrip

\* The inductive invariant holds in every reachable state.
THEOREM Inductive == Spec => []IInv
  <1>1. IInv /\ [Next]_vars => IInv'
    BY NextTypeOK, NextOwners, NextUnderWay DEF IInv
  <1> QED
    BY InitIInv, <1>1, PTL DEF Spec

\* Every variable keeps its type; roundtrip never counts past its last attempt.
THEOREM TypeCorrect == Spec => []TypeOK
  <1>1. IInv => TypeOK
    BY DEF IInv
  <1> QED
    BY <1>1, Inductive, PTL

\* The two mutexes are held by handlers entitled to them, and by nobody else.
THEOREM Owners == Spec => []MutexOwners
  <1>1. IInv => MutexOwners
    BY DEF IInv
  <1> QED
    BY <1>1, Inductive, PTL

\* Replies and calls are in step until an attempt goes unanswered, for any
\* number of handlers and any network.
THEOREM InStep == Spec => []InStepUntilLate
  <1>1. IInv => InStepUntilLate
    BY DEF IInv
  <1> QED
    BY <1>1, Inductive, PTL

---------------------------------------------------------------------------
(* A call ends *)

\* The steps roundtrip can still take: a write, a read and a sleep per attempt.
callLeft ==
    IF io = "write" THEN 3 * (Attempts - attempt)
    ELSE IF io = "read" THEN 3 * (Attempts - attempt) - 1
    ELSE IF io = "sleep" THEN 3 * (Attempts - attempt) - 2
    ELSE 0

\* A step of roundtrip brings the call nearer to its end, and nothing the other
\* handlers and the network do takes it back: only a call that begins has more
\* left than there was before.
CallShrinks ==
    /\ Roundtrip => callLeft' < callLeft
    /\ callLeft' > callLeft => \E h \in Handlers : Send(h)

\* A call is never without an end, and has steps left as long as it is in progress.
LEMMA CallLeftType ==
  ASSUME TypeOK
  PROVE  callLeft \in 0..(3 * Attempts) /\ (callLeft = 0 <=> io \in {"none", "reply", "failed"})
  <1>1. Attempts \in Nat /\ attempt \in Nat /\ attempt < Attempts
    BY BoundsAssumption DEF TypeOK
  <1>2. io \in {"none", "write", "read", "sleep", "reply", "failed"}
    BY DEF TypeOK
  <1> QED
    BY <1>1, <1>2 DEF callLeft

\* What each step does to it.
LEMMA NextCallShrinks ==
  TypeOK /\ TypeOK' /\ [Next]_vars => CallShrinks
  <1> SUFFICES ASSUME TypeOK, TypeOK', [Next]_vars PROVE CallShrinks
    OBVIOUS
  <1> USE DEF bridge, wire
  <1>1. Attempts \in Nat /\ attempt \in Nat /\ attempt < Attempts
    BY BoundsAssumption DEF TypeOK
  <1>2. callLeft \in Nat /\ callLeft' \in Nat
    <2>1. Attempts \in Nat /\ attempt' \in Nat /\ attempt' < Attempts
      BY BoundsAssumption DEF TypeOK
    <2>2. callLeft \in Nat
      BY <1>1 DEF callLeft
    <2>3. PICK m \in Nat : m >= 1 /\ Attempts - attempt' = m
      <3>1. \A a \in Nat : a < Attempts => Attempts - a \in Nat /\ Attempts - a >= 1
        BY BoundsAssumption
      <3> QED
        BY <2>1, <3>1
    <2>4. callLeft' = IF io' = "write" THEN 3 * m
                      ELSE IF io' = "read" THEN 3 * m - 1
                      ELSE IF io' = "sleep" THEN 3 * m - 2
                      ELSE 0
      BY <2>3 DEF callLeft
    <2> QED
      BY <2>2, <2>3, <2>4
  <1>3. ASSUME Write \/ WriteError \/ Read \/ BadPacket \/ Timeout PROVE callLeft' < callLeft
    <2>1. attempt' = attempt
      BY <1>3 DEF Write, WriteError, Read, BadPacket, Timeout
    <2>2. \/ io = "write" /\ io' \in {"read", "sleep"}
          \/ io = "read" /\ io' \in {"sleep", "reply"}
      BY <1>3 DEF Write, WriteError, Read, BadPacket, Timeout
    <2> QED
      BY <1>1, <2>1, <2>2 DEF callLeft
  <1>4. ASSUME Retry PROVE callLeft' < callLeft
    <2>1. CASE attempt < Attempts - 1
      <3>1. io = "sleep" /\ io' = "write" /\ attempt' = attempt + 1
        BY <1>4, <2>1 DEF Retry
      <3> QED
        BY <1>1, <3>1 DEF callLeft
    <2>2. CASE ~(attempt < Attempts - 1)
      <3>1. io = "sleep" /\ io' = "failed"
        BY <1>4, <2>2 DEF Retry
      <3> QED
        BY <1>1, <3>1 DEF callLeft
    <2> QED
      BY <2>1, <2>2
  <1>5. Roundtrip => callLeft' < callLeft
    BY <1>3, <1>4 DEF Roundtrip
  <1>6. ASSUME NEW h \in Handlers,
               \/ Request(h) \/ EnsureLock(h) \/ Dial(h) \/ DialFail(h)
               \/ \E to \in {"ready", "sel"} : EnsureReturn(h, to)
               \/ (\E to \in {"locked", "hung"} : HandlerLock(h, to)) \/ Reject(h) \/ Hung(h)
        PROVE  callLeft' = callLeft
    BY <1>6 DEF Request, EnsureLock, Dial, DialFail, EnsureReturn, HandlerLock, Reject, Hung, vars, Answer, callLeft
  <1>7. ASSUME NEW h \in Handlers, NextCall(h) \/ ScanReturn(h) \/ HandlerReturn(h)
        PROVE  callLeft' = callLeft
    BY <1>7 DEF NextCall, ScanReturn, HandlerReturn, Returned, callLeft
  <1>8. ASSUME NEW p \in Packets, Deliver(p) \/ Lose(p) PROVE callLeft' = callLeft
    BY <1>8 DEF Deliver, Lose, callLeft
  <1>9. ASSUME UNCHANGED vars PROVE callLeft' = callLeft
    BY <1>9 DEF vars, callLeft
  <1>10. callLeft' < callLeft \/ callLeft' = callLeft \/ \E h \in Handlers : Send(h)
    BY <1>5, <1>6, <1>7, <1>8, <1>9 DEF Next
  <1> QED
    BY <1>2, <1>5, <1>10 DEF CallShrinks

\* Client.Send gives Client.mu back: a call takes at most three steps of roundtrip
\* for each attempt, on any network and however many handlers there are.
THEOREM CallsEnd == Spec => [](callLeft \in 0..(3 * Attempts)) /\ [][CallShrinks]_vars
  <1>1. TypeOK => callLeft \in 0..(3 * Attempts)
    BY CallLeftType
  <1>2. TypeOK /\ TypeOK' /\ [Next]_vars => CallShrinks
    BY NextCallShrinks
  <1> QED
    BY <1>1, <1>2, TypeCorrect, PTL DEF Spec
===========================================================================
