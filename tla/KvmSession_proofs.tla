------------------------ MODULE KvmSession_proofs ------------------------
(***************************************************************************)
(* The supervisor's safety properties for any set of sessions, any bound   *)
(* on abandoned ones and any backoff cap.                                  *)
(***************************************************************************)
EXTENDS KvmSession, TLAPS

\* The initial state of main satisfies the inductive invariant.
LEMMA InitIInv == Init => IInv
  <1>1. Init => TypeOK
    <2> SUFFICES ASSUME Init PROVE TypeOK
      OBVIOUS
    <2>1. backoff \in 1..(2 * BackoffCap)
      BY BoundsAssumption DEF Init
    <2>2. prim \in [Gens -> Sockets] /\ vid \in [Gens -> Sockets]
      BY DEF Init, Sockets
    <2>3. vr \in [Gens -> Readers] /\ cr \in [Gens -> Readers]
      BY DEF Init, Readers
    <2>4. hb \in [Gens -> {"idle", "run"}] /\ chb \in [Gens -> {"idle", "run"}]
      BY DEF Init
    <2> QED
      BY <2>1, <2>2, <2>3, <2>4 DEF Init, TypeOK
  <1>2. QED
    BY <1>1 DEF Init, IInv, WaitOwnsSession, ConnectOwnsSession, StreamIsAwaited, videoSock

\* Type correctness is preserved by every step of the supervisor, the
\* goroutines and the BMC.
LEMMA NextTypeOK == TypeOK /\ WaitOwnsSession /\ ConnectOwnsSession /\ [Next]_vars => TypeOK'
  <1> SUFFICES ASSUME TypeOK, WaitOwnsSession, ConnectOwnsSession, [Next]_vars PROVE TypeOK'
    OBVIOUS
  <1> USE BoundsAssumption DEF TypeOK, Sockets, Readers, fields, conns, loops, vars
  <1>1. ASSUME NEW g \in Gens, NEW c \in BOOLEAN, Connect(g, c) PROVE TypeOK'
    BY <1>1 DEF Connect, makeStop
  <1>2. CASE ConnectFail
    BY <1>2 DEF ConnectFail, Retry
  <1>3. CASE OpenCompanion
    BY <1>3 DEF OpenCompanion
  <1>4. CASE CompanionFail
    BY <1>4 DEF CompanionFail, Retry
  <1>5. CASE StartLoops
    BY <1>5 DEF StartLoops, ConnectOwnsSession
  <1>6. CASE Teardown
    BY <1>6 DEF Teardown, closedCompanion, closedPrimary
  <1>7. CASE Wake
    BY <1>7 DEF Wake
  <1>8. ASSUME NEW g \in Gens, Goroutines(g) \/ Environment(g) PROVE TypeOK'
    BY <1>8 DEF Goroutines, Environment, HeartbeatEnd, CompanionHeartbeatEnd, HandleVideo,
                Aggregate, Frames, VideoReadError, ControlReadError, ReadVideo, VideoBadFrame,
                ControlBadFrame, DropPrimary, DropCompanion, markDead
  <1>9. CASE HandleDebugDrop
    BY <1>9 DEF HandleDebugDrop, closedCompanion
  <1>10. CASE Exited \/ UNCHANGED vars
    <2>1. UNCHANGED vars
      BY <1>10 DEF Exited
    <2> QED
      BY <2>1
  <1> QED
    BY <1>1, <1>2, <1>3, <1>4, <1>5, <1>6, <1>7, <1>8, <1>9, <1>10 DEF Next, Supervisor

\* Every step preserves the inductive invariant.
LEMMA NextIInv == IInv /\ [Next]_vars => IInv'
  <1> SUFFICES ASSUME IInv, [Next]_vars PROVE IInv'
    OBVIOUS
  <1>0. TypeOK'
    BY NextTypeOK DEF IInv
  <1> USE GensAssumption
      DEF IInv, TypeOK, Sockets, Readers, fields, conns, loops, vars, videoSock
  <1> DEFINE Rest == WaitOwnsSession /\ ConnectOwnsSession /\ StreamIsAwaited
  <1> SUFFICES Rest'
    BY <1>0
  <1>1. ASSUME NEW g \in Gens, NEW c \in BOOLEAN, Connect(g, c) PROVE Rest'
    <2>1. WaitOwnsSession' /\ ConnectOwnsSession'
      BY <1>1 DEF Connect, makeStop, Free, WaitOwnsSession, ConnectOwnsSession
    <2>2. StreamIsAwaited'
      <3> SUFFICES ASSUME NEW h \in Gens, vr'[h] # "idle"
                   PROVE h \in stopped' /\ videoSock(h)' = "down"
        BY DEF StreamIsAwaited
      <3>1. vr[h] # "idle" /\ h # g
        BY <1>1 DEF Connect, Free
      <3>2. h \in stopped /\ videoSock(h) = "down"
        BY <1>1, <3>1 DEF Connect, StreamIsAwaited
      <3> QED
        BY <1>1, <3>1, <3>2 DEF Connect, makeStop
    <2> QED
      BY <2>1, <2>2
  <1>2. CASE ConnectFail
    <2>1. pc = "connect" /\ pc' \in {"backoff", "exit"}
      BY <1>2 DEF ConnectFail, Retry
    <2>2. UNCHANGED <<sess, sessDead, hbStop, videoConn, comp, prim, vid, dead, stopped, vr>>
      BY <1>2 DEF ConnectFail
    <2>3. WaitOwnsSession' /\ ConnectOwnsSession'
      BY <2>1 DEF WaitOwnsSession, ConnectOwnsSession
    <2>4. StreamIsAwaited'
      BY <2>1, <2>2 DEF StreamIsAwaited
    <2> QED
      BY <2>3, <2>4
  <1>3. CASE OpenCompanion
    BY <1>3 DEF OpenCompanion, WaitOwnsSession, ConnectOwnsSession, StreamIsAwaited
  <1>4. CASE CompanionFail
    <2>1. pc = "companion" /\ pc' \in {"backoff", "exit"}
      BY <1>4 DEF CompanionFail, Retry
    <2>2. UNCHANGED <<sess, sessDead, hbStop, videoConn, comp, prim, vid, dead, stopped, vr>>
      BY <1>4 DEF CompanionFail
    <2>3. WaitOwnsSession' /\ ConnectOwnsSession'
      BY <2>1 DEF WaitOwnsSession, ConnectOwnsSession
    <2>4. StreamIsAwaited'
      BY <2>1, <2>2 DEF StreamIsAwaited
    <2> QED
      BY <2>3, <2>4
  <1>5. CASE StartLoops
    BY <1>5 DEF StartLoops, WaitOwnsSession, ConnectOwnsSession, StreamIsAwaited
  <1>6. CASE Teardown
    <2>1. WaitOwnsSession' /\ ConnectOwnsSession'
      BY <1>6 DEF Teardown, WaitOwnsSession, ConnectOwnsSession
    <2>2. videoSock(sess)' = "down"
      BY <1>6 DEF Teardown, closedCompanion, closedPrimary, WaitOwnsSession
    <2>3. StreamIsAwaited'
      BY <1>6, <2>2 DEF Teardown, closedCompanion, closedPrimary, WaitOwnsSession, StreamIsAwaited
    <2> QED
      BY <2>1, <2>3
  <1>7. CASE Wake
    BY <1>7 DEF Wake, WaitOwnsSession, ConnectOwnsSession, StreamIsAwaited
  <1>8. ASSUME NEW g \in Gens, Goroutines(g) PROVE Rest'
    BY <1>8 DEF Goroutines, HeartbeatEnd, CompanionHeartbeatEnd, HandleVideo, VideoReadError,
                ControlReadError, markDead, WaitOwnsSession, ConnectOwnsSession, StreamIsAwaited
  <1>9. ASSUME NEW g \in Gens, Environment(g) PROVE Rest'
    BY <1>9 DEF Environment, ReadVideo, VideoBadFrame, ControlBadFrame, DropPrimary,
                DropCompanion, markDead, WaitOwnsSession, ConnectOwnsSession, StreamIsAwaited
  <1>10. CASE HandleDebugDrop
    BY <1>10 DEF HandleDebugDrop, closedCompanion, WaitOwnsSession, ConnectOwnsSession,
                 StreamIsAwaited
  <1>11. CASE Exited \/ UNCHANGED vars
    BY <1>11 DEF Exited, WaitOwnsSession, ConnectOwnsSession, StreamIsAwaited
  <1> QED
    BY <1>1, <1>2, <1>3, <1>4, <1>5, <1>6, <1>7, <1>8, <1>9, <1>10, <1>11
    DEF Next, Supervisor

\* The inductive invariant holds in every reachable state.
THEOREM Inductive == Spec => []IInv
  BY InitIInv, NextIInv, PTL DEF Spec

\* Every variable keeps its type; in particular the backoff of superviseBMC
\* never exceeds twice its cap, however often connectBMC fails.
THEOREM TypeCorrect == Spec => []TypeOK
  <1>1. IInv => TypeOK
    BY DEF IInv
  <1> QED
    BY <1>1, Inductive, PTL

\* Next to a streaming session, a reader of another one has been stopped and
\* has lost its socket.
THEOREM OneStream == Spec => []OneVideoStream
  <1>1. IInv => OneVideoStream
    BY DEF IInv, StreamIsAwaited, OneVideoStream, Streaming
  <1> QED
    BY <1>1, Inductive, PTL

\* superviseBMC never sleeps on a channel that nobody is left to close.
THEOREM WakeupNotLost == Spec => []NoLostWakeup
  <1>1. IInv => NoLostWakeup
    BY DEF IInv, WaitOwnsSession, NoLostWakeup
  <1> QED
    BY <1>1, Inductive, PTL

\* teardownSession closes the stop channel of the session it tears down, once.
THEOREM StopChannel == Spec => []StopChannelIsCurrent
  <1>1. IInv => StopChannelIsCurrent
    BY DEF IInv, WaitOwnsSession, StopChannelIsCurrent
  <1> QED
    BY <1>1, Inductive, PTL

\* b.sess is replaced only while no session's video is read from an open
\* socket.
THEOREM SwapSafe == Spec => SwapAfterTeardown
  <1>1. IInv /\ [Next]_vars => [sess' # sess => \A g \in Gens : ~Streaming(g)]_vars
    <2> SUFFICES ASSUME IInv, Next, sess' # sess PROVE \A g \in Gens : ~Streaming(g)
      BY DEF vars, fields
    <2>1. pc = "connect"
      BY DEF Next, Supervisor, Connect, ConnectFail, OpenCompanion, CompanionFail, StartLoops,
             Teardown, Wake, Goroutines, Environment, HeartbeatEnd, CompanionHeartbeatEnd,
             HandleVideo, VideoReadError, ControlReadError, ReadVideo, VideoBadFrame,
             ControlBadFrame, DropPrimary, DropCompanion, HandleDebugDrop, Exited, vars, fields
    <2> QED
      BY <2>1 DEF IInv, StreamIsAwaited, Streaming
  <1> QED
    BY <1>1, Inductive, PTL DEF Spec, SwapAfterTeardown
===========================================================================
