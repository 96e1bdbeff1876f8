---------------------------- MODULE KvmSession ----------------------------
(***************************************************************************)
(* The KVM session supervisor of cmd/beefkvm/main.go: connectBMC,          *)
(* openVideoCompanion, superviseBMC and teardownSession, with the          *)
(* goroutines each session spawns (heartbeats, video and control readers)  *)
(* and the BMC as an environment that drops sockets when it likes.         *)
(*                                                                         *)
(* Every successful Session.Open is a generation g \in Gens.  The set is   *)
(* finite and its members are recycled: Open may take g again once nothing *)
(* in the process refers to g (Free), so behaviours are unbounded.         *)
(***************************************************************************)
EXTENDS Naturals, FiniteSets

CONSTANTS Gens,        \* identities of KVM sessions
          NoGen,       \* Go's nil
          MaxOrphans,  \* bound: sessions abandoned by connectBMC that are still alive
          BackoffCap   \* superviseBMC stops doubling the wait at this many seconds

ASSUME GensAssumption == NoGen \notin Gens
ASSUME BoundsAssumption == MaxOrphans \in Nat /\ BackoffCap \in Nat \ {0}

VARIABLES
    pc,         \* where connectBMC and superviseBMC stand
    caller,     \* whose thread of control that is; main hands over when connected
    backoff,    \* superviseBMC's wait, in seconds
    sess,       \* b.sess
    sessDead,   \* the generation whose death channel b.sessDead is
    hbStop,     \* the generation whose stop channel b.hbStop is, or nil
    videoConn,  \* the generation whose video socket b.videoConn is, or nil
    comp,       \* sessions whose KVMLoginResponse.NeedsCompanion is set
    prim,       \* the primary (input, control, heartbeat) socket
    vid,        \* the companion video socket
    dead,       \* sessions whose death channel is closed
    stopped,    \* sessions whose heartbeat stop channel is closed
    hb,         \* primary heartbeat goroutine and the goroutine waiting on hbDone
    chb,        \* companion heartbeat goroutine
    vr,         \* readVideoLoop goroutine
    cr,         \* readControlLoop goroutine
    avoAgg      \* whose bytes b.avoAgg holds

conns == <<comp, prim, vid, dead, stopped>>
loops == <<hb, chb, vr, cr>>
fields == <<sess, sessDead, hbStop, videoConn>>
vars == <<pc, caller, backoff, fields, conns, loops, avoAgg>>

Sockets == {"open", "down"}
Readers == {"idle", "read", "got"}
\* Fragment flag of a DCT tile (ids 134 and 34310), or any other frame.
Frames == {"start", "cont", "other"}

\* The socket readVideoLoop(g) reads.
videoSock(g) == IF g \in comp THEN vid[g] ELSE prim[g]

\* Nothing in the process depends on g: its goroutines are gone, no socket of
\* it is open and it is not the current session.  A b.videoConn left behind by
\* teardownSession may still name g; a closed socket is as good as nil.
Free == {g \in Gens :
            /\ g \notin {sess, sessDead, hbStop}
            /\ hb[g] = "idle" /\ chb[g] = "idle" /\ vr[g] = "idle" /\ cr[g] = "idle"
            /\ prim[g] = "down" /\ vid[g] = "down"}

\* Sessions connectBMC gave up on whose primary socket is still up.
Orphans == {g \in Gens \ {sess} : prim[g] = "open"}

Running == pc # "exit"

\* markDead: closes the death channel, once.
markDeadLost(g) == dead  \* mutant: the loop returns without it
markDead(g) == dead \cup {g}

TypeOK ==
    /\ pc \in {"connect", "companion", "loops", "wait", "backoff", "exit"}
    /\ caller \in {"main", "superviseBMC"}
    /\ backoff \in 1..(2 * BackoffCap)
    /\ sess \in Gens \cup {NoGen}
    /\ sessDead \in Gens \cup {NoGen}
    /\ hbStop \in Gens \cup {NoGen}
    /\ videoConn \in Gens \cup {NoGen}
    /\ comp \in SUBSET Gens
    /\ prim \in [Gens -> Sockets]
    /\ vid \in [Gens -> Sockets]
    /\ dead \in SUBSET Gens
    /\ stopped \in SUBSET Gens
    /\ hb \in [Gens -> {"idle", "run"}]
    /\ chb \in [Gens -> {"idle", "run"}]
    /\ vr \in [Gens -> Readers]
    /\ cr \in [Gens -> Readers]
    /\ avoAgg \in SUBSET {"live", "stale"}

Init ==
    /\ pc = "connect"
    /\ caller = "main"
    /\ backoff = 1
    /\ sess = NoGen /\ sessDead = NoGen /\ hbStop = NoGen /\ videoConn = NoGen
    /\ comp = {}
    /\ prim = [g \in Gens |-> "down"]
    /\ vid = [g \in Gens |-> "down"]
    /\ dead = {}
    /\ stopped = {}
    /\ hb = [g \in Gens |-> "idle"]
    /\ chb = [g \in Gens |-> "idle"]
    /\ vr = [g \in Gens |-> "idle"]
    /\ cr = [g \in Gens |-> "idle"]
    /\ avoAgg = {}

---------------------------------------------------------------------------
(* superviseBMC and connectBMC *)

\* stop := make(chan struct{}).
makeStopReused(g) == stopped  \* mutant: one channel for the bridge's lifetime
makeStop(g) == stopped \ {g}

\* connectBMC up to the companion: Open succeeds, b.sess and the two channels
\* are fresh, the heartbeat goroutine and its waiter start.
Connect(g, needsCompanion) ==
    /\ pc = "connect"
    /\ g \in Free
    /\ pc' = "companion"
    /\ sess' = g /\ sessDead' = g /\ hbStop' = g
    /\ videoConn' = IF videoConn = g THEN NoGen ELSE videoConn
    /\ comp' = IF needsCompanion THEN comp \cup {g} ELSE comp \ {g}
    /\ prim' = [prim EXCEPT ![g] = "open"]
    /\ dead' = dead \ {g}
    /\ stopped' = makeStop(g)
    /\ hb' = [hb EXCEPT ![g] = "run"]
    /\ UNCHANGED <<caller, backoff, vid, chb, vr, cr, avoAgg>>

RetryUncapped ==  \* mutant: the cap test is gone
    /\ pc' = IF caller = "superviseBMC" THEN "backoff" ELSE "exit"
    /\ backoff' = IF caller = "superviseBMC" THEN 2 * backoff ELSE backoff

RetryGivesUp ==  \* mutant: superviseBMC returns at the cap
    /\ pc' = IF caller = "superviseBMC" /\ backoff < BackoffCap THEN "backoff" ELSE "exit"
    /\ backoff' = IF caller = "superviseBMC" /\ backoff < BackoffCap THEN 2 * backoff ELSE backoff

\* What superviseBMC does with an error of connectBMC: sleep again, longer.
\* In main the same error is log.Fatalf.
Retry ==
    /\ pc' = IF caller = "superviseBMC" THEN "backoff" ELSE "exit"
    /\ backoff' = IF caller = "superviseBMC" /\ backoff < BackoffCap THEN 2 * backoff ELSE backoff

\* Session.Open fails; it has closed its own socket.
ConnectFail ==
    /\ pc = "connect"
    /\ Retry
    /\ UNCHANGED <<caller, fields, conns, loops, avoAgg>>

\* openVideoCompanion succeeds and starts the companion's own heartbeat.
OpenCompanion ==
    /\ pc = "companion"
    /\ sess \in comp
    /\ pc' = "loops"
    /\ vid' = [vid EXCEPT ![sess] = "open"]
    /\ chb' = [chb EXCEPT ![sess] = "run"]
    /\ UNCHANGED <<caller, backoff, fields, comp, prim, dead, stopped, hb, vr, cr, avoAgg>>

\* openVideoCompanion fails: connectBMC returns the error with b.sess, the
\* heartbeat and the open primary left as they are.
CompanionFail ==
    /\ pc = "companion"
    /\ sess \in comp
    /\ Cardinality(Orphans \cup {sess}) <= MaxOrphans
    /\ Retry
    /\ UNCHANGED <<caller, fields, conns, loops, avoAgg>>

\* The rest of connectBMC: b.videoConn, the three start-up frames (their
\* write errors are ignored), the reader goroutines; then superviseBMC waits.
\* The backoff of the attempt is over; the next one starts at a second again.
StartLoops ==
    /\ \/ pc = "loops"
       \/ pc = "companion" /\ sess \notin comp
    /\ pc' = "wait"
    /\ caller' = "superviseBMC"
    /\ backoff' = 1
    /\ videoConn' = sess
    /\ vr' = [vr EXCEPT ![sess] = "read"]
    /\ cr' = IF sess \in comp THEN [cr EXCEPT ![sess] = "read"] ELSE cr
    /\ UNCHANGED <<sess, sessDead, hbStop, conns, hb, chb, avoAgg>>

\* b.videoConn.Close() unless it is the primary, and primary.Close(); closing a
\* socket that is down changes nothing.
closedCompanionLeft == vid  \* mutant: only the primary is closed
closedCompanion ==
    IF videoConn # NoGen /\ videoConn \in comp THEN [vid EXCEPT ![videoConn] = "down"] ELSE vid

closedPrimary == IF sess # NoGen THEN [prim EXCEPT ![sess] = "down"] ELSE prim

\* superviseBMC wakes on <-b.sessDead; teardownSession stops the heartbeat,
\* closes both sockets and, under fbMu, drops the half-assembled tile.  One
\* step: a reader that still holds a frame handles it before or after, and
\* before teardownSession is the same as before its last statement.
Teardown ==
    /\ pc = "wait"
    /\ sessDead \in dead
    /\ pc' = "backoff"
    /\ stopped' = IF hbStop # NoGen THEN stopped \cup {hbStop} ELSE stopped
    /\ hbStop' = NoGen
    /\ vid' = closedCompanion
    /\ prim' = closedPrimary
    /\ avoAgg' = {}
    /\ UNCHANGED <<caller, backoff, sess, sessDead, videoConn, comp, dead, loops>>

\* time.Sleep(backoff) is over.
Wake ==
    /\ pc = "backoff"
    /\ pc' = "connect"
    /\ UNCHANGED <<caller, backoff, fields, conns, loops, avoAgg>>

---------------------------------------------------------------------------
(* The goroutines of a session.  A loop that returns and the markDead that  *)
(* follows are one step: until the channel is closed nobody can tell that    *)
(* the loop has returned.                                                    *)

\* StartHeartbeat's goroutine ends, told to stop or on a failed write, and the
\* goroutine waiting on hbDone marks the session dead, after a stop too.
HeartbeatEnd(g) ==
    /\ Running
    /\ hb[g] = "run"
    /\ g \in stopped \/ prim[g] = "down"
    /\ hb' = [hb EXCEPT ![g] = "idle"]
    /\ dead' = markDead(g)
    /\ UNCHANGED <<pc, caller, backoff, fields, comp, prim, vid, stopped, chb, vr, cr, avoAgg>>

\* The companion's heartbeat: its stop channel is never closed and its end is
\* only logged.
CompanionHeartbeatEnd(g) ==
    /\ Running
    /\ chb[g] = "run"
    /\ vid[g] = "down"
    /\ chb' = [chb EXCEPT ![g] = "idle"]
    /\ UNCHANGED <<pc, caller, backoff, fields, conns, hb, vr, cr, avoAgg>>

\* ReadAVPTFrame returns a frame.
ReadVideo(g) ==
    /\ Running
    /\ vr[g] = "read"
    /\ videoSock(g) = "open"
    /\ vr' = [vr EXCEPT ![g] = "got"]
    /\ UNCHANGED <<pc, caller, backoff, fields, conns, hb, chb, cr, avoAgg>>

\* b.avoAgg after handleVideoFrame has seen fragment f, whose bytes are
\* tagged t: a start resets the aggregate, a continuation extends one or,
\* with none under way, is decoded alone.
Aggregate(agg, f, t) ==
    CASE f = "start" -> {t}
      [] f = "cont" /\ agg # {} -> agg \cup {t}
      [] OTHER -> agg

\* handleVideoFrame under fbMu on the frame read before, then the ack (its
\* write error is ignored).  Bytes of a session teardownSession is done with
\* are tagged "stale".
HandleVideo(g, f) ==
    /\ Running
    /\ vr[g] = "got"
    /\ vr' = [vr EXCEPT ![g] = "read"]
    /\ avoAgg' = Aggregate(avoAgg, f, IF g \in stopped THEN "stale" ELSE "live")
    /\ UNCHANGED <<pc, caller, backoff, fields, conns, hb, chb, cr>>

\* readVideoLoop returns because the socket is down ...
VideoReadError(g) ==
    /\ Running
    /\ vr[g] = "read"
    /\ videoSock(g) = "down"
    /\ vr' = [vr EXCEPT ![g] = "idle"]
    /\ dead' = markDead(g)
    /\ UNCHANGED <<pc, caller, backoff, fields, comp, prim, vid, stopped, hb, chb, cr, avoAgg>>

\* ... or because a frame is malformed although the socket is up.
VideoBadFrame(g) ==
    /\ Running
    /\ vr[g] = "read"
    /\ videoSock(g) = "open"
    /\ vr' = [vr EXCEPT ![g] = "idle"]
    /\ dead' = markDead(g)
    /\ UNCHANGED <<pc, caller, backoff, fields, comp, prim, vid, stopped, hb, chb, cr, avoAgg>>

\* readControlLoop discards what it reads until the same happens to it.
ControlReadError(g) ==
    /\ Running
    /\ cr[g] = "read"
    /\ prim[g] = "down"
    /\ cr' = [cr EXCEPT ![g] = "idle"]
    /\ dead' = markDead(g)
    /\ UNCHANGED <<pc, caller, backoff, fields, comp, prim, vid, stopped, hb, chb, vr, avoAgg>>

ControlBadFrame(g) ==
    /\ Running
    /\ cr[g] = "read"
    /\ prim[g] = "open"
    /\ cr' = [cr EXCEPT ![g] = "idle"]
    /\ dead' = markDead(g)
    /\ UNCHANGED <<pc, caller, backoff, fields, comp, prim, vid, stopped, hb, chb, vr, avoAgg>>

---------------------------------------------------------------------------
(* Other actors *)

\* The BMC, or the network, drops the primary or the companion socket.
DropPrimary(g) ==
    /\ Running
    /\ prim[g] = "open"
    /\ prim' = [prim EXCEPT ![g] = "down"]
    /\ UNCHANGED <<pc, caller, backoff, fields, comp, vid, dead, stopped, loops, avoAgg>>

DropCompanion(g) ==
    /\ Running
    /\ vid[g] = "open"
    /\ vid' = [vid EXCEPT ![g] = "down"]
    /\ UNCHANGED <<pc, caller, backoff, fields, comp, prim, dead, stopped, loops, avoAgg>>

\* POST /api/debug/drop: closes b.videoConn and b.sess.Conn, read without a
\* lock.  While connectBMC is at work they are sockets of two sessions.
HandleDebugDrop ==
    /\ Running
    /\ caller = "superviseBMC"
    /\ vid' = closedCompanion
    /\ prim' = [g \in Gens |->
                   IF g = sess \/ (g = videoConn /\ g \notin comp) THEN "down" ELSE prim[g]]
    /\ UNCHANGED <<pc, caller, backoff, fields, comp, dead, stopped, loops, avoAgg>>

\* log.Fatalf in main: the process is gone.
Exited ==
    /\ pc = "exit"
    /\ UNCHANGED vars

Supervisor ==
    \/ \E g \in Gens, c \in BOOLEAN : Connect(g, c)
    \/ ConnectFail \/ OpenCompanion \/ CompanionFail \/ StartLoops
    \/ Teardown \/ Wake

Goroutines(g) ==
    \/ HeartbeatEnd(g) \/ CompanionHeartbeatEnd(g)
    \/ \E f \in Frames : HandleVideo(g, f)
    \/ VideoReadError(g) \/ ControlReadError(g)

Environment(g) ==
    \/ ReadVideo(g) \/ VideoBadFrame(g) \/ ControlBadFrame(g)
    \/ DropPrimary(g) \/ DropCompanion(g)

Next ==
    \/ Supervisor
    \/ \E g \in Gens : Goroutines(g) \/ Environment(g)
    \/ HandleDebugDrop
    \/ Exited

Spec == Init /\ [][Next]_vars

\* Goroutines run, timers fire, a blocked read or write on a socket that is
\* down returns; and the BMC is not unreachable forever: a connect that is
\* tried again and again succeeds in the end.  Heartbeats and the control
\* reader only ever end, so fairness of their union is fairness of each.
Fairness ==
    /\ \A g \in Gens :
          /\ WF_vars((\E f \in Frames : HandleVideo(g, f)) \/ VideoReadError(g))
          /\ WF_vars(HeartbeatEnd(g) \/ CompanionHeartbeatEnd(g) \/ ControlReadError(g))
    /\ WF_vars(Wake \/ Teardown \/ StartLoops)
    /\ SF_vars(\E g \in Gens, c \in BOOLEAN : Connect(g, c))
    /\ SF_vars(OpenCompanion)

FairSpec == Spec /\ Fairness

---------------------------------------------------------------------------
(* Properties *)

\* g's readVideoLoop feeds the shared decoder from a socket that is up.
Streaming(g) == vr[g] \in {"read", "got"} /\ videoSock(g) = "open"

\* Next to a session that streams, a readVideoLoop of any other session is one
\* teardownSession is done with: its heartbeat is stopped and its video socket
\* closed, whatever the BMC and /api/debug/drop close and however often
\* connectBMC fails in between.  The old reader takes no frame off its socket
\* any more; the one it may hold already it still decodes (NoLeftoverBytes).
OneVideoStream ==
    \A g, h \in Gens :
        Streaming(g) /\ g # h /\ vr[h] # "idle" => h \in stopped /\ videoSock(h) = "down"

\* superviseBMC never sleeps on a channel nobody will close: b.sessDead is the
\* current session's, and it is closed or a readVideoLoop that will close it
\* is still running.
NoLostWakeup ==
    pc = "wait" => /\ sessDead = sess
                   /\ sess \in dead \/ vr[sess] # "idle"

\* When teardownSession runs, b.hbStop is the open stop channel of the session
\* it tears down: close never panics on a closed channel and never stops the
\* heartbeat of another session.
StopChannelIsCurrent ==
    pc = "wait" => hbStop = sess /\ sess \notin stopped

\* b.sess moves on only when no session's video is being read from an open
\* socket, so the input path never writes to one session while the screen
\* shows another.
SwapAfterTeardown ==
    [][sess' # sess => \A g \in Gens : ~Streaming(g)]_vars

\* A session whose primary or video socket is down does not stay the current
\* one: superviseBMC notices.
DropIsNoticed ==
    (pc = "wait" /\ (prim[sess] = "down" \/ videoSock(sess) = "down")) ~> (pc = "backoff")

\* Once it reconnects it does not stop before a session is established, unless
\* a session abandoned by connectBMC stays up for ever (the model has then no
\* identity left for a new one).
Reconnects ==
    (pc = "backoff") ~> (pc = "wait" \/ [](Orphans # {}))

\* teardownSession leaves no goroutine of the old session behind: both
\* heartbeats and both readers end.
OldLoopsEnd ==
    \A g \in Gens :
        (pc = "backoff" /\ g = videoConn)
            ~> (hb[g] = "idle" /\ chb[g] = "idle" /\ vr[g] = "idle" /\ cr[g] = "idle")

\* What makes the three invariants inductive.  A reader belongs to the session
\* superviseBMC waits on or to one it has torn down; while connectBMC runs its
\* new session has no reader yet and owns the bridge's channels.
WaitOwnsSession ==
    pc = "wait" => /\ sess \in Gens /\ sessDead = sess /\ hbStop = sess /\ videoConn = sess
                   /\ sess \notin stopped
                   /\ sess \in dead \/ vr[sess] # "idle"

ConnectOwnsSession ==
    pc \in {"companion", "loops"} =>
        /\ sess \in Gens /\ sessDead = sess /\ hbStop = sess
        /\ sess \notin stopped /\ vr[sess] = "idle"

StreamIsAwaited ==
    \A g \in Gens :
        vr[g] # "idle" => \/ pc = "wait" /\ g = sess
                          \/ g \in stopped /\ videoSock(g) = "down"

IInv == TypeOK /\ WaitOwnsSession /\ ConnectOwnsSession /\ StreamIsAwaited

\* main.go:444-445: after teardownSession the tile buffer holds no bytes of
\* the old session.
NoLeftoverBytes == "stale" \notin avoAgg

\* main.go:425-426: when a session is established nothing of an earlier one is
\* still connected.
NothingOldConnected == pc = "wait" => Orphans = {}
===========================================================================
