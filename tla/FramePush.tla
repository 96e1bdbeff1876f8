----------------------------- MODULE FramePush -----------------------------
(***************************************************************************)
(* From the BMC's tiles to the browsers' screens, cmd/beefkvm/main.go:     *)
(* handleVideoFrame and handleCursorShape (the video reader goroutine),    *)
(* pushLoop (a 50 ms ticker), serveWS (one HTTP handler per browser) and   *)
(* writeWS (one goroutine per browser).                                    *)
(*                                                                         *)
(* What a frame shows is abstracted to whether it still is what the        *)
(* framebuffer holds: serializeFB makes a fresh message and a change of    *)
(* the framebuffer makes every message and every screen stale, so nothing  *)
(* has to be counted and behaviours are unbounded.                         *)
(***************************************************************************)
EXTENDS Naturals, Sequences

CONSTANTS Viewers,  \* browsers; a reloaded page is another viewer
          Cap       \* capacity of subscriber.send (4 in the code)

ASSUME CapAssumption == Cap \in Nat \ {0}

VARIABLES
    dirty,    \* fb.Dirty
    agg,      \* len(b.avoAgg) > 0
    buf,      \* what pushLoop has serialised and not yet sent
    stage,    \* how far serveWS is; past "out" the viewer is in b.subs
    initial,  \* serveWS's own frame, serialised and not yet sent
    pipe,     \* the message writeWS is writing, if any, then subscriber.send
    busy,     \* viewers whose writeWS is in WriteMessage
    gone,     \* viewers whose writeWS has returned; they stay in b.subs
    screen,   \* the frame the browser shows; None when blank, outdated or gone
    missed    \* history: viewers whose last frame was dropped or is an overtaken one

fbVars == <<dirty, agg>>
viewerVars == <<stage, initial, pipe, busy, gone, screen, missed>>
vars == <<fbVars, buf, viewerVars>>

\* Frames of pushLoop and of serveWS that are what the framebuffer holds, and
\* those that no longer are; cursor shapes; nil.
Fresh == {"push", "init"}
Outdated == {"oldPush", "oldInit"}
Messages == Fresh \cup Outdated \cup {"cursor"}
None == "none"

subs == {s \in Viewers : stage[s] # "out"}

HasRoomByOne(s) ==  \* mutant: one frame more than the channel holds
    Len(pipe[s]) <= (IF s \in busy THEN Cap + 1 ELSE Cap)

\* One place of subscriber.send is free: select takes the send, not default.
HasRoom(s) == Len(pipe[s]) < (IF s \in busy THEN Cap + 1 ELSE Cap)

TypeOK ==
    /\ dirty \in BOOLEAN /\ agg \in BOOLEAN
    /\ buf \in {"push", "oldPush", None}
    /\ stage \in [Viewers -> {"out", "subscribed", "serialized", "served"}]
    /\ initial \in [Viewers -> {"init", "oldInit", None}]
    /\ pipe \in [Viewers -> Seq(Messages)]
    /\ \A s \in Viewers : Len(pipe[s]) <= (IF s \in busy THEN Cap + 1 ELSE Cap)
    /\ busy \subseteq Viewers /\ gone \subseteq Viewers /\ missed \subseteq Viewers
    /\ screen \in [Viewers -> Fresh \cup {None}]

Init ==
    /\ dirty = FALSE /\ agg = FALSE /\ buf = None
    /\ stage = [s \in Viewers |-> "out"]
    /\ initial = [s \in Viewers |-> None]
    /\ pipe = [s \in Viewers |-> << >>]
    /\ screen = [s \in Viewers |-> None]
    /\ busy = {} /\ gone = {} /\ missed = {}

---------------------------------------------------------------------------
(* The video reader *)

Stale(m) == IF m = "push" THEN "oldPush" ELSE IF m = "init" THEN "oldInit" ELSE m

\* A packet without pixels leaves the framebuffer alone, a run of NOOPs only
\* marks it, any other changes pixels and marks it.
Outcomes == {"nothing", "mark", "change"}

\* Decoder.Decode and AvocentDecoder.DecodePacket, under fbMu.
Decode(o) ==
    /\ dirty' = (dirty \/ o # "nothing")
    /\ IF o = "change"
       THEN /\ buf' = Stale(buf)
            /\ initial' = [s \in Viewers |-> Stale(initial[s])]
            /\ pipe' = [s \in Viewers |-> [i \in 1..Len(pipe[s]) |-> Stale(pipe[s][i])]]
            /\ screen' = [s \in Viewers |-> None]
       ELSE UNCHANGED <<buf, initial, pipe, screen>>
    /\ UNCHANGED <<stage, busy, gone, missed>>

\* A DCT tile's first fragment: what was gathered so far is decoded now.
TileStart(o) ==
    /\ agg' = TRUE
    /\ IF agg THEN Decode(o) ELSE UNCHANGED <<dirty, buf, viewerVars>>

\* A further fragment joins the gathered ones; an orphan is decoded alone.
TileCont(o) ==
    /\ ~agg
    /\ Decode(o)
    /\ UNCHANGED agg

\* A tile of the run-length codecs.
RawTile(o) == Decode(o) /\ UNCHANGED agg

\* teardownSession drops the fragments of the lost session.
Teardown ==
    /\ agg' = FALSE
    /\ UNCHANGED <<dirty, buf, viewerVars>>

\* The loops over b.subs under sinkMu, with select and default.
sentToAll(m) ==
    [s \in Viewers |->
        IF s \in subs /\ HasRoom(s) THEN Append(pipe[s], m) ELSE pipe[s]]

HandleCursorShape ==
    /\ pipe' = sentToAll("cursor")
    /\ UNCHANGED <<fbVars, buf, stage, initial, busy, gone, screen, missed>>

---------------------------------------------------------------------------
(* pushLoop *)

SerializeUnlocked ==  \* mutant: the framebuffer is read without fbMu, before or after a tile
    /\ buf = None /\ dirty
    /\ dirty' = FALSE
    /\ buf' \in {"push", "oldPush"}
    /\ UNCHANGED <<agg, viewerVars>>

\* A tick that finds the framebuffer marked, under fbMu.
Serialize ==
    /\ buf = None /\ dirty
    /\ dirty' = FALSE
    /\ buf' = "push"
    /\ UNCHANGED <<agg, viewerVars>>

BroadcastThenClear ==  \* mutant: Dirty is cleared when the frame is sent
    /\ buf # None
    /\ pipe' = sentToAll(buf)
    /\ missed' = {s \in subs : ~HasRoom(s)}
    /\ buf' = None /\ dirty' = FALSE
    /\ UNCHANGED <<agg, stage, initial, busy, gone, screen>>

BroadcastBlocks ==  \* mutant: select without default waits for the slowest browser
    /\ buf # None /\ \A s \in subs : HasRoom(s)
    /\ pipe' = sentToAll(buf)
    /\ missed' = {}
    /\ buf' = None
    /\ UNCHANGED <<fbVars, stage, initial, busy, gone, screen>>

\* The rest of the tick, under sinkMu; the sends do not interfere.
Broadcast ==
    /\ buf # None
    /\ pipe' = sentToAll(buf)
    /\ missed' = {s \in subs : ~HasRoom(s)}
    /\ buf' = None
    /\ UNCHANGED <<fbVars, stage, initial, busy, gone, screen>>

---------------------------------------------------------------------------
(* serveWS and writeWS *)

Subscribe(s) ==
    /\ stage[s] = "out"
    /\ stage' = [stage EXCEPT ![s] = "subscribed"]
    /\ UNCHANGED <<fbVars, buf, initial, pipe, busy, gone, screen, missed>>

SerializeInitial(s) ==
    /\ stage[s] = "subscribed"
    /\ stage' = [stage EXCEPT ![s] = "serialized"]
    /\ initial' = [initial EXCEPT ![s] = "init"]
    /\ UNCHANGED <<fbVars, buf, pipe, busy, gone, screen, missed>>

\* The i-th frame after the one on the screen, which is the 0-th.
At(s, i) == IF i = 0 THEN screen[s] ELSE pipe[s][i]

\* Once everything under way is drawn, the browser shows the framebuffer.
EndsFresh(s) ==
    \E i \in 0..Len(pipe[s]) :
        /\ At(s, i) \in Fresh
        /\ \A j \in 1..Len(pipe[s]) : j > i => pipe[s][j] \notin Outdated

QueueInitial(s) ==
    /\ stage[s] = "serialized"
    /\ stage' = [stage EXCEPT ![s] = "served"]
    /\ initial' = [initial EXCEPT ![s] = None]
    /\ pipe' = IF HasRoom(s) THEN [pipe EXCEPT ![s] = Append(@, initial[s])] ELSE pipe
    /\ missed' = IF HasRoom(s) /\ initial[s] = "init" THEN missed \ {s}
                 ELSE IF HasRoom(s) /\ ~EndsFresh(s) THEN missed
                 ELSE missed \cup {s}
    /\ UNCHANGED <<fbVars, buf, busy, gone, screen>>

Take(s) ==
    /\ s \in subs \ (gone \cup busy) /\ pipe[s] # << >>
    /\ busy' = busy \cup {s}
    /\ UNCHANGED <<fbVars, buf, stage, initial, pipe, gone, screen, missed>>

\* The page's onmessage: what it shows after m.
drawn(m, shown) == IF m = "cursor" THEN shown ELSE IF m \in Fresh THEN m ELSE None

\* WriteMessage succeeds, and the page draws the frame or sets its cursor.
Written(s) ==
    /\ s \in busy
    /\ busy' = busy \ {s}
    /\ pipe' = [pipe EXCEPT ![s] = Tail(@)]
    /\ screen' = [screen EXCEPT ![s] = drawn(Head(pipe[s]), @)]
    /\ UNCHANGED <<fbVars, buf, stage, initial, gone, missed>>

\* WriteMessage fails: writeWS closes done, which nobody reads, and returns.
WriteError(s) ==
    /\ s \in busy
    /\ busy' = busy \ {s}
    /\ gone' = gone \cup {s}
    /\ pipe' = [pipe EXCEPT ![s] = Tail(@)]
    /\ screen' = [screen EXCEPT ![s] = None]
    /\ UNCHANGED <<fbVars, buf, stage, initial, missed>>

HandleVideoFrame ==
    \/ \E o \in Outcomes : TileStart(o) \/ TileCont(o) \/ RawTile(o)
    \/ HandleCursorShape

ServeWS(s) == Subscribe(s) \/ SerializeInitial(s) \/ QueueInitial(s)
WriteWS(s) == Take(s) \/ Written(s) \/ WriteError(s)

Next ==
    \/ HandleVideoFrame
    \/ Teardown
    \/ Serialize
    \/ Broadcast
    \/ \E s \in Viewers : ServeWS(s) \/ WriteWS(s)

Spec == Init /\ [][Next]_vars

\* The ticker never stops and Go runs a goroutine that can run.  Nothing is
\* assumed of the BMC, of who opens the page, or of a write to a browser
\* ever coming back.
FairSpec ==
    /\ Spec
    /\ WF_vars(Serialize) /\ WF_vars(Broadcast)
    /\ \A s \in Viewers : /\ WF_vars(SerializeInitial(s))
                          /\ WF_vars(QueueInitial(s))
                          /\ WF_vars(Take(s))

---------------------------------------------------------------------------
(* Properties *)

\* Clearing Dirty before the frame is sent (pushLoop 862-872) loses nothing:
\* for a viewer that dropped or overtook nothing, the framebuffer's contents are
\* marked, or serialised, or about to be sent by serveWS, or last in its channel,
\* or on its screen.
LatestOnItsWay ==
    \A s \in subs \ (gone \cup missed) :
        \/ dirty \/ buf = "push"
        \/ stage[s] = "subscribed" \/ initial[s] = "init"
        \/ EndsFresh(s)

InOrder(s) ==
    \A i \in 0..Len(pipe[s]), j \in 1..Len(pipe[s]) :
        i < j /\ At(s, i) = "push" => pipe[s][j] # "oldPush"

\* pushLoop's frames reach a browser in the order they were made: none is
\* queued behind, or drawn over, a newer one.
PushesInOrder == \A s \in Viewers : InOrder(s)

\* A browser whose own writes come back ends up showing a screen that has come
\* to rest, unless its channel was full or its initial frame overtaken: one that
\* hangs or is gone, and stays in b.subs, delays nobody else.
Settles ==
    \A s \in Viewers :
        <>[]~dirty /\ []<>(s \notin busy)
            => <>[](s \in subs \ (gone \cup missed) => screen[s] \in Fresh)

---------------------------------------------------------------------------
(* The inductive invariant *)

NoPush(s) == \A i \in 0..Len(pipe[s]) : At(s, i) # "push"

\* pushLoop alone makes pushes: while it holds an outdated one, none of those
\* sent before is newer, and the change that outdated it has marked the
\* framebuffer again.
OldPush ==
    buf = "oldPush" => dirty /\ \A s \in Viewers : NoPush(s)

\* writeWS holds a message while it writes, and serveWS between its two steps.
Holding ==
    \A s \in Viewers : /\ s \in busy => pipe[s] # << >>
                       /\ stage[s] = "serialized" <=> initial[s] # None

IInv == TypeOK /\ LatestOnItsWay /\ PushesInOrder /\ OldPush /\ Holding
===========================================================================
