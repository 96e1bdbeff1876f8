-------------------------------- MODULE Sol --------------------------------
(***************************************************************************)
(* Serial over LAN: the SOL session of internal/ipmi/sol.go with its three *)
(* goroutines (readLoop, keepalive and the WebSocket handler serveSOL,     *)
(* which also runs Write and Close), the browser behind it and a BMC that  *)
(* sends console output stop-and-wait over a network that loses packets    *)
(* but keeps their order.                                                  *)
(*                                                                         *)
(* Output is numbered 1, 2, ...; all that a packet with output d, or its   *)
(* acknowledgement, tells of d is the sequence number seqOf(d).  The BMC's *)
(* acknowledgements of keys, which readLoop counts and nobody waits for,   *)
(* are left out.                                                           *)
(***************************************************************************)
EXTENDS Integers, Sequences

CONSTANTS SeqMax,      \* sequence numbers go from 1 to this, 15 in the code
          MaxItems,    \* bound: pieces of output
          NetCap,      \* bound: packets under way to the console
          AckCap       \* bound: acknowledgements under way to the BMC

ASSUME SeqAssumption == SeqMax \in Nat \ {0}
ASSUME BoundsAssumption == MaxItems \in Nat /\ NetCap \in Nat /\ AckCap \in Nat

VARIABLES
    item,       \* BMC: the piece being sent
    toCon,      \* packets under way to the console
    toBmc,      \* acknowledgements under way to the BMC
    rd,         \* where readLoop stands
    msg,        \* the piece it holds
    lastRxSeq,  \* sol.lastRxSeq
    last,       \* the piece handed to onData last
    ka,         \* where keepalive stands
    h,          \* where serveSOL, and Write and Close inside it, stand
    txSeq,      \* sol.txSeq
    browser,    \* "reading", "stuck" (its socket is full) or "gone"
    done,       \* sol.done is closed
    txMu,       \* who holds sol.txMu
    wmu,        \* who holds serveSOL's wmu
    held        \* who has taken a session sequence number and not yet written
                \* the packet

net == <<toCon, toBmc>>
rvars == <<rd, msg, lastRxSeq, last>>
hvars == <<h, txSeq>>
locks == <<txMu, wmu, held>>
vars == <<item, net, rvars, ka, hvars, browser, done, locks>>

seqOf(d) == ((d - 1) % SeqMax) + 1

Goroutines == {"reader", "keepalive", "handler"}

TypeOK ==
    /\ item \in 1..(MaxItems + 1)
    /\ toCon \in Seq(1..MaxItems) /\ Len(toCon) <= NetCap
    /\ toBmc \in Seq(1..MaxItems) /\ Len(toBmc) <= AckCap
    /\ rd \in {"idle", "top", "read", "deliver", "onData", "lock", "send", "ended"}
    /\ msg \in 0..MaxItems
    /\ lastRxSeq \in 0..SeqMax
    /\ last \in 0..MaxItems
    /\ ka \in {"idle", "run", "lock", "send", "ended"}
    /\ h \in {"open", "hello", "refuse", "text", "refusal", "loop", "lock", "send", "report", "error",
              "close", "join", "deactivate", "deactivating", "session", "closing", "hangup", "ended"}
    /\ txSeq \in 0..SeqMax
    /\ browser \in {"reading", "stuck", "gone"}
    /\ done \in BOOLEAN
    /\ txMu \in Goroutines \cup {"free"} /\ wmu \in {"reader", "handler", "free"}
    /\ held \subseteq Goroutines

Init ==
    /\ item = 1
    /\ toCon = <<>> /\ toBmc = <<>>
    /\ rd = "idle" /\ msg = 0 /\ lastRxSeq = 0 /\ last = 0
    /\ ka = "idle"
    /\ h = "open" /\ txSeq = 0
    /\ browser = "reading"
    /\ done = FALSE
    /\ txMu = "free" /\ wmu = "free" /\ held = {}

---------------------------------------------------------------------------
(* sendPacket: a session sequence number and the write, under txMu *)

takeNumberUnlocked(g) ==  \* mutant: the number is taken before the mutex
    /\ held' = held \cup {g}
    /\ UNCHANGED <<txMu, wmu>>

takeNumber(g) ==
    /\ txMu = "free"
    /\ txMu' = g
    /\ held' = held \cup {g}
    /\ UNCHANGED wmu

written(g) ==
    /\ held' = held \ {g}
    /\ txMu' = IF txMu = g THEN "free" ELSE txMu
    /\ UNCHANGED wmu

---------------------------------------------------------------------------
(* readLoop *)

\* The first thing of a turn is the look at sol.done.
TopBlind ==  \* mutant: done is not looked at
    /\ rd = "top"
    /\ rd' = "read"
    /\ UNCHANGED <<item, net, msg, lastRxSeq, last, ka, hvars, browser, done, locks>>

Top ==
    /\ rd = "top"
    /\ rd' = IF done THEN "ended" ELSE "read"
    /\ UNCHANGED <<item, net, msg, lastRxSeq, last, ka, hvars, browser, done, locks>>

\* The deadline of 400 ms or a packet without output, or an error that ends the
\* loop for good.
ReadNothing ==
    /\ rd = "read"
    /\ rd' = "top"
    /\ UNCHANGED <<item, net, msg, lastRxSeq, last, ka, hvars, browser, done, locks>>

ReadError ==
    /\ rd = "read"
    /\ rd' = "ended"
    /\ UNCHANGED <<item, net, msg, lastRxSeq, last, ka, hvars, browser, done, locks>>

\* A repeated number is acknowledged again and not delivered.
isDupNever(d) == FALSE  \* mutant: no duplicate suppression
isDupOlder(d) == seqOf(d) <= lastRxSeq  \* mutant: anything not newer is a duplicate
isDup(d) == seqOf(d) = lastRxSeq

ReadPacket ==
    /\ rd = "read"
    /\ toCon # <<>>
    /\ LET d == Head(toCon)
       IN  /\ rd' = IF isDup(d) THEN "lock" ELSE "deliver"
           /\ msg' = d
           /\ lastRxSeq' = seqOf(d)
    /\ toCon' = Tail(toCon)
    /\ UNCHANGED <<item, toBmc, last, ka, hvars, browser, done, locks>>

\* onData is writeBin: it waits for wmu and for room in the browser's socket, and
\* its error is ignored.
OnData ==
    /\ rd = "deliver"
    /\ wmu = "free"
    /\ wmu' = "reader"
    /\ rd' = "onData"
    /\ UNCHANGED <<item, net, msg, lastRxSeq, last, ka, hvars, browser, done, txMu, held>>

OnDataReturn ==
    /\ rd = "onData"
    /\ browser # "stuck"
    /\ wmu' = "free"
    /\ last' = msg
    /\ rd' = "lock"
    /\ UNCHANGED <<item, net, msg, lastRxSeq, ka, hvars, browser, done, txMu, held>>

AckLock ==
    /\ rd = "lock"
    /\ takeNumber("reader")
    /\ rd' = "send"
    /\ UNCHANGED <<item, net, msg, lastRxSeq, last, ka, hvars, browser, done>>

\* The acknowledgement may be lost, or the socket closed.
AckSend ==
    /\ rd = "send"
    /\ written("reader")
    /\ \/ toBmc' = toBmc
       \/ Len(toBmc) < AckCap /\ h \notin {"hangup", "ended"} /\ toBmc' = Append(toBmc, msg)
    /\ rd' = "top"
    /\ msg' = 0
    /\ UNCHANGED <<item, toCon, lastRxSeq, last, ka, hvars, browser, done>>

---------------------------------------------------------------------------
(* keepalive *)

KeepaliveStop ==
    /\ ka = "run" /\ done
    /\ ka' = "ended"
    /\ UNCHANGED <<item, net, rvars, hvars, browser, done, locks>>

\* A tick that is ready together with done is one just before it.
Tick ==
    /\ ka = "run" /\ ~done
    /\ ka' = "lock"
    /\ UNCHANGED <<item, net, rvars, hvars, browser, done, locks>>

KeepaliveLock ==
    /\ ka = "lock"
    /\ takeNumber("keepalive")
    /\ ka' = "send"
    /\ UNCHANGED <<item, net, rvars, hvars, browser, done>>

KeepaliveSend ==
    /\ ka = "send"
    /\ written("keepalive")
    /\ ka' = "run"
    /\ UNCHANGED <<item, net, rvars, hvars, browser, done>>

---------------------------------------------------------------------------
(* serveSOL *)

\* OpenSOL: the session is dialled, the payload activated, the goroutines start.
OpenSOL ==
    /\ h = "open"
    /\ \/ h' = "hello" /\ rd' = "top" /\ ka' = "run"
       \/ h' = "refuse" /\ UNCHANGED <<rd, ka>>
    /\ UNCHANGED <<item, net, msg, lastRxSeq, last, txSeq, browser, done, locks>>

\* writeText, for the greeting, the refusal and a failed write.
WriteText ==
    /\ wmu = "free"
    /\ wmu' = "handler"
    /\ \/ h = "hello" /\ h' = "text"
       \/ h = "refuse" /\ h' = "refusal"
       \/ h = "report" /\ h' = "error"
    /\ UNCHANGED <<item, net, rvars, ka, txSeq, browser, done, txMu, held>>

WriteTextReturn ==
    /\ browser # "stuck"
    /\ wmu' = "free"
    /\ \/ h = "text" /\ h' = "loop"
       \/ h = "refusal" /\ h' = "hangup"
       \/ h = "error" /\ h' = "close"
    /\ UNCHANGED <<item, net, rvars, ka, txSeq, browser, done, txMu, held>>

\* Write: the next number from 1 to SeqMax, then sendPacket.
WriteWrapsLate ==  \* mutant: sol.txSeq > 16
    /\ h = "loop"
    /\ browser # "gone"
    /\ txMu = "free"
    /\ txSeq' = IF txSeq > SeqMax THEN 1 ELSE txSeq + 1
    /\ h' = "lock"
    /\ UNCHANGED <<item, net, rvars, ka, browser, done, locks>>

Write ==
    /\ h = "loop"
    /\ browser # "gone"
    /\ txMu = "free"
    /\ txSeq' = IF txSeq + 1 > SeqMax THEN 1 ELSE txSeq + 1
    /\ h' = "lock"
    /\ UNCHANGED <<item, net, rvars, ka, browser, done, locks>>

KeyLock ==
    /\ h = "lock"
    /\ takeNumber("handler")
    /\ h' = "send"
    /\ UNCHANGED <<item, net, rvars, ka, txSeq, browser, done>>

\* An error of conn.Write is reported to the browser and ends the session.
KeySend ==
    /\ h = "send"
    /\ written("handler")
    /\ h' \in {"loop", "report"}
    /\ UNCHANGED <<item, net, rvars, ka, txSeq, browser, done>>

\* c.ReadMessage fails.
BrowserLeft ==
    /\ h = "loop"
    /\ browser = "gone"
    /\ h' = "close"
    /\ UNCHANGED <<item, net, rvars, ka, txSeq, browser, done, locks>>

---------------------------------------------------------------------------
(* Close, deferred in serveSOL *)

CloseDone ==
    /\ h = "close"
    /\ done' = TRUE
    /\ h' = "join"
    /\ UNCHANGED <<item, net, rvars, ka, txSeq, browser, locks>>

\* The wait for readDone lasts a second: long enough for a read, a turn of the
\* loop and an acknowledgement, so it can only run out in onData.
JoinNot ==  \* mutant: Close does not wait
    /\ h = "join"
    /\ h' = "deactivate"
    /\ UNCHANGED <<item, net, rvars, ka, txSeq, browser, done, locks>>

Join ==
    /\ h = "join"
    /\ rd \in {"ended", "deliver", "onData"}
    /\ h' = "deactivate"
    /\ UNCHANGED <<item, net, rvars, ka, txSeq, browser, done, locks>>

\* rawCall under txMu: its packet is written and it reads the socket.
Deactivate ==
    /\ h = "deactivate"
    /\ txMu = "free"
    /\ txMu' = "handler"
    /\ h' = "deactivating"
    /\ UNCHANGED <<item, net, rvars, ka, txSeq, browser, done, wmu, held>>

Deactivated ==
    /\ h = "deactivating"
    /\ txMu' = "free"
    /\ h' = "session"
    /\ UNCHANGED <<item, net, rvars, ka, txSeq, browser, done, wmu, held>>

\* Session.Close: a rawCall without txMu, then the socket is closed.
SessionClose ==
    /\ h = "session"
    /\ h' = "closing"
    /\ UNCHANGED <<item, net, rvars, ka, txSeq, browser, done, locks>>

SocketClose ==
    /\ h = "closing"
    /\ h' = "hangup"
    /\ toCon' = <<>> /\ toBmc' = <<>>
    /\ UNCHANGED <<item, rvars, ka, txSeq, browser, done, locks>>

\* The deferred c.Close, the last of all.
HangUp ==
    /\ h = "hangup"
    /\ h' = "ended"
    /\ browser' = "gone"
    /\ UNCHANGED <<item, net, rvars, ka, txSeq, done, locks>>

---------------------------------------------------------------------------
(* The BMC, the network and the browser *)

process == <<rvars, ka, hvars, browser, done, locks>>

\* The payload is active until the Deactivate command arrives.
Active == rd # "idle" /\ h \notin {"deactivating", "session", "closing", "hangup", "ended"}

\* The piece that is not acknowledged yet, for the first time or again.
BmcSend ==
    /\ Active
    /\ item <= MaxItems
    /\ Len(toCon) < NetCap
    /\ toCon' = Append(toCon, item)
    /\ UNCHANGED <<item, toBmc, process>>

\* An acknowledgement counts for the piece being sent if it has its number.
BmcAck ==
    /\ toBmc # <<>>
    /\ toBmc' = Tail(toBmc)
    /\ IF item <= MaxItems /\ seqOf(Head(toBmc)) = seqOf(item)
       THEN item' = item + 1
       ELSE UNCHANGED item
    /\ UNCHANGED <<toCon, process>>

\* The BMC tries a piece a few times and goes on to the next; during an outage it
\* does so with any number of pieces.
BmcGivesUp ==
    /\ Active
    /\ item <= MaxItems
    /\ item' = item + 1
    /\ UNCHANGED <<net, process>>

Lose ==
    /\ toCon # <<>>
    /\ toCon' = Tail(toCon)
    /\ UNCHANGED <<item, toBmc, process>>

\* The browser's socket fills up, drains, or is gone.
Browser ==
    /\ browser # "gone"
    /\ browser' \in {"reading", "stuck", "gone"} \ {browser}
    /\ UNCHANGED <<item, net, rvars, ka, hvars, done, locks>>

Reader == Top \/ ReadNothing \/ ReadError \/ ReadPacket \/ OnData \/ OnDataReturn \/ AckLock \/ AckSend
Keepalive == KeepaliveStop \/ KeepaliveLock \/ KeepaliveSend
Handler ==
    \/ OpenSOL \/ WriteText \/ WriteTextReturn \/ KeyLock \/ KeySend \/ BrowserLeft
    \/ CloseDone \/ Join \/ Deactivate \/ Deactivated \/ SessionClose \/ SocketClose \/ HangUp
Environment == BmcSend \/ BmcAck \/ BmcGivesUp \/ Lose \/ Browser

Next == Reader \/ Keepalive \/ Handler \/ Tick \/ Write \/ Environment

\* Goroutines run and a read ends by its deadline.  Go's mutexes starve nobody:
\* the handler gets txMu and wmu although the reader takes them again and again.
Fairness ==
    /\ WF_vars(Reader) /\ WF_vars(Keepalive) /\ WF_vars(Handler)
    /\ SF_vars(KeyLock \/ WriteText)

Spec == Init /\ [][Next]_vars /\ Fairness

---------------------------------------------------------------------------
(* Properties *)

\* The browser gets the console's output in order and nothing twice, however
\* often the BMC repeats a packet because an acknowledgement was lost and however
\* many pieces it gives up.
InOrder == rd \in {"deliver", "onData"} => msg > last

\* The piece onData had last, and the acknowledgements under way, are less than a
\* lap of the sequence numbers behind the piece being sent.
WithinLap ==
    /\ item - last < SeqMax
    /\ \A i \in 1..Len(toBmc) : item - toBmc[i] < SeqMax

\* Within a lap, the BMC takes no piece for acknowledged that onData has not had: it
\* throws it away, so it would be lost.  This holds over the wrap of the numbers.
\* It does not hold beyond: after SeqMax - 1 pieces given up in a row the next one
\* carries the number in lastRxSeq, and readLoop, which looks at nothing else,
\* acknowledges it without delivering it.
AckedDelivered == [][WithinLap /\ item' # item /\ toBmc' # toBmc => last = item]_vars

\* "to avoid two concurrent readers": when Close reads replies on the socket,
\* readLoop does not read there, even if Close stopped waiting for it.
OneReader == h \in {"deactivating", "closing"} => rd # "read"

\* Session sequence numbers reach the wire in order: nobody takes one while
\* another's packet is still to be written, up to Session.Close.
NumbersInOrder ==
    /\ \A f, g \in held : f = g
    /\ h = "deactivating" => held = {}

\* Once the browser is gone, reader, keepalive and handler all end, wherever
\* they were: waiting for each other's mutexes, in a blocked write, in a retry.
SolEnds ==
    browser = "gone" ~> (h = "ended" /\ rd \in {"idle", "ended"} /\ ka \in {"idle", "ended"})
===========================================================================
