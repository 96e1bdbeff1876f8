---------------------------- MODULE IpmiClient ----------------------------
(***************************************************************************)
(* The bridge's shared IPMI client: the HTTP handlers and the mutex they   *)
(* share (cmd/beefkvm/ipmi_handlers.go), Client.Send (internal/ipmi/       *)
(* client.go) and the request and retry loop over UDP (rawCall and         *)
(* roundtrip of internal/ipmi/session.go).  The network loses, delays and  *)
(* reorders packets; the BMC answers those that reach it.                  *)
(*                                                                         *)
(* Every call has a fresh session sequence number.  All that matters of it *)
(* is whether a reply belongs to the call in progress ("own") or to an     *)
(* earlier one ("old"), so that is what a packet carries.                  *)
(***************************************************************************)
EXTENDS Naturals, Sequences

CONSTANTS Handlers,   \* concurrent HTTP requests
          None,       \* an unlocked mutex
          Attempts,   \* packets roundtrip sends for a call, 3 in the code
          FlightCap,  \* bound: packets of each kind on the network, more are lost
          SockCap     \* bound: replies in the receive buffer, more are lost

ASSUME NoneAssumption == None \notin Handlers
ASSUME BoundsAssumption == Attempts \in Nat \ {0} /\ FlightCap \in Nat /\ SockCap \in Nat

VARIABLES
    at,       \* where handler h stands
    mu,       \* who holds ipmiState.mu
    cmu,      \* who holds Client.mu
    open,     \* ipmiState.open, once set never cleared
    loaded,   \* ipmiState.loaded: the SDR list is cached
    attempt,  \* roundtrip's attempt
    io,       \* where roundtrip stands
    flight,   \* how many packets are on the network, as requests or replies
    sock,     \* replies in the socket's receive buffer
    late,     \* some attempt of this session ended without its reply
    got       \* whose reply the last call returned

bridge == <<at, mu, open, loaded>>
wire == <<flight, sock>>
vars == <<bridge, cmu, attempt, io, wire, late, got>>

\* A handler that has been through ensure goes on with mu held ("locked"), or
\* without it: handleSELGet and handleSELClear ("sel").  "hung" waits with mu
\* held for a client that neither goes on nor goes away, for ever.
States == {"idle", "wait", "ensure", "ready", "locked", "hung", "sel"}

Packets == {"own", "old"}

TypeOK ==
    /\ at \in [Handlers -> States]
    /\ mu \in Handlers \cup {None}
    /\ cmu \in Handlers \cup {None}
    /\ open \in BOOLEAN /\ loaded \in BOOLEAN
    /\ attempt \in 0..(Attempts - 1)
    /\ io \in {"none", "write", "read", "sleep", "reply", "failed"}
    /\ flight \in [Packets -> 0..FlightCap]
    /\ sock \in Seq(Packets) /\ Len(sock) <= SockCap
    /\ late \in BOOLEAN
    /\ got \in Packets \cup {"none"}

Init ==
    /\ at = [h \in Handlers |-> "idle"]
    /\ mu = None /\ cmu = None
    /\ open = FALSE /\ loaded = FALSE
    /\ attempt = 0 /\ io = "none"
    /\ flight = [p \in Packets |-> 0] /\ sock = <<>>
    /\ late = FALSE /\ got = "none"

---------------------------------------------------------------------------
(* ensure and the handlers *)

\* A request comes in, or it is time for the next snapshot of a sensor stream.
Request(h) ==
    /\ at[h] = "idle"
    /\ at' = [at EXCEPT ![h] = "wait"]
    /\ UNCHANGED <<mu, open, loaded, cmu, attempt, io, wire, late, got>>

\* ensure takes mu.
EnsureLock(h) ==
    /\ at[h] = "wait"
    /\ mu = None
    /\ mu' = h
    /\ at' = [at EXCEPT ![h] = "ensure"]
    /\ UNCHANGED <<open, loaded, cmu, attempt, io, wire, late, got>>

\* ipmi.Open: Open Session, RAKP and Set Session Privilege succeed.  They are
\* roundtrips on the socket of the later calls, and leave the n replies they
\* did not wait for to them.
Dial(h) ==
    /\ at[h] = "ensure"
    /\ ~open
    /\ open' = TRUE
    /\ \E n \in 0..FlightCap :
          /\ flight' = [flight EXCEPT !["old"] = n]
          /\ late' = (late \/ n > 0)
    /\ UNCHANGED <<at, mu, loaded, cmu, attempt, io, sock, got>>

\* An answer to the browser; mu is let go by the deferred unlock.
AnswerKeepsMu(h) ==  \* mutant: the unlock is missing on one path
    /\ at' = [at EXCEPT ![h] = "idle"]
    /\ UNCHANGED mu

Answer(h) ==
    /\ at' = [at EXCEPT ![h] = "idle"]
    /\ mu' = IF mu = h THEN None ELSE mu

\* Dial has closed the socket; the handler answers 503.
DialFail(h) ==
    /\ at[h] = "ensure"
    /\ ~open
    /\ Answer(h)
    /\ UNCHANGED <<open, loaded, cmu, attempt, io, wire, late, got>>

\* Session and SDR list are there: ensure returns and lets go of mu.  The event
\* log handlers go on without it, the others take it again.
EnsureReturn(h, to) ==
    /\ at[h] = "ensure"
    /\ open /\ loaded
    /\ at' = [at EXCEPT ![h] = to]
    /\ mu' = None
    /\ UNCHANGED <<open, loaded, cmu, attempt, io, wire, late, got>>

\* The handler proper for sensors, power, users, network and system.  Those for
\* users and network read the body only now, and no server timeout bounds that.
HandlerLock(h, to) ==
    /\ at[h] = "ready"
    /\ mu = None
    /\ mu' = h
    /\ at' = [at EXCEPT ![h] = to]
    /\ UNCHANGED <<open, loaded, cmu, attempt, io, wire, late, got>>

\* With mu held the request turns out to be wrong, before its first call or
\* between two: an unknown method, action or device, a malformed body or address.
Reject(h) ==
    /\ at[h] = "locked"
    /\ cmu # h
    /\ Answer(h)
    /\ UNCHANGED <<open, loaded, cmu, attempt, io, wire, late, got>>

---------------------------------------------------------------------------
(* Client.Send, rawCall and roundtrip *)

\* Handlers with a request to make: ensure's ScanSensors, or their own.
Calling(h) ==
    \/ at[h] = "ensure" /\ open /\ ~loaded
    \/ at[h] \in {"locked", "sel"}

AtMost(n, cap) == IF n <= cap THEN n ELSE cap

\* rawCall numbers the call: whatever is still under way now belongs to an
\* earlier one.
rawCall ==
    /\ attempt' = 0
    /\ io' = "write"
    /\ flight' = [p \in Packets |-> IF p = "own" THEN 0 ELSE AtMost(flight["own"] + flight["old"], FlightCap)]
    /\ sock' = [i \in DOMAIN sock |-> "old"]
    /\ got' = "none"

\* Send holds Client.mu for the whole call.
SendUnlocked(h) ==  \* mutant: Client.mu is not taken
    /\ Calling(h)
    /\ cmu' = h
    /\ rawCall
    /\ UNCHANGED <<bridge, late>>

Send(h) ==
    /\ Calling(h)
    /\ cmu = None
    /\ cmu' = h
    /\ rawCall
    /\ UNCHANGED <<bridge, late>>

Write ==
    /\ io = "write"
    /\ io' = "read"
    /\ flight' = [flight EXCEPT !["own"] = AtMost(@ + 1, FlightCap)]
    /\ UNCHANGED <<bridge, cmu, attempt, sock, late, got>>

WriteError ==
    /\ io = "write"
    /\ io' = "sleep"
    /\ UNCHANGED <<bridge, cmu, attempt, wire, late, got>>

\* The datagram at the head of the receive buffer passes parseRMCPPlus, and
\* that is all roundtrip asks of it.
Read ==
    /\ io = "read"
    /\ sock # <<>>
    /\ io' = "reply"
    /\ got' = Head(sock)
    /\ sock' = Tail(sock)
    /\ UNCHANGED <<bridge, cmu, attempt, flight, late>>

\* It does not pass (too short, another protocol, integrity, padding), or the
\* deadline is over.
BadPacket ==
    /\ io = "read"
    /\ sock # <<>>
    /\ io' = "sleep"
    /\ sock' = Tail(sock)
    /\ late' = TRUE
    /\ UNCHANGED <<bridge, cmu, attempt, flight, got>>

Timeout ==
    /\ io = "read"
    /\ sock = <<>>
    /\ io' = "sleep"
    /\ late' = TRUE
    /\ UNCHANGED <<bridge, cmu, attempt, wire, got>>

\* The backoff is over: the same packet again, or no response after retries.
RetryForEver ==  \* mutant: attempt is not counted
    /\ io = "sleep"
    /\ io' = "write"
    /\ UNCHANGED <<bridge, cmu, attempt, wire, late, got>>

RetryOnceMore ==  \* mutant: one attempt too many
    /\ io = "sleep"
    /\ attempt' = attempt + 1
    /\ io' = IF attempt < Attempts THEN "write" ELSE "failed"
    /\ UNCHANGED <<bridge, cmu, wire, late, got>>

Retry ==
    /\ io = "sleep"
    /\ attempt' = IF attempt < Attempts - 1 THEN attempt + 1 ELSE attempt
    /\ io' = IF attempt < Attempts - 1 THEN "write" ELSE "failed"
    /\ UNCHANGED <<bridge, cmu, wire, late, got>>

Returned(h) == cmu = h /\ io \in {"reply", "failed"}

\* The call returns and Client.mu is free; there is another one to make.
NextCall(h) ==
    /\ Returned(h)
    /\ io = "reply" \/ at[h] = "locked"
    /\ cmu' = None
    /\ io' = "none"
    /\ UNCHANGED <<bridge, attempt, wire, late, got>>

\* ensure's scan has ended: the SDR list is cached, unless a call failed.
ScanReturn(h) ==
    /\ Returned(h)
    /\ at[h] = "ensure"
    /\ cmu' = None
    /\ io' = "none"
    /\ \/ /\ io = "reply"
          /\ loaded' = TRUE
          /\ UNCHANGED <<at, mu>>
       \/ /\ Answer(h)
          /\ UNCHANGED loaded
    /\ UNCHANGED <<open, attempt, wire, late, got>>

\* The last call of a handler has returned.  The answer is written before the
\* deferred unlock, and a client need not take it.
HandlerReturn(h) ==
    /\ Returned(h)
    /\ at[h] \in {"locked", "sel"}
    /\ cmu' = None
    /\ io' = "none"
    /\ \/ Answer(h)
       \/ /\ at[h] = "locked"
          /\ at' = [at EXCEPT ![h] = "hung"]
          /\ UNCHANGED mu
    /\ UNCHANGED <<open, loaded, attempt, wire, late, got>>

Hung(h) ==
    /\ at[h] = "hung"
    /\ UNCHANGED vars

---------------------------------------------------------------------------
(* The network and the BMC *)

\* A packet's reply reaches the socket, or is dropped there when it is full.
Deliver(p) ==
    /\ flight[p] > 0
    /\ flight' = [flight EXCEPT ![p] = @ - 1]
    /\ sock' = IF Len(sock) < SockCap THEN Append(sock, p) ELSE sock
    /\ UNCHANGED <<bridge, cmu, attempt, io, late, got>>

Lose(p) ==
    /\ flight[p] > 0
    /\ flight' = [flight EXCEPT ![p] = @ - 1]
    /\ UNCHANGED <<bridge, cmu, attempt, io, sock, late, got>>

Roundtrip == Write \/ WriteError \/ Read \/ BadPacket \/ Timeout \/ Retry

Next ==
    \/ \E h \in Handlers :
          \/ Request(h) \/ EnsureLock(h) \/ Dial(h) \/ DialFail(h)
          \/ \E to \in {"ready", "sel"} : EnsureReturn(h, to)
          \/ (\E to \in {"locked", "hung"} : HandlerLock(h, to)) \/ Reject(h) \/ Hung(h)
          \/ Send(h) \/ NextCall(h) \/ ScanReturn(h) \/ HandlerReturn(h)
    \/ Roundtrip
    \/ \E p \in Packets : Deliver(p) \/ Lose(p)

Spec == Init /\ [][Next]_vars

\* A read has a deadline and a sleep ends (Roundtrip).  A mutex that is free
\* again and again is handed to each waiter in turn (Go's starvation mode).
\* A handler that holds mu makes finitely many calls, and so does a scan of the
\* SDR repository: mu keeps this bridge's scans apart and other clients of the
\* BMC are taken not to cancel its reservation for ever.  Nothing is assumed of
\* the event log's scan, which reserves anew as often as it is cancelled, and
\* nothing of the clients: one may leave its handler hanging with mu held.
Fairness ==
    /\ WF_vars(Roundtrip)
    /\ \A h \in Handlers :
          /\ WF_vars(Dial(h) \/ DialFail(h) \/ \E to \in {"ready", "sel"} : EnsureReturn(h, to))
          /\ WF_vars(NextCall(h) \/ HandlerReturn(h) \/ ScanReturn(h))
          /\ SF_vars(EnsureLock(h) \/ \E to \in {"locked", "hung"} : HandlerLock(h, to))
          /\ SF_vars(Send(h))
          /\ SF_vars(ScanReturn(h) \/ (at[h] = "locked" /\ HandlerReturn(h)))

FairSpec == Spec /\ Fairness

---------------------------------------------------------------------------
(* Properties *)

\* As long as every attempt of the session was answered in time, each call
\* returns its own reply, however the handlers' calls overlap.
InStepUntilLate == ~late => got # "old"

\* ipmiState.mu is held by the handler that is in ensure or in its locked part,
\* and a call in progress by one that is entitled to make it: nobody gives up a
\* mutex that is not his, and nobody keeps one.
MutexOwners ==
    /\ \A h \in Handlers : mu = h <=> at[h] \in {"ensure", "locked", "hung"}
    /\ cmu # None => Calling(cmu)

\* Every request is answered, or has become an event log request: a BMC that
\* does not answer, and an event log scan that never ends, block nobody else.
\* A client that hangs does: it leaves mu locked, and then nobody is answered
\* any more who needs it.
RequestsAnswered ==
    \A h \in Handlers :
        (at[h] = "wait") ~> (at[h] \in {"idle", "sel"} \/ \E g \in Handlers : at[g] = "hung")

\* What makes the two invariants inductive.  Client.mu is held exactly while a
\* call is in progress; and until an attempt has gone unanswered a call leaves
\* nothing under way: the one packet it got out is answered before it returns.
CallInProgress == cmu = None <=> io = "none"

NothingUnderWay ==
    ~late => /\ flight["old"] = 0
             /\ flight["own"] + Len(sock) <= (IF io = "read" THEN 1 ELSE 0)
             /\ sock = <<>> \/ sock = <<"own">>

IInv == TypeOK /\ MutexOwners /\ CallInProgress /\ NothingUnderWay /\ InStepUntilLate
===========================================================================
