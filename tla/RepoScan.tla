------------------------------ MODULE RepoScan ------------------------------
(***************************************************************************)
(* Walking a repository of the BMC under a reservation: ScanSEL over the   *)
(* event log (internal/ipmi/sel.go) and ScanSensors over the sensor        *)
(* records (sdr.go), with the handler that clears the log and a BMC that   *)
(* appends and updates records and cancels reservations when it likes.     *)
(*                                                                         *)
(* An event is read by one command, a sensor record by its header and a    *)
(* number of chunks.  Commands are atomic (Client.Send holds its mutex);   *)
(* the event log's handlers interleave between commands, while the one     *)
(* sensor scan runs under ipmiState's mutex.                               *)
(***************************************************************************)
EXTENDS Integers, Sequences

CONSTANTS Scanners,  \* requests that walk the repository
          Clearers,  \* requests that clear the event log
          Limit,     \* entries a walk of the log is asked for
          Parts,     \* commands it takes to read a sensor record
          MaxLog     \* bound: records, and record IDs

ASSUME ScanAssumption == Limit \in Nat \ {0} /\ Parts \in Nat \ {0} /\ MaxLog \in Nat
ASSUME ActorsAssumption == Scanners \cap Clearers = {}

VARIABLES
    kind,    \* which repository this is, "sel" or "sdr"
    log,     \* its records, each with an ID and one of two versions
    lastId,  \* the ID given last
    valid,   \* who holds the reservation that stands: one or nobody
    at,      \* where a request stands
    rid,     \* the record a walk reads next, 0 for the first
    nxt,     \* the next record ID in the first reply for a record still being read
    buf,     \* the versions of what is read of the current record, in order
    out,     \* the IDs of the records a walk has read, in order
    torn,    \* walks with a record whose parts are of two versions
    seen,    \* how many records there were when the walk began
    cleared  \* walks since whose start the log was cleared

repo == <<kind, log, lastId>>
walk == <<rid, nxt, buf, out, torn>>
vars == <<repo, valid, at, walk, seen, cleared>>

\* Next record ID of the last one, 0xFFFF in the code.
End == MaxLog + 1

LessOf(a, b) == IF a <= b THEN a ELSE b

parts == IF kind = "sel" THEN 1 ELSE Parts

TypeOK ==
    /\ kind \in {"sel", "sdr"}
    /\ lastId \in 0..MaxLog
    /\ log \in Seq([id : 1..MaxLog, ver : {0, 1}])
    /\ Len(log) <= lastId
    /\ valid \subseteq Scanners \cup Clearers
    /\ at \in [Scanners \cup Clearers -> {"idle", "reserve", "get", "clear", "done"}]
    /\ rid \in [Scanners -> 0..MaxLog]
    /\ nxt \in [Scanners -> 1..End]
    /\ buf \in [Scanners -> Seq({0, 1})]
    /\ out \in [Scanners -> Seq(1..MaxLog)]
    /\ torn \subseteq Scanners
    /\ \A p \in Scanners : Len(buf[p]) < parts
    /\ \A p \in Scanners : kind = "sel" => Len(out[p]) <= Limit
    /\ seen \in [Scanners -> 0..MaxLog]
    /\ cleared \subseteq Scanners

Init ==
    /\ kind \in {"sel", "sdr"}
    /\ lastId \in 0..MaxLog
    /\ log = [i \in 1..lastId |-> [id |-> i, ver |-> 0]]
    /\ valid = {}
    /\ at = [p \in Scanners \cup Clearers |-> "idle"]
    /\ rid = [p \in Scanners |-> 0]
    /\ nxt = [p \in Scanners |-> End]
    /\ buf = [p \in Scanners |-> <<>>]
    /\ out = [p \in Scanners |-> <<>>]
    /\ torn = {}
    /\ seen = [p \in Scanners |-> 0]
    /\ cleared = {}

Scanning(p) == at[p] \in {"reserve", "get"}

---------------------------------------------------------------------------
(* ScanSEL and ScanSensors *)

\* A request comes in; a sensor scan has the repository for itself.
StartScan(p) ==
    /\ at[p] = "idle"
    /\ kind = "sdr" => \A r \in Scanners : ~Scanning(r)
    /\ at' = [at EXCEPT ![p] = "reserve"]
    /\ seen' = [seen EXCEPT ![p] = Len(log)]
    /\ UNCHANGED <<repo, valid, walk, cleared>>

\* The answer is sent: the records, or an error and none of them.
answered(p) ==
    /\ at' = [at EXCEPT ![p] = "idle"]
    /\ IF p \in Scanners
       THEN /\ rid' = [rid EXCEPT ![p] = 0]
            /\ nxt' = [nxt EXCEPT ![p] = End]
            /\ buf' = [buf EXCEPT ![p] = <<>>]
            /\ out' = [out EXCEPT ![p] = <<>>]
            /\ torn' = torn \ {p}
            /\ seen' = [seen EXCEPT ![p] = 0]
            /\ cleared' = cleared \ {p}
       ELSE UNCHANGED <<walk, seen, cleared>>

Answer(p) ==
    /\ at[p] = "done"
    /\ answered(p)
    /\ UNCHANGED <<repo, valid>>

\* A reservation, the first or a new one: every earlier one is void.
Reserve(p) ==
    /\ at[p] = "reserve"
    /\ valid' = {p}
    /\ at' = [at EXCEPT ![p] = IF p \in Scanners THEN "get" ELSE "clear"]
    /\ UNCHANGED <<repo, walk, seen, cleared>>

\* The command is not answered, or refused for another reason.
CallFails(p) ==
    /\ at[p] \in {"reserve", "get", "clear"}
    /\ answered(p)
    /\ UNCHANGED <<repo, valid>>

\* Completion code 0xC5: what is read of the record is dropped, and the walk goes
\* on at the same record with a new reservation, as often as it takes.
CancelledResumes(p) ==  \* mutant: the chunks read so far are kept
    /\ at[p] = "get"
    /\ p \notin valid
    /\ at' = [at EXCEPT ![p] = "reserve"]
    /\ UNCHANGED <<repo, valid, walk, seen, cleared>>

CancelledRetries(p) ==  \* mutant: the record is asked for again under the old reservation
    /\ at[p] = "get"
    /\ p \notin valid
    /\ buf' = [buf EXCEPT ![p] = <<>>]
    /\ UNCHANGED <<repo, valid, at, rid, nxt, out, torn, seen, cleared>>

CancelledRestarts(p) ==  \* mutant: the walk begins again and keeps what it has
    /\ at[p] = "get"
    /\ p \notin valid
    /\ at' = [at EXCEPT ![p] = "reserve"]
    /\ buf' = [buf EXCEPT ![p] = <<>>]
    /\ nxt' = [nxt EXCEPT ![p] = End]
    /\ rid' = [rid EXCEPT ![p] = 0]
    /\ UNCHANGED <<repo, valid, out, torn, seen, cleared>>

Cancelled(p) ==
    /\ at[p] = "get"
    /\ p \notin valid
    /\ at' = [at EXCEPT ![p] = "reserve"]
    /\ buf' = [buf EXCEPT ![p] = <<>>]
    /\ nxt' = [nxt EXCEPT ![p] = End]
    /\ UNCHANGED <<repo, valid, rid, out, torn, seen, cleared>>

\* Where the record a walk asks for is in the log: 0 is the first one.
Place(p) == {i \in DOMAIN log : IF rid[p] = 0 THEN i = 1 ELSE log[i].id = rid[p]}

\* There is no such record: the walk fails, and its handler with it.
NotFound(p) ==
    /\ at[p] = "get"
    /\ p \in valid
    /\ Place(p) = {}
    /\ answered(p)
    /\ UNCHANGED <<repo, valid>>

following(i) == IF i < Len(log) THEN log[i + 1].id ELSE End

IsUniform(s) == \A i, j \in DOMAIN s : s[i] = s[j]

\* The record is complete.  Its successor was named by the reply to the first
\* command; the walk ends there or, in the event log, at the limit.
stepOnLimitFirst(p, id, vers, n) ==  \* mutant: the limit is tested before the record counts
    /\ out' = [out EXCEPT ![p] = Append(@, id)]
    /\ torn' = IF IsUniform(vers) THEN torn ELSE torn \cup {p}
    /\ buf' = [buf EXCEPT ![p] = <<>>]
    /\ nxt' = [nxt EXCEPT ![p] = End]
    /\ IF n = End \/ (kind = "sdr" /\ n = rid[p]) \/ (kind = "sel" /\ Len(out[p]) >= Limit)
       THEN at' = [at EXCEPT ![p] = "done"] /\ UNCHANGED rid
       ELSE rid' = [rid EXCEPT ![p] = n] /\ UNCHANGED at

stepOn(p, id, vers, n) ==
    /\ out' = [out EXCEPT ![p] = Append(@, id)]
    /\ torn' = IF IsUniform(vers) THEN torn ELSE torn \cup {p}
    /\ buf' = [buf EXCEPT ![p] = <<>>]
    /\ nxt' = [nxt EXCEPT ![p] = End]
    /\ IF n = End \/ (kind = "sdr" /\ n = rid[p]) \/ (kind = "sel" /\ Len(out[p]) + 1 >= Limit)
       THEN at' = [at EXCEPT ![p] = "done"] /\ UNCHANGED rid
       ELSE rid' = [rid EXCEPT ![p] = n] /\ UNCHANGED at

\* One command that succeeds: an event, a header or a chunk of a sensor record.
GetEntry(p) ==
    /\ at[p] = "get"
    /\ p \in valid
    /\ \E i \in Place(p) :
        LET read == Append(buf[p], log[i].ver)
            n == IF buf[p] = <<>> THEN following(i) ELSE nxt[p]
        IN  IF Len(read) = parts
            THEN stepOn(p, log[i].id, read, n)
            ELSE /\ buf' = [buf EXCEPT ![p] = read]
                 /\ nxt' = [nxt EXCEPT ![p] = n]
                 /\ UNCHANGED <<at, rid, out, torn>>
    /\ UNCHANGED <<repo, valid, seen, cleared>>

\* The BMC answers a chunk with nothing: the record ends early.
EmptyChunk(p) ==
    /\ at[p] = "get"
    /\ p \in valid
    /\ buf[p] # <<>>
    /\ \E i \in Place(p) : stepOn(p, log[i].id, buf[p], nxt[p])
    /\ UNCHANGED <<repo, valid, seen, cleared>>

---------------------------------------------------------------------------
(* handleSELClear *)

StartClear(c) ==
    /\ kind = "sel"
    /\ at[c] = "idle"
    /\ at' = [at EXCEPT ![c] = "reserve"]
    /\ UNCHANGED <<repo, valid, walk, seen, cleared>>

\* The log is erased if the reservation stands; IDs may start again.
ClearSEL(c) ==
    /\ at[c] = "clear"
    /\ IF c \in valid
       THEN /\ log' = <<>>
            /\ lastId' \in {0, lastId}
            /\ valid' = {}
            /\ cleared' = {p \in Scanners : at[p] # "idle"}
       ELSE UNCHANGED <<log, lastId, valid, cleared>>
    /\ at' = [at EXCEPT ![c] = "idle"]
    /\ UNCHANGED <<kind, walk, seen>>

---------------------------------------------------------------------------
(* The BMC *)

\* An event is logged; reservations of the event log stay.  A sensor record that
\* comes or changes voids the reservation.
Append1 ==
    /\ lastId < MaxLog
    /\ lastId' = lastId + 1
    /\ log' = Append(log, [id |-> lastId + 1, ver |-> 0])
    /\ valid' = IF kind = "sel" THEN valid ELSE {}
    /\ UNCHANGED <<kind, at, walk, seen, cleared>>

Update(i) ==
    /\ kind = "sdr"
    /\ log' = [log EXCEPT ![i].ver = 1 - @]
    /\ valid' = {}
    /\ UNCHANGED <<kind, lastId, at, walk, seen, cleared>>

Cancel ==
    /\ valid # {}
    /\ valid' = {}
    /\ UNCHANGED <<repo, at, walk, seen, cleared>>

---------------------------------------------------------------------------

\* What the goroutine of request p does when its commands are answered.
Step(p) ==
    \/ Reserve(p) \/ Answer(p)
    \/ p \in Scanners /\ (Cancelled(p) \/ NotFound(p) \/ GetEntry(p) \/ EmptyChunk(p))
    \/ p \in Clearers /\ ClearSEL(p)

Next ==
    \/ \E p \in Scanners \cup Clearers : Step(p) \/ CallFails(p)
    \/ \E p \in Scanners : StartScan(p)
    \/ \E c \in Clearers : StartClear(c)
    \/ Append1 \/ Cancel
    \/ \E i \in DOMAIN log : Update(i)

\* A handler's goroutine runs, and every command is answered, or given up by
\* roundtrip after its last attempt (CallFails); none need ever fail.
Fairness == \A p \in Scanners \cup Clearers : WF_vars(Step(p))

Spec == Init /\ [][Next]_vars /\ Fairness

---------------------------------------------------------------------------
(* Properties *)

enough(p) == IF kind = "sel" THEN LessOf(Limit, seen[p]) ELSE seen[p]

\* A walk over which the log is not cleared returns the records from the first on,
\* without a gap and none twice, however often its reservation is cancelled on
\* the way, and when it succeeds at least those there were when it began, or as
\* many as it was asked for.
WalkIsPrefix ==
    \A p \in Scanners \ cleared :
        /\ Len(out[p]) <= Len(log)
        /\ \A i \in DOMAIN out[p] : out[p][i] = log[i].id
        /\ at[p] = "done" => Len(out[p]) >= enough(p)

\* No record is put together from two versions of it: a sensor record that changes
\* between its header and its last chunk is read again from the header.
NoTornRecord == torn = {}

\* Nobody takes walk p's reservation from it: it stands till the walk is over.
Keeps(p) == (Scanning(p) /\ p \in valid) => (p \in valid' \/ ~Scanning(p)')

\* Each walk whose reservation is from some time on left to it ends, whatever becomes
\* of the other walks' reservations.  Only taking it away again and again keeps a
\* walk going, since every cancellation is answered by a new reservation; two
\* walks of the event log may do that to each other for ever.
ScansEnd == \A p \in Scanners : <>[][Keeps(p)]_vars => (Scanning(p) ~> ~Scanning(p))
===========================================================================
