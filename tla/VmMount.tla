------------------------------ MODULE VmMount ------------------------------
(***************************************************************************)
(* Virtual media of the bridge: the HTTP handlers that mount, upload and   *)
(* unmount (cmd/beefkvm/main.go), the goroutine each mount runs and the    *)
(* AVMP session it serves (internal/vm/vm.go), with the BMC as an          *)
(* environment that asks for sectors, stops reading and drops the          *)
(* connection.                                                             *)
(*                                                                         *)
(* A mount request r \in Reqs stands for its handler and for the media,    *)
(* connection, heartbeat and goroutine it creates; it is reused when all   *)
(* of them are gone.                                                       *)
(*                                                                         *)
(* sendFrame writes under WriteMu and without a deadline: on a connection  *)
(* the BMC does not read the write blocks with the mutex held, until the   *)
(* BMC reads or somebody closes the connection.                            *)
(***************************************************************************)
EXTENDS Naturals, FiniteSets

CONSTANTS Reqs,       \* mount and upload requests
          Uploads,    \* those that come through handleVMUpload
          Unmounters, \* unmount requests
          None,       \* no request
          MaxBusy,    \* bound: mounts and unmount requests at work at once
          Active      \* bound: mounts whose BMC asks for sectors and blocks writes

ASSUME NoneAssumption == None \notin Reqs
ASSUME UploadsAssumption == Uploads \subseteq Reqs
ASSUME BoundsAssumption == MaxBusy \in Nat /\ Active \subseteq Reqs
ASSUME UnmountersAssumption == Unmounters \cap {"free", "run", "beat"} = {}

VARIABLES
    req,      \* where the mount handler of r stands
    temp,     \* requests whose temporary directory exists
    tempPath, \* mounts whose m.tempPath is set
    file,     \* requests whose Media.f is open
    media,    \* mounts whose vm.Session.Media is not nil
    conn,     \* mounts whose connection is up
    hung,     \* of these, the ones with a write the BMC will never read
    wmu,      \* vm.Session.WriteMu of r: free, or who is inside Conn.Write
    run,      \* where the goroutine of mount r stands
    mounts,   \* b.mounts[0]
    rivals,   \* history: requests past the look at b.mounts when it was written
    unm,      \* where an unmount handler stands, and with which mount
    proc      \* the bridge process: a panic in a goroutine of its own ends it

handlers == <<req, unm>>
disk == <<temp, tempPath, file, media>>
net == <<conn, hung, wmu>>
table == <<mounts, rivals>>
vars == <<handlers, disk, net, run, table, proc>>

\* "offer" is past a test of s.Media, before sendVdiskRequest uses it; "serve" is
\* before the read or write of a chunk, "count" before the update of s.Media's
\* counters after it; "send" and "data" are in sendFrame, the latter with a
\* chunk that is then counted.
RunStates == {"idle", "begin", "offer", "read", "serve", "data", "count", "send",
              "ended", "removed"}

TypeOK ==
    /\ req \in [Reqs -> {"idle", "opened", "checked", "mounted"}]
    /\ temp \in SUBSET Reqs
    /\ tempPath \in SUBSET Reqs
    /\ file \in SUBSET Reqs
    /\ media \in SUBSET Reqs
    /\ conn \in SUBSET Reqs
    /\ hung \in SUBSET conn
    /\ wmu \in [Reqs -> {"free", "run", "beat"} \cup Unmounters]
    /\ rivals \in SUBSET Reqs
    /\ run \in [Reqs -> RunStates]
    /\ mounts \in Reqs \cup {None}
    /\ unm \in [Unmounters -> [at : {"idle"}, of : {None}]
                               \cup [at : {"release", "detach", "close"}, of : Reqs]]
    /\ proc \in {"up", "crashed"}

Idle == [at |-> "idle", of |-> None]

Init ==
    /\ req = [r \in Reqs |-> "idle"]
    /\ temp = {} /\ tempPath = {} /\ file = {} /\ media = {}
    /\ conn = {} /\ hung = {}
    /\ wmu = [r \in Reqs |-> "free"]
    /\ run = [r \in Reqs |-> "idle"]
    /\ mounts = None /\ rivals = {}
    /\ unm = [u \in Unmounters |-> Idle]
    /\ proc = "up"

Up == proc = "up"

---------------------------------------------------------------------------
(* sendFrame.  A write the socket takes at once, with the lock around it, is *)
(* one step.  One that blocks keeps the mutex until the BMC reads on, which  *)
(* it may never do, or the connection is closed.                             *)

\* The write is over, done or failed.
Write(who, r) ==
    /\ wmu[r] \in {"free", who}
    /\ r \notin hung
    /\ wmu' = [wmu EXCEPT ![r] = "free"]
    /\ UNCHANGED <<conn, hung>>

BlockInWrite(who, r) ==
    /\ Up
    /\ wmu[r] = "free"
    /\ r \in conn \cap Active
    /\ wmu' = [wmu EXCEPT ![r] = who]
    /\ \E never \in SUBSET {r} : hung' = hung \cup never
    /\ UNCHANGED <<handlers, disk, conn, run, table, proc>>

\* Conn.Close(), or the BMC, ends the connection; a blocked write fails.
Disconnected(r) == conn' = conn \ {r} /\ hung' = hung \ {r}

---------------------------------------------------------------------------
(* handleVMMount, handleVMUpload and mountMediaSubchannel *)

\* r is not in use: neither its handler, nor a goroutine of it, nor an unmount.
Unused(r) ==
    /\ req[r] = "idle" /\ run[r] = "idle" /\ wmu[r] = "free"
    /\ \A u \in Unmounters : unm[u].of # r

Busy == Cardinality({r \in Reqs : ~Unused(r)}) + Cardinality({u \in Unmounters : unm[u] # Idle})

\* OpenCD, OpenUSB or OpenFloppy succeeds.  A request that is refused before
\* that leaves nothing behind; what an earlier use of r left in the file system
\* is not tracked further.
OpenMedia(r) ==
    /\ Up
    /\ Unused(r)
    /\ Busy < MaxBusy
    /\ req' = [req EXCEPT ![r] = "opened"]
    /\ file' = file \cup {r}
    /\ UNCHANGED <<tempPath, media, net, run, table, unm, proc>>

HandleVMMount(r) ==
    /\ r \notin Uploads
    /\ OpenMedia(r)
    /\ UNCHANGED temp

\* An upload is first copied to a directory of its own.
HandleVMUpload(r) ==
    /\ r \in Uploads
    /\ OpenMedia(r)
    /\ temp' = temp \cup {r}

\* An error of mountMediaSubchannel: close the media, remove the directory.
RejectKeepsMedia(r) ==  \* mutant: media.Close() is missing
    /\ req' = [req EXCEPT ![r] = "idle"]
    /\ temp' = temp \ {r}
    /\ rivals' = rivals \ {r}
    /\ UNCHANGED <<tempPath, file, media, net, run, mounts, unm, proc>>

Reject(r) ==
    /\ req' = [req EXCEPT ![r] = "idle"]
    /\ file' = file \ {r}
    /\ temp' = temp \ {r}
    /\ rivals' = rivals \ {r}
    /\ UNCHANGED <<tempPath, media, net, run, mounts, unm, proc>>

\* The first look at b.mounts, under mountsMu.
CheckDriveNot(r) ==  \* mutant: an existing mount is not looked for
    /\ Up
    /\ req[r] = "opened"
    /\ req' = [req EXCEPT ![r] = "checked"]
    /\ UNCHANGED <<disk, net, run, table, unm, proc>>

CheckDrive(r) ==
    /\ Up
    /\ req[r] = "opened"
    /\ \/ /\ mounts # None
          /\ Reject(r)
       \/ /\ mounts = None
          /\ req' = [req EXCEPT ![r] = "checked"]
          /\ UNCHANGED <<disk, net, run, table, unm, proc>>

OpenVMSessionFail(r) ==
    /\ Up
    /\ req[r] = "checked"
    /\ Reject(r)

\* openVMSession succeeds, the mount goes into b.mounts, whatever is there by
\* now, and its goroutine is started.  Its heartbeat runs as long as the
\* connection is up.
Mount(r) ==
    /\ Up
    /\ req[r] = "checked"
    /\ req' = [req EXCEPT ![r] = "mounted"]
    /\ conn' = conn \cup {r}
    /\ media' = media \cup {r}
    /\ mounts' = r
    /\ rivals' = {q \in Reqs \ {r} : req[q] = "checked"}
    /\ run' = [run EXCEPT ![r] = "begin"]
    /\ UNCHANGED <<temp, tempPath, file, hung, wmu, unm, proc>>

\* Back in the handler: only handleVMUpload sets m.tempPath, which nothing reads
\* any more when the goroutine is over.
Respond(r) ==
    /\ Up
    /\ req[r] = "mounted"
    /\ req' = [req EXCEPT ![r] = "idle"]
    /\ tempPath' = IF r \in Uploads /\ run[r] # "idle" THEN tempPath \cup {r} ELSE tempPath
    /\ UNCHANGED <<temp, file, media, net, run, table, unm, proc>>

---------------------------------------------------------------------------
(* The goroutine of a mount: Session.Run and the cleanup after it *)

\* A frame is written: Run goes on, or returns if the write failed.
SendFrame(r) ==
    /\ Up
    /\ run[r] \in {"send", "data"}
    /\ Write("run", r)
    /\ run' = [run EXCEPT ![r] = CASE r \notin conn -> "ended"
                                   [] @ = "data" -> "count"
                                   [] OTHER -> "read"]
    /\ UNCHANGED <<handlers, disk, table, proc>>

SendFrameBlocks(r) == run[r] \in {"send", "data"} /\ BlockInWrite("run", r)

\* A use of s.Media that Detach has set to nil since it was tested: a panic
\* nothing recovers.  The process is gone; what it left on disk stays.
UseOfNilMedia(r) ==
    /\ Up
    /\ run[r] \in {"offer", "serve", "count"}
    /\ r \notin media
    /\ proc' = "crashed"
    /\ req' = [q \in Reqs |-> "idle"] /\ run' = [q \in Reqs |-> "idle"]
    /\ unm' = [u \in Unmounters |-> Idle]
    /\ tempPath' = {} /\ file' = {} /\ media' = {}
    /\ conn' = {} /\ hung' = {} /\ wmu' = [q \in Reqs |-> "free"]
    /\ mounts' = None /\ rivals' = {}
    /\ UNCHANGED temp

\* Run tests s.Media before it offers the disk ...
Announce(r) ==
    /\ Up
    /\ run[r] = "begin"
    /\ run' = [run EXCEPT ![r] = IF r \in media THEN "offer" ELSE "read"]
    /\ UNCHANGED <<handlers, disk, net, table, proc>>

\* ... and sendVdiskRequest uses it, here and in the answer to VDISK_INFO.
SendVdiskRequest(r) ==
    /\ Up
    /\ run[r] = "offer"
    /\ r \in media
    /\ run' = [run EXCEPT ![r] = "send"]
    /\ UNCHANGED <<handlers, disk, net, table, proc>>

\* ReadFrame delivers a frame.  VDISK_INFO ("offer"), VDISK_READ and VDISK_WRITE
\* ("serve") test s.Media; without media the first is ignored, the others are
\* answered with an error status.  A release request, a table of contents and
\* a smart-card block are answered without a look at s.Media ("send").
ReadRequest(r, to) ==
    /\ Up
    /\ run[r] = "read"
    /\ r \in conn \cap Active
    /\ run' = [run EXCEPT ![r] = IF r \in media THEN to ELSE IF to = "offer" THEN "read" ELSE "send"]
    /\ UNCHANGED <<handlers, disk, net, table, proc>>

\* One chunk of VDISK_READ, or all of VDISK_WRITE: on a closed file, or one
\* that fails, the error status; else the data, or the block is written.
ServeChunk(r) ==
    /\ Up
    /\ run[r] = "serve"
    /\ r \in media
    /\ \E next \in {"send"} \cup (IF r \in file THEN {"data", "count"} ELSE {}) :
           run' = [run EXCEPT ![r] = next]
    /\ UNCHANGED <<handlers, disk, net, table, proc>>

\* The counters; then the next chunk, if there is one, or the final status.
CountBytes(r) ==
    /\ Up
    /\ run[r] = "count"
    /\ r \in media
    /\ \E next \in {"serve", "send"} : run' = [run EXCEPT ![r] = next]
    /\ UNCHANGED <<handlers, disk, net, table, proc>>

\* Run returns: the connection is down, or the BMC says DISCONNECT or sends
\* what handle rejects.
RunEnds(r) ==
    /\ run[r] = "read"
    /\ run' = [run EXCEPT ![r] = "ended"]
    /\ UNCHANGED <<handlers, disk, net, table, proc>>

ReadError(r) == Up /\ r \notin conn /\ RunEnds(r)
Disconnect(r) == Up /\ r \in conn /\ RunEnds(r)

\* close(vmStop), then the record goes, if it is still this mount's.
removedNever(r) == mounts  \* mutant: the record is left to the unmount handler
removed(r) == IF mounts = r THEN None ELSE mounts

RemoveRecord(r) ==
    /\ Up
    /\ run[r] = "ended"
    /\ run' = [run EXCEPT ![r] = "removed"]
    /\ mounts' = removed(r)
    /\ rivals' = IF mounts' = None THEN {} ELSE rivals
    /\ UNCHANGED <<handlers, disk, net, proc>>

\* The rest of the goroutine: connection, media and temporary directory.
CleanUp(r) ==
    /\ Up
    /\ run[r] = "removed"
    /\ run' = [run EXCEPT ![r] = "idle"]
    /\ Disconnected(r)
    /\ file' = file \ {r}
    /\ media' = media \ {r}
    /\ temp' = IF r \in tempPath THEN temp \ {r} ELSE temp
    /\ tempPath' = tempPath \ {r}
    /\ UNCHANGED <<handlers, wmu, table, proc>>

---------------------------------------------------------------------------
(* StartHeartbeat's goroutine.  A heartbeat that does not block changes      *)
(* nothing here, and a write error or vmStop then ends the goroutine.        *)

BeatBlocks(r) == BlockInWrite("beat", r)

BeatWritten(r) ==
    /\ Up
    /\ wmu[r] = "beat"
    /\ Write("beat", r)
    /\ UNCHANGED <<handlers, disk, run, table, proc>>

---------------------------------------------------------------------------
(* handleVMUnmount and Detach *)

\* The lookup, and Detach's test of s.Media.
UnmountAny(u) ==  \* mutant: the lookup's ok is not tested
    /\ Up
    /\ unm[u] = Idle
    /\ Busy < MaxBusy
    /\ unm' = [unm EXCEPT ![u] = [at |-> IF mounts \in media THEN "release" ELSE "close",
                                  of |-> mounts]]
    /\ UNCHANGED <<req, disk, net, run, table, proc>>

Unmount(u) ==
    /\ Up
    /\ unm[u] = Idle
    /\ Busy < MaxBusy
    /\ mounts # None
    /\ unm' = [unm EXCEPT ![u] = [at |-> IF mounts \in media THEN "release" ELSE "close",
                                  of |-> mounts]]
    /\ UNCHANGED <<req, disk, net, run, table, proc>>

\* Detach sends VDISK_RELEASE and keeps a write error for later ...
SendVdiskRelease(u) ==
    /\ Up
    /\ unm[u].at = "release"
    /\ Write(u, unm[u].of)
    /\ unm' = [unm EXCEPT ![u].at = "detach"]
    /\ UNCHANGED <<req, disk, run, table, proc>>

SendVdiskReleaseBlocks(u) == unm[u].at = "release" /\ BlockInWrite(u, unm[u].of)

\* ... then closes s.Media and sets it to nil.  If another Detach was faster
\* s.Media.Close() panics; net/http recovers and the handler is gone.
Detach(u) ==
    /\ Up
    /\ unm[u].at = "detach"
    /\ unm' = [unm EXCEPT ![u] = IF unm[u].of \in media THEN [@ EXCEPT !.at = "close"] ELSE Idle]
    /\ file' = file \ ({unm[u].of} \cap media)
    /\ media' = media \ {unm[u].of}
    /\ UNCHANGED <<req, temp, tempPath, net, run, table, proc>>

CloseConnNot(u) ==  \* mutant: Detach alone is taken to end the session
    /\ Up
    /\ unm[u].at = "close"
    /\ unm' = [unm EXCEPT ![u] = Idle]
    /\ UNCHANGED <<req, disk, net, run, table, proc>>

CloseConn(u) ==
    /\ Up
    /\ unm[u].at = "close"
    /\ Disconnected(unm[u].of)
    /\ unm' = [unm EXCEPT ![u] = Idle]
    /\ UNCHANGED <<req, disk, wmu, run, table, proc>>

---------------------------------------------------------------------------
(* The BMC *)

\* The BMC, or the network, drops the connection.
DropConn(r) ==
    /\ Up
    /\ r \in conn
    /\ Disconnected(r)
    /\ UNCHANGED <<handlers, disk, wmu, run, table, proc>>

Crashed ==
    /\ proc = "crashed"
    /\ UNCHANGED vars

Handler(r) ==
    \/ CheckDrive(r) \/ OpenVMSessionFail(r) \/ Mount(r) \/ Respond(r)

Goroutine(r) ==
    \/ Announce(r) \/ SendVdiskRequest(r) \/ ServeChunk(r) \/ CountBytes(r) \/ SendFrame(r)
    \/ UseOfNilMedia(r) \/ ReadError(r) \/ RemoveRecord(r) \/ CleanUp(r)

UnmountHandler(u) == SendVdiskRelease(u) \/ Detach(u) \/ CloseConn(u)

Environment(r) ==
    \/ HandleVMMount(r) \/ HandleVMUpload(r)
    \/ \E to \in {"offer", "serve", "send"} : ReadRequest(r, to)
    \/ Disconnect(r) \/ DropConn(r)

Next ==
    \/ \E r \in Reqs :
          \/ Handler(r) \/ Goroutine(r) \/ BeatWritten(r) \/ Environment(r)
          \/ SendFrameBlocks(r) \/ BeatBlocks(r)
    \/ \E u \in Unmounters : Unmount(u) \/ UnmountHandler(u) \/ SendVdiskReleaseBlocks(u)
    \/ Crashed

Spec == Init /\ [][Next]_vars

\* Goroutines and unmount handlers run, a read or write on a closed connection
\* returns, and so does a write the BMC reads in the end.  Fairness is strong
\* for those who wait for WriteMu: a sync.Mutex starves nobody.  Of a
\* BMC that has stopped reading nothing is assumed.
Fairness ==
    /\ \A r \in Reqs : SF_vars(Goroutine(r)) /\ WF_vars(BeatWritten(r))
    /\ \A u \in Unmounters : SF_vars(UnmountHandler(u))

FairSpec == Spec /\ Fairness

---------------------------------------------------------------------------
(* Properties *)

\* The goroutine of mount r has yet to remove its record.
Serving(r) == run[r] \notin {"idle", "removed"}

\* handleVMStatus and handleVMUnmount never find a mount whose goroutine has
\* cleaned up: what b.mounts names is still served, however mounts and
\* unmounts overlap.
RecordIsServed == mounts # None => Serving(mounts)

\* A record in the table is displaced only by a request that had made
\* mountMediaSubchannel's test for an existing mount before the record went in;
\* to any later request the drive counts as mounted until the record's own
\* goroutine is over.  In particular no cleanup takes another mount's record.
RecordKept ==
    [][\A r \in Reqs :
          mounts = r /\ mounts' # r => run[r] = "ended" \/ mounts' \in rivals \/ proc' = "crashed"]_vars

\* When the handler and the goroutine of a request are both gone its file and
\* connection are closed, on every error path.
NothingHeld ==
    \A r \in Reqs : req[r] = "idle" /\ run[r] = "idle" => r \notin file \cup media \cup conn

\* Everything mount r consists of is gone, and nobody is left in its writes.
Gone(r) == run[r] = "idle" /\ r \notin file \cup media \cup conn /\ wmu[r] = "free"

\* An unmount of r waits in Detach for a write the BMC never reads, its own or
\* one whose author holds WriteMu.
HangsInDetach(r) == r \in hung /\ \E u \in Unmounters : unm[u] = [at |-> "release", of |-> r]

\* An unmount that got hold of a mount ends it, whoever it finds inside the
\* write lock and whatever the goroutine is doing: all of the mount goes, or
\* the process crashes, or the handler hangs in Detach, before the Close that
\* would end the blocked write, for as long as the BMC keeps the connection
\* without reading it.
UnmountEnds ==
    \A r \in Reqs :
        (\E u \in Unmounters : unm[u].of = r) ~> (Gone(r) \/ proc = "crashed" \/ HangsInDetach(r))

\* What makes them inductive: connection and media belong to a goroutine, a file
\* to a goroutine or to a handler that is still mounting; whoever is past the
\* test while the table holds a record was so when the record went in.
HolderIsAlive ==
    \A r \in Reqs :
        /\ r \in media \cup conn => run[r] # "idle"
        /\ r \in file => run[r] # "idle" \/ req[r] \in {"opened", "checked"}

RivalsKnown == mounts # None => \A q \in Reqs : req[q] = "checked" => q \in rivals

IInv == TypeOK /\ RecordIsServed /\ HolderIsAlive /\ RivalsKnown

\* main.go:1140-1142: an upload's directory is gone when its mount is.
UploadIsDeleted ==
    \A r \in Reqs : proc = "up" /\ req[r] = "idle" /\ run[r] = "idle" => r \notin temp

\* main.go:1120-1121: closing the connection makes Run return and clean up;
\* Run does not trip over the media Detach took away.
DetachIsClean == proc = "up"
===========================================================================
