-------------------------- MODULE VmMount_proofs --------------------------
(***************************************************************************)
(* Safety of virtual media mounts for any number of overlapping mount,     *)
(* upload and unmount requests.                                            *)
(***************************************************************************)
EXTENDS VmMount, TLAPS

\* A bridge that starts has no mount and holds nothing.
LEMMA InitIInv == Init => IInv
  BY NoneAssumption
  DEF Init, IInv, TypeOK, RecordIsServed, Serving, HolderIsAlive, RivalsKnown, Idle, RunStates

\* What an unmount handler may hold, written so that its fields can be read off.
LEMMA UnmountRecord ==
  ASSUME TypeOK, NEW u \in Unmounters, unm[u] # Idle
  PROVE  unm[u].of \in Reqs /\ unm[u] = [at |-> unm[u].at, of |-> unm[u].of]
  BY DEF TypeOK, Idle

\* A write changes nothing but the mutex and what is known of the connection.
LEMMA WriteNet ==
  ASSUME TypeOK, NEW r \in Reqs, NEW who \in {"run", "beat"} \cup Unmounters
  PROVE  /\ Write(who, r) => conn' = conn /\ hung' = hung
         /\ Write(who, r) => wmu' \in [Reqs -> {"free", "run", "beat"} \cup Unmounters]
         /\ BlockInWrite(who, r) =>
              /\ UNCHANGED <<handlers, disk, conn, run, table, proc>>
              /\ hung' \in SUBSET conn
              /\ wmu' \in [Reqs -> {"free", "run", "beat"} \cup Unmounters]
  BY DEF TypeOK, Write, BlockInWrite

\* Every step keeps the types.
LEMMA NextTypeOK == TypeOK /\ [Next]_vars => TypeOK'
  <1> SUFFICES ASSUME TypeOK, [Next]_vars PROVE TypeOK'
    OBVIOUS
  <1> USE NoneAssumption DEF TypeOK, RunStates, handlers, disk, net, table
  <1>1. ASSUME NEW r \in Reqs, Handler(r) PROVE TypeOK'
    BY <1>1 DEF Handler, CheckDrive, OpenVMSessionFail, Mount, Respond, Reject
  <1>2. ASSUME NEW r \in Reqs, Announce(r) \/ SendVdiskRequest(r) \/ ServeChunk(r) \/ CountBytes(r)
        PROVE  TypeOK'
    BY <1>2 DEF Announce, SendVdiskRequest, ServeChunk, CountBytes
  <1>3. ASSUME NEW r \in Reqs, SendFrame(r) \/ BeatWritten(r) PROVE TypeOK'
    BY <1>3, WriteNet DEF SendFrame, BeatWritten
  <1>4. ASSUME NEW r \in Reqs, UseOfNilMedia(r) PROVE TypeOK'
    BY <1>4 DEF UseOfNilMedia, Idle
  <1>5. ASSUME NEW r \in Reqs, ReadError(r) \/ Disconnect(r) \/ RemoveRecord(r) \/ CleanUp(r)
        PROVE  TypeOK'
    BY <1>5 DEF ReadError, Disconnect, RunEnds, RemoveRecord, removed, CleanUp, Disconnected
  <1>6. ASSUME NEW r \in Reqs, HandleVMMount(r) \/ HandleVMUpload(r) PROVE TypeOK'
    BY <1>6 DEF HandleVMMount, HandleVMUpload, OpenMedia
  <1>7. ASSUME NEW r \in Reqs, NEW to \in {"offer", "serve", "send"}, ReadRequest(r, to)
        PROVE  TypeOK'
    BY <1>7 DEF ReadRequest
  <1>8. ASSUME NEW r \in Reqs, DropConn(r) PROVE TypeOK'
    BY <1>8 DEF DropConn, Disconnected
  <1>9. ASSUME NEW r \in Reqs, SendFrameBlocks(r) \/ BeatBlocks(r) PROVE TypeOK'
    BY <1>9, WriteNet DEF SendFrameBlocks, BeatBlocks
  <1>10. ASSUME NEW u \in Unmounters, Unmount(u) PROVE TypeOK'
    BY <1>10 DEF Unmount
  <1>11. ASSUME NEW u \in Unmounters, UnmountHandler(u) \/ SendVdiskReleaseBlocks(u) PROVE TypeOK'
    <2>0. unm[u] # Idle
      BY <1>11 DEF UnmountHandler, SendVdiskRelease, SendVdiskReleaseBlocks, Detach, CloseConn, Idle
    <2> USE <2>0, UnmountRecord
    <2>1. CASE SendVdiskRelease(u)
      <3>1. unm' \in [Unmounters -> [at : {"idle"}, of : {None}]
                                     \cup [at : {"release", "detach", "close"}, of : Reqs]]
        BY <2>1 DEF SendVdiskRelease
      <3> QED BY <2>1, <3>1, WriteNet DEF SendVdiskRelease
    <2>2. CASE Detach(u)
      <3>1. unm' \in [Unmounters -> [at : {"idle"}, of : {None}]
                                     \cup [at : {"release", "detach", "close"}, of : Reqs]]
        BY <2>2 DEF Detach, Idle
      <3> QED BY <2>2, <3>1 DEF Detach
    <2>3. CASE CloseConn(u)
      BY <2>3 DEF CloseConn, Disconnected, Idle
    <2>4. CASE SendVdiskReleaseBlocks(u)
      BY <2>4, WriteNet DEF SendVdiskReleaseBlocks
    <2> QED BY <1>11, <2>1, <2>2, <2>3, <2>4 DEF UnmountHandler
  <1>12. CASE Crashed \/ UNCHANGED vars
    BY <1>12 DEF Crashed, vars
  <1> QED
    BY <1>1, <1>2, <1>3, <1>4, <1>5, <1>6, <1>7, <1>8, <1>9, <1>10, <1>11, <1>12
    DEF Next, Goroutine, Environment

\* Every step keeps the table and the resources in hands that are alive, and
\* lets no request past the test while the table holds a record.
LEMMA NextIInv == IInv /\ [Next]_vars => IInv'
  <1> DEFINE Rest == RecordIsServed /\ HolderIsAlive /\ RivalsKnown
  <1> SUFFICES ASSUME IInv, [Next]_vars PROVE Rest'
    BY NextTypeOK DEF IInv
  <1> USE NoneAssumption DEF IInv, TypeOK, RecordIsServed, Serving, HolderIsAlive, RivalsKnown,
                             handlers, disk, net, table
  <1>1. ASSUME NEW r \in Reqs, Handler(r) PROVE Rest'
    BY <1>1 DEF Handler, CheckDrive, OpenVMSessionFail, Mount, Respond, Reject
  <1>2. ASSUME NEW r \in Reqs, Announce(r) \/ SendVdiskRequest(r) \/ ServeChunk(r) \/ CountBytes(r)
        PROVE  Rest'
    BY <1>2 DEF Announce, SendVdiskRequest, ServeChunk, CountBytes
  <1>3. ASSUME NEW r \in Reqs, SendFrame(r) \/ BeatWritten(r) PROVE Rest'
    BY <1>3, WriteNet DEF SendFrame, BeatWritten
  <1>4. ASSUME NEW r \in Reqs, UseOfNilMedia(r) PROVE Rest'
    BY <1>4 DEF UseOfNilMedia
  <1>5. ASSUME NEW r \in Reqs, ReadError(r) \/ Disconnect(r) \/ RemoveRecord(r) \/ CleanUp(r)
        PROVE  Rest'
    BY <1>5 DEF ReadError, Disconnect, RunEnds, RemoveRecord, removed, CleanUp, Disconnected
  <1>6. ASSUME NEW r \in Reqs, HandleVMMount(r) \/ HandleVMUpload(r) PROVE Rest'
    BY <1>6 DEF HandleVMMount, HandleVMUpload, OpenMedia
  <1>7. ASSUME NEW r \in Reqs, NEW to \in {"offer", "serve", "send"}, ReadRequest(r, to)
        PROVE  Rest'
    BY <1>7 DEF ReadRequest
  <1>8. ASSUME NEW r \in Reqs, DropConn(r) PROVE Rest'
    BY <1>8 DEF DropConn, Disconnected
  <1>9. ASSUME NEW r \in Reqs, SendFrameBlocks(r) \/ BeatBlocks(r) PROVE Rest'
    BY <1>9, WriteNet DEF SendFrameBlocks, BeatBlocks
  <1>10. ASSUME NEW u \in Unmounters, Unmount(u) \/ UnmountHandler(u) \/ SendVdiskReleaseBlocks(u)
         PROVE  Rest'
    <2>1. /\ UNCHANGED <<req, run, table>>
          /\ file' \in SUBSET file /\ media' \in SUBSET media /\ conn' \in SUBSET conn
      BY <1>10 DEF Unmount, UnmountHandler, SendVdiskRelease, Detach, CloseConn, Disconnected,
                   SendVdiskReleaseBlocks, Write, BlockInWrite
    <2> QED BY <2>1
  <1>11. CASE Crashed \/ UNCHANGED vars
    BY <1>11 DEF Crashed, vars
  <1> QED
    BY <1>1, <1>2, <1>3, <1>4, <1>5, <1>6, <1>7, <1>8, <1>9, <1>10, <1>11
    DEF Next, Goroutine, Environment

\* The inductive invariant holds in every reachable state.
THEOREM Inductive == Spec => []IInv
  BY InitIInv, NextIInv, PTL DEF Spec

\* Every variable keeps its type; an unmount handler never holds a mount that
\* was not in the table.
THEOREM TypeCorrect == Spec => []TypeOK
  <1>1. IInv => TypeOK
    BY DEF IInv
  <1> QED
    BY <1>1, Inductive, PTL

\* The mount table never names a mount whose goroutine has cleaned up.
THEOREM TableIsServed == Spec => []RecordIsServed
  <1>1. IInv => RecordIsServed
    BY DEF IInv
  <1> QED
    BY <1>1, Inductive, PTL

\* A request that is over holds no file, no media and no connection.
THEOREM ResourcesReleased == Spec => []NothingHeld
  <1>1. IInv => NothingHeld
    BY DEF IInv, HolderIsAlive, NothingHeld
  <1> QED
    BY <1>1, Inductive, PTL

\* Whatever displaces a record had passed the test for an existing mount before
\* the record went in; all others find the drive mounted until its goroutine is
\* over.
THEOREM RecordStays == Spec => RecordKept
  <1>1. IInv /\ [Next]_vars =>
          [\A r \in Reqs : mounts = r /\ mounts' # r =>
              run[r] = "ended" \/ mounts' \in rivals \/ proc' = "crashed"]_vars
    <2> SUFFICES ASSUME IInv, Next, NEW r \in Reqs, mounts = r, mounts' # r, proc' # "crashed"
                 PROVE  run[r] = "ended" \/ mounts' \in rivals
      OBVIOUS
    <2>1. (\E q \in Reqs : RemoveRecord(q)) \/ (\E q \in Reqs : Mount(q))
      BY DEF Next, Handler, Goroutine, Environment, CheckDrive, OpenVMSessionFail, Respond,
             Reject, Announce, SendVdiskRequest, ServeChunk, CountBytes, SendFrame, UseOfNilMedia,
             ReadError, Disconnect, RunEnds, CleanUp, HandleVMMount, HandleVMUpload, OpenMedia,
             ReadRequest, DropConn, BeatWritten, SendFrameBlocks, BeatBlocks, Unmount,
             UnmountHandler, SendVdiskRelease, SendVdiskReleaseBlocks, Detach, CloseConn,
             BlockInWrite, Crashed, vars, table
    <2>2. CASE \E q \in Reqs : RemoveRecord(q)
      BY <2>2 DEF RemoveRecord, removed
    <2>3. CASE \E q \in Reqs : Mount(q)
      BY <2>3, NoneAssumption DEF Mount, IInv, RivalsKnown
    <2> QED
      BY <2>1, <2>2, <2>3
  <1> QED
    BY <1>1, Inductive, PTL DEF Spec, RecordKept
===========================================================================
