# A TLA+ model of beefkvm

beefkvm is a bridge between a browser and the remote console of a server's
management controller (BMC).  One Go process (`src/cmd/beefkvm`) logs in to the
BMC's KVM service over TLS, decodes its video into a framebuffer it pushes to
browsers over WebSockets, forwards keyboard and mouse, attaches disk images as
virtual media, and offers sensors, power, event log, users and network settings
over IPMI.  This directory holds TLA+ modules for the parts in which order,
failure and shared state decide correctness, TLC configurations that check them
on small instances, and proofs checked by TLAPS.

## 1. Inventory

| Component | State | Operations | Interacts with |
|---|---|---|---|
| KVM session supervisor (`main.go` 290-486) | `b.sess`, `b.videoConn`, `b.sessDead`, `b.hbStop`, per-session goroutines | `connectBMC`, `openVideoCompanion`, `superviseBMC`, `teardownSession`, `handleDebugDrop` | APCP session; shares decoder and tile buffer with the video path |
| APCP session, AVMP/AVPT frames (`internal/apcp`) | a socket, login result, heartbeat goroutine | `Open`, `StartHeartbeat`, `ReadFrame`, `ReadAVPTFrame` | TLS, the BMC |
| Avocent bit reader (`video/avocent.go` 455-560) | registers `nb`, `mb`, counters `ob`, `pos`, `consumedB` | `fill`, `readWord`, `consume` | the tile decoder |
| Avocent tile decoder (`avocent.go`, `avocent_dct.go`) | MCU position, palette cache, DC predictors, quantiser tables | `DecodePacket`, opcode loop, DCT blocks | framebuffer |
| Run-length and palette decoder (`video/decoder.go`) | palette, framebuffer cursor | `Decode`, palette updates | framebuffer |
| Video push (`main.go` 661-977) | framebuffer, `Dirty`, `avoAgg`, subscribers with channels of 4 | `handleVideoFrame`, `pushLoop`, `serveWS`, `readWS`, `writeWS` | session readers, browsers |
| Virtual media (`main.go` 502-609, 1050-1217; `internal/vm`) | `b.mounts`, `m.tempPath`, `s.Media`, connection, goroutine | mount, upload, unmount, `Session.Run`, `Detach` | its own APCP session, files |
| IPMI (`ipmi_handlers.go`, `internal/ipmi`) | `ipmiState` with `mu`, `open`, `loaded`; `Client.mu`; `rqSeq`, `outSeq`; a UDP socket | HTTP handlers, `ensure`, `Send`, `rawCall`, `roundtrip` | the BMC over UDP |
| Event log and SDR scans (`ipmi/sel.go`, `sdr.go`) | reservation id, record id | `ScanSEL`, `ClearSEL`, `ScanSensors` | `Client.Send` |
| Serial over LAN (`ipmi/sol.go`, `sol_handler.go`) | `txSeq`, `lastRxSeq`, `txMu`, `wmu`, `done`; reader and keepalive goroutines | `OpenSOL`, `readLoop`, `keepalive`, `Write`, `Close` | its own RMCP+ session, a browser |
| Smart card, TLS dialling, HTTP gate, input encoding, capture, command-line tools, web page | little or none | - | - |

What is hard here: sessions end and begin while goroutines of the old one still
run on shared fields without a lock; one of two sockets can fail; HTTP handlers
race with the goroutine they started and write to sockets without a deadline,
some with a mutex held; UDP replies are lost, late or duplicated
by retries; two mutexes nest; reservations are cancelled between two commands;
four-bit sequence numbers wrap; a serial session is closed under its reader; and
decoders of untrusted lengths work through bits split over two registers.  `PROJECT.json` lists the hazards line by
line, with the property that covers each or the reason none does yet.

## 2. Modules

| Module | Models | Checked by | Proofs |
|---|---|---|---|
| `KvmSession` | supervisor, companion, readers, heartbeats, the BMC dropping sockets | `kvm_session`, `stale_tile`, `orphan_session` | `KvmSession_proofs` |
| `BitCursor` | abstract: a cursor over a zero-extended bit string | (as a property of `AvoBits`) | |
| `AvoBits` | `fill`, `readWord`, `consume` over two registers | `avo_bits` | `AvoBits_proofs` |
| `VmMount` | mount, upload and unmount handlers, the mount goroutine, `Session.Run`, `Detach` | `vm_mount`, `upload_leak`, `detach_race` | `VmMount_proofs` |
| `FramePush` | `handleVideoFrame`, `pushLoop`, `serveWS`, `writeWS`, the browsers' screens | `frame_push` | `FramePush_proofs` |
| `IpmiClient` | handlers, `ipmiState.mu`, `Client.mu`, `rawCall`, `roundtrip`, the network | `ipmi_client` | `IpmiClient_proofs` |
| `Framebuffer` | pixels, cursor and `Dirty` of `video/decoder.go` | `video_decode` | `VideoDecode_proofs` |
| `RunLength` | the run-length decoders | `video_decode` | `VideoDecode_proofs` |
| `Huffman` | the canonical tables of `avocent_dct.go`, and a reference definition of their codes | `video_decode` | `VideoDecode_proofs` |
| `TileDecode` | `DecodePacket`, the opcode loop, palette tiles, DCT blocks, the MCU raster | `video_decode` | `VideoDecode_proofs` |
| `VideoDecode` | `handleVideoFrame` over both decoders, palette updates | `video_decode` | `VideoDecode_proofs` |
| `Sol` | `serveSOL`, `readLoop`, `keepalive`, `Write`, `Close`, a BMC and a browser | `sol` | `Sol_proofs` |
| `RepoScan` | `ScanSEL`, `ScanSensors`, `ClearSEL` and a BMC with one reservation | `repo_scan` | `RepoScan_proofs` |

`VideoDecode` composes `RunLength` and `TileDecode`, which write into one
`Framebuffer`; `TileDecode` reads its bits through the cursor `AvoBits`
implements, and `FramePush` takes from it that every change of the screen is
marked (`WritesForward`).  The `MC` modules give the instances for TLC.  An operator whose comment begins with "mutant" is a plausible wrong
version of the definition that follows it: with it in place TLC must find the
property that guards that definition violated.

### KvmSession

A generation `g` stands for one `apcp.Session` with everything made for it: two
sockets, death channel, stop channel, heartbeat goroutines, readers.  `sess`,
`sessDead`, `hbStop` and `videoConn` are the bridge's fields, holding a
generation.  `pc` is the one thread of control that runs `connectBMC` (from
`main`, then from `superviseBMC`).  `Connect`, `OpenCompanion`, `CompanionFail`,
`StartLoops`, `Teardown`, `Wake` are its steps between the points where another
goroutine can be seen to have moved.  A reader goes through `read` and `got`: a
frame is taken from the socket in one step and handled, under `fbMu`, in a later
one, which is what lets `teardownSession` come between.  Tile bytes are
abstracted to whether their session is still live when they are stored.
`HandleDebugDrop` closes what the two fields name at that moment.  Generations
are recycled when nothing refers to them, so behaviours do not end.

`OneVideoStream` is about readers: beside a session that streams, a reader of
any other has been stopped and its socket closed.  It does not say that the old
reader is silent: the one frame it may already hold still reaches the decoder,
which is what `stale_tile` shows.

Two simplifications.  `teardownSession` is one step: its statements act on the
channel, the sockets and the buffer, and any step of another goroutine between
them has the same effect before the first or after the last of them.  Closing a
socket and its reader's return are separate steps.

### BitCursor and AvoBits

`BitCursor` is what the decoder relies on: `window` is always the next `W` bits
of the body, zero-extended.  `AvoBits` is the code: a register is a function
from bit number to {0, 1}, `shl`, `shr` and `or` are Go's operators, `Order` is
the byte order, `ShiftOnly` and `Refill` are the two paths of `consume`.  The
special cases for shifts by 32 are what Go's shifts (and these) compute anyway.
`CursorSpec` instantiates `BitCursor` with `cursor <- consumedB`,
`window <- nb`.

### VmMount

A request `r` stands for its handler and all it creates: open file, temporary
directory, connection, goroutine.  `mounts` is `b.mounts[0]` (the drive id is
always 0).  `CheckDrive` and `Mount` are apart because the code lets go of
`mountsMu` for the login in between, so that two requests can both find the drive
free and the later one overwrites the record of a mount that is still served.
`rivals` is a history variable: the requests past their test when the record went
in.  `RecordKept` says that nobody else displaces it.  `run` says where the goroutine is:
`offer`, `serve` and `count` are the places between a test of `s.Media` and a
use.  A use that finds `nil` ends the process (`UseOfNilMedia`), since nothing
recovers in that goroutine; the same in an HTTP handler ends only the handler.
Sector data is left out.  Of the messages that neither test nor use the media, the
ones that are answered (release request, table of contents, smart card) are a
frame to send; device status changes nothing.

`sendFrame` and the heartbeat write under `WriteMu` and without a deadline.  A
write the socket takes is one step with the lock around it; one that blocks
leaves `wmu` with its author, who may be the goroutine, the heartbeat or
`Detach`, until the BMC reads on or the connection ends.  `hung` holds the
connections with a write that the BMC never reads.  `handleVMUnmount` closes the
connection only after `Detach` has sent its VDISK_RELEASE, so on such a
connection it waits, for `WriteMu` or in its own write, before the `Close` that
would end the wait: `UnmountEnds` names this outcome (`HangsInDetach`), next to
the mount's end and to the crash of `detach_race`.

### FramePush

A viewer `s` is one WebSocket with its `subscriber`, its `serveWS` handler and
its `writeWS` goroutine.  `pipe[s]` is the message being written (`s \in busy`)
followed by the contents of `subscriber.send`; `screen[s]` is what the page
shows.  All that matters of a frame is who made it and whether it still is what
the framebuffer holds, so a change of the framebuffer turns every `push` into
`oldPush` and every `init` into `oldInit`, wherever they are.  The decoders are
their effect on the framebuffer: nothing, a mark, or a change, which always
marks (every path in `internal/video` that writes a pixel sets `Dirty` before it
returns).  `Serialize` and `Broadcast` are the two critical sections of a tick;
`Subscribe`, `SerializeInitial` and `QueueInitial` the three of `serveWS`.  The
sends of a broadcast are one step since no other step sees two channels.  A
viewer whose write failed stays subscribed, as in the code.  `missed` is a
history variable: the last frame offered to the viewer was dropped at a full
channel, or is an initial frame that a newer push overtook.  Those are the two
ways in which a browser can be left on an old screen; `LatestOnItsWay` says
there is no third.

### IpmiClient

Handlers go through `ensure` under `mu`, then either take `mu` again (sensors,
power, users, network, system) or go on without it (event log).  Each command
is `Send`: `Client.mu`, a new sequence number, up to `Attempts` writes with a
read deadline and a sleep.  All that matters of a packet is whether it belongs
to the call in progress, so numbering a new call turns everything under way into
`old`.  The network loses, delays and reorders; the receive buffer is a queue,
because the kernel hands datagrams to the reader in order of arrival.  The RMCP+
handshake is one step that succeeds or fails; it makes its roundtrips on the same
socket, so it may leave late replies to the calls that follow.  `Reject` is a
handler that finds its request wrong with `mu` already held.  `handleNetwork` and
`handleUsers` read the request's body, and all locked handlers write their
answer, with `mu` held, and the server sets no timeout: `hung` is a handler whose
client never sends or never takes the rest.  `mu` then stays locked, and
`RequestsAnswered` names that case.

`InStepUntilLate` ends where the code's guarantee ends: after a retransmission
the second answer stays in the receive buffer, `roundtrip` returns it for the
next call, and from then on every reply is one call behind.

### VideoDecode, RunLength, TileDecode, Huffman, Framebuffer

One frame at a time, under `fbMu`: `RawTile`, `AvoTile` and `PaletteUpdate` take
it, the decoders' actions work through it.  A run-length tile is a sequence of
bytes, and one action is one turn of `Decode`'s loop; the colour bits of a pixel
are kept, their conversion to ARGB is not.  An out-of-range origin leaves the
cursor where the last tile ended, and a cursor behind the last pixel starts
again at the first one when a colour is written: `WritesForward` names this one
exception.  A palette update turns the slots below its first index to zero, as
`make([]uint32, start+count)` does.

An Avocent tile is a sequence of bits, cut to whole words.  `StartDCT`,
`DecodeDC`, `Skip`, `DecodeAC`, `NextBlock` and `PaintDCT` are `dispatchDCT` and
`decodeDCTBlock` with every way a symbol can end (EOB, ZRL, a run without a
value, a coefficient past the block, no code at all).  Which bits are consumed,
where an MCU goes and which samples each of its pixels shows are modelled;
coefficients, predictors, quantisation and colours are not, since no control
depends on them.  `mcu` is what was painted last, for `PaintExact` and
`RasterInTile`; `moved` is a history variable that says whether a positioned
opcode has chosen the row.

`Huffman` builds the ranges as `newAvoHuff` does and searches them as
`decodeHuffSymbol` does; `Candidates` is the reference: every symbol's code on
its own, from how much of the unit interval the codes before it take
(`Taken`), in units of the longest code.

### Sol

Three goroutines on one socket: `rd` (readLoop), `ka` (keepalive) and `h`
(serveSOL with `Write` and `Close` inside).  A packet is taken, numbered and
written under `txMu` in two steps, so that a number taken without the mutex
would show (`held`).  `onData` is serveSOL's `writeBin`: it takes `wmu` and may
block on a browser that does not read.  Close's wait of a second is longer than
a read's deadline of 400 ms, so it can run out only while `onData` blocks.  The
BMC (external) sends one piece of output at a time, repeats it until it is
acknowledged or given up, and forgets it once acknowledged.  The network loses
packets and keeps their order; with reordering a sequence number of four bits
and a memory of one could not keep the order, and nothing in the code tries to.
The BMC may give up on any number of pieces.  What reaches the browser is in
order and not repeated in any case.  `AckedDelivered` needs a premise
(`WithinLap`): if the BMC has gone a whole lap of the numbers ahead of the piece
delivered last, because it gave up on 14 pieces in a row (`SeqMax - 1`), the next
one carries the number in `lastRxSeq`, `readLoop` takes it for a repetition and
acknowledges it, and it is lost.  Such states are reached in the run; without the
premise TLC finds the loss.

### RepoScan

One module for both repositories, `kind` says which.  A walk reads the record it
is at by one command (event log) or by a header and chunks (sensor records)
under the reservation `valid`; every reservation voids the others', and the BMC
may cancel it at will.  `Cancelled` drops what was read of the record, keeps
`rid` and reserves again.  The event log's handlers interleave between commands,
sensor scans do not (`ipmiState.mu`).  `seen`, `torn` and `cleared` are history
variables.  `ScansEnd` says what the code can promise, for each walk by itself: it
ends unless its own reservation is taken away again and again, whatever becomes
of the others'.  Two walks of the event log can do
that to each other for ever, each by reserving after its own cancellation; the
comment "re-reserve once" describes a loop the code does not have.

## 3. Runs

| Run | Expect | Shows |
|---|---|---|
| `kvm_session` | pass | `OneVideoStream`, `NoLostWakeup`, `StopChannelIsCurrent`, `SwapAfterTeardown`, and under fairness `DropIsNoticed`, `Reconnects`, `OldLoopsEnd` |
| `stale_tile` | violation | `NoLeftoverBytes`: bytes of a dead session reach the tile buffer after `teardownSession` cleared it |
| `orphan_session` | violation | `NothingOldConnected`: a failed companion leaves primary socket and heartbeat behind |
| `avo_bits` | pass | `WindowInv`, and refinement of `BitCursor` (`CursorSpec`) |
| `vm_mount` | pass | `RecordIsServed`, `RecordKept`, `NothingHeld`, and under fairness `UnmountEnds` |
| `upload_leak` | violation | `UploadIsDeleted`: a mount that ends at once leaves the upload on disk |
| `detach_race` | violation | `DetachIsClean`: an unmount during a disk read is a nil dereference |
| `ipmi_client` | pass | `InStepUntilLate`, `MutexOwners`, and under fairness `RequestsAnswered` |
| `frame_push` | pass | `LatestOnItsWay`, `PushesInOrder`, and under fairness `Settles` |
| `video_decode` | pass | `HuffmanSound`, `PaintExact`, `RasterInTile`, `WritesForward`, and under fairness `DecodeEnds` |
| `sol` | pass | `InOrder`, `OneReader`, `NumbersInOrder`, `AckedDelivered`, and under fairness `SolEnds` |
| `repo_scan` | pass | `WalkIsPrefix`, `NoTornRecord`, and under fairness `ScansEnd` |

The four violations are disagreements between the code and its own comments;
`PROJECT.json` quotes them under "findings".

### Bounds

- `Gens`: two identities.  Every property is about one session that ends and one
  that replaces it; recycling makes the number of reconnects unbounded.
  `MaxOrphans = 1` limits sessions abandoned by `connectBMC` that are still
  alive, which the code does not limit.  `BackoffCap = 2` (15 s in the code)
  covers waits below, at and past the cap.
- `W = 3`, bytes of one bit, up to four words, `Slack = 6`: every relation
  between `ob`, `n` and `W` occurs, with bodies that are empty, end inside the
  look-ahead or leave two words to fetch, and with reads beyond the second
  register after the end.  The proofs lift it to
  every width.  Deadlock checking is off because a consumed body is the end.
- Two mount requests, one of them an upload (`Uploads`), and two unmounts, of which
  three are at work at once (`MaxBusy`): two mounts that overlap with an unmount,
  and two `Detach` calls on one mount.  The BMC of one of the mounts asks for
  sectors and stops reading (`Active`); the other's connection only opens and
  ends, which keeps its record and its cleanup in play.
- Two browsers, so that one may hang or fail while the other goes on, and a
  channel of one place (4 in the code) besides the message being written: full
  and free channels, an initial frame behind a push and a push behind an initial
  frame all occur.  The proofs lift it to every capacity.
- Two handlers, the code's three attempts, two packets of each kind on the
  network and two in the buffer: enough for a reply to outlive its call and to
  meet a later one.  A packet beyond a bound is lost, which the network may do.
- A framebuffer of 5 x 4 pixels and blocks of 2 x 2 (8 x 8 in the code), so that
  tiles of both MCU sizes fit, stick out and are smaller than an MCU; words of 9
  bits, all bodies of one word and some of two; Huffman tables of up to eight
  symbols with every kind of symbol, a length without codes, and codes left over.
  Run-length data of two or three bytes from nine that cover every opcode,
  continued runs and patterns, after a tile that fills part of the screen or
  leaves the cursor behind its end.  The check stops where the stream ends, so
  deadlock checking is off.
- Three sequence numbers (15 in the code) and four pieces of output, so that the
  fourth carries the number of the first; any of them may be given up.
  Deadlock checking is off because a closed session is the end.
- Two walks and a clear on a log of up to three records, of which two are asked
  for; sensor records of a header and two chunks.  Requests repeat without bound.

### Fairness

- Goroutines, handlers and timers run (weak fairness): the Go scheduler is
  preemptive, a read or write on a closed socket returns, `Sleep` and read
  deadlines end.  A read from an open socket may block for ever.
- `Connect` and `OpenCompanion` are strongly fair: the BMC is not unreachable
  for ever.  Without it no reconnect could be promised.
- pushLoop's ticker does not stop, and a writer that is free takes the next
  frame.  Nothing is assumed of a write to a browser: `Settles` speaks of
  browsers whose writes come back and lets the others hang.
- In `VmMount` the goroutines and the unmount handlers run, and a blocked write
  ends when its connection does.  Nothing is assumed of a BMC that has stopped
  reading (`hung`).
- In `IpmiClient` nothing is assumed of the clients either: one may leave its
  handler hanging with `mu` held.
- Mutexes are strongly fair: Go's `sync.Mutex` hands over to a waiter that has
  starved for a millisecond.
- A handler under `mu` makes finitely many calls, and so does `ScanSensors` as
  long as other clients of the BMC do not cancel its reservation for ever.
  Nothing is assumed of event log scans, which is why `RequestsAnswered`
  promises nothing about them; `ScansEnd` says when they end.
- In `RepoScan` every request's goroutine goes on when its command is answered;
  that a command fails is possible and never needed.
- In `Sol` reader, keepalive and handler run, and a read ends by its deadline;
  the handler gets the mutexes the reader takes again and again (strong
  fairness).  A browser that is stuck may stay stuck: `SolEnds` begins when it
  is gone, which ends its blocked writes.
- In `VideoDecode` the goroutine that holds `fbMu` runs.

## 4. Proofs

`KvmSession_proofs` proves, for any set of sessions and any bounds, `TypeOK`,
`OneVideoStream`, `NoLostWakeup`, `StopChannelIsCurrent` and
`SwapAfterTeardown`.  None of the three invariants is inductive: that two
sessions do not stream at once depends on what the supervisor is doing, and that
the supervisor can be woken depends on its fields naming one session.  The
inductive invariant `IInv` adds

- `WaitOwnsSession`: while `superviseBMC` waits, all four fields name the same
  session, its stop channel is open, and it is dead or its reader still runs;
- `ConnectOwnsSession`: while `connectBMC` works on a new session that session
  has no reader yet and owns the channels;
- `StreamIsAwaited`: a reader belongs to the session `superviseBMC` is waiting on,
  or to one that has been stopped and whose video socket is closed.

`AvoBits_proofs` proves, for every register width, byte order and body, that
`consume` keeps its stated invariant (`Registers`) and that the reader
implements `BitCursor` (`Implements`); `TypeCorrect` bounds registers and position.
`WindowInv` needs `ReadAhead`, which ties the words read so far to the cursor,
to know that the word shifted in is the right one; the lemmas `WordEnds`,
`DivMod` and `WordBits` relate bit `k` of the body to bit `k % W` of word
`k \div W`, `ShiftOnlyWindow` and `RefillWindow` treat the two paths.

`VmMount_proofs` proves `TypeOK`, `RecordIsServed`, `NothingHeld` and
`RecordKept` for any sets of requests.  `RecordKept` needs `RivalsKnown`: as long
as the table holds a record, whoever is past the test was so when the record went
in.  `NothingHeld` speaks of requests that
are over; `HolderIsAlive` says for each resource who is responsible for it while
they are not: connection and media belong to a running goroutine, a file to the
goroutine or to a handler that is still mounting.

`FramePush_proofs` proves `TypeOK`, `LatestOnItsWay` and `PushesInOrder` for any
number of browsers and every channel capacity.  Both properties break if
pushLoop could send an outdated frame as the last one, which `OldPush` excludes:
while it holds an outdated frame the framebuffer is marked again, and no newer
push has been sent before it.  `Holding` says that a writer at work has a message
and that `serveWS` has a frame exactly between its last two steps.  The lemmas
`SendKeeps`, `WriteKeeps` and `StalePipe` say what a send, a write and a change
of the screen do to one pipe.

`IpmiClient_proofs` proves `TypeOK`, `MutexOwners` and `InStepUntilLate` for any
number of handlers, attempts and packets.  `MutexOwners` needs
`CallInProgress` (`Client.mu` is held exactly while a call is in progress), and
`InStepUntilLate` needs `NothingUnderWay`: until an attempt goes unanswered a
call has got out at most one packet, whose reply is consumed before it returns.
`CallsEnd` is the part of `RequestsAnswered` that is not fairness: `callLeft`
counts what `roundtrip` can still do, every step of it lowers that number and
only a call that begins raises it, so `Client.mu` comes back on any network.

`Sol_proofs` proves `TypeOK`, `InOrder`, `AckedDelivered`, `OneReader` and
`NumbersInOrder` for any number of sequence numbers, pieces and packets.  The
pieces under way, in `readLoop`'s hands and delivered are in order
(`ConsoleOrder`), which gives `InOrder` without any bound on what the BMC gives
up: a packet that is not taken for a repetition is newer than the last one.  Of
an acknowledgement under way `Acknowledges` says that its piece is not newer than
the one delivered last, or has the same number.  Within a lap `seqOf` is injective
(`SeqOfInjective`), so a number that matches the piece being sent is that piece's
and the piece has been delivered; this is where `AckedDelivered` needs
`WithinLap`.  `OneReader` rests on `done`: past the wait in `Close` the reader has
ended or is in `onData`, from where the way back to the socket leads past the
look at `done`.

`RepoScan_proofs` proves `TypeOK`, `WalkIsPrefix` and `NoTornRecord` for any
number of requests, records and chunks.  `WalkIsPrefix` needs to know where a
walk stands (`WalkInv`): as long as the log is not cleared what it has is a
prefix of the log, and `rid` names the record behind it, which `IdsUnique` makes
the only one.  The successor comes from the first reply for a record, so
`BufInv` says that while the reservation stands both the versions read and the
successor named are what the repository holds; `NoTornRecord` follows from it
too.  `ScansMakeProgress` is the safety half of `ScansEnd`: every answered command
lowers the records left or, for the same record, the commands left, and nothing
anybody else does raises them; losing the reservation starts the current record
again and gives no finished one back.  For sensor records this needs
`OnlySelCleared`: only the event log can be cleared.

`VideoDecode_proofs` proves `TypeOK`, `HuffmanSound`, `PaintExact`,
`RasterInTile` and `WritesForward` for every framebuffer, palette, block size,
Huffman table and stream of frames, whole or cut short.

- *Induction.*  What the decoders compute is defined by recursive functions.  The
  library states induction for an operator parameter, which the provers do not
  instantiate, so the module starts from `WFMin`: a set of naturals has a least
  element (`NatMin`), and a claim about all naturals is proved by refuting its
  least counterexample (`Induct`, `InductUpto`).  That a recursive function is
  the function its equation describes is proved the same way (`Upto`, `Recurs`).
- *Huffman.*  `newAvoHuff` numbers codes along the lengths; the reference places
  each symbol's code in the unit interval.  That the first code of a length
  is the interval taken by all shorter ones ties the two together, and disjoint
  intervals are prefix-free codes.  `TableSearch` concludes that
  `decodeHuffSymbol` finds the symbol whose code the bits start with, or none
  when there is none.
- *Pixels.*  `IInv` is `TypeOK`, `PaintExact`, `RasterInTile` and two parts none
  of them has: `OneDecoder` (at most one decoder holds a frame, so neither sees
  its state change under it) and `InRaster` (while no positioned opcode has moved
  the row, where the next MCU goes follows from its place in the raster).
  `RasterInTile` is not inductive without `InRaster`: it speaks of the MCU painted
  last and not of the next one.
- *Ending.*  `DecodingShrinks` is the safety half of `DecodeEnds`: `left` consists
  of five naturals (bytes, bits, phase, blocks, coefficients) and every step of a
  decoder lowers them lexicographically, also past the end of the body, where
  reads give zeros.  It needs `BlockInMcu`, and of the tables `AcAssumption`: with
  an AC code of zeros for a run without a coefficient `decodeDCTBlock` would read
  it for ever behind the end of a body.  `AlwaysHandled` adds that the switches of `Decode` and
  `decodeBody` have a case for whatever they meet.

The only assumptions are those of the modules: `NoGen` is no session, caps are
naturals, channels have a place, `W` is positive, `Order` maps bit numbers to bit
numbers, `None` is no request and no handler, uploads are requests, unmounts are
not the other holders of `WriteMu`, and walks and clears are different requests.
For the decoders: sizes are positive, a Huffman table has
as many symbols as its counts say (`TableAssumption`; the tables are constants of
`avocent_dct.go`), streams consist of frames (`StreamsAssumption`), and, for
`DecodingShrinks` alone, zeros never read as an AC symbol that `decodeDCTBlock`
would meet for ever, which holds of the tables in the code (`AcAssumption`).  TLC evaluates all of them on the instances.

Only model-checked: the liveness properties (`DropIsNoticed`, `Reconnects`,
`OldLoopsEnd`, `UnmountEnds`, `Settles`, `RequestsAnswered`, `DecodeEnds`,
`SolEnds`, `ScansEnd`), since fairness and `ENABLED` are out of TLAPS's reach.
For `DecodeEnds`, `ScansEnd` and the calls behind `RequestsAnswered` what remains
for TLC is the step from "every step lowers a well-founded measure" to "it ends".
Every invariant and every action property of the passing runs is proved.

## 5. Not modelled

The inverse DCT and colour arithmetic, HMAC, AES and TLS (numeric or
cryptographic code); the JPEG and second Avocent decoder (never called on a
frame); PC/SC; the HTTP token gate and input encoding (stateless); the capture
proxy and command-line tools (sequential users of the same packages); the web
page.  `PROJECT.json` gives the reason for each component.

Known limits of the modelled code that no run states: after a retransmission
IPMI replies are one call behind; an initial frame can be queued behind a newer
push, which leaves a still screen out of date (both are why `InStepUntilLate`
and `LatestOnItsWay` have their provisos); closed subscribers stay in `b.subs`;
an IPMI session the BMC has dropped is never opened again; `Session.Close` of a
SOL session numbers its packet without `txMu`; a SOL reader that meets a read
error ends without telling the browser; a SOL packet that a network delays behind
its retransmission and the next piece would be shown twice (`Sol` keeps the
order).  Others are stated as the exceptions of properties: a request that passed
the test for an existing mount overwrites the record of a mount that came in
between (`RecordKept`); an unmount hangs, and never closes the connection, as long
as the BMC does not read (`UnmountEnds`); an IPMI client that stalls its body or
its answer keeps all others from `ipmiState.mu` (`RequestsAnswered`); an outage of
a lap of sequence numbers loses a piece of console output (`AckedDelivered`); two
walks of the event log can cancel each other for ever, and a cancelled walk
reserves more than once (`ScansEnd`).

## 6. Plan

1. The APCP handshake of `Session.Open` and the frame codecs.
2. Sector arithmetic of the virtual disk: offsets, blocking factor, write bounds.
3. The multi-command user and network changes, and what a failure in the middle
   leaves in the BMC.
4. The RMCP+ handshake and the life of a session on the BMC's side.
5. Measures like `DecodingShrinks` for the safety halves of `UnmountEnds` and
   `SolEnds`.
