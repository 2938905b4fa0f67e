# AirDump: specifications, model checking and proofs

AirDump is a humidity and temperature monitor in two programs. A sketch on an
ESP32 (`src/src/test.cpp`) reads a DHT11 sensor every five seconds and writes
two bytes, the integer parts of humidity and temperature, to a Bluetooth serial
port. A Python program on a host (`src/main.py`), through the class in
`src/bluetoothConnection.py`, dials the board, reads the stream one byte at a
time and prints the growing list. The two share no more than the order of the
bytes: there is no framing, no sequence number and no acknowledgement.

## 1. Inventory

The repository has 644 files; the program is three of them, 112 lines. The rest
is vendored libraries, kept beside the program and included by none of the three.
The largest is the Firebase client for the ESP32 (`src/lib/Firebase-ESP32-4.4.8`,
paths below are relative to its `src/`), and two of its parts have behaviour that
is worth a model of its own: the error queue, which keeps requests that failed
and runs them again, and the SSL client with the engine under it.

| Component | Source | State | Operations | Modelled in |
|---|---|---|---|---|
| Sketch | `src/src/test.cpp` | where it stands; the two readings of this `loop()` | `setup`, `loop`, `enviarDadosBluetooth` | `Uint8Cast`, `Firmware`, `AirDump` |
| Connection class | `src/bluetoothConnection.py` | `port`, `_connected`, the socket | `__init__`, `connect`, `tryFindPort`, `connection`, `getPressedFromBT` | `BluetoothConnection`, `ConnectionClient` |
| Host program | `src/main.py` | whether it connects, receives or has ended; `listaa` | construct, connect, the receive loop | `AirDump` |
| Bluetooth link | not in the repository | server, socket, queue of the stack, bytes on their way | accept, refuse, write, send, lose, restart | `Rfcomm`, `SerialBT` (external) |
| DHT library | not in the repository | | a reading or NaN | `Firmware` (external) |
| Error queue | `rtdb/FB_RTDB.cpp`, `rtdb/QueueManager.cpp`, `session/FB_Session.cpp` | the queue and its limit, the tasks, where each thread stands | a request, `processErrorQueue`, `begin/endAutoRunErrorQueue`, `setMaxErrorQueue`, clear, save, restore, pause | `ErrorQueue` |
| SSL client | `client/SSLClient/client/BSSL_SSL_Client.cpp` | the engine, `_write_idx`, the write error, the call under way | `connectSSL`, `available`, `read`, `write`, `availableForWrite`, `flush`, `stop` | `SSLClient` (partly) |
| TCP client | `client/WiFiClientImpl.h` | the socket, what it has received | connect, read, write, `flush`, close | `TcpClient` (partly) |
| SSL engine | `client/SSLClient/bssl/` | record buffers, registers, handshake processor | acknowledgements in both directions, flush, close | `SSLEngine` (partly) |
| Other parts of Firebase-ESP32 | `core/`, `json/`, `mbfs/`, `message/`, `addons/` ... | | | not modelled, section 6 |
| Adafruit GFX, BusIO, MPU6050, SSD1306, Sensor | `src/lib/` | | | not modelled, section 6 |
| Build configuration | `src/platformio.ini` | | | not modelled: nothing of it runs |

### How they interact

`loop()` hands two bytes to `SerialBT.write` and ignores the result. The stack
takes them into its queue or drops them, and sends the queue in a task of its
own. The host's socket holds what has arrived until `recv` takes it. Five
parties move independently: the sketch, the stack's sender, the link, `main.py`
and the user, who stops and starts programs and may reset the board.

In the Firebase library a request that fails for want of a connection is put into
the queue of its object. `processErrorQueue` goes over that queue with an index
and makes the requests again, called by the application or by the tasks that
`beginAutoRunErrorQueue` creates. The network, the server, the tasks and the
application move independently. Every byte of a request or a response goes
through the SSL client: the caller copies into a buffer of the engine, the engine
makes records of it, and the TCP client takes and gives them in pieces of any
size. After every write it is told to flush, which drops what has come and was not
read; and only `stop()` closes its socket, so that a lost link is no more than a
write that takes nothing.

### What is hard about it, and what makes it right

* **The stream has no framing.** Whether an entry of `listaa` is a humidity is
  decided by how many bytes came before it, so the whole path has to conserve
  bytes: `Conserved`, `HalfFrameOnlyAfterLoss`, `ListedReadings`.
* **Readings fail, one at a time.** A failed read must not be sent, and must
  not stop later ones: `ListedReadings`, `SensorRecovers`.
* **A float becomes a byte.** Right in the range of a byte, undefined outside:
  `RepresentableRange`, `ListedReadings`, and a finding.
* **The link is lost at any moment.** `main.py` must not hang, and must have
  listed the beginning of what was sent: `LossEndsMain`, `Conserved`.
* **Everything sent must arrive** while the link is up: `Delivered`.
* **Two statements, one fact.** The socket is connected in one statement, the
  flag set in the next, and a bare `except` catches everything between:
  `FlagTracksSocket`, `FlagNeedsSocket`, and two findings.
* **A scan under a moving device.** `tryFindPort` dials one channel after the
  other while the device starts and stops serving them: `ScanFinds`,
  `LowestPort`. `connect()` and `tryFindPort()` must end, interrupts swallowed or
  not: `CallsEnd`.
* **An index across a request** (error queue). `processErrorQueue` takes an index,
  runs a request that blocks for seconds, and erases at the index it had:
  `RightItem`, `CallsReturn`.
* **Done or not** (error queue). Responses get lost, tasks are deleted in the
  middle of a request, re-runs fail and are queued again, ids collide: an id that
  is gone must mean a request carried out (`DoneWhenGone`), a failure must end in
  the queue (`OfflineIsQueued`), every item must stay until its request is done
  (`ImplementsKeptRequests`), and a network that is back must empty it (`Drains`).
* **Two writers, one buffer** (SSL). `write()` copies into the engine's buffer and
  tells the engine later; alerts of the handshake processor go into the same
  buffer: `PendingHasRoom`, `SentInOrder`.
* **Records in pieces, bytes dropped, and the end of a connection** (SSL): what is
  read must be the beginning of what the peer sent, whatever was dropped between
  (`ReadInOrder`); `CloseIsLast`, `CloseAnswered`, and all of it together, the two
  streams of `ImplementsClientStream`. Small writes stay in the engine until somebody
  flushes them: `WrittenIsSent`.

`PROJECT.json` lists every hazard at its line with the properties that cover
it; seven have none, and say why.

## 2. Modules

```
Uint8Cast <- Firmware ---------+
Rfcomm <--+- SerialBT ---------+-- AirDump <- MCAirDump
          |                    |      ^
          +- BluetoothConnection      +-- AirDumpProofs (with StreamLemmas, Uint8CastProofs)
                    ^
                    +-- ConnectionClient <- MCConnection
                              ^
                              +-- ConnectionProofs

FrameStream (abstract) <-- AirDump implements it      FrameStreamProofs <- AirDumpProofs
ErrorQueue  <- MCErrorQueue                           ErrorQueueProofs  <- ErrorQueue
KeptRequests (abstract) <-- ErrorQueue implements it
SSLEngine, TcpClient <- SSLClient <- MCSSLClient      SSLProofs         <- SSLClient
ClientStream (abstract) <-- SSLClient implements it   SSLStreamProofs   <- SSLProofs, StreamLemmas
```

* **`Uint8Cast`**: `static_cast<uint8_t>` on a reading in tenths
  (`test.cpp:15-16`). Inside the range of a byte it is the integer part. Outside
  it the C++ cast is undefined, so `Uint8Outcomes` is the set of what a build
  gives: the low byte, or an end of the range.
* **`Firmware`**: the sketch. `pc` stands between the two reads, at the `isnan`
  test and in `delay`. Serial console output is left out. A restart of the board
  loses the sketch's memory.
* **`Rfcomm`** (external): a socket connects when the device accepts on that
  channel at that moment; it connects at most once.
* **`SerialBT`** (external): queue, bytes on their way, and the history `frames`
  of what was taken for the host's present connection.
* **`BluetoothConnection`**: the class, one action per statement that another
  party can come between. `dialled` is the point between
  `self._socket.connect(...)` and `self._connected = True`. `Caught` is the bare
  `except` of either method, `Interrupt` a Ctrl-C that it swallows (before the
  dial, after it, or after the flag was set) and `InterruptEscapes` one that
  comes outside the try block. `Received` is the set of results `recv` may give.
* **`AirDump`**: composes them and adds `main.py`. Each action names the state it
  changes in every part. `main.py` ends by an exception of `connect()`, by the
  `IndexError` of `list(b'')[0]`, or by its user, and can be run again.
* **`FrameStream`**: the abstract specification: a connection opens once, frames
  are sent over it, their bytes are listed one after the other, it may be lost,
  and a new run of `main.py` starts again. `AirDump` implements it as `Promise`,
  `INSTANCE FrameStream WITH link <- sock, sent <- frames, got <- listaa`. Steps of
  the sketch, of the stack and of a dial are stutters of it.
* **`ConnectionClient`**: the class under any client, as other programs may
  import it: any order of `connect`, `tryFindPort` and `getPressedFromBT`, a
  device that changes its channels or hangs up, and Ctrl-C if `Interrupts`.

* **`ErrorQueue`**: one `FirebaseData` object. `at` is where a thread stands:
  between requests, in the loop of `processErrorQueue` (`scan`), at the checks of
  `processRequest`, waiting for a response, or before another attempt. `idx` is
  the loop's index (from 1; 0 outside it), `job` the copy it runs. A request ends
  by `Refused`, `Offline`, `Succeeds`, `PauseSkips`, `Rejected` or
  `ConnectionError`, and each ends with what the callers do: queue again, erase
  at the index, `i++`. `std::vector` operations are atomic between two statements
  that block or give way. Left out: asynchronous requests, the type check of a
  read, a task that could not be created, the response code that several tasks
  would share. `given` is the id of a request's first queueing.
* **`KeptRequests`**: the abstract specification of the queue: a request that
  failed may be kept under an id, and leaves when the server has done it. It has no
  index, no attempts, no tasks and no order. The exceptions are actions of their own
  or named in one: an item without an id, a paused object, a restart. `ErrorQueue`
  implements it as `Promise`, with `kept <- Range(queue)`, so that copies of an
  item are one, and `saved <- Range(file)`.
* **`SSLEngine`**: the engine as a record, and every operation of it as a function
  from one record to the next, with the registers `ixa`, `ixb`, `ixc`, `oxa`, `oxb`,
  `oxc` of `ssl_engine.c` under their names. A cell of the output buffer is a byte
  of the application (a number) or anything else (0), so that an overwritten
  byte shows. The handshake processor, a coroutine generated from T0, is the
  point `hs` at which it waits. Modelled is the set-up the library uses: two
  buffers, AES/GCM or ChaCha20 records, after the handshake, and a peer that does
  not renegotiate securely. A record of the peer holds one alert or one
  HelloRequest. The kinds `fatal` and `warning` are in the model and in the
  proofs, but not in the values of the run.
* **`TcpClient`**: the default TCP client: its socket (`fresh` until a byte has gone
  over the connection, then `used`), the records of the peer that are not read, and
  whether bytes of them were dropped. `TcpFlushes` is `flush()`: it drops nothing,
  part of a record, or whole records too. What comes behind such a gap is `Spoilt`:
  its record is cut or out of its turn, and the check of the cipher, which counts
  records, refuses it.
* **`SSLClient`**: one caller, the loops `mRunUntil` and `mUpdateEngine` of its
  calls, the TCP client, the time limit of a call, and the peer. Each action is one
  turn of `mUpdateEngine`'s loop or what the call does after it. `Connect` and
  `HandshakeFails` are `connectSSL()`, over a new TCP connection (which resets
  `_write_idx`) or over one that is still up (which does not); a handshake can
  only succeed where no TLS byte went before. Left out: the mode without SSL, in which the
  class also is after a failed handshake, `peek`, probing, sessions and
  certificates. `connected()` is no action: it changes something only if the
  socket is closed in a session, which with this TCP client never happens.
* **`ClientStream`**: the abstract specification of a connection: `write()` takes
  bytes, records bring out the next of them, the peer gives bytes, `read()` returns
  the next of those; the peer can end both streams, which is answered behind all
  that was written; either side can go away, and what was not read goes with it.
  `SSLClient` implements it as `Promise`,
  `INSTANCE ClientStream WITH ended <- eng.shut, answered <- notified`. The engine's
  registers and buffers, the alerts and records in pieces are stutters of it. It is
  not told whether a byte ever moves: that is `WrittenIsSent` and `CloseAnswered`.

Histories that the code does not have: `frames` (what the list is compared
with), `steady` (channels that accepted all through a scan), `told` (the client
has seen `b''`), `executed` and `given` of the queue, `put`, `sent`, `notified`,
`given` and `got` of the SSL client. No action reads them, except for bounds, for
the numbers of the next bytes, and for `issued`, which makes each request once.

Definitions marked *Mutant* are changed forms of the definition after them. No
specification uses them; they show that a property can fail.

## 3. Runs

| Run | Specification | Checks | Result |
|---|---|---|---|
| `AirDump.cfg` | `Spec` | `TypeOK`, `Conserved`, `HalfFrameOnlyAfterLoss`, `ListedReadings`, `ImplementsStream` | holds, 83,926 states |
| `AirDump_live.cfg` | `FairSpec` | `Delivered`, `LossEndsMain`, `SensorRecovers`, `ImplementsFairStream` | holds, 11,206 states |
| `AirDump_frost.cfg` | `Spec` | `ListedReadings` | violated (finding 1) |
| `Connection.cfg` | `Spec` | `TypeOK`, `FlagTracksSocket`, `LowestPort`, `ScanFinds` | holds, 2,886 states |
| `Connection_interrupts.cfg` | `FairSpec` | `FlagNeedsSocket`, `CallsEnd` | holds, 10,816 states |
| `Connection_stale.cfg` | `Spec` | `ConnectedToIsTrue` | violated (finding 2) |
| `Connection_port.cfg` | `Spec` | `ReportedPort` | violated (finding 3) |
| `Connection_notfound.cfg` | `Spec` | `NotFoundIsTrue` | violated (finding 4) |
| `Connection_ctrlc.cfg` | `Spec` | `NotConnectedIsTrue` | violated (finding 5) |
| `Queue.cfg` | `FairSpec` | `RightItem`, `DoneWhenGone`, `OfflineIsQueued`, `ImplementsKeptRequests`, `Drains` | holds, 325,674 states |
| `Queue_calls.cfg` | `Spec` | `TypeOK`, `CallsReturn`, `ImplementsKeptRequests` | holds, 105,404 states |
| `SSL.cfg` | `FairSpec` | `TypeOK`, `PendingHasRoom`, `SentInOrder`, `ReadInOrder`, `CloseIsLast`, `ImplementsClientStream`, `WrittenIsSent`, `CloseAnswered` | holds, 215,907 states |

Each is `tlc -workers 2 -config X.cfg MCAirDump.tla` (`MCConnection.tla` for the
`Connection` runs, `MCErrorQueue.tla` for `Queue`, `MCSSLClient.tla` for `SSL`).
Deadlock is checked everywhere: the sketch never stops, a board can restart, and
a client can connect again.

### Bounds

* Two humidities with different integer parts and one temperature whose integer
  part is no humidity's: enough to see a byte invented, repeated, reordered or
  moved to the other column. Readings are integers, in tenths.
* `TxCapacity = 2`, `MaxFrames = 3` frames per connection (1 and 2 in the
  liveness run): a queue that is full while frames are on their way and others
  are listed, and a loss at every byte. Restarts, losses, failed reads and runs
  of `main.py` are not bounded.
* `MaxFrames` stops only the taking of frames into a connected stack; `loop()`
  goes on and its writes are dropped, so no run ends because of the bound.
* Channels 1, 2 and 3, `MaxScan = 3` for the 99999 of `tryFindPort`, which
  tries 0, 1 and 2: a channel below the one found, one above it, one beyond the
  range. The object is given port 2 or none.
* `Queue.cfg`: two requests to store and one to read, one task, limit 2, ids from
  {1, 2}, one attempt each: three requests meet a full queue, a re-run is queued
  behind its own item, two items have the same id, and the item erased makes the
  loop skip another. `Queue_calls.cfg`: one request of up to two attempts under
  all other calls, limits 1 and 2, a token that is refused offline (the case that
  `Queue.cfg` leaves out), at most 2 items when a file is restored. Losses of
  the network and restarts are not bounded.
* `SSL.cfg`: an input buffer of 11 cells with room for a record of 4 bytes of
  data and one of 5 that does not fit; output records of 2 bytes, so that what
  `write()` of 1 or 3 copies waits in one, fills one, or does both; nonce and tag
  of one cell, so that both shift the registers. At most 3 bytes written and 2
  records received per connection, one on its way: the second record is then
  taken while the first is unread or answered, and behind a gap if the first was
  dropped. With one on its way a flush drops part of one record or all of it; the
  theorems are for any number. Connections, calls and handshakes that fail are
  not bounded; every cut of every record in either direction happens.

### Fairness

`AirDump!Fairness` is weak fairness of the sketch (the Arduino task calls
`loop()` for ever), of the stack's sender while its queue holds something, and
of `main.py` while the call it is in can go on. It implements the one
fairness that `FrameStream` promises, that a byte sent is listed while the
connection is up (`ImplementsFairStream`). Nothing forces a read to
succeed, a write to be taken, a link to be lost or a program to be started.
`SensorRecovers` assumes of the sensor, in its premise, what it needs: from some
time on every read succeeds, and the board does not restart.
`ConnectionClient!FairSpec` is weak fairness of the call under way: a dial returns,
with or without a connection. `CallsEnd` is about `connect()` and `tryFindPort()`
only, with interrupts; `getPressedFromBT()` is one blocking `recv`, which nothing
obliges to return.

`ErrorQueue!FairSpec` is weak fairness of each thread: a call that can go on does,
and a task goes round its loop for ever. What `Drains` needs beyond that is in its
premise: from some time on the object is served by a task, the network is there,
and no request fails.

`SSLClient!FairSpec` is weak fairness of the loops of a call, in which a write to
TCP returns, with bytes taken or with none (`tcpWrite` tries ten times), and of its
clock (`UntilTimeout`); and strong fairness of `read`, because the library reads
again and again while it waits for a response. Nothing forces the peer or TCP to
give a byte. `WrittenIsSent` assumes in its premise that from some time on nothing
is unread: `available()` flushes what `write()` has gathered only when there is
nothing to read, so a peer whose data never runs out keeps the rest of a request
waiting.

### Findings

1. **Frost** (`test.cpp:14-16`): a negative temperature is cast to `uint8_t`;
   `main.py` lists 251, 0 or 255 for -5 degrees.
2. **Stale flag** (`bluetoothConnection.py:43`): nothing clears `_connected`;
   `connection()` reports a connection that `recv` has reported gone.
3. **Wrong port** (`bluetoothConnection.py:44`): `tryFindPort` does not store the
   channel it connected.
4. **False failure** (`bluetoothConnection.py:26`): `tryFindPort` on a connected
   object raises that it could not connect, the connection being open.
5. **Swallowed interrupt** (`bluetoothConnection.py:37`): Ctrl-C between dial and
   flag leaves an open socket on an object that says "not connected yet.".

`main.py` itself meets none of 3 and 4: it never calls `tryFindPort`.

### What the models of the library show without a run

The code of the library does the following, and the models do the same or name
it as outside of them; no run refutes a statement with it.

Error queue:
* With two tasks, or a task and the application's own `processErrorQueue`, an item
  is erased that nobody has run (`FB_RTDB.cpp:1087`).
* A request paused while it waits counts as done (`FB_RTDB.cpp:2259`).
* A re-run that fails is queued again under a new id, behind its own item.
* A token that is not a legacy one is refused offline before the request could be
  queued.
* `clearErrorQueue` clears copies of the items; `setMaxErrorQueue` leaves what is
  over the new limit, and 0 makes its `uint8_t` index wrap.
* Restored items have no id and the next pass drops them; the saved file holds
  reads too.
* `getErrorQueueID` after a request that was refused gives an earlier id.
* The size of the queue is tested in one statement (`FB_Session.cpp:557`) and the
  item pushed in another (`QueueManager.cpp:83-85`), without a lock: two tasks
  whose requests fail at once can push past the limit. The model has one step for
  both, and no property of the limit.
* A request is refused for a `long_running_task` (`FB_RTDB.cpp:1903`), which nothing
  in the repository sets; the model has no such refusal.

SSL client:
* `flush()` and `stop()` wait for data from the peer, and on a timeout set a write
  error and end the connection; with `_write_idx` 0 they send nothing, even if the
  engine has gathered bytes.
* After every write of a record, or of part of one, `_basic_client->flush()`
  (`BSSL_SSL_Client.cpp:1745`) drops what has been received and not read
  (`WiFiClientImpl.h:98-103`): a response that comes while the rest of a request
  goes out is lost, and the next record fails its check and ends the connection.
  What `read()` has returned until then is still the beginning of what was sent.
* `tcpWrite` never sets a write error and leaves the socket open, so a write that
  takes nothing, the usual sign of a lost link, calls `stop()` without an error
  (1757), and `mRunUntil` goes on with an engine that `stop()` has freed. The model
  ends the call then, with a write error or without.
* A failed handshake (1561-1569) leaves TCP up, and `stop()` does nothing without a
  session (464), against its comment "Stop the TCP connection and release
  resources." (`BSSL_TCP_Client.h:298`). Later connects go on with the old socket,
  behind the bytes of the first handshake, and fail. In between the class is in its
  mode without SSL, which is not modelled.
* `connectSSL()` over a connection that is still up skips the reset of `_write_idx`
  (1408). If bytes were waiting, `mUpdateEngine` meets them in the handshake and
  ends it with a write error (1775-1783); in an established session those branches
  are not met (`PendingHasRoom`).
* With one buffer for both directions, which the library does not set up, `write()`
  would not end.
* A second HelloRequest in one record stays unread, and nothing is received again.

## 4. Proofs

Checked by TLAPS for every value of the constants that satisfies the
assumptions: readings are integers and `NaN` is none; channels are natural
numbers, `None` is none, and the serial port's channel is one of them; the queue
holds at least one frame. The sets of readings and channels, the queue, the
bound on frames and the range of the scan may be of any size.

* **`Uint8CastProofs`**: `RepresentableRange`: the cast is defined exactly above
  -1.0 and below 256.0. Lemmas: its outcome there is the integer part, less than
  one unit away, and a byte anywhere.
* **`StreamLemmas`**: what cutting, extending and moving an element do to prefixes,
  and what `FlattenSeq` gives for a longer queue and for a queue without its head.
  `FlattenSeq` is recursive; that it exists for every sequence is shown by a least
  counterexample (`LeastElement`), not with an induction theorem, whose operator
  parameter the provers cannot instantiate.
* **`AirDumpProofs`**:
  * Lemmas: `Bytes` of a sequence of frames has two bytes for each, is a
    homomorphism (`BytesConcat`), and keeps humidity on the odd places
    (`BytesParity`).
  * `TypeCorrect`.
  * `BytesConserved` and `FramesArriveWhole` rest on `StreamsCorrect`. The
    inductive invariant is `TypeOK /\ Streams`. `Conserved` alone is not
    inductive: when a connection opens, its history starts with the stack's
    queue, and the equation holds only if the list is empty then. `Streams` adds
    that a socket never connected belongs to a `main.py` that has listed and
    been sent nothing. `HalfFrameOnlyAfterLoss` follows by counting: list and
    queue make an even number, and the queue is even.
  * `ListIsReadings` assumes `InRange`, that every reading fits a byte. `Sound`
    (queued and sent frames carry integer parts of readings) is inductive given
    the types, and with `Conserved` and `BytesParity` it gives `ListedReadings`.
    The run `AirDump_frost` shows that the assumption is needed.
* **`ConnectionProofs`**: `TypeCorrect` and `NoFalseFlag` hold
  with interrupts and without. `FlagIsSocket`, `ScanIsLowest` and
  `ScanSkipsNone` assume none, and rest on `ScanInv`: the flag follows the socket,
  a dial that succeeded is on channel `probe` and still in its try block
  (`DialIsHere`), and no channel below `probe` accepted all the while (`Passed`).
  With interrupts they do not hold: Ctrl-C skips a channel.

* **`FrameStreamProofs`**: `StreamImplemented`: initial states map to initial
  states, and each step to a step of `FrameStream` or a stutter. It uses `Conserved`
  (the byte `recv` returns is the next one of `frames`), the types and the fact
  that a fresh socket has an empty list, all from `AirDumpProofs`.
* **`ErrorQueueProofs`**, for any requests, tasks, limits and ids: `TypeCorrect`
  (with attempts counted by `Counted`). `ErasesWhatItRan`, `GoneMeansDone` and
  `NothingAborts` assume `OneProcessor` (at most one task, and none if the
  application processes the queue itself), without which they are false.
  Their invariant is `QueueInv`: the types, that only a thread that processes has
  an index (`Processing`), and `RightItem`. `GoneMeansDone` also assumes that
  nobody pauses; `Kept` (a queued request is in the queue or executed) makes
  `DoneWhenGone` inductive with colliding ids. `NothingAborts` assumes limits of at
  least 1. `FailsIntoQueue` assumes a legacy token.
  `QueueImplemented` assumes only `OneProcessor`, and no more of the application:
  it may pause, save, restore and change the limit. Its invariant is `QueueInv`
  with `Issued`: what is queued, in the file or being run is a request that was
  made. The lemmas on `Range` say that erasing at an index takes that item or one
  of its copies, and that a restored file adds its requests without ids. Two
  processors do not implement it: one erases what the other moved to its index.
* **`SSLProofs`**, for any sizes that `br_ssl_engine_set_buffers_bidi` accepts
  (`EngineAssumption`), any records of any kind, and any cut by TCP:
  `RegistersInBuffers` and `NothingInTheWay`, the latter for an established session:
  in a handshake over a connection that is still up there can be bytes that wait
  without an engine for them. There is one lemma for each engine operation, and
  `ClientInv` adds to the types and `PendingHasRoom`:
  * `CalledWhileOpen`: the caller is in a call only while the connection is open.
  * `HasItsSocket`: an open session has a socket that has carried TLS, and on one
    that has carried nothing yet no byte waits; so a session, which can only begin
    on the latter, begins with `_write_idx` 0 although `connectSSL()` may not reset it.
  * `ReceivesHead`: while nothing was dropped, the bytes still due of a record are
    those of the head of what the peer has sent, so that its plaintext fits the
    buffer that its header was measured against.
  * `SpoiltBehindGap`: behind dropped bytes there are only records that fail their
    check, which give no plaintext.

* **`SSLStreamProofs`**, for the same constants: `WrittenInOrder`, `ReadAsSent`,
  `NothingBehindClose` and `ClientStreamImplemented`. `SSLProofs` says where the
  registers are; here there is one lemma for each engine operation about the bytes
  it moves (`Outgoing`: what is sealed and what is gathered behind it; `UnreadIn`:
  what `read()` can return). None of the three invariants is inductive. `StreamInv`
  adds to `ClientInv` and to them:
  * `Waits`: where the handshake processor stands decides what may lie in the
    output buffer. It has turned application data off, and flushed what was
    gathered, before it stops to wait for room; it has closed only once. Without
    it an alert could be put over bytes of the application.
  * `Sending` and `Receiving`: the two orders of bytes, with the buffer's cells
    behind `oxa` that `write()` has filled and not handed over.
  * `HeadType`: the type in the register `tin` is that of the record at the head
    of what the peer has sent, so that a body is decrypted as what it is.
  * `NotifiedLast`: once the answer to a close is out the processor has ended,
    and nothing can be sealed behind it.

  `ClientStreamImplemented` has one lemma for each action, by the same operations.
  It needs two more facts. `NoneEnds`: a record that has been decrypted and not read
  is never a `close_notify`, since the processor takes that in the same call; so
  only the arrival of a byte ends the streams, not a `read()` or a flush.
  `NoSessionNoEngine`: between sessions the engine is a fresh one, so that a
  handshake that fails without a session changes neither stream.

Every invariant and every action property that a passing run checks is a theorem,
the refinements `ImplementsStream`, `ImplementsKeptRequests` and
`ImplementsClientStream` included. Only model-checked are the liveness properties
(`Delivered`, `LossEndsMain`, `SensorRecovers`, `ImplementsFairStream`, `CallsEnd`,
`Drains`, `WrittenIsSent`, `CloseAnswered`), since they rest on fairness.

## 5. Assumed of what is not in the repository

* A write of two bytes is queued whole or not at all; the queue survives the
  change of the host's connection or is thrown away unsent, not cut.
* Bytes arrive in order; losing the link loses a tail of those on their way.
* `recv(n)` returns between one and n bytes that have arrived, blocks when there
  are none, and returns `b''` (or raises, which ends `main.py` likewise) once
  the peer is gone and everything is read.
* A socket whose dial was refused may be dialled again: `tryFindPort` is written
  for that. An operating system that refuses would make every scan end in
  `addressNotFound` after its first refusal.
* The two reads of the sensor are independent of each other.
* A TLS handshake over a connection over which TLS bytes went before fails: the
  server takes them as part of the earlier session. A record of which a part was
  dropped, or which comes out of its turn, fails the check of its cipher.
* The SSL client is used with the TCP client of the library (`WiFiClientImpl`), from
  one task. An engine that was freed under `mRunUntil` (undefined behaviour) ends
  the call, with a write error or without.
* A Firebase server either carries a request out or not, and a lost response
  does not tell which.

Not modelled: time (the five seconds, the age of a reading, the rate of retries
on a broken sensor), two hosts at once, pairing, texts on either console.

## 6. Not modelled

No file of the program includes the libraries under `src/lib/`, which are nearly
all of the repository's lines. Modelled of them is what has state that several
parties share. The rest stays out:

* The cryptography of BearSSL, and its code generated from T0 (handshake, X.509):
  arithmetic and parsing over long byte strings. The records are modelled by what
  encryption does to lengths and positions; a check that fails is the kind
  `forged`.
* The JSON library and the `FireSense` add-on: transformations of data without
  bound and without concurrency.
* Tokens and reconnection (`core/FirebaseCore.cpp`), stream events, Cloud
  Messaging and the file system wrappers: next in the plan, or thin wrappers.
* The Adafruit libraries: drivers of a display and a motion sensor, register
  writes over I2C.
* `platformio.ini`: nothing of it runs.

## 7. Plan

Done: `Uint8Cast`, `Firmware`, `Rfcomm`, `SerialBT`, `BluetoothConnection`,
`AirDump`, `ConnectionClient` and their proofs; `FrameStream` with the refinement,
checked and proved; `ErrorQueue` and its proofs up to the refinement of
`KeptRequests`; `SSLEngine` and `SSLClient`, and their proofs up to the refinement
of `ClientStream`.

Next, in this order:

1. `ConnectionSpec`, the abstract specification of a connection object that tells
   the truth, and which part of it the class implements.
2. The token life cycle of `FirebaseCore` (`tokenReady`, the flag `fb_processing`,
   reconnection), and the stream of `FB_RTDB`, over the same network as the queue.
3. A timed model of sketch and stack: `delay(5000)` against the latency of the
   sender, giving the least distance of two writes and the age of a reading.
