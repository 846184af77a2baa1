# WANProxy in TLA+

WANProxy is a pair of proxies with a wide-area link between them. Each accepts
TCP connections, connects onward, and sends what it reads through XCodec, which
replaces data the other side has already seen by references to it. Everything
runs as callbacks in a few threads.

This directory models the parts whose correctness depends on order: the codec
and its protocol, the event and IO systems, the threads under them, the buffers
they share, and the objects that hold a connection together. `PROJECT.json` maps
each definition to the lines it translates, and lists the runs, theorems,
findings and hazards.

## The system and its models

| Part | Source | Module | State |
|---|---|---|---|
| `std::map` of the codec | (library) | `StdMap` | helper operators |
| Back-reference window | `xcodec/xcodec_window.h` | `XCodecWindow` | modelled |
| Rolling hash | `xcodec/xcodec_hash.h` | `XCodecHash` | modelled |
| Encoder and decoder, byte by byte | `xcodec/xcodec_{encoder,decoder}.cc` | `XCodecCodec` | modelled |
| Encoder and decoder, segment by segment | the same | `XCodecStream` | modelled |
| Its use in the protocol: windows, frames | the same, `xcodec/xcodec_pipe_pair.cc` | `XCodecPipeCodec` | modelled |
| One end of a connection between proxies | `xcodec/xcodec_pipe_pair.cc` | `XCodecPipe` | modelled |
| Two proxies and their connections | `xcodec/xcodec_pipe_pair.cc`, `xcodec/xcodec_cache.h` | `XCodecPipePair` | modelled |
| What a proxied connection promises | - | `ReliableStream` | abstract |
| Buffer, BufferSegment | `common/buffer.h` | `Buffer` | partly |
| What a Buffer promises | - | `ByteStrings` | abstract |
| A segment shared by threads | `common/refcount.h`, `common/buffer.h` | `SharedSegment` | modelled |
| Mutex and SleepQueue | `common/thread/*_posix.*` | `PosixMutex` | modelled |
| What they promise | - | `Monitor` | abstract |
| Thread, EventSystem, SIGINT | `common/thread/thread_posix.cc`, `event/event_system.*` | `Threads` | modelled |
| CallbackThread | `event/callback_thread.cc` | `CallbackThread` | modelled |
| CallbackQueue, stop handlers | `event/callback_queue.h`, `event/event_thread.*` | `CallbackQueue` | modelled |
| WorkerThread, TimeoutThread, TimeoutQueue | `common/thread/thread.h`, `event/timeout_*` | `TimeoutThread` | modelled |
| EventPoll | `event/event_poll_kqueue.cc` | `EventPoll` | modelled |
| IOSystem and its Handles | `io/io_system*.cc` | `IOHandle` (on `EventPoll`) | modelled |
| Pipe, PipeProducer, PipeLink, PipeSplice, Splice | `io/pipe/` | `Splice` | modelled |
| The chains of Pipes of a proxy | `programs/wanproxy/wanproxy_codec_pipe_pair.cc` | `WANProxyCodecPipePair` | modelled |
| TCPClient, SplicePair, ProxyConnector | `io/net/`, `io/pipe/`, `programs/wanproxy/` | `ProxyConnector` | modelled |
| SimpleServer, accept | `io/socket/` | `SimpleServer` | modelled |
| SOCKS handshake | `programs/wanproxy/proxy_socks_connection.cc` | `ProxySocksConnection` | modelled |
| HTTP server and monitor | `http/`, `programs/wanproxy/monitor_client.cc` | `HTTPServer` | partly |
| SSH transport | `ssh/ssh_transport_pipe.cc`, negotiation, key exchange | `SSHTransportPipe` | partly |
| diskdup | `programs/diskdup/diskdup.cc` | `DiskDup` | modelled |
| Everything else | see "Not modelled" | | |

How they fit together: a listener (`SimpleServer`) accepts a socket and creates
a `ProxyConnector`, or first a `ProxySocksConnection`, which asks the client where
to. The connector connects onward (TCPClient) and runs two `Splice`s (SplicePair),
each reading a socket (`IOHandle`), passing the data through a chain of Pipes
(`WANProxyCodecPipePair`; among them one half of an `XCodecPipePair`) and writing
it to the other. The data is in `Buffer`s. Callbacks execute in the EventThread
(`CallbackThread`), system calls in the IOSystem thread when `EventPoll` says a
descriptor is ready; `Threads` starts and stops these threads, and all locks are
`PosixMutex`es. A proxy is watched through its HTTP server. `diskdup` is another
program on the same IO system.

A module that uses another component reduces it to what that component is shown
to do in its own module: `Threads` uses a Mutex as `Monitor` describes it,
`ProxyConnector` sees of a Splice that it ends, `ProxySocksConnection`,
`HTTPServer` and `DiskDup` see the answers of a Handle or a Splice.

### Correspondence

Variables carry the names of the members they stand for, without the trailing
underscore; actions and operators carry the names of the functions. A step is
what happens under one lock, or one callback of the EventThread: callbacks of
one thread do not interleave. Where two threads touch the same object
(`CallbackThread`, `CallbackQueue`, `IOHandle`, `TimeoutThread`, `PosixMutex`,
`Threads`, `SharedSegment`) each critical section, or each atomic access, is a
step of its own.

A failed ASSERT, a HALT, a NOTREACHED or a NULL dereference puts a word into
`bad`, where the code would abort. That this does not happen is a property of each
module (`ThreadAsserts`, `HandleAsserts`, `SpliceAsserts`, `ConnectorAsserts`,
`ServerAsserts`, `SocksAsserts`, `HTTPAsserts`, `DiskDupAsserts`,
`PairAssertsHold`, `EncoderAsserts`).

Data is abstract: a byte of a stream is its position, a segment is a model value
with a given hash, a message is one operation of the protocol. `XCodecCodec` has
bytes, since its subject is which bytes are hashed, and so has
`ProxySocksConnection`, since a field is found by the bytes before it. The text of
`HTTPServer` is words and line ends. In `SSHTransportPipe` a byte is its position
in the peer's stream, and the lengths are those that `send` computes.

Definitions whose comment begins with "Mutant:" are deliberately wrong variants
of the definition after them. Substituting one for the other must violate the
property `PROJECT.json` names beside it, which shows that the property can fail.

## What the runs check

Safety and liveness of a component are checked together. What differs between
uses of a component is a variable that `Init` chooses and no step changes: which
objects cancel from other threads (`foreign` in `CallbackThread`), whether stop
handlers are drained in the EventThread (`here` in `CallbackQueue`), which chain of
Pipes a Splice has (`chain`), what an HTTP or SOCKS client sends.

Several MC modules hold components side by side that have no state in common:
`MCProxy`, `MCTimeouts`, `MCThreads`, `MCBuffer`, `MCIOHandle`, `MCCodecs`. The
variable `which` says which of them a behaviour is about, and the others do not
move; each has the fairness of its own module. `CallbackThread` is checked as it is,
its constants coming from `CallbackThread.cfg`.

| Run | What it shows |
|---|---|
| `stream` | one XCodec stream while others share its caches: integrity, windows in step, everything decoded in the end |
| `pair` | two connections with ASK and LEARN, one of them torn down or a process restarted with an empty cache: no ASSERT and no protocol error, EOS_ACK only for delivered data, every unknown hash is asked for, and each connection implements `ReliableStream` |
| `pair_live` | without such faults, all data and the EOS arrive |
| `codec` | what arrives in pieces is put together: decode gives back what encode was given, for every input of up to five bytes over three byte values; an HTTP request is read as it was sent, answered once, and the connection ends; SSH packets are found, and their messages passed on in order, across a change of keys |
| `buffer` | Buffers keep the bytes that their own calls gave them (`ByteStrings`), however segments are shared; reference counts are exact, also between threads |
| `threads` | mutual exclusion, waiter count, no lost handoff; refinement of `Monitor`, with its fairness; the threads of a program start in order, and all end after SIGINT but for the cases below |
| `callbacks` | no lost wakeup, no dangling Action; scheduled callbacks execute; stop is heeded |
| `timeouts` | no timeout is slept through; all end; none is a second or more early. Handlers in a CallbackQueue execute at most once, and drain reaches all |
| `handle` | reads are exact, ordered and complete, writes are whole, no poll event is lost, both are answered; diskdup copies the blocks it passes, touches no other, and ends |
| `proxy` | Splice: bytes in order through every chain, shutdown and EOS only after everything is written, it ends. ProxyConnector and SimpleServer: no callback after deletion, accepted connections are served, both go when they are told to stop. SOCKS: the connection goes where the client asked, and starts right behind the request |
| `pair_eos_ack`, `buffer_cut` | expected to be violated, see below |

What a module must keep throughout, its types, its assertions and its
bookkeeping, is one invariant of its run (`ThreadInv`, `HandlesInv`, `ProxyInv`,
`TimeoutInv`, `ThreadsInv`, `MutexSafe`, `SegmentsSound`, `PairInv`, `CodecsInv`),
whose conjuncts are defined and explained one by one. Likewise
`TransfersAreFaithful`, `EndIsLast`, `ServedAsAsked`, `HandlerOnce`,
`DecodedAsSent` and the liveness properties named `...Progress` join definitions
that answer one question together.

### Where code and text disagree

Two runs must be violated; `findings` in `PROJECT.json` quotes the texts.

- `pair_eos_ack`: an EOS whose last data waited for a LEARN is not acknowledged
  when that data has been processed, as a comment says it is, but only if another
  operation happens to arrive later.
- `buffer_cut`: `Buffer::cut` over several segments continues with an iterator
  that its own `insert` has invalidated, and removes other bytes. Only tests call
  it that way. The constant `AnyCut` lets these calls in; `buffer` is without them.

Modelling also met these. They are part of the models, unless said otherwise, and
the properties are stated so that they allow them and nothing more:

- ASK or EOS_ACK can precede HELLO on a connection (`XCodecPipePair`).
- The lock which the comment above `CallbackThread::schedule` asks for does not
  avoid the race between dispatch and a cancellation in another thread. A later
  comment in the same file describes that race. `bad` becomes `{"NULL"}`, and only
  when `foreign` is not empty (`ThreadAsserts`).
- The same race exists in `IOSystem::Handle::read_callback` (`HandleAsserts`).
- `CallbackQueue::cancel` can reach its NOTREACHED when another thread drains the
  queue, and so can the assertion in `~CallbackAction`, when the cancellation comes
  between drain's stores to `action_` and `callback_` (`CancelFindsCallback` says
  that nothing else leads to either).
- A Socket whose connection failed, or was cancelled once its callback was
  scheduled, is closed by nobody (`ProxyConnector`). Nor is the Socket of a
  connection that was accepted when the server is stopped before its callback
  executes (`SimpleServer`).
- A deadline is not normalised, and can run out up to a second early. Hence
  `WithinASecond`, and not "never early".
- A Splice learns of an error inside its chain of Pipes only when it next has input
  for it or asks it for output. After the end of its source it does neither, and
  waits for ever. It does so too when a compressed stream ends too early:
  InflatePipe then neither ends its output nor fails. And an XCodec encoder that was
  told of the end ends its output only when the peer has acknowledged it, and waits
  for that as long as it takes (`Stranded`).
- `pthread_create` and `pthread_join` return an error number, and the code tests
  for -1, so a failure goes unseen and is waited for (`Threads`).
- SIGINT before all threads are registered, in a thread that holds a Mutex the
  handler takes ("XXX Could deadlock" in `thread_posix.cc`), or followed by the
  cancellation of a thread inside `pthread_cond_wait`, leaves threads that never
  end. `Excused` lists these cases. A cancelled EventThread may not get to its stop
  handlers.
- SIGINT in an EventPoll that is in `kevent()` makes it return with EINTR, and
  `main()` with it, whether `stop_` is set or not (`ReturnIsLast`).
- A SOCKS handshake has no timeout and no stop handler, so it lasts as long as its
  client likes. A `schedule_read(0)` for an empty list of methods, or an empty name,
  takes whatever there is; such requests are not sent in the model. An address of
  zeros is answered as an empty name.
- `Buffer::trim` with a clip hands over the segments from last to first. The
  constant `AnyTrim` keeps such calls out; only tests make them.
- An HTTP request with more data behind it is answered or refused according to how
  the two arrived (`AnsweredOnce`). An `HTTPServerHandler` does not register for
  stop, and stays until its client ends.
- An SSH packet of exactly one block, whose first block was decrypted before its MAC
  arrived, is not taken until a byte of the next packet comes, if the MAC is no
  longer than a block (`OneBlock`).
- `active_algorithms_` of an SSH session points into `chosen_algorithms_`, so a second
  KEXINIT, under keys, replaces the ciphers in use by clones without keys: the next
  packet can be neither sent nor read (`Renegotiated`).
- `clone` of an SSH MAC gives it the size of its key, so the two `-96` MACs are used
  at their full length, and a MAC of 12 bytes does not occur.
- `diskdup` compares and writes whole blocks: a part of a block at the end of a
  volume is reported, and not copied.

### Bounds

- Window of one or two slots: it wraps after two or three declarations. A hash
  of 0 and two segments with the same hash are always there in `stream`.
- `pair`, `pair_live`: two connections, so that one can declare what the other
  refers to; data flows from `A` to `B` (the reverse direction carries HELLO, EOS,
  EOS_ACK, ASK and LEARN); frames of three units, so that a symbol can straddle
  two. `MaxFaults`: one teardown or restart, at any point.
- `codec`: segments of two bytes and a hash modulo 5, so that collisions happen.
  HTTP: eleven texts, of both kinds of request and of what is none, cut anywhere.
  SSH: a client and two servers, with packets of one block and more, a message amid
  the key exchange and, for two of them, a negotiation under the new keys; blocks of
  16, 8 and 1 bytes and MACs of 20 and 16, in four pairs; pieces of one byte, of 16, and all the rest.
- `buffer`: two Buffers, segments of three bytes, up to four bytes in one Buffer,
  three in the other and two segments in use before a call: an operation can begin, end and lie inside of
  segments, own and shared. Three references for the segment of several threads.
- `threads`: five threads at the Mutex; an EventThread and an EventPoll, which sleep
  in the two ways there are (`sleepq_.wait()` with the Mutex, and `kevent()` before
  it is taken), with three pieces of work.
- `callbacks`: three objects and four addresses for callbacks, so addresses are
  reused; five callbacks scheduled.
- `handle`: the peer sends up to three bytes, two to a read of the descriptor, and
  reads are for 0 or 2 bytes, so that a read needs several and leaves some over;
  three bytes are written through room for one, so that a write polls twice.
  diskdup: volumes of up to three blocks, of any lengths, and two kinds of block.
- `timeouts`: a second of three units, and delays shorter and longer than one, so
  that un-normalised deadlines occur. Each timer is set once. Three handlers, and
  two stops.
- `proxy`: three bytes, and chains of up to four Pipes; three connections; eight
  SOCKS clients.
- Deadlock checking is off where the system may stop: a bound was reached, the
  thread exited, the object was deleted or a check failed. It is on for `threads`,
  where the threads at a Mutex never may; the program may, and says so by a stutter.

### Fairness

- Threads run: weak fairness of each thread's own steps. Spurious wakeups are
  allowed everywhere and relied on nowhere.
- `handle`: the kernel reports ready descriptors and the peer reads. The user
  need not do anything but execute its callbacks. The Handles of diskdup answer.
- `proxy`: source and sink answer, and the EventThread runs. That an XCodec encoder
  ends its output is not assumed: it needs the peer. That Splices end is the premise of `ConnectorEnds`, and
  `StopEnds` does without it. Polling and `accept` may fail, but not always, hence
  strong fairness. A SOCKS client sends the rest of its request, or fails.
- `codec`: the EventThread runs and the Splice of an HTTP connection passes on what
  it is given. The client need not end its side.
- `pair_live`: a pair with messages waiting consumes them (`Arrives`); clients may
  write and close, or never do.
- `timeouts`: the clock advances.

## What is proved

For every value of the constants, in eight modules. No theorem rests on anything but the
named ASSUMEs of the modules it is about and the theorems of the standard library.

**XCodecPipePair** (five modules, see below). For any number of connections, any
segments, hash function, window and frame size, any data written in both directions,
any number of connections torn down and of restarts:

- `PairsAreSound` (`PairInv`): types, every ASSERT, a shutdown only when both
  directions are delivered, and no hash that is waited for in vain;
- `PeersAgree` (`NoProtocolError`): `decoder_error` is never called on what a correct
  peer sent;
- `AcksAreTrue` (`AckedIsDelivered`) and `CachesStayEqual` (`CachesAgree`);
- `StreamsAreReliable` (`ImplementsReliableStream`): each connection refines
  `ReliableStream`, with the EOS flags of the pairs as the mapping.

None of these is inductive. Whether a message is an error depends on all the messages
before it, and what a reference means on the window when it is decoded. The inductive
invariant is `LinksInv` (`Invariance`). It says of each end (`Half`, in
`XCodecPipeLink`) that there is a trace, from the decoder's state, through the frame
data it has and the frames on their way, to the window of the encoder and all that the
other client wrote (`Delivers`, in `XCodecPipeTrace`); that HELLO, EOS and EOS_ACK come
once and in their place; that frame data waits for at most one hash, and that the ASK
or the LEARN for it is on its way; and of the processes that what one knows of the
other's cache is in that cache, also after a restart, because a UUID is not used twice.
It is too large a formula for TLC to evaluate, since a trace is a witness to be found;
its consequences are what the run `pair` checks. The proof has layers, each of which
states what it needs of the one below as a formula and proves its own part from it:

| Module | What it proves |
|---|---|
| `XCodecPipeCodecProofs` | window, encoder, decoder and frames: encoding extends a trace, decoding consumes one |
| `XCodecPipeLinkProofs` | from `LinkRules`, what the codec does: each message received or sent keeps both ends sound (`Link`) |
| `XCodecPipeStepProofs` | from `CodecRules`: so does a whole `decoder_consume`, `encoder_consume`, or teardown |
| `XCodecPipePairSteps` | from `ConnectionRules`: each action keeps `LinksInv`, which implies the properties and the steps of `ReliableStream` |
| `XCodecPipePairProofs` | that these rules hold, and the theorems above |

Loops (over the segments of a buffer, the units of a frame, the messages read at once)
are recursive functions. What they compute is proved by induction on the set of numbers
for which a statement holds (`InductionHolds`), which follows from the well-foundedness
of the natural numbers. Assumed are: two processes, hashes that are natural numbers,
`HashOf` a function from segments to them, a window and a frame with room for at least
one. Collisions are allowed.

**XCodecStream** (`XCodecStreamProofs`). `IInv`, which `stream` also checks, says
that the decoder's window equals the one the encoder had after as many symbols;
that each symbol, read in that window, means the segment that was sent; and that
caches hold segments under their own hash, the decoder's being part of the
encoder's. The theorem `Inductive` is that it holds. `StreamIntegrity` alone is not
inductive, because what a back reference means depends on the window at the time.
From `IInv` follow `Integrity`, `DecodeSucceeds`, `WindowAssertsHold`,
`WindowsInStep` and `TypeCorrect`. The assumptions are that `HashOf` maps segments
to hashes and that the window has at least one slot; collisions are allowed.

**CallbackThread** (`CallbackThreadProofs`), for any number of objects, callbacks and
cancelling threads. `NoLostWakeup` needs that a sleeping thread has set `idle_`,
because `schedule` signals only then (`WakeupsAreKept`). `ThreadInv` is inductive as it
stands (`ThreadIsSound`): an Action is of a callback that is queued or in flight, each
is queued once, and only a cancellation by another thread finds the NULL described
above. `ExitIsClean` is the action property `ExitLosesNothing`.

The small components are proved together in `ComponentProofs`:

- **PosixMutex**. `MutexIsSafe` is about `MutexSafe`: types, owner, waiter count and
  handoff. They are inductive together (`MutexInv`), and the handoff needs the count:
  `lock_release` signals only when `waiters_` is not zero. `MutexImplementsMonitor` maps
  a thread blocked in `lock_acquire` to one that is entering. Threads are a finite set.
- **SharedSegment**. `SharedInv`, which `buffer` also checks, is inductive: the count is
  the number of references that were not dropped, and a writer is alone, because a
  count of one, once seen by a holder, can only be raised by that holder.
  `SharingIsSafe` needs no more than a finite set of references.
- **DiskDup**. `CopyIsFaithful`: in any order of the volumes' answers and errors,
  `BlocksAreCopied` and `DiskDupAsserts` hold, for volumes of any length. The induction
  (`DiskDupInv`, which `handle` also checks) needs what a write is about to put where,
  and that both volumes are open or neither. It is assumed that volumes are sequences
  of blocks and that a block is not empty (`VolumesOK`).
- **TimeoutThread**. `NothingIsSleptThrough` is about `NoTimeoutMissed`,
  `NotASecondEarly` about `WithinASecond` and `TimeoutsInOnePlace` about
  `TimeoutInQueue`, for any timeouts, delays and length of a second. They follow from
  one invariant (`TimeoutIInv`, whose parts `timeouts` checks): the key of the queue a
  timeout is in stands for its time. `WithinASecond` rests on an arithmetical lemma,
  that a deadline ready in the order of `NanoTime::operator<=` is less than a second
  ahead, normalised or not; `NoTimeoutMissed` on there being a first deadline in that
  order, which comes from the well-foundedness of the natural numbers.

Only model-checked:

- all liveness, and `ImplementsFairMonitor`, which contains fairness: the proof system
  has no rules for ENABLED and fairness;
- what the RECURSIVE operators of `XCodecCodec`, `Buffer`, `HTTPServer` and
  `SSHTransportPipe` compute, and with them the refinement of `ByteStrings`: its SMT
  solver is not available in modules with such operators;
- the safety of `Threads`, `CallbackQueue`, `EventPoll` and `IOHandle`, `Splice` and
  the modules of connections and servers. Nothing is known to stand in the way; their
  invariants are checked by the runs and have not been proved.

## Not modelled, and why

- **`network/uinet` and the uinet sockets.** A vendored TCP/IP stack, about
  1.7 million lines, and bindings to it behind the interface of Socket. Of the
  repository's own code, some 30 thousand lines, a fifth is mapped.
- **Data races on `std::map` in TimeoutQueue.** `append` and `perform` are
  unsynchronised in the code; each is taken to be atomic here.
- **The epoll, poll, port and select backends of EventPoll.** They implement an
  interface (`wait`, `idle`) that `event_poll.h` no longer declares.
- **Buffer: `split`, `join`, `find_any`, `hexdump`, iovecs and stream operators.**
  They change no segment in place.
- **Cryptography, zlib and XML.** Wrappers around libraries, and string escaping.
- **The end of an SSH stream, and messages out of turn.** TransportPipe tells no
  waiting receiver that its peer has ended ("XXX XXX XXX" in `consume`), and a later
  `send` would fail an assertion of PipeProducer.
- **`ssh_stream`, the SSH connector and listener.** Unfinished: the connector never
  calls `SSHStream::close`, without which the destructor's assertion that there is
  no socket cannot hold; a connector that is stopped early leaves `ready_callback_`
  set; and of two WANProxies neither sends the first NEWKEYS, as the comments in
  `ssh_key_exchange.cc` say.
- **HTTP `Message::decode`, the bytes of `DecodeURI`, the HTML of the monitor.** The
  first is used by a test only.
- **Configuration.** Objects are created, set and activated in one thread, before
  anything else runs.
- **ConditionVariable, Dropbox, CallbackHandler, EventHandler.** Used by tests and an
  example only.
- **fwdproxy, websplat, tack, xcdump.** fwdproxy's connector is a copy of WANProxy's,
  websplat is another HTTPServerHandler, the others run the codec over files.
- **UDP and UNIX sockets, the resolver.** UDPClient is TCPClient with another socket.
- **Persistent caches** of XCodec: only an in-memory cache exists.
- **Logging and factories.** No order to get wrong.
- **Connecting from a given interface** in TCPClient: nothing asks for it.
