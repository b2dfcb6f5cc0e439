# A TLA+ model of miniproxygo

miniproxygo is a two-hop proxy. A *local* process speaks SOCKS5 with
applications, and a *server* process on another machine connects to the targets.
Between the two runs one encrypted TCP connection per request. This directory
holds TLA+ modules of the parts of the program that carry its data, TLC
configurations that check them on small instances, and TLAPS proofs of the most
important properties for every value of the parameters.

Line numbers refer to the repository's sources; `PROJECT.json` maps every
definition to the lines it models.

## 1. The system

| Part | Source | State | Operations | Interacts with |
|---|---|---|---|---|
| Accept loops | `m_server/socks_server.go` | backoff delay, `stats.ReqNum` | accept, retry, start a handler | handlers (goroutines), startup |
| Connection handlers | `m_server/socks_server.go` | connections of one request | handshake, dial, send address, relay, drain, close | everything below |
| SOCKS5 handshake | `m_socks/socks5.go` | position in the request | `HandShake`, `readAddr` | client connection, tunnel |
| Relay | `m_server/socks_server.go` | two copiers, deadlines, results | copy, set deadline, wait, return | both connections |
| Corked connection | `m_server/socks_server.go` | buffer, `corked`, `err`, timer | `Write`, timer callback | relay copier, timer goroutine, raw TCP connection |
| Encrypted stream | `m_shadow/stream.go` | nonces, leftover, salts sent and received | `Write`/`ReadFrom`, `Read`/`WriteTo` | corked connection, salt filter |
| Salt filter | `m_internal` | ring of Bloom filters, counters, RWMutex | `AddSalt`, `CheckSalt` | every stream of the process |
| Buffered reader and writer | `m_bufio/bufio.go` | buffer, sticky error, byte counters | reads, unreads, writes, flush, `ReadFrom`, `WriteTo` | an `io.Reader` or `io.Writer` |
| Address conversions | `m_socks/socks5.go` | none | `ParseAddr`, `String`, `SplitAddr` | dialling |
| Encrypted packets | `m_shadow/packet.go` | packet buffer, mutex | `WriteTo`/`Pack`, `ReadFrom`/`Unpack` | salt filter; not used: UDP is off |
| Stand-alone SOCKS handler | `m_socks/handler.go` | one request, two goroutines | `Serv`, `Resolve`, `Relay` | not used |
| Startup, configuration, shutdown | `proxy.go`, `m_server/server.go`, `m_config` | `Server` | `Start`, `ShutdownHandler` | accept loops |
| Ciphers, utilities | `m_core`, `m_shadow/cipher.go`, `m_util` | none | lookup, key derivation | startup |

The path of the data, for the request direction:

    client --TCP--> local handler --relay--> streamConn --> corkedConn --TCP-->
           streamConn --> server handler --relay--> target

What is hard in it:

* **Concurrency.** The corked connection is written by a copier and flushed by a
  timer goroutine. A relay is two goroutines that end one another by deadlines.
  All streams of a process share the salt filter. All writers of a `packetConn`
  pack into one buffer.
* **Failure.** A write to a TCP connection may fail after any part of its
  argument. A peer may end, half-close, reset, fall silent or stop reading. A
  handler closes the raw connection underneath cork and cipher.
* **Ordering.** AEAD nonces are implicit: reader and writer count them apart, so
  one byte lost, repeated or reordered by a lower layer ruins the stream.
* **Boundaries.** Buffer sizes, records longer than the reader's buffer, the
  wrap of the nonce, the ring of filters, the length byte of a domain.
* **Sequences of calls.** `m_bufio` keeps errors for later calls and lets the last
  byte or rune be unread, from state that not every call keeps up to date.

## 2. Modules

| Module | Models | Kind |
|---|---|---|
| `BytePipe` | what a layer promises of one direction: the bytes that come out are a growing prefix of those put in, and none after the pipe is down | abstract specification |
| `CorkedConn` | `corkedConn` with its timer, over an external `bufio.Writer` and `net.Conn` | component, implements `BytePipe` |
| `ShadowStream` | both ends of one direction of a `streamConn` | component, implements `BytePipe` |
| `BloomRing` | the salt filter under concurrent use | component |
| `Relay` | `Server.relay`, the cork as far as it matters, and the close that follows | composition of copiers, cork, deadlines and peers |
| `SocksAddr` | `Addr.String`, `ParseAddr`, `SplitAddr` | functions, used by `TunnelSetup` |
| `TunnelSetup` | one request through `HandShake`, `readAddr` and both handlers | composition of the two processes over a byte pipe |
| `BufWriter` | `m_bufio.Writer` | component |
| `BufReader` | `m_bufio.Reader` | component |
| `PacketConn` | `packetConn`, `Pack`, `Unpack` at two ends, with the salt filter of each process | composition over an unreliable network |
| `SocksHandler` | `request.Serv` of `m_socks/handler.go` with its two goroutines | component |
| `AcceptLoop` | one process from `main` to its exit: startup, the accept loop of either role, its handlers from outside | component |
| `Cuts` | `Take` and `Drop`, the slices `s[:n]` and `s[n:]` | functions |
| `CorkedConnProofs`, `BloomRingProofs`, `RelayProofs`, `TunnelSetupProofs`, `PacketConnProofs`, `BufWriterProofs` | inductive invariants and theorems about the module each is named after | proofs |
| `StreamProofs` | the same for the two readers of a stream, `ShadowStream` and `BufReader` | proofs |
| `ServeProofs` | the same for the two servers of clients, `AcceptLoop` and `SocksHandler` | proofs |
| `MC*` | finite instances for TLC | model checking |

Operators whose comment begins with *fault* are variants of the operator that
follows them, each with one plausible mistake. They are not part of any
specification; each breaks one property, which shows that the property is about
the code.

### CorkedConn

Two threads of control, the writer and the timer callback, meet in
`w.lock`. `Lock` is the entry of `Write`: lock, test of `w.err`, `w.once`.
`LargeWrite`, `FillAndFlush`, `Store` and `BufferedFail` are the turns and ends
of the loop in `bufio.Writer.Write`; `DirectWrite` is the uncorked path. `Fire`,
`Uncork` and `Flush` are the callback. `Break` and `Close` take the connection
away; the handler's deferred `Close` is called on the raw connection and does
not take the lock. `wire` is what the raw connection has taken, `sent` what
callers have passed in.

### ShadowStream

The stream is a sequence of units that `io.ReadFull` reads whole: the salt, and
for each record a length chunk and a payload chunk. A unit carries the nonce it
was sealed with and a flag for damage: opening succeeds exactly when the key is
the sender's, the nonce is the reader's and the unit is undamaged.

The writer's connection is a corked one. `Emit` is a `Write` to it: while it is corked any
number of the last units may be `held` back, a write below may fail anywhere, also in the
middle of a unit, and after a flush that failed every `Write` does. `Uncork` is the
callback of the cork's timer. `Close` is the handler's deferred close of the raw
connection, which drops what is still held. `cut` says that units were lost in one of
these ways, although each `Write` may have returned without an error.

`InitWriter` and `InitReader` exchange the salt on first use; the reader's may be
refused. `ReadPayload(n)` hands out up to `n` bytes and keeps a leftover. `ReadEnd` is
the end of the stream, `ReadFail` the failure of a read of the connection: the deadline
that `relay` sets, or a reset. The reader hands it on as it is (`rend = "fail"`), while
`"err"` is an error that it finds itself.

### BloomRing

`AddLock`, `Move`, `Insert` are the three pieces of `Add` under the write lock;
`TestLock`, `Scan`, `TestYes`, `TestNo` are `Test` under the read lock, slot by
slot. A Bloom filter is the set of what was added since its reset, and
`TestYes` is always possible: false positives. `hist` records every salt added.

### Relay

A copier is named after the connection it reads. `left` is the corked and
encrypted connection, `right` the plain one, as both handlers call `relay`.
Data is counted in chunks. `Arm` is the `SetReadDeadline` with which a copier
that ends unblocks the other; an expired deadline fails a read even when data is
there. The initial states are those of the two handlers (`Handlers`): the server's has read
the address and written nothing, so that its cork is not armed and the copier of `right`
starts with `InitWriter`, whose salt arms it; the local one's has written the address and
not yet received a salt (`fresh`). `OpenFail` is a read of `left` that fails with the
connection intact: a chunk that does not open, half a unit, or a salt that is known.

### TunnelSetup

A request is given by its parts: methods, command, type of address, host, port and
data. `BytesOf` and `AddrOf` are the bytes a client makes of them as RFC 1928 says, and
`Target` is what it means by them; neither uses the proxy's parsing, which
works on the bytes alone. They arrive in arbitrary fragments. Every
`io.ReadFull` of `HandShake` and `readAddr` is an action; so are the replies,
the dials, the sending of the address, and the relayed data in the direction of
the request. A close of the local end may lose bytes that have not left the cork.
`Undecipherable` is the failure of `ReadAddr` for a stream that does not open. `RelayEnd` is
the return of `relay`, which waits for both copiers: while a peer takes no data (`PeerStall`)
one of them is blocked in a write, and there is no deadline for writes.

`SocksAddr` has the conversions. The text `host:port` is a record of the bytes of
an IP address, or of a name, and a number; net.IP's way to write a mapped IPv4
address is part of it (`To4`). The server dials `String` of the bytes it has read,
and a UDP client is told `ParseAddr` of the proxy's own address.

### BufWriter

One action per call, and one per turn of a call that loops. The history `given`
is built from the counts the calls return, so that `Accounted` compares what the
caller was told with what the buffer and the `io.Writer` underneath really hold.

### BufReader

A call is made by `Call`, takes one `Fill` for each `fill()` and ends in an action of
its own: `Read`, `ReadDirect`, `ReadByte`, `ReadRune`, `Peek`, `SliceFound`, `SliceFull`,
`SliceError`, and `WriteBuf`, `Drain`, `DrainDirect` for `WriteTo`. `Wants` is the
condition under which each of them fills first. `ReadSlice`, `ReadLine` and `ReadBytes`
(with `ReadString`) share their actions, as they share `ReadSlice` in the code. The
history `given` holds the bytes handed out and not unread; `stale` says that an unread
has put back something else, after which the client stops until a `Reset`. For an
unread that steps back in the buffer, that is decided by all that lies before `b.r`
(`Misplaced`): in data that repeats itself the one byte stepped over may happen to be
right although the buffer is not the one it was read from, and then the next unread is
wrong.

What other modules call `Init`, `Next`, `Spec` and `TypeOK` has the name of the component
in `BufReader` and `SocksHandler` (`ReaderInit`, `HandlerSpec`), as each of these shares its
proof module with another component.

### PacketConn

`Lock`, `DrawSalt`, `Encrypter`, `Seal` and `Send` are the steps of `WriteTo` and `Pack`, so
that goroutines could meet in the buffer wherever the mutex would let them. A packet is
the salt in the buffer, the key it was sealed with and its text. `net` is a set from
which packets may come any number of times, to either end, in any order, damaged or
never. `Singleton` is `getSaltFilterSingleton`: the first call decides whether there is a
filter. The filter is taken from what is shown of `BloomRing`: it holds the last `Window`
salts that were added (`Remembered`), and `AddSalt` may drop any of the older ones, as a
reset of a slot does (`Forgets`). `age` counts the salts added after each. Streams of the
same process add theirs to the same filter (`StreamSalt`). Sizes are those of the code.

### SocksHandler

`Verify` and `Request` are the two calls of `Resolve`, each with one `Read` of whatever has
arrived. A panic goes to the deferred calls, which close. `CopyRead` and `CopyWrite` are
the turns of the two goroutines of `Relay`. `whole` records whether each `Read` got its
message and nothing else. `ReadMax` is the length of the array that `Resolve` reads into.
An address of a type that `Resolve` does not know is dialled without a host; `Proper`
says which addresses have the form of their type.

### AcceptLoop

`ConfigLoad`, `PickCipher` and `Listen` are the steps of the startup, each of which
may fail. `Accept` starts a handler; `LocalError` and `ServerError` are what the two
loops do about an error of `Accept`, and `Fails` is what both have in common.
`Exit` is the end of `main`, a second after `Start` has returned: handlers run on
until then. The branch of `ServeLocal` for a graceful shutdown is out of reach,
because nothing calls `ShutdownHandler`.

## 3. What is checked

| Run | Bounds | Properties |
|---|---|---|
| `cork` | 2 byte values, buffer 2, writes up to 3, 5 bytes | `NothingLost`, `NothingStranded`, `Delivered`, `ImplementsBytePipe` |
| `saltfilter` | 2 goroutines, 2 salts, 2 slots of nominal capacity 1, 5 additions | `Remembered`, `Forgets`, `NoIsRight`, `Returns` |
| `relay` | 2 chunks towards the tunnel, 1 from it | `NilMeansPassedOn`, `Conserved`, `RelayEnds` |
| `stream` | 2 byte values, payload 2, 4 nonces, writes up to 3, 3 bytes | `EofMeansAll`, `ErrorHasCause`, `ImplementsBytePipe`, `Delivered` |
| `setup` | IPv4, IPv6, mapped IPv4, empty and one-byte domains, an unknown type; three commands; UDP on and off | `JustEnough`, `RightAddress`, `GoneMeansClosed` |
| `bufwriter` | buffers of 1 and 3, runes of 2, arguments up to 4, 6 bytes | `Accounted`, `ErrorSticks` |
| `bufreader` | buffer 3, five sources of up to 5 bytes, `TotalRead` up to 5 at a call | `InOrder`, `ResultsTrue` |
| `packet` | two writers at one end, one at the other, 3 salts of which the filter is sure to hold 2, agreeing and disagreeing ciphers | `OneTextPerKey`, `OnlyFromPeer` |
| `handler` | the three address types and an unknown one, another version, pieces of 2, 3 and 8 bytes, chunks of 2 | `ServedAsAsked`, `GoneMeansClosed` |
| `accept` | 2 clients, 10 errors, both roles | `CutHasCause`, `Served` |

Each of them also checks a type invariant. Two more runs state a sentence of the
repository that the code does not keep (below): `saltfilter_repeat` and `relay_reply`.

Why the bounds are enough. *cork*: a write can fit, fill the buffer exactly,
overflow it or bypass it, at each position of the uncorking, and two byte values
tell any two orders apart. *saltfilter*: a slot takes two entries, so five
additions fill both slots and reset the first one again. *relay*: with two
chunks towards the tunnel one can be corked while the next goes out directly; the
other direction has no buffer. *stream*: three records of one byte take six nonces of
four, so the nonce wraps; a write of three bytes makes two records; the salt and up to
two records can be in the cork at once. *setup*: address lengths are 1 and 2
instead of 4 and 16; nothing in the code depends on the numbers. *bufwriter*:
arguments fit, fill or overflow the larger buffer, and the smaller one cannot
hold a rune. *bufreader*: the sources have a rune that a fill can cut, a `\r\n` that
straddles the buffer, lines longer than it and a rune that is never finished; the
bytes of a source differ, so that no byte can stand for another, except in one where
they are alike. *packet*: two
goroutines can meet in one buffer, and the other end has a packet of its own; a packet
can come back before and after the filter has forgotten its salt; the two writers of one
end are interchangeable (symmetry); the longer
text fits behind a salt of 16 bytes and not behind one of 32. *handler*: every message can
be read whole, in parts, or together with the next one; data takes two chunks each way;
an IPv6 address has 5 bytes, which no length in the code depends on but the offset of
its end. *accept*: nine temporary errors take the delay from 5 ms to its
maximum, the tenth finds it there; with two clients one can be served while the
other waits.

Deadlock is checked in `saltfilter`, `bufwriter` and `bufreader`, whose users can always
make another call. The other systems come to an end: the connections are closed.

### Fairness

* `CorkedConn`: a goroutine that has called `Write` runs on and the runtime runs
  a timer's callback (weak fairness). Taking the lock needs strong fairness, as
  the other side may take it again and again; Go's mutex hands over to a waiter
  that has starved for a millisecond.
* `BloomRing`: likewise; an `RWMutex` holds new readers back for a waiting writer
  and lets in waiting readers when a writer unlocks.
* `Relay`: copiers and timers run; a write gets through to a peer that takes data
  again and again (strong fairness). Peers owe nothing.
* `ShadowStream`: a `Write` that was called goes on, the cork's timer fires; the relay at
  the other end keeps reading.
* `TunnelSetup`: handlers run and dials return. A relay whose request direction has ended
  returns if its peers take data again and again (strong fairness), which is what
  `RelayEnds` shows of `Relay`; a peer may stop taking data for good, and that is the
  exception in `GoneMeansClosed`.
* `SocksHandler`: goroutines run, a dial returns, and so does a write to a peer that has
  not reset its connection: clients and targets are taken to read what they are sent.
* `AcceptLoop`: the process runs and `Accept` takes what is in the backlog, as its
  errors come to an end (`MaxErrors`). Handlers owe nothing.

### Where the code differs from what it says

The first two have runs that state a sentence of the repository as a property, and TLC shows
a behaviour of the code that breaks it.

* `saltfilter_repeat`, `RepeatDetected`: `CheckSalt` tests a received salt and
  never adds it; the filter knows the salts this process has *sent*. Two
  connections that bring the same salt are both let through, while the comments
  in `saltfilter.go` speak of "checking salt repeat".
* `relay_reply`, `ReplyWrittenBack`: a handler closes the raw connection as soon
  as `relay` returns. Chunks of the reply that are still in the cork are lost,
  though the copier has written them without an error. `docs/introduction/design.md`
  says that what the target returns is written back. The salt that `streamConn.ReadFrom`
  writes as the relay starts arms the cork, so that the window is the first 10 ms of the
  relay: a reply that comes and ends within them is lost if the other direction has ended
  by then as well.

The others are excepted in the properties that hold, which thereby say how far they go,
or are left out of them:

* A stream cut between a length chunk and its payload ends with `io.EOF`
  (`stream.go:120`), which `WriteTo` takes for a regular end, while `m_shadow/doc.go`
  describes a stream of whole records; and a raw close with whole records in the cork
  looks like a regular end as well. `EofMeansAll` therefore excepts streams of which the
  writer's end has lost units.
* Nothing limits the wait for a request. `Server.ReadTimeout`, "maximum duration before
  timing out read of the request" (`server.go:26`), is used only by `relay`, after one
  direction has ended; `WriteTimeout` is used nowhere, so a write to a peer that takes
  nothing blocks for good (the exception in `RelayEnds` and `GoneMeansClosed`).
* `Writer.ReadFrom` looks at `b.err` only when it flushes. With an empty buffer it hands the
  source to the `io.Writer` underneath (`bufio.go:691`), with a buffer that has room it
  reads into it, and it may return nil; the comment of `Writer` says that after an error
  "no more data will be accepted and all subsequent writes will return the error"
  (`bufio.go:505`). `ErrorSticks` shows that this is the only call that does so, and that
  all others return the error.
* "UnreadByte, which will unread the last byte from any read operation" (`bufio.go:271`):
  after `ReadSlice`, `ReadLine`, `ReadBytes` or `WriteTo` it may put back the last byte of an
  earlier `Read`, because they do not set `lastByte`. `UnreadRune` likewise follows an old
  `lastRuneSize`, and can leave `b.r` negative, so that the next read panics. `InOrder` says
  that these are the only ways.
* `TotalRead` is the "number of bytes total read" (`bufio.go:34`), but `ReadSlice` counts,
  after a `fill()`, only what came with it (`bufio.go:333`), and a `\r` that `ReadLine` puts
  back stays counted. `Writer.ReadFrom` does not add to `TotalWrite` when a flush in its
  loop fails. No property is stated of the two counts.
* The server counts a request when it is accepted (`socks_server.go:217`) and again when its
  target is dialled (line 248), and logs the sum as "total req num". The model counts the
  same way, and no property is stated of the sum.
* The stand-alone handler takes one `Read` for one message (`ServedAsAsked` is about
  clients whose messages come whole), reports success before it dials, and looks at no
  command; its comment "read length less 4 byte is bad" stands over `n < 3`.
* `Unpack` tests a salt without adding it, so a duplicate of a packet is handed out
  again; one that comes back to its sender is accepted once the filter has forgotten its
  salt (the exception in `OnlyFromPeer`); `packetConn.ReadFrom` panics for a slice shorter
  than the salt.

Met on the way: `BloomRing.add` compares before it counts, so a slot takes
`slotCapacity + 1` entries (`PerSlot`); `BloomRing.Check`, which nothing calls,
takes its mutex twice; `ServeLocal` does not set `tempDelay` back after a connection, so
that the next bad period starts with the delay of the one before.

## 4. What is proved

The proofs hold for every value of the constants under the named assumptions of the
modules, which TLC evaluates on its instances: buffer, slot and record sizes are
positive, byte values exist, bounds are natural numbers, `None` and `NoWriter` are no
threads. The bounds of the runs (`MaxSent`, `MaxErrors`, ...) are arbitrary in the
proofs. TLAPS checks all of them, with its SMT, Zenon and LS4 backends.

Each proof module establishes one inductive invariant `Inv` in its theorem
`Invariance`, one lemma for each action or kind of action. The other
theorems follow from `Inv`. `StreamProofs` and `ServeProofs` are about two components
each, which have no state in common but need the same lemmas; there the second
component has an invariant of its own, `RInv` of the reader and `HInv` of the handler.

| Module | Theorem | States |
|---|---|---|
| `CorkedConnProofs` | `TypeCorrect`, `KeepsAllBytes`, `NoneStranded` | `[]TypeOK`, `[]NothingLost`, `[]NothingStranded` |
| | `Refinement` | `ImplementsBytePipe` |
| `BloomRingProofs` | `TypeCorrect`, `Memory`, `Forgetting` | `[]TypeOK`, `[]Remembered`, `[]Forgets` |
| | `NegativeAnswers` | `NoIsRight`, an action property |
| `RelayProofs` | `TypeCorrect`, `Conservation`, `NilIsTrue` | `[]TypeOK`, `[]Conserved`, `[]NilMeansPassedOn` |
| `StreamProofs` | `TypeCorrect`, `EofIsTrue`, `NoErrorOfItsOwn` | `[]TypeOK`, `[]EofMeansAll`, `[]ErrorHasCause` |
| | `Refinement` | `ImplementsBytePipe` |
| | `ReaderTyped`, `ReaderInOrder` | `[]ReaderTypeOK`, `[]InOrder` |
| | `ReaderResults` | `ResultsTrue`, an action property |
| `TunnelSetupProofs` | `TypeCorrect`, `ReadsJustEnough`, `DialsRightAddress` | `[]TypeOK`, `[]JustEnough`, `[]RightAddress` |
| `PacketConnProofs` | `TypeCorrect`, `KeysSealOnce`, `NothingForged` | `[]TypeOK`, `[]OneTextPerKey`, `[]OnlyFromPeer` |
| `BufWriterProofs` | `TypeCorrect`, `CountsAreTrue` | `[]TypeOK`, `[]Accounted` |
| | `ErrorsStick` | `ErrorSticks`, an action property |
| `ServeProofs` | `TypeCorrect`, `NothingCut` | `[]TypeOK`, `[]CutHasCause` |
| | `HandlerTyped`, `HandlerServes` | `[]HandlerTypeOK`, `[]ServedAsAsked` |

**`CorkedConnProofs`.** `Inv` is the type invariant, `MutexInv` (who is where when the
lock is held), `CorkInv` (`corked` and the timer agree; a direct write happens only
after a flush without error), `IdleInv`, `NothingLost` and `NothingStranded`.
`NothingLost` alone is not inductive: that a direct write appends behind all buffered
bytes needs an empty buffer, which is `NothingStranded`, which needs that the callback
uncorks and flushes under one hold of the lock. For `Refinement`, initial states map to
initial states; `Call` is a hand-over; every write to the raw connection lets out a
longer prefix, by `NothingLost`; everything else stutters or takes the pipe down.

**`BloomRingProofs`.** The invariant speaks of the *age* of a slot, the number of
moves since it was the current one. `HeldInv`: a slot of age a holds nothing older
than a + 1 slots' worth of salts. `CoverInv`: every recent salt is in a slot young
enough not to be reset before the salt is old. `LockInv` and `LocalInv` tie the
local variables of `Add` and `Test` to the ring, among them that a `Test` in
progress has missed its salt in all slots before its position.

**`RelayProofs`.** `NilMeansPassedOn` speaks of the moment the relay returns, `Conserved`
of each copier by itself. Between them stand `CutOffSecond` (a deadline is set only by
the copier of the other direction, at its end, so that it never cuts off the one that
ends first), `Finished` (what a copier that ended without an error leaves behind: all of
its peer's data is read and accepted) and `Outcome` (which of the two results `relay`
returns).

**`StreamProofs`, the encrypted stream.** `Flow` says that, as long as the reader has not ended, there are
*marks* around the units on the net, those in the cork included, one more than there are
units: each has the nonce, the kind of unit that comes next and the position in `sent`. The
first mark is where the reader stands, the last, as long as nothing is lost, where the
writer does, and each unit leads from one mark to the next. So a reader that opens the first unit moves to the second mark, however often
nonces have wrapped and however records were cut by `Write`. `Sound` says that a unit is
damaged only if `garbled`, and cut in two only at the end and if units are lost. `Piece`
says of what was handed out and of the leftover which part of `sent` they are. That is
more than the refinement needs of `out`, and it is what `EofMeansAll` and
`ErrorHasCause` need.

**`StreamProofs`, the buffered reader.** `RInv` says where each byte comes from. `Placed`: what
was handed out is the start of the source, and what is buffered comes next. That is
`InOrder`, but an unread can break it, since it steps back over bytes of the buffer, or
puts back `lastByte`, which need not be what was handed out last. `Kept` therefore says that
the buffer before `b.r` does hold the bytes handed out last, or that nothing is buffered
and one of two things is the case: `lastByte` will be put back instead, or the last call
that read was one of those in `Sloppy`, which set neither `lastByte` nor `lastRuneSize`.
`ByteBack` and `RuneBack` say that these two, while they are set, are about the end of what was
handed out, with the same exception. `Searched` is what `ReadSlice` and `ReadBytes` know of the
bytes passed over: no delimiter among those buffered before the last `fill()`, so that what
is counted is not negative, nor among those already collected. `ReaderResults` needs it,
and that a kept `io.EOF` means an exhausted source.

**`TunnelSetupProofs`.** `Flow` says that there are two positions in the bytes of the request,
where the local handler stands and where the server's does. `Local(n)` and `Server(m)`
relate them to where each handler is in its parsing, what it has in `addr` and what it
has still in front of it; `Joined` says that the tunnel holds the bytes between.
`Stages` says which states of the two handlers go together, and `Told` what the client
has been told and what was dialled. The lemmas about the encoding are of interest by
themselves: `Layout` (where each part of a request is in its bytes), `Decode` (`String`
undoes a client's encoding, for every type of address and every port) and `RoundTrip`
(`SplitAddr` and `String` undo `ParseAddr`, whatever follows the address). The
assumptions are that a host has at most 255 bytes, an IP address as many as its type
asks for, and a port is below 65536, which is what the encoding can express; and that
the proxy's own address is an IP address as net.IP writes it.

**`PacketConnProofs`.** `Fresh` (the salts in use have been drawn, and no two ends hold the same), `Mutex` and
`UnderWay` (what the buffer holds at each step of the one writer that is in it) give
`OneTextPerKey`; `Recorded` (what was sealed at an end is in its filter, if it has one, or
`Window` more salts have been added since) and `OnNetwork` (where the packets of the net come from) give `OnlyFromPeer`.

**`BufWriterProofs`.** `Accounted` is inductive once it is known that between calls there is
no argument under way. The work is in the lemmas on sequences, as each step moves a
piece from the argument to the buffer or from the buffer to the `io.Writer`. `ErrorSticks`
goes through every call: with an error set, a flush does nothing and each path but
`ReadFrom`'s ends at it.

**`ServeProofs`, the accept loops.** `CutHasCause` speaks of the moment the process ends.
`Ending` says what a process that has left its loop, or never reached it, has behind it:
a permanent error of the local proxy, or no client at all. `Uncut` carries that over to
the clients that were cut off. That the delay stays within its limit is part of
`TypeCorrect`.

**`ServeProofs`, the stand-alone handler.** `ServedAsAsked` speaks of what was dialled and of the
relay. `Handshake` says for each stage what is left of the client's bytes, as long as its
messages came whole, so that nothing of the handshake gets into the relay; `BeforeRelay`
and `InRelay` say that the relay starts with nothing passed on, and that a chunk is held
only between a read and its write. `Dialled` needs the layout of the request: the offsets at
which `Resolve` finds host and port are those of the address the client sent, behind
three bytes, for each type of address and any length of a name.

Only model-checked is liveness (`Delivered`, `Returns`, `RelayEnds`, `GoneMeansClosed`, `Served`),
which rests on fairness and is beyond the prover.

Every other property of a run that TLC finds to hold is a theorem.

## 5. What is not modelled

* Cryptography: sealing is a nonce and a flag; key derivation and cipher choice
  have no state. That the startup passes a constant password to `PickCipher` does
  not matter to these models.
* Reads of the clock other than deadlines and the cork's delay; logging; the
  shared variable `start` of the accept loops, which is written by all handlers
  without synchronisation and only feeds a log line.
* The values of the salt filter's environment variables (`PacketConn` has a filter that
  they may disable), and `BloomRing.Check`.
* An `io.Reader` that returns no data and no error for a slice with room, which its
  contract discourages: `m_bufio.Reader` calls it again and again. `delim` other than
  `\n`, and runes of more than two bytes.
* Host names that spell an IP address: `ParseAddr` would turn them into one. The two
  handlers never convert a client's name.
* `ShutdownHandler`, which nothing calls; `Server.listener`, which it closes, is never
  assigned. `m_util` and `m_debug`, which the data path does not use.
* Replies of the target in `TunnelSetup` (they are in `Relay`), and several
  requests at a time, which share nothing but the salt filter and a counter.

## 6. Plan

In this order; all of it is done.

1. `CorkedConn`, `BytePipe`, with proofs: the part where two goroutines share state.
2. `BloomRing`, with proofs.
3. `ShadowStream` and `Relay`.
4. `TunnelSetup`: the handlers from end to end.
5. `BufWriter`.
6. `AcceptLoop`: startup, both accept loops, exit.
7. `BufReader`.
8. `SocksAddr`, in `TunnelSetup`.
9. `PacketConn` and `SocksHandler`, which the program does not use.
10. Proofs of the safety properties of `AcceptLoop`, `Relay`, `PacketConn`, `BufWriter`,
    `ShadowStream` (with the refinement of `BytePipe`) and `TunnelSetup`.
11. Proofs of the safety properties of `BufReader` and of `SocksHandler`.
