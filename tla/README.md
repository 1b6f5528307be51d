# TLA+ models of the CMUX / TS 0710 multiplexer

Specifications of `lib/cmux` and of the ring buffer `lib/lwrb` under it, the TLC
configurations that check them, and proofs checked by TLAPS. Every definition
follows the C code; `PROJECT.json` names the lines each one stands for.

## 1. The system

A client and a server share one serial line. Each numbered channel (DLCI) is a
terminal; DLCI 0 belongs to the multiplexer itself. The library has no threads,
timers or retries (`readme.md:11`): a program calls an instance and feeds it the
bytes of the line, and the instance calls the program back.

| component | state | operations | modelled in |
|---|---|---|---|
| ring buffer (`lwrb.c`) | array, `w`, `r` | write, read, peek, skip, advance, reset, linear blocks | `RingIndex`, `Lwrb`, abstract `Fifo` |
| ingress buffer (`cmux_buffer.c`) | a ring of 128 bytes | ingest: write, scan, skip, read, parse, dispatch one frame | `CmuxBuffer` |
| frame builder, frame parser | none | struct to bytes, bytes to struct, validity, length | `FrameCodec` |
| frame check sequence (`crc.c`) | table | `cmux_crc` | `Crc` |
| client (`cmux_client.c`) | per DLCI: callbacks, last frame sent | start, stop, open, send, close, handler of frames | `CmuxClient` |
| server (`cmux_server.c`) | per DLCI: callbacks, last frame sent | register, stop, send, close, handler of frames | `CmuxServer` |
| service codec, service request codec, service bodies | none | struct to bytes and back, for each control service | `ServiceCodec`, `ServiceBodies` |
| dump, configuration, runner | none | logging, test entry points | not modelled |

Interaction: `cmux_*_ingest` hands bytes to the ingress buffer, which stores them in
the ring, scans the ring and calls the handler (`on_control_message`) of the client
or server. The handler calls the program's callbacks and, in the server, replies;
replies and requests go through the builder to `send_to_interface`, the line.

What is hard about it:

* **Re-entrancy.** A callback may call the instance, and a line that delivers
  synchronously (as the tests do) ingests from inside `send_to_interface` or
  `on_event`. State copied before a callback is used after it; the server calls the
  program *before* it replies.
* **Matching.** A UA does not say what it acknowledges. The client matches it to the
  last frame it sent on the DLCI.
* **Streams.** The line cuts frames anywhere, a ring takes part of what it is
  offered, flags occur in payloads, and the scan sees only the bytes before the end
  of the ring's array.
* **Boundaries.** `maximum_dlci` itself, length 128, a ring with one cell kept free, the
  bit fields of the services.
* **Failure.** A damaged frame is passed over, so requests and answers get lost; the
  program has to repeat them. A program may give up its instance and begin anew.
* **Concurrency**, in the ring: one writer and one reader without locks.

`PROJECT.json` lists each of these at its line with the properties that watch it.

## 2. The modules

```
RingIndex  <-- Lwrb (implements Fifo) <-- MCLwrb, LwrbProofs
RingIndex  <-- CmuxBuffer <-- MCBuffer, BufferProofs
FrameCodec <-- FrameCodecProofs
Crc, FrameCodec <-- FrameCheck <-- MCFrameCodec
FrameCheck, FrameCodecProofs   <-- CrcProofs
ServiceBodies <-- ServiceCodec <-- MCService, ServiceProofs
CmuxFrame  <-- CmuxClient, CmuxServer  =INSTANCE=>  CmuxLink <-- LinkProofs
CmuxLink   <-- FreeLink <-- MCFreeLink
FreeLink, LinkProofs <-- FreeLinkProofs
CmuxLink   <-- Session (implements Terminal) <-- MCSession
Session, LinkProofs  <-- SessionProofs
```

Each module that a run checks for changes in the code also holds *mutants*:
operators marked "Mutant:", never used by the specification, that are a plausible
bug in the definition after them. Each checked property is violated when one of them
takes that definition's place.

### RingIndex, Lwrb, Fifo

`lib/lwrb` is a third-party library kept in the repository; everything the
multiplexer receives goes through it, so it is modelled as the code here has it.
`RingIndex` is the index arithmetic. `Lwrb` has a writer and a reader, each with a
program counter: a call loads the indices (`Write`, `Read`, `Peek`, `Skip`), copies
one byte per step (`CopyIn`, `CopyOut`), and publishes its index (`PublishWrite`,
`Advance`, `ReadDone`). `FillLinear` and `ReadLinear` are a DMA on the linear blocks.
`Reset` needs both sides idle (`lwrb.c:333`, "not thread safe"). `sent`, `wn`, `rn`
are history variables. `size_t` does not overflow: an index is at most `2 * Size`.
The C code is assumed to run on a machine that keeps the order of its stores; the
fields are not `volatile` or atomic by default.

`Fifo` is the promise: a bounded queue that takes a prefix of what is offered and
answers with its front. The refinement reads the queue off the array.

### CmuxBuffer

`Ingest(n)` is one call of `cmux_buffer_ingest`: it writes what fits, scans the linear
block, and takes out and dispatches at most one frame. Ingests of one instance do
not overlap, therefore the ring is the queue `Lwrb` implements plus its read index.
The frame has left the ring before the callback runs, so an ingest from inside the
callback is one more `Ingest`.

Bytes are abstract: a header byte or a check sequence belongs to its header, a check
sequence matches only its own header. Payload bytes are data or flags; a payload that
contains a whole valid frame is outside the model. The line may add noise (flags)
anywhere between frames. The program offers again what was not accepted (the result of
`cmux_buffer_ingest`).

`due` is what was sent and not used up, frames and noise in their order. `Deaf` says that
the noise and the first frame of it do not fit into `Room`, the longest linear block
that can come before the read index moves: one frame over the end of the array is
enough, and so is noise that nothing passes over. `DeafForGood` says that nothing ends
this state, `DispatchesUnlessDeaf` that nothing else stops the reception.

`InOrder` is the promise to the handlers: what `on_control_message` is handed is the first
frame of `due`, whole. A queue of frames as an abstract specification would say the same
once more, so there is none.

### FrameCodec, Crc, FrameCheck

One frame at a time on the wire, byte by byte, with the real codes, FCS and lengths.
The receiver's memory keeps leftovers behind what was received, since
`check_valid_frame` reads the length field of a frame before it knows that the field
has come; what is read there is any value of `Stale`. `Damage` changes the address or
control byte. `Crc` is the table with its loop, `Remainder` the definition by the
polynomial one bit at a time. A DLCI of 64 or more arrives reduced by a multiple of 64
(`ShortRoundTrip` says exactly how). `Fcs` is a parameter of `FrameCodec`: the runs put
`Crc` in its place, the proofs of the codec use no more of it than `FcsAssumption` (it is a
byte, and a header with its address or control field damaged has another one).
`FrameCheck` joins the two: `FcsOfCrc` says that `Fcs` is `Crc`, and `FcsIsRemainder` that
the FCS byte of a received frame is the remainder of the header it was built with. It
speaks of neither UI nor UIH frames: what `cmux_frame_type.h` asks of those is not what
the builder computes (section 3).

### ServiceBodies, ServiceCodec

`ServiceBodies` has the five structs of `lib/cmux/services` with their encoders and
decoders, each a sequence of octets; enumerations and bit masks keep their values, a
field of eight bits wraps. `ServiceCodec` has the header and the length of a service
message, the dispatch on the service, and one exchange: `Ask` (the client's program
sends a request), `Hear` (the server's handler decodes it and the program replies with
what it got), `Learn` (the client's handler decodes the reply). Decoders are given a
struct of zeros, as both handlers do. A message longer than `Carried` does not arrive,
as its frame has the extended length field.

`HeardAsAsked` is an equivalence: a request arrives as it was asked if and only if
`Representable`, which lists the limits of every field. It leaves out the timers that
`parameter_negotiation.h` allows and the code's units of 100 ms cannot hold
(`BetweenUnits`); `TimerHeardAsAsked` shows what becomes of them. `Agreement` has no such
condition: whatever is lost is lost on the way there, so a client's program that takes
the values of the answer ends with the same ones as the server's.

### CmuxFrame, CmuxClient, CmuxServer, CmuxLink

One action per API call and one per stage of a handler. `last` and `options` are the
two arrays; an access outside them (DLCI = `maximum_dlci`) sets `fault`, and a value
read there is arbitrary. `calls` is the stack of handler calls that are inside a
callback: `OnControlMessage` runs to `on_event`, `EventReturn` from there to the end
(client) or to the terminal's callback (server), `CallbackReturn` sends the reply.
After its other callbacks a handler touches nothing, so what a program does in them is
what it does right after. `told` records the callbacks, and is what a program knows.
`SendFrame` records the frame and hands it to the line in one step: nothing of the client
runs between `cmux_client.c:133` and `:138`, and a line that answers inside
`send_to_interface` is the handler's step after it. That the frame is recorded *first* is
therefore part of the model, and no property could notice the other order.

`Renew` is `*_free` followed by `*_init`, outside any callback.

`CmuxLink` joins both by two ordered queues of frames: that the frames come whole and in
order is `InOrder` and `NothingLost` of `CmuxBuffer`, as long as it is not deaf. The
frames stand for their bytes: that bytes survive the codec is the matter of the modules
above, under the conditions found there.

`FreeLink`: programs without discipline, for what the library promises
unconditionally. Its history counts the requests of the client by the kind of answer they
call for (`Answers`: UA or DM of a DLCI, or the answer to a close down command), in
`asked` and, once ingested, in `answered`; `onStops` counts the calls of the client's
`on_stop`. `AnsweredOnce` and `OnStopOncePerStop` say that each request is somewhere
between the two counts exactly once. Both leave out three cases in which a comment asks for
something else than the code does (section 3): whether the answer to the DISC of a closed
terminal is UA or DM, what a DISC of DLCI 0 does, and what the client does on the server's
own close down command.

`Session`: programs as `readme.md` describes them ("the code should
wait for ..."), refined to `Terminal`, the abstract life of a DLCI: the client's
program sets a goal, the server's program hears of it, then the client's program
hears that it is reached. DLCI 0 goes through the same life by start and stop.

`Session` also has faults. `Lose` takes the first frame off a line: `check_valid_frame`
rejects a damaged frame and the scan passes over it. `Retry` is the program, which waits
for a callback that does not come (`gone` are the DLCIs whose request or answer was lost)
and asks again. It does so only after a time that is longer than any answer takes. This
is needed: with a retry while the first request is still on its way, TLC shows the UA of
the repeated SABM taken for that of a DISC sent meanwhile, and `on_terminal_close` called
while the server's terminal is open. `RestartClient` and `RestartServer` are a program
that begins anew with another instance when no request is under way; the other one hears
nothing of it, which in `Terminal` is `Forget` and `PeerForgets`. A server's program that
begins anew registers its terminals before it ingests.

## 3. The runs

| run | what it shows | bounds |
|---|---|---|
| `lwrb` | accounting, order, no common cell, refinement of `Fifo`, every published byte is read in the end | ring of 3 cells, 2 byte values, chunks of up to 3, 5 bytes |
| `free_link` | every SABM, DISC of a terminal and close down command is answered exactly once; every stop of the client makes `on_stop` run once; no bad access when DLCI `maximum_dlci` is not used | DLCIs 0, 1, and 3 above the maximum 2; 2 requests, 1 server call, 2 nested handlers, 2 frames in flight |
| `session` | one outstanding request per unreached goal, data comes only when open on both sides, refinement of `Terminal`, every callback comes, with a fault too | DLCIs 0, 1, 2; no bound on requests; 2 nested handlers, 2 frames in flight; `MaxFaults` = `MaxRestarts` = 1: 1 frame lost or 1 restart |
| `buffer` | no byte lost, dispatch in order, deaf exactly when noise and frame do not fit before the end of the array | ring of 14, frames of 6 and 7, flags as noise and as payload, 7 bytes in flight |
| `codec` | round trip, no early acceptance, damage rejected, FCS of commands and responses = remainder by the polynomial, bytes written = bytes allocated | all types (UI without and with a body), DLCIs 0, 1, 63, 64, 255, bodies of 0 to 3, 127 and 128 |
| `service` | bytes written = bytes allocated, the length is found, a request arrives as asked exactly when its fields have room, both sides agree | each field at its limits and beyond; all sets of port parameters, of signals, of services and codecs; test patterns up to 200 |

Why the bounds are enough: three cells hold two bytes, so both indices wrap at every
phase and a chunk may exceed the space; the theorems below remove the bound for the
safety properties. The ring of 14 is two frames and a bit, with frames of two
lengths, so every offset of a frame to the end of the array occurs. Two requests on
one DLCI are what it takes to confuse acknowledgements, two terminals what it takes to
interfere, two nested calls what it takes to finish out of order. The state of a
`Session` is finite without a bound on the number of requests. Two lost frames were
checked once, without restarts (40 054 states, no error), and left out of the run for its
time; the proofs cover any number of lost frames. With two faults of which one is a restart,
data may come when neither program knows of its terminal (the server's begins anew, then the
client's, while data is on the line; or the UA before the data is lost and the server's begins
anew): `ServerDataWhenOpen` and `ClientDataWhenOpen` speak of a restart that no other fault
joins. `MaxRestarts` bounds the restarts among the `MaxFaults` faults. Seven bytes
on the line hold a frame, or as much noise as moves it over the end of the array.
Lengths, DLCIs and service parameters are at the limits of their fields.

`CHECK_DEADLOCK` is never switched off.

**Fairness.** `Session` and `FreeLink!FairSpec` assume that the line delivers (weak
fairness of both ingests) and that a callback returns even when the line keeps
delivering to the same side from inside it (strong fairness per depth of the stack):
nothing in the library waits or loops. No program is assumed to begin anything; the
client's program of `Session` does repeat a lost request in the end (strong fairness of
`Retry`: its timer expires again when the line was busy), and the line stops losing
frames, as faults are bounded.
`Lwrb!FairSpec`: calls that were begun end, and the reader comes back to `lwrb_read`.
`CmuxBuffer!FairSpec`: the peer keeps sending frames however much noise there is, the
program keeps ingesting; the property says that even then the only way to stop is the
deaf ring.

### What the code does not do

Runs with `expect: violation` check one sentence of a comment each and TLC shows the
behaviour that contradicts it (`findings` in `PROJECT.json` has the quotes):

* `buffer_wrap`: a frame over the end of the array is never found, and nothing after it.
* `buffer_batch`: one ingest dispatches one frame, the second waits for more bytes.
* `codec_extended`: the length field from 128 up is written and read with different shifts.
* `free_link_slot`: DLCI `maximum_dlci` passes the check and has no array element.
* `free_link_server_close`: the client does not answer a DISC, so a terminal that the
  server's program closes is never confirmed.
* `service_timer`: the acknowledgement timer goes out in units of 100 ms, so that 10 ms
  become 0.

Other places where a comment and the code part, seen in the code and listed as
hazards, without a run of their own. The models have what the code does; where a property
comes near, the entry says what it makes of the case.

* a DISC of DLCI 0 is ignored (`cmux_server.c:121`), against `cmux_frame_type.h:50-51`,
  "DISC command sent at DLCI 0 have the same meaning as the Multiplexer Close Down command":
  `AnsweredOnce` does not count it;
* a DISC of a terminal that is closed is answered UA (`cmux_server.c:127`), against
  `cmux_frame_type.h:39`, "If a DISC command is received while in disconnected mode a DM
  response should be sent": `AnsweredOnce` takes either for the answer;
* the client's `on_stop` also runs for the server's own close down command
  (`cmux_client.c:70`), against `cmux_client.h:98` and `:128`, "called when received an
  acknowledge for cmux_client_stop": `OnStopOncePerStop` does not count those calls;
* the FCS of a UIH frame covers the length field as well (`cmux_frame_builder.c:78`,
  `cmux_frame_parser.c:170`), against `cmux_frame_type.h:60`, "For the UIH frame, the FCS shall
  be calculated over only the address and control fields". Builder and parser agree, so two
  instances of this library do not notice: `FcsIsRemainder` leaves UIH out;
* the FCS of a UI frame is computed before its body is copied (`cmux_frame_builder.c:74`),
  over memory fresh from `malloc`, against `cmux_frame_type.h:75`, "For the UI frame, the FCS
  shall be calculated over all fields (Address, Control, Length Indicator, Information)", so
  that the parser may reject it: `ShortRoundTrip` and `FcsIsRemainder` leave UI out;
* the extended length of a service is written and read with different shifts
  (`cmux_service_codec.c:62` and `:117`), like that of a frame: `LengthSurvives`;
* a service negotiation for data, which has no codec, arrives as a query
  (`service_negotiation.c:50`);
* for a program that does not wait, a UA may call `on_terminal_open` for an earlier
  SABM (`cmux_client.c:86`);
* data sent inside the server's `on_terminal_open` overtakes the UA (`cmux_server.c:114`).
  The server's program of `Session` therefore sends after the callback has returned
  (`InCallback`); without that guard `ClientDataWhenOpen` fails.

`ServerDataWhenOpen` is about data when it comes in. Its callback can still run late: a
DISC ingested inside the `on_event` of a data frame is handled before that data.

## 4. The proofs

All safety properties of the passing runs are theorems, and so are the two
refinements (the safety part, which is all that `Fifo!Spec` and `Terminal!Spec` say). Each is
proved for every value of the constants, from the assumptions that stand beside the
constants; a theorem with a hypothesis of its own names it below. Behind each group stands
one inductive invariant.

### The ring: LwrbProofs

For every size of ring, every set of bytes and every bound: `LwrbTypeOK`,
`LwrbAccounting`, `LwrbReadsInOrder`, `LwrbNoDataRace`. None of these is
inductive alone. The invariant `LwrbInv` adds what each running call still relies on:
what the writer may copy fits in the space that is free *now* (the reader can only
have added to it since the writer looked), what the reader may copy is published
*now*, and the cells from `r` on hold the bytes of `sent` from `rn` on, those copied
but not published included. The arithmetic of two wrapping indices is in lemmas on
`RingIndex`; each action then has its own step. Assumptions: `SizeAssumption` and the
bounds are natural numbers.

`LwrbImplementsFifo` is the refinement. `FifoInv` adds to `LwrbInv` that the bytes copied so
far are the first of the chunk that is being written (`CopiedInv`), and that a call under way
moves a byte at least (`CallsInv`). The queue of `Fifo` is read off the array between the
published indices; the copies of the writer go to cells outside of it and leave it alone,
the step that publishes an index puts or gets a whole chunk. That the contents of the
array before and after differ by this chunk is where the sequences are compared element
by element.

### The ingress buffer: BufferProofs

For every size of ring, every set of headers with any payload lengths, and payloads and
noise as in `BytesAssumption`: `BufferTypeCorrect`, `DispatchedInOrder` (`InOrder`),
`DeafIsForGood` (`DeafForGood`), `NoByteLost` (`NothingLost`).

`NothingLost` says that ring and line together are the flattened sequence of what is due. A
recursive flattening cannot be unfolded here, so the invariant says the same by offsets:
`LaidOut(c, due, off)` means that each frame and each piece of noise that is due lies in `c`
from its offset on, one after the other, up to the end (`StreamInv`). The scan is then shown to find what it
should (`Finds`): the address byte of a header occurs in this stream only as the second
byte of its frame, so the first place where the ring matches a header, with the FCS
and the flag where its length says, is the first frame that is due and everything before it is
noise; and a frame whose end is not in the linear block matches nowhere. Removing both keeps
the layout. `NoByteLost` comes back from the offsets to the flattening by a least
counterexample, for want of induction.

### The frame codec: FrameCodecProofs

`ShortLengthDecodes` and `ExtendedLengthNeverDecodes` say which
lengths survive the wire (0 to 127: all; 128 to 65535: none), `AddressDecodes` which
DLCIs (all below 64; others lose a multiple of 64), `ControlDecodes` all types.

`PartIsNeverValid` is `NeverEarly` for frames with the short length field (`ShortInfos`), any
leftover memory and any damage to the header. Its invariant `LengthOnWire` says that the
received cells and the rest of the wire together have the flag, the length byte and the total
length of a built frame; with that, a block that satisfies `check_valid_frame` cannot be
shorter than the frame: had the length byte not come, at least six bytes would be needed all
the same, and it is the fourth.

The other theorems rest on `FrameInv`: the received cells and the wire together are, byte
for byte, what the builder made of `info`, or that with one byte of the header changed if
`damaged`. From it follow `FrameTypeCorrect`, `FrameMemory` (`FitsAllocation`, all lengths, UI
frames too), `ShortFramesRoundTrip` (`ShortRoundTrip`, no further hypothesis, by the decoding
theorems) and `DamageIsRejected` (`DamageRejected`). The last one has the hypotheses
`ShortInfos` and `NoUIInfos`: the code decodes extended lengths wrongly and computes the FCS of
UI frames too early, so what is compared with the FCS there is another byte or another
range. Assumptions: the
fields have the types of their struct, and `FcsAssumption`.

### The frame check sequence: CrcProofs

`TableIsEightShifts` compares the 256 entries with what eight steps of the shift register make
of their index: `ShiftValue` writes one step without the exclusive or, as what the two bits
that it flips add or take away, and with that the prover evaluates all of them.
`CrcIsRemainder` follows for sequences of any length: both loops satisfy the
recursion of one register (`IsRegister`), and there is one function that does
(`RegisterExists`, `RegisterUnique`, by a least counterexample). `CrcTellsBytes` says that one
byte changed anywhere changes the FCS: registers that differ go on to differ, as the step is
one to one. Therefore `CrcMeetsAssumption`: for the FCS of `crc.c` nothing has to be assumed,
whatever `Infos` and `Damages` are, and the theorems of `FrameCodecProofs` hold for it.
`FramesCarryTheRemainder` (`FcsIsRemainder`) takes the position of the FCS byte from
`FrameInv`; its hypothesis `FcsOfCrc` says which `Fcs` it is about. Like the property it is
about frames of types other than UI and UIH.

### The services: ServiceProofs

For every set of requests (`RequestsAssumption`: the parameters have the
types of their structs, test patterns any length): all five properties of `ServiceCodec`,
as `ServiceTypeOK`, `ServiceMemory`, `ServiceLengths`, `ServiceHeard`,
`ServiceAgreement`. Three facts about each of the six bodies carry them: the
encoder writes as many octets as the length function counts (`...Octets`), the decoder
gives back the value if and only if the fields have room (`...Survives`), and what it
gives is encoded to the same octets again (`...Again`). `MessageDecodes` finds header,
length and body in a message. None of the properties is inductive, as none says what is on the
line; the invariant `Exchange` does: first the encoding of `asked`, then that of the
answer to `heard`, where `heard` is `Decoded(asked)` and decodes to itself (`Settled`).
`Agreement` follows from the last part: the way back starts from values that already
went through a decoder. `ServiceHeard` leaves the timers of `BetweenUnits` open, as the
property does.

### The link: LinkProofs, FreeLinkProofs

`LinkProofs` has the lemmas both kinds of programs need: `Count` of a queue after `Append`,
`Tail`, `Front`, and the cases of the handlers' replies.

`FreeLinkProofs`, for any set of DLCIs, any number of requests and any nesting of
callbacks (`LinkAssumption`): `FreeLinkTypeCorrect`, `EveryRequestAnsweredOnce`
(`AnsweredOnce`), `OnlyTheMaximumFaults` (`NoFault`) and `EveryStopCallsOnStopOnce`
(`OnStopOncePerStop`).
`AnsweredOnce` counts requests and answers, and a step keeps the count only if every frame on
its way to the server is one that the client sends and every call that has called back will
reply with what its request calls for; `QueueInv` says this of each queue and stack.
`OnStopInv` is the same count with the client's calls for the answers to its stops in
place of `answered`. Nothing is claimed of a DISC of DLCI 0, which gets no answer, nor
of the server's own close down command.
`OnlyTheMaximumFaults` has the hypothesis `MaximumDlci \notin Dlci`: a program that uses the
DLCI `maximum_dlci` does fault (`free_link_slot`), and that is the only one that does.

### The session: SessionProofs

For any terminals, any number of requests, faults and nested callbacks
(`SessionAssumption`: DLCI 0 and terminals that have an element): `RequestsAreSingle`
(`OneOutstanding`) and `SessionImplementsTerminal`. `SessionInv` is needed because
`OneOutstanding` counts what is under way but does not say what it is:

* `QueueInv`: each request under way is for the *current* goal of its DLCI, each answer too,
  and from the callback of the server on its program has heard of that goal;
* `ClientKnows`: the last frame that the client sent on a DLCI with an open goal is its
  request, so that the UA is matched to it;
* `ServerKnows`: nothing is opened before the server's program has registered.

Under it every step is one of `Terminal` or none: the event that tells the server's
program is `Comply`, the answer that the client's handler takes is `Confirm`, a restart is
`Forget` or `PeerForgets`.

`ServerGetsDataWhenOpen` and `ClientGetsDataWhenOpen` are about the order of data and requests
on the line. They have the hypothesis that `MaxRestarts` is 0 or `MaxFaults` is at most 1: they
hold for any number of lost frames and repeated requests, and for one restart, and are false of
a restart that another fault joins (section 3). `DataInv` says of each terminal:

* `InStep`: without a restart, a client's program whose goal is reached and the server's were
  told the same; without any fault, also until the server's hears of the next request (a
  repeated request may be one that the server's program heard of already);
* `UpInv`: data on its way up is behind no request (a program that asked for a close sends
  nothing), and while there is any, the server handles nothing of that terminal and no answer is
  on its way down; without a restart both programs were told that the terminal is open, lost
  frames or not;
* `DownInv`: data that has an answer ahead of it is of a terminal that is being opened, data
  that has none is of one that the client's program knows is open.

### Only model-checked

* All liveness (`NothingStuck`, `DispatchesUnlessDeaf`, `CallbackComes`): fairness and `ENABLED` are beyond
  the prover.
* What the code gets wrong: each run that expects a violation shows one behaviour.

## 5. Not modelled

A restart with requests under way (a late UA would be matched
to the new instance's request; the library has nothing to tell them apart), more than
one fault at a time in one run, a payload that contains a whole valid frame. `cmux_buffer_free` and `lwrb_free` (they end an instance;
`Renew` has what follows), the event callback of
`lwrb` (unused here), logging and dumps, NULL checks and the magic words, failure of
`malloc` (the code does not check it), custom requests and replies of programs other
than the answer of `ServiceCodec`. Break and extended octets of services, which the code
does not read.

## 6. Plan

Done: ring, buffer with noise, codec, FCS, services, link, session with loss, retry and
restart; every safety property of the passing runs and the two refinements proved. Next, in this
order:

1. `CmuxBuffer` composed with the handlers (bytes end to end, small frames): that the
   findings of the buffer stall a session; that a frame which a ring does hand over is the
   next of `CmuxLink`'s queue is `DispatchedInOrder`.
2. The two data properties of `Session` for a restart among other faults, stated by what
   each program was told before it.
