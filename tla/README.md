# TLA+ models of the HIL-RIG protocol library

This directory specifies the C library in this repository. Its lower half is the MVP
transport profile, the protocol by which a PC (the *host*) and a test rig (the *rig*) keep one
session and exchange application messages over an unreliable byte stream. Its upper half is the
codec of those messages: sixteen families, from a system information request to a run report,
each with a byte layout, validation rules and a storage requirement. The models are translated
from the code under `src/src/transport` and `src/src/application` and its headers; the documents
under `docs/` are used only to state what the code is expected to do.

## 1. Inventory

| part | state it keeps | operations | depends on |
|---|---|---|---|
| Reliability lifecycle (`transport_reliability_mvp.c`) | the sole retained frame, its phase (idle, ready, peeked, awaiting ACK, retransmit ready, retransmit peeked, exhausted), retry count, time of last commit, transmit sequence | publish, peek, commit, accept ACK, process timeout, request retransmission, reset | called by everything that sends |
| Control slot (`transport_control_output_mvp.c`) | one coalesced ACK or one RESET | publish, peek, commit, reset | output arbiter |
| Output arbiter (`transport_output_mvp.c`) | which slot is pinned between a peek and its commit; the identity owed a RESET | validate, peek, commit, reset | the two above |
| Event FIFO (`transport_events_mvp.c`) | bounded queue of events | publish, check capacity, read | every coordinator |
| Session coordinator (`transport_session_mvp.c`) | link state, session state, identity, identity cursor, last abandoned identity, receive baseline | begin establishment, abandon, explicit reset, notify link, classify and accept a sequence | output, events, parser |
| Handshake coordinator (`transport_handshake_mvp.c`) | phase, sequence of the completed CONFIRM | handlers of INITIATE, RESPONSE, CONFIRM, ACK and RESET; handshake process; local recovery | session, output |
| Application delivery (`transport_application_mvp.c`) | the submitted message, the unread received message | submit, acknowledge, receive, read, retry exhaustion | session, output, events |
| Receive coordinator (`transport_receive_mvp.c`) | a retained decoded-or-not body, a deferred protocol error | receive bytes, process retained body, advance recovery | parser, codec, handshake, application |
| MVP profile (`transport_profile_mvp.c`) and facade (`transport.c`) | the root record of one context | the public API | all of them |
| Stream parser (`transport_stream_parser.c`) | the bytes of the current body, whether a body is ready, whether an oversized one is being skipped | push a byte or bytes, read, consume, reset | receive coordinator |
| Frame codec (`transport_frame_codec_mvp.c`), COBS, CRC | none; the sizes of the storage regions are computed at `Init` | required sizes, encode, decode, validate | receive coordinator, output |
| Application codec (`application*.c`) | a context: the configured limits | init, encoded size, encode, decode storage size, validate encoded, decode, validate | sits above the transport |
| Python package and CFFI binding | owner of one context | wrappers of the API | C library |
| Extended profile | skeleton no build compiles | | |

How they interact: there are no threads or callbacks inside the library. One owner calls the
public API; every call runs to completion, so a call is atomic. What is concurrent is the
*order* of calls (application, I/O loop, clock and incoming bytes arrive in any order), the
caller's writing of peeked bytes between `Peek_Output` and `Commit_Output`, and the peer.
Slots have capacity one (a reliable frame, a control frame, an unread message, a retained
body) or a few (events), so most handlers first ask whether every slot they need is free, and
refuse without effect (backpressure) when one is not. The application codec keeps nothing
between calls but its limits; what interacts there are two contexts that may be configured
differently and the bytes from one to the other.

The hard behaviours, each listed with its line under `hazards` in `PROJECT.json`: an ACK,
timeout or recovery between a peek and its commit; a late, repeated or lost frame in each
handshake phase; a handler that finds one of the slots it needs occupied; a full event queue
in the middle of recovery; the RESET of a failed session that must not be overtaken; the wraps
of sequence, clock and session identity; reconnection of one side only while frames of older
sessions are in flight; bodies that damage merges, splits or makes longer than the buffer,
while the receiver keeps one body back for lack of room; sizes that are computed in advance by
one formula and used up by other code; and four readings of each application layout (size,
encoder, storage scanner, decoder), written apart and required to agree.

What makes the parts correct:

- output: what is committed is what was copied; retries are bounded and exactly timed; an ACK
  completes only what was sent; a RESET is a barrier; no order of calls trips the code's own
  consistency checks; only control output without end can keep a reliable frame waiting;
- parser and frames: each body is read whole or reported discarded, at its delimiter; storage
  regions fit what was handed over; an encoding fits its region; damage stays with the frames
  it touches; no bytes block the receiver;
- application codec: sizes and storage answers are exact; what was encoded is given back by a
  receiver whose limits allow it; validation and decoding agree; no two encodings of a message;
- endpoint: no legal call and no peer input faults it; a refused body has no effect; an
  accepted message waits for its reader; no ACK without acceptance; every outcome is reported
  and no event dropped; an owed RESET is sent;
- two ends: messages arrive at most once and in order, a confirmed message did arrive, a host
  never believes in a session its rig did not join, both sides meet in one session, every
  submission is decided.

## 2. Modules

```
TransportTypes ── OutputArbiter ─┬─ ReliableOutput ── MCReliableOutput
                                 └─ TransportSession ── TransportHandshake ── TransportReceive
                                        ── TransportProfile ─┬─ TransportEndpoint ── MCTransportEndpoint
                                                             └─ TransportPair ── MCTransportPair
OutputArbiter_proofs ─┬─ ReliableOutput_proofs                 (each also extends the module
                      └─ TransportProfile_proofs                it is named after)
                               ├─ TransportEndpoint_proofs
                               └─ TransportPair_proofs
MessageService (abstract, INSTANCEd twice by TransportPair) ── MessageService_proofs

BodyParser ─┬─ StreamParser ─┬─ MCStreamParser          SegmentStream (abstract,
            │                └─ StreamParser_proofs       INSTANCEd by StreamParser)
FrameCodec ─┴─ FrameLink ─┬─ MCFrameLink
                          └─ FrameLink_proofs

ApplicationTypes ── ApplicationValidation ── ApplicationEncoding ── ApplicationDecoding
        ── Application ── ApplicationExchange ── MCApplicationExchange
```

A C handler that takes `root` and changes it is an operator from the endpoint record to the
endpoint record, or to `Result(endpoint, status)` where callers branch on the status. Operator
names are the C names without their prefix, record fields those of the C structs, shortened.
The same operators serve the single endpoint and the pair; the parser's operators serve the
parser alone and the link of frames.

| module | models | correspondence |
|---|---|---|
| `TransportTypes` | frame types, identities, sequences | a frame is the record of its header fields and payload; `ValidFrame` is `Validate_Frame` |
| `OutputArbiter` | reliability, control slot, arbiter | `out.rel`, `out.ctl`, `out.sel`, `out.resetId`, `out.nextTx`; `Output_Coherent` is the validation each call starts with |
| `ReliableOutput` | state machine of the above with a wrapping clock | one action per reliability, control and arbiter call; `copied`, `wire`, `age` record what the outside saw |
| `TransportSession` | session coordinator, event FIFO | `Begin_Establishment`, `Abandon`, `Explicit_Reset`, `Session_Notify_Link_State`, `Session_Classify_Sequence` |
| `TransportHandshake` | handshake coordinator | one operator per handler; the guards are kept in the code's order where the order decides the outcome |
| `TransportReceive` | application delivery, receive coordinator | `Receive_Bytes` is one call with one complete body, an incomplete body, an oversized one, or nothing |
| `TransportProfile` | profile | `Profile_Process`, `Profile_Reset`, `Profile_Peek_Output`, `Profile_Commit_Output`, `Profile_Get_Status` |
| `TransportEndpoint` | one context, arbitrary calls, arbitrary wire | one action per public call |
| `TransportPair` | host, rig, two streams, two applications | `Deliver` receives, `Commit` puts the peeked body on the wire, `Lose`/`Damage`/`Truncate`/`Disconnect` are the environment |
| `MessageService` | what the transport promises about messages in one direction | the specification `TransportPair` is proved to implement |
| `BodyParser` | stream parser | one operator per call, from the parser to the parser and its result; the accumulated size is `Len(body)` |
| `StreamParser` | the parser under every order of calls | one action per call; `segment`, `told` and `taken` record what the outside saw |
| `SegmentStream` | what the parser promises: every nonempty segment between zeros is held out whole or reported discarded | the specification `StreamParser` implements |
| `FrameCodec` | storage sizes, COBS, frame encoding and decoding | `Regions`, `Required_Storage_Size`, `COBS_Encode`/`COBS_Decode` and `Encode_Frame`/`Decode_Frame_View`, over bytes; run length and `size_t` are parameters |
| `FrameLink` | two configured contexts, the bytes between them, the receive loop | `Profile_Init`, `Send`, `Receive` of any chunk with any room; `Change` and `Drop` are the environment |
| `ApplicationTypes` | families, statuses, limits, byte layouts as memories | a number occupies its offset with its width and is read back only there |
| `ApplicationValidation` | body validators | one operator per family, rules in the code's order |
| `ApplicationEncoding` | body sizes, body encoders, layouts as written | `..._Written` tables are the encoder's offsets |
| `ApplicationDecoding` | storage scanners, body decoders, layouts as read | `...Read` tables are the decoder's offsets, taken from the decoder only |
| `Application` | the seven public calls and the common header | one operator per call, from a context and arguments to the status and what is published |
| `ApplicationExchange` | a sender, a receiver, bytes between them that may be damaged | one action per call; one action per kind of damage |

Abstractions. In the endpoint and the pair a body on the wire is a frame, or `MalformedBody`,
or `OtherVersionBody`: COBS and CRC either return what was encoded or reject, so bytes and
valid frames correspond one to one. That correspondence is what `FrameLink` examines on bytes:
there a frame has a version, a type and a message, COBS runs end after `RunMax` bytes instead
of 254, and the checksum is an arbitrary function of the bytes. In the application codec the
enumerations keep the code's numbers, a number is one cell of a layout however many bytes it
takes, and the bytes of a span matter only where the code looks into them (the operation
records). Every field of every family has its place in both layouts.
Payloads are model values, or message numbers in the pair. Flags that say that a
value is present are folded into the value. In `TransportEndpoint` and `TransportPair` whether
the retransmission timer has expired is an input of `Process`; the arithmetic of the clock is
in `ReliableOutput`.

`Broken variant` definitions are operators no specification uses. Each is its neighbour with a
plausible mistake in it; substituting it makes one property fail, which shows that the property
depends on that code. `PROJECT.json` pairs each property with one.

## 3. Model-checking runs

| run | module | states | what it shows |
|---|---|---|---|
| `reliable_output` | `MCReliableOutput` | 25 thousand | the output side under every order of calls, with sequence (mod 4) and clock (mod 4) wrapping |
| `endpoint` | `MCTransportEndpoint` | 255 thousand | one endpoint, either role, every order of API calls, arbitrary frames |
| `reserved_identity` | `MCTransportEndpoint` | stops at the violation | the first finding of section 5 |
| `pair_faults` | `MCTransportPair` | 84 thousand | one body lost, damaged or cut short, or one link loss or reset of one side: half-believed sessions never arise, nothing under way can be taken for part of the next session, host messages arrive once and in order, the sides converge, messages are decided |
| `pair_early` | `MCTransportPair` | 407 thousand | early timer and a body lost, damaged or cut short, a message in each direction: both directions refine `MessageService` at once (`ServesBothWays`) |
| `pair_recovery` | `MCTransportPair` | 400 thousand | hard recovery from anywhere a one-sided reconnection leads, with a rig message in flight or with a body lost, damaged or cut short; identities wrap |
| `pair_partial` | `MCTransportPair` | stops at the violation | the second finding of section 5 |
| `stream_parser` | `MCStreamParser` | 2 thousand | the parser under every order of calls refines `SegmentStream` |
| `frame_link` | `MCFrameLink` | 76 thousand | configurations good and bad; three frames as bytes in any chunks, one byte lost or changed, a receiver that may lack room |
| `application` | `MCApplicationExchange` | 118 thousand | all sixteen families with each field varied, four receivers, buffer and storage sizes around each limit, one damage to the bytes |
| `application_status` | `MCApplicationExchange` | stops at the violation | the third finding of section 5 |
| `application_record` | `MCApplicationExchange` | stops at the violation | the fourth finding of section 5 |

Deadlock is checked in all of them.

Bounds. `SequenceModulus = 4` starting at 3 makes the first increment wrap; four values are
the fewest on which expected, duplicate, stale and incompatible are all different. One endpoint
needs two identities to tell current from abandoned, and the third is the reserved one, which
the codec lets through; `MaxSessionId = 2` makes the cursor wrap. Two events of capacity are
fewer than a call sequence can produce and as many as one call needs. `MaxRetries` is 1, and 2
in `reliable_output`, so that not giving up is also seen. The frames an endpoint receives carry
the sequences at which a handshake opens (3), those that follow (0, 1, 2) and one that is out
of place for their type. In the pair the channels hold two bodies each: an endpoint can have
one reliable and one control frame unanswered. Faults, breaks, early timeouts and messages are
budgets; each combination in `Scenarios` (`MCTransportPair`) is chosen so that the repeated or
late frames of one session meet the next one: a fault and a message each way, or a break and
two host messages (`pair_faults`); a fault, an early timer and a message each way
(`pair_early`); a break, a hard recovery and a rig message, or a break, a fault and a hard
recovery (`pair_recovery`). Identities run to 6 except in `pair_recovery`, so that a stale body
never bears a reused identity, which `Fresh` checks in `pair_faults` (with 64 bits a reuse needs
2^64 sessions); `pair_recovery` uses 3 and wraps on purpose.

The parser has room for 3 bytes and is offered segments up to 5: empty, shorter than, exactly
as long as, one longer and two longer than the buffer. `FrameLink` has runs of 3 and frames of
2 to 4 bytes with checksum, so that a run ends before, at and after the end of a frame and a
zero stands in every place; a `size_t` of 6 bits wraps at the last region of one of the
configurations; chunks of 0, 1, 2 or all bytes cut the stream everywhere. The results reached
are VALID, MALFORMED, INTEGRITY_INVALID and DISCARDED; both ends speak one protocol version, so
SESSION_INCOMPATIBLE needs a damaged byte with a matching checksum and is not among them. An
application exchange starts from one or two good messages of each family (`Base`), replaces
each number by values at its limits (`Varied`), and offers the encoder one byte too few, the
exact size and one more, the decoder the like; damage replaces any one number of the header or
body, resizes the payload by one byte with or without its header, or changes the family. One
channel of each peripheral and two digital ones show a misplaced field; `AbsoluteMaxMessage =
320` is above and below different configurations.

Fairness. `LiveSpec` assumes that each application keeps running its service loop while there
is something for it to do (report the link, peek, commit, deliver, `Process`, drain events and
messages), the loop `docs/transport_layer/transport_layer.md` asks of the integrator: one weak
fairness condition per side, none for a particular handler, none for submitting, losing or
disconnecting. `CanStep(r)` writes its `ENABLED` out as a condition TLC evaluates quickly.
`Timeout` is enabled only when no answer can come any more (`Quiet`), that is, the configured
timeout exceeds a round trip; `EarlyTimeout` is the exception, with a budget and no fairness.

`FairSpec` of `ReliableOutput` assumes of the caller that it keeps peeking with a buffer that
suffices and keeps committing what it peeked. `StarvedOnlyByControl` then says that a reliable
frame does not wait for ever, unless control items are published for ever. The exception is
needed: without it TLC finds the starvation, since the arbiter gives control output
precedence each time.

## 4. Proofs

The assumptions are those of the modules: the sequence modulus is even and at least four, there
are at least two session identifiers, capacities are positive, the timeout is less than the
modulus of the clock; messages, bodies and scenarios are any sets of the right kind. No proof
assumes that a set is finite or fixes a number.

| proof module | about | obligations |
|---|---|---|
| `OutputArbiter_proofs` | what each output operation returns from a coherent record | 140 |
| `ReliableOutput_proofs` | the output side with its clock: seven theorems | 532 |
| `TransportProfile_proofs` | one lemma per operation of the coordinators, and the moves they make | 3996 |
| `TransportEndpoint_proofs` | one endpoint under every call and input: all its properties | 414 |
| `TransportPair_proofs` | two endpoints and a wire: no half-believed session; each direction implements `MessageService` | 4118 |
| `StreamParser_proofs` | the parser implements `SegmentStream` | 458 |
| `FrameLink_proofs` | the storage layout | 140 |
| `MessageService_proofs` | what the abstract service means | 52 |

### Output

`OutputArbiter_proofs` says of each operator of the arbiter, the reliability slot and the
control slot what it returns when the record passes the code's own validation
(`Output_Coherent`): the type, that the result passes it again, and what stays. Both the output
side and the endpoint cite these lemmas; neither expands the operators again.

`ReliableOutput_proofs` proves for every modulus, retry limit, timeout, set of offered frames
and number of sessions: `TypeOK`, `NeverFaults`, `PinnedUnchanged`, `TransmissionBound`,
`ResetBarrier` and `TimeoutExact` are invariant and every step satisfies
`CompletionWasTransmitted`. The argument is one inductive invariant,

    IInv == /\ TypeOK /\ Valid /\ NeverFaults /\ PinnedUnchanged /\ TransmissionBound
            /\ ResetBarrier /\ AgeIsElapsed

`Valid` is the code's own validation of its output metadata. It is needed because a call on
invalid metadata faults, so `NeverFaults` says nothing of the next step; and because it relates
the selection to the phases (`sel = "RELIABLE"` exactly in a peeked phase), without which a
commit could account for a frame nobody copied. Conversely the validity of a RESET barrier
needs `ResetBarrier`: nothing else says the control slot still holds it. `AgeIsElapsed` relates
the modular difference the code computes to the true time since the last commit; `TimeoutExact`
follows from it. There is one lemma per action (`PublishReliableStep`, ...,
`CommitOutputStep`), each proving first what the action's operator returns, then one step per
conjunct it can disturb; a repeated peer frame and an expired timer share `RetryOrExhaustStep`,
as in the code.

### One endpoint

`TransportProfile_proofs` and `TransportEndpoint_proofs` prove all properties of the run
`endpoint`, five invariants and five action properties, for both roles, any order of public
calls and any bodies. The inductive invariant is `Sound(e) /\ HeldOK(e)`:

| conjunct | says | needed because |
|---|---|---|
| `Output_Coherent` | the validation each call starts with passes | otherwise the next call faults |
| `LifeOK` | session state, phase, role, link and identifier agree | every handler dispatches on the phase while the facade tests the state |
| `RetainedOK` | the retained frame is the one the phase waits on, of this session, with the submitted message | an ACK that completes another kind of frame is an internal error in the code |
| `ControlOK` | an ACK on offer is of the last accepted frame; a RESET on offer is the one owed | publishing into the slot must not replace something else |
| `WorkOK` | the receive baseline, an unread message and a remembered CONFIRM belong to the phase | `Completed_Confirm_Valid` faults on a CONFIRM remembered outside a session |
| `ParserOK` | a body is held exactly when READY; an owed diagnostic never coexists with one | a diagnostic of one body must not be charged to the next |
| `IdentityOK` | the host's cursor is one ahead of its session, and that one ahead of the abandoned one | the only reason an identifier that is discarded as stale cannot be the current one |
| `HeldOK` | no RESET of the current session is held between calls | such a RESET acts in the call that brings it; held back, it would replace the session in a later `Process` |

`HeldOK` is kept only from call to call, the rest by every operation inside a call; TLC found
both facts before they were proved. The intermediate states between two operations of one call
are not states of the model, so the lemmas are about operators (`Sound(e) => Sound(Op(e))`),
one for each operation of the session, handshake, delivery, receive and output coordinators,
and the lemma of a public call composes them in the order of the code.

Action properties need to know what a call may do to the caller's work. Four relations say it,
each proved of every operation and composed along a call: `Follows` (still in the session, or
the session was left and its RESET is owed; what was submitted is there or was reported; events
only grow), `Leads` (a receive call: a body may also have replaced the session), `Ends` (the
link or the peer ended the session) and `Replaced` (the peer's RESET came and the next attempt
started). `OutcomesAreReported`, `AcceptedMessageIsKept`, `OwedResetIsSent`, `EventsAreNotLost`
and `RefusedBodyHasNoEffect` follow by cases over the public calls.

The proof explains `NeverFaults`: the many `INTERNAL_ERROR` branches of the coordinators are
dead code as long as the caller keeps to the public API, for every configuration.

### Two ends

`TransportPair_proofs` proves `HostSessionWasJoined` with no bound on faults, link losses,
explicit resets, early timers, messages or channel length, and without assuming that
identifiers are fresh: also a host whose identifiers have wrapped believes only in sessions its
rig established. The invariant adds to `Sound` and `HeldOK` of both ends

- `chan["HOST"] \in Seq(VouchedBodies(joined))`: every ACK and message on its way to the host
  names a session in `joined`. It is kept because the rig offers these two kinds only when it is
  established, and then of its own session (`Offering`, from `ControlOK` and `RetainedOK`);
- `Trusting(node["HOST"], joined)`: the host's session, if established, is in `joined`, and so is
  the one a body it holds back names. The second half is needed because a body is handled calls
  after it left the wire;
- the rig's own session is in `joined`, which only grows.

That no operation but the two that complete the handshake leads a host into a session is one
lemma per operation again (`TrustAbandon`, ..., `TrustProcessing`). They use nothing of `Sound`.

### The message service

The second half of `TransportPair_proofs` proves the refinement, in three steps:

| theorem | says |
|---|---|
| `AlwaysFresh` | `Spec /\ IdentifiersLast => []Fresh` |
| `HostToRigImplemented`, `RigToHostImplemented` | `Spec /\ []Fresh => HostToRigService`, and the other direction |
| `ServiceImplemented`, `MessagesArriveOnce` | from both: `Spec /\ IdentifiersLast => ServesBothWays`, and with `MessageService_proofs` what it means to the two applications |

There is one hypothesis, `IdentifiersLast`: the cursor of `Session_Begin_Establishment` does not
go back to 1; the code relies on there being 2^64 - 2 identifiers. Without it `Fresh` is false:
with two identifiers an old body soon bears the next one. Whether the order of the wire alone
would then still keep a repetition from being accepted is open; the proof does not need it, and
TLC found no counterexample with two identifiers and the budgets of `pair_faults`. The model
starts the cursor at 1, the code at the configured seed. Faults, losses, early timers, hard
recoveries, messages, sequence width, retries and the length of the channels are not bounded,
and sequences wrap. All that is used of the hypothesis is `Fresh`: the host's `nextId` is on no
body on the wire or held by an endpoint, and is not the rig's session. `AlwaysFresh` follows from
`Prior`, that everything under way names a session below `nextId`; its second form (`Dated`) is
for the inside of a call in which the host begins a session.

*Moves.* A call of the C code is a composition of operators; what the peer depends on of the
result is `Session`, `Outgoing` and `Incoming` of the endpoint. `Moved` lists the ten ways they
can change: keep, leave, begin, publish a handshake frame, reply, complete, adopt, join, take a
message, finish one. A lemma per operation shows that it makes one of these moves, or, where it
is composed of several, that it stays inside every `Closed` set (one no move leads out of). So
an invariant of the pair is shown move by move and not operator by operator. The moves need
`Sound`: without `RetainedOK` an ACK could finish something other than the submitted message.

*World.* The invariant is about the two ends, the sets of bodies under way to each (`Toward`,
with the body its parser holds) and which of them is ahead of which (`Order`). Losing, damaging
or consuming a body only shrinks these (`Shrinks`); a commit adds one body behind all others
(`Grows`).

| conjunct | says | needed because |
|---|---|---|
| `OpeningEnd`, `Opening` | handshake frames, and the ends before establishment, have the first sequences | a message that follows a CONFIRM must be the expected one |
| `Agreeing` | an ACK or a message is evidence that its session was joined: where there is evidence, no INITIATE of the session is left and the rig is past joining it | a rig that joined a session again would take a message a second time, against a new baseline |
| `InOrder` | on the wire nothing that opens a session is behind what follows in it, and no message behind a later one | an INITIATE behind the CONFIRM could open the session again |
| `Sending` | what is on its way is not before what the receiver has; what it already has meets an established session whose baseline has its sequence | at most once and in order |
| `Looping` | forward frames, the receiver's baseline and backward frames of a session stand for `nextTx` or the sequence before it; for `nextTx` only when the retained message was accepted | only an ACK of `nextTx` confirms, so a confirmed message was accepted |
| `LoopOrder` | in either direction no older frame is behind a newer one | with it an old ACK never meets a later message whose sequence came round |

`Looping` and `LoopOrder` are the invariant of the alternating bit protocol for one session;
`Agreeing` and `Sending` carry it across sessions. That a move keeps `World` is one lemma per
conjunct with a case per move, seen from either end (`Joint`). A public call starts in `Calling`,
a set that records besides `World` what the call has reported, taken and dropped so far, and
every move stays in it; `Serves`, a step of the service, is then read off its result. `Agreed`
is `World` of the actual state with what the applications recorded (`accepted`).

### Parser, frames and service

`StreamParser_proofs` proves for every capacity and set of byte values that `TypeOK` is
invariant (the buffer is never written beyond its end), that no call answers with an error
(`ParserNeverErrs`), and that the parser implements `SegmentStream`: initial states map to
initial states and every step to a step or a stutter. The parser forgets the bytes of a body
that is too long while the abstract stream does not, so the invariant says what is still known
of the segment (`Remembers`): nothing while a body is unread, more than `Capacity` bytes while
discarding, exactly the buffer otherwise.

`FrameLink_proofs` proves `LayoutFits` for every `size_t`, root size, set of configurations and
storage size: an accepted configuration lays out regions whose true sum is the size announced
beforehand and fits the storage. The core is `TotalIsTrue`, that a chain of checked modular
additions returns either nothing or the sum in the naturals, and `MessageLeavesRoom`, that the
bound on the message size keeps the worst-case COBS size itself from wrapping.

`MessageService_proofs` proves `Guarantees`: a behaviour of the abstract service accepts
messages at most once and in order of submission (`InOrderOnce`), never invents one
(`NothingInvented`), and a confirmed message was accepted (`ConfirmedArrived`), for any number
of messages. `TransportPair_proofs` uses it once for each direction.

### Only model-checked

- The byte-level properties of `FrameLink`, its type invariant included: COBS and the frame
  layout are folds over a sequence, and what a fold returns for every input needs an induction
  over data that the provers cannot apply.
- The application codec: statements about sixteen concrete layouts, for which enumeration is
  the natural check.
- All liveness (`StarvedOnlyByControl`, `ConvergesUnlessUnnoticed`, `ConvergesAfterHardRecovery`,
  `OutcomeIsDecided`): temporal reasoning under fairness and ENABLED are outside the prover.
- The properties that are violated, section 5.

## 5. Findings and observations

*Finding* (`reserved_identity`). The comment at
`src/src/transport/internal/mvp/transport_receive_mvp.c:463` says decoding has already rejected
invalid and reserved identities. `Validate_Frame` (`transport_frame_codec_mvp.c:88-97`) rejects
only the invalid one, zero. A well-formed frame with identity `UINT64_MAX` is therefore
dispatched and handled as the frame of an incompatible session; in the counterexample a
connecting host abandons its attempt on one, where a malformed body would only be reported.

*Finding* (`pair_partial`). The comment at
`src/src/transport/internal/mvp/transport_profile_mvp.c:523` says of a partial body met while
`RECOVERING` that the receive path will finish or discard it before attempting establishment.
It never discards it: both `Process` and `Receive_Try_Advance_Recovery` wait for the parser to
be empty, and only further bytes can empty it. In the counterexample the host is reset while a
RESPONSE is on its way, the end of the RESPONSE is lost, the RESET arrives. The host then waits
for a delimiter and the unbound rig for an INITIATE, for ever. One reset and one lost byte are
enough. `pair_recovery` shows that the documented hard recovery resolves it, since a link loss
clears the parser; outside `RECOVERING` a cut body does no such harm (`pair_faults`), because
retransmissions, and in the end the abandonment, dispose of it.

*Finding* (`application_status`). `src/include/hil_rig_protocol/application/application.h:242`
says of `HIL_APPLICATION_Validate_Encoded_Message` that it gives "the same structural/status
classification used by normal decoding". For a test configuration it first asks the storage
query, which answers NOT_IMPLEMENTED as soon as it sees an enabled I2C channel
(`application.c:653`); decoding validates the fields first. A configuration with an enabled I2C
channel and a tick count above the receiver's limit is NOT_IMPLEMENTED to one and
VALIDATION_FAILED to the other. That both accept or both refuse is checked and holds
(`ValidationPredictsDecoding`).

*Finding* (`application_record`). The comment of `HIL_APPLICATION_Aligned_Records_Scan`
(`src/src/application/application_decoding.c:177`) says the payload length of a record is
bounded by `max_variable_data_size` and `UINT8_MAX`. Only the former is compared; with a limit
above 255 a UART record of 256 bytes is encoded, scanned and decoded.

*Not a disagreement, but limits the runs make concrete:*

- A reconnection of one side leaves frames of two older sessions in flight, and only one
  abandoned identity is remembered. With a rig message in flight, TLC finds a cycle without
  any further fault in which each new INITIATE is overtaken by the RESPONSE of the attempt
  before it. The documentation admits this ("MVP recovery limits"), so what is checked is that
  the hard recovery it prescribes works from every reachable state.
- Without keepalive, a host that has nothing to send does not notice that the rig's link went
  down and came back. `HalfOpen` is exactly that state, and the only way not to converge in
  `pair_faults` when a link breaks.

## 6. Not modelled

- `last_failure`, `operating_mode`, the connection timeout (any value but zero is rejected by
  `Init`), the status detail of events: no branch of the protocol reads them. For the same
  reason `Get_Status` is an action that changes nothing unless its validation faults the
  endpoint; the values of its snapshot, and of `Default_Config`, are left out.
- Pointer, alignment and overlap checks of the arguments of public calls: every argument the
  code checks for NULL is present.
- The arithmetic of the CRC: a fixed, arbitrary checksum function stands for it.
- The order of bytes in a number, and the contents of spans the codec only copies.
- The Python package and the CFFI binding: conversions between C structures and dataclasses,
  and allocation glue. The wrapper's ownership of a context is in the plan.
- The extended profile is a skeleton that no build compiles.

## 7. Plan

Done: the output side, the coordinators and the endpoint with proofs of all their safety
properties; the pair with the proofs that sessions are joined and that each direction implements
the message service until identifiers start over, and what the service guarantees; the parser
with its refinement proved; frames as bytes with the storage layout proved; the application
codec; starvation of reliable output. Left, in this order:

1. `FrameLink` with ends of different protocol versions.
2. The Python wrapper's ownership of a context and its mapping of statuses to exceptions.
3. The service across a wrap of the identifiers: either that the order of the wire suffices, or
   an assumption on how long a body may stay under way while the host begins new sessions.
