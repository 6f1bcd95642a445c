----------------------- MODULE TransportProfile_proofs -----------------------
(***************************************************************************)
(* One endpoint, one operation at a time: what each operation of the       *)
(* session, handshake, receive, delivery and output coordinators preserves *)
(* (Sound) and what it may do to the caller's work (Follows, Leads, Ends,  *)
(* Replaced).  There is one lemma per operation, each about every endpoint *)
(* that is Sound, and the lemmas of the public calls come after them; the  *)
(* temporal theorems built on them are in TransportEndpoint_proofs.        *)
(*                                                                         *)
(* The last part says what one call may do to what the peer depends on     *)
(* (Moves): keep it, leave or begin a session, take one of the steps of    *)
(* the handshake, or take or finish a message.  TransportPair_proofs       *)
(* rests on it.                                                            *)
(***************************************************************************)
EXTENDS TransportProfile, OutputArbiter_proofs

\* An endpoint whose clock is left to ReliableOutput.
Endpoint == EndpointRecord({0})

\* The handshake phases of each role, and the phases each public session state stands for;
\* FAULT stands for none, so that a sound endpoint is never in it.
HostPhases ==
    {"INITIATE_PENDING", "WAITING_FOR_RESPONSE", "CONFIRM_PENDING", "WAITING_FOR_CONFIRM_ACK"}
RigPhases == {"WAITING_FOR_INITIATE", "RESPONSE_PENDING", "WAITING_FOR_CONFIRM"}
PhasesOf(state) ==
    CASE state \in {"DISCONNECTED", "RECOVERING"} -> {"INACTIVE"}
      [] state = "CONNECTING"                     -> HostPhases \cup RigPhases
      [] state = "ESTABLISHED"                    -> {"ESTABLISHED"}
      [] OTHER                                    -> {}

\* State, phase, role, link and identifier agree with one another.
LifeOK(e) ==
    /\ e.phase \in PhasesOf(e.state)
    /\ e.state = "DISCONNECTED" <=> ~ Connected(e)
    /\ e.phase \in HostPhases => e.role = "HOST"
    /\ e.phase \in RigPhases => e.role = "RIG"
    /\ e.id = NoSession <=> e.phase \in {"INACTIVE", "WAITING_FOR_INITIATE"}

\* The retained frame is the one the phase waits on, of this session, carrying what was
\* submitted.
RetainedTypes(phase) ==
    CASE phase = "WAITING_FOR_RESPONSE"    -> {"INITIATE"}
      [] phase = "WAITING_FOR_CONFIRM"     -> {"RESPONSE"}
      [] phase = "WAITING_FOR_CONFIRM_ACK" -> {"CONFIRM"}
      [] phase = "ESTABLISHED"             -> {"APPLICATION", "INVALID"}
      [] OTHER                             -> {"INVALID"}

RetainedOK(e) ==
    /\ e.out.rel.frame.type \in RetainedTypes(e.phase)
    /\ e.out.rel.frame # NoFrame => e.out.rel.frame.id = e.id
    /\ e.out.rel.frame.msg = e.submitted

\* The control slot offers an ACK of the last accepted frame, or the RESET that is owed.
ControlOK(e) ==
    LET item == e.out.ctl.item
    IN  /\ item.type = "ACK" => item.id = e.id /\ item.ack = e.lastRx.seq
                                /\ e.lastRx.type \in {"CONFIRM", "APPLICATION"}
        /\ item.type = "RESET" => e.out.resetId # NoSession
        /\ e.out.resetId # NoSession => item = ResetFrame(e.out.resetId)
                                        /\ e.abandoned = e.out.resetId

\* The last accepted frame is of a kind the phase has reached; a message to read and a
\* remembered CONFIRM exist only in an established session.
BaselineTypes(e) ==
    CASE e.phase \in {"RESPONSE_PENDING", "WAITING_FOR_CONFIRM"} -> {"INITIATE"}
      [] e.phase \in {"CONFIRM_PENDING", "WAITING_FOR_CONFIRM_ACK"} -> {"RESPONSE"}
      [] e.phase = "ESTABLISHED" ->
            {IF e.role = "HOST" THEN "RESPONSE" ELSE "CONFIRM", "APPLICATION"}
      [] OTHER -> {"INVALID"}

WorkOK(e) ==
    /\ e.lastRx.type \in BaselineTypes(e)
    /\ e.received # NoMessage => e.state = "ESTABLISHED"
    /\ e.confirm # NoSequence => e.role = "HOST" /\ e.state = "ESTABLISHED"

\* The parser holds a body exactly when READY; a diagnostic is owed only while it is empty.
ParserOK(e) ==
    /\ e.errPending => e.parser.state = "EMPTY"
    /\ e.state = "DISCONNECTED" => e.parser = EmptyParser /\ ~ e.errPending
    /\ IF e.parser.state = "READY" THEN e.parser.body \in Bodies ELSE e.parser.body = NoFrame

\* A host's cursor runs one ahead of its session, and its session one ahead of the one it
\* left; a rig is never in the session it left.
IdentityOK(e) ==
    /\ CursorValid(e)
    /\ e.role = "HOST" /\ e.id # NoSession => e.nextId = NextSessionId(e.id)
    /\ e.role = "HOST" /\ e.abandoned # NoSession =>
          (IF e.id # NoSession THEN e.id ELSE e.nextId) = NextSessionId(e.abandoned)
    /\ e.role = "RIG" /\ e.abandoned # NoSession => e.abandoned # e.id

\* The part of the invariant every step of every operation keeps.
Sound(e) ==
    /\ e \in Endpoint
    /\ Output_Coherent(e.out, Recovering(e))
    /\ LifeOK(e) /\ RetainedOK(e) /\ ControlOK(e) /\ WorkOK(e) /\ ParserOK(e) /\ IdentityOK(e)

\* The part kept from call to call: no body is held that would end the current session.
\* (Inside Receive_Bytes there may be one: it is handled before the call returns.)
HeldOK(e) ==
    e.parser.state = "READY" /\ e.parser.body.type = "RESET" => e.parser.body.id # e.id

-----------------------------------------------------------------------------
(* What one call leads to *)

\* t continues s, and what is new in it.
Extends(s, t) == Len(s) <= Len(t) /\ \A i \in 1 .. Len(s) : t[i] = s[i]

Reported(e, e2, type) ==
    \E i \in Len(e.events) + 1 .. Len(e2.events) : e2.events[i] = type

\* One step inside a session: the caller's work is still there, or it was reported, or the
\* session was left and its RESET is owed.
Follows(e, e2) ==
    /\ e2.role = e.role /\ e2.link = e.link
    /\ Extends(e.events, e2.events)
    /\ e.out.resetId # NoSession => e2.out.resetId = e.out.resetId
    /\ e.received # NoMessage =>
          \/ e2.received = e.received /\ e2.id = e.id
          \/ e2.out.resetId # NoSession
    /\ e.submitted # NoMessage =>
          \/ e2.submitted = e.submitted /\ e2.id = e.id
          \/ Reported(e, e2, "DELIVERY_CONFIRMED")
          \/ e2.out.resetId # NoSession
    /\ e2.submitted \in {e.submitted, NoMessage}
    /\ Reported(e, e2, "DELIVERY_CONFIRMED") => e.submitted # NoMessage /\ e2.submitted = NoMessage
    /\ e.state # "ESTABLISHED" /\ e2.state = "ESTABLISHED" => Reported(e, e2, "SESSION_ESTABLISHED")

\* One step that ends the session and owes no RESET of it: the link was lost, or the peer's
\* own RESET came.
Ends(e, e2) ==
    /\ e2.role = e.role
    /\ e2.submitted = NoMessage /\ e2.received = NoMessage
    /\ e.id # NoSession => e2.id # e.id
    /\ e2.state # "ESTABLISHED"
    /\ ~ Reported(e, e2, "DELIVERY_CONFIRMED")
    /\ e.out.resetId # NoSession => e2.out.resetId = e.out.resetId \/ ~ Connected(e2)

\* The peer's RESET came: the next session is starting already.
Replaced(e, e2) ==
    /\ Ends(e, e2) /\ e.id # NoSession
    /\ Extends(e.events, e2.events)
    /\ e2.state = "CONNECTING" /\ e2.parser = EmptyParser /\ ~ e2.errPending

\* Nothing was accepted, delivered, submitted, released or acknowledged.
SameWork(e, e2) ==
    /\ e2.lastRx = e.lastRx /\ e2.received = e.received /\ e2.submitted = e.submitted
    /\ e2.out.ctl = e.out.ctl

-----------------------------------------------------------------------------
(* What one call may do to a session *)

\* The parts of an endpoint its peer depends on: the session it is in, what it is sending,
\* and what it received last.
Session(e) == <<e.id, e.nextId, e.phase, e.out.resetId>>
Outgoing(e) == <<e.out.nextTx, e.out.rel.frame, e.submitted>>
Incoming(e) == <<e.lastRx, e.received>>

Baseline(f) == [type |-> f.type, seq |-> f.seq, ack |-> f.ack]

Keeps(e, e2) == Session(e2) = Session(e) /\ Outgoing(e2) = Outgoing(e) /\ Incoming(e2) = Incoming(e)

\* The session and all its work are gone; a RESET that is owed is its own, or was owed ...
Clears(e, e2) ==
    /\ e2.id = NoSession /\ e2.nextId = e.nextId /\ e2.phase = "INACTIVE"
    /\ e2.out.resetId \in {e.out.resetId, e.id, NoSession}
    /\ Outgoing(e2) = <<InitialSequence, NoFrame, NoMessage>>
    /\ Incoming(e2) = <<NoBaseline, NoMessage>>

\* ... and its RESET is owed, or it was the peer's RESET f.
Leaves(e, e2, f) ==
    /\ Clears(e, e2)
    /\ \/ e.id = NoSession /\ e.out.resetId = NoSession
       \/ e2.out.resetId # NoSession
       \/ e.id # NoSession /\ f.type = "RESET" /\ f.id = e.id

\* The next attempt begins.
Begins(e, e2) ==
    /\ e.id = NoSession /\ e.out.resetId = NoSession
    /\ e2.out.resetId = NoSession
    /\ IF e.role = "HOST"
       THEN /\ e2.id = e.nextId /\ e2.nextId = NextSessionId(e.nextId)
            /\ e2.phase = "INITIATE_PENDING"
       ELSE e2.id = NoSession /\ e2.nextId = e.nextId /\ e2.phase = "WAITING_FOR_INITIATE"
    /\ Outgoing(e2) = <<InitialSequence, NoFrame, NoMessage>>
    /\ Incoming(e2) = <<NoBaseline, NoMessage>>

\* The host takes the RESPONSE f.
Replies(e, e2, f) ==
    /\ f.type = "RESPONSE" /\ f.id = e.id
    /\ e.role = "HOST" /\ e.phase = "WAITING_FOR_RESPONSE"
    /\ Session(e2) = <<e.id, e.nextId, "CONFIRM_PENDING", e.out.resetId>>
    /\ Outgoing(e2) = <<NextSequence(e.out.nextTx), NoFrame, e.submitted>>
    /\ Incoming(e2) = <<Baseline(f), e.received>>

\* The host establishes on the ACK of its CONFIRM, or on the message that proves it.
Completes(e, e2, f) ==
    /\ f.type \in {"ACK", "APPLICATION"} /\ f.id = e.id
    /\ e.role = "HOST" /\ e.phase = "WAITING_FOR_CONFIRM_ACK"
    /\ Session(e2) = <<e.id, e.nextId, "ESTABLISHED", e.out.resetId>>
    /\ Outgoing(e2) = <<NextSequence(e.out.nextTx), NoFrame, e.submitted>>
    /\ Incoming(e2) = Incoming(e)

\* The rig adopts the session of the INITIATE f.
Adopts(e, e2, f) ==
    /\ f.type = "INITIATE"
    /\ e.role = "RIG" /\ e.phase = "WAITING_FOR_INITIATE"
    /\ Session(e2) = <<f.id, e.nextId, "RESPONSE_PENDING", e.out.resetId>>
    /\ Outgoing(e2) = Outgoing(e)
    /\ Incoming(e2) = <<Baseline(f), e.received>>

\* The rig establishes on the CONFIRM f.
Joins(e, e2, f) ==
    /\ f.type = "CONFIRM" /\ f.id = e.id
    /\ e.role = "RIG" /\ e.phase = "WAITING_FOR_CONFIRM"
    /\ Session(e2) = <<e.id, e.nextId, "ESTABLISHED", e.out.resetId>>
    /\ Outgoing(e2) = <<NextSequence(e.out.nextTx), NoFrame, e.submitted>>
    /\ Incoming(e2) = <<Baseline(f), e.received>>

\* A handshake frame is retained.
Handshakes ==
    {<<"INITIATE_PENDING", "INITIATE", "WAITING_FOR_RESPONSE">>,
     <<"RESPONSE_PENDING", "RESPONSE", "WAITING_FOR_CONFIRM">>,
     <<"CONFIRM_PENDING", "CONFIRM", "WAITING_FOR_CONFIRM_ACK">>}

Publishes(e, e2) ==
    \E h \in Handshakes :
        LET ack == IF h[2] = "INITIATE" THEN 0 ELSE e.lastRx.seq
        IN  /\ e.phase = h[1]
            /\ Session(e2) = <<e.id, e.nextId, h[3], e.out.resetId>>
            /\ Outgoing(e2) = <<e.out.nextTx, MakeFrame(h[2], e.id, e.out.nextTx, ack, NoMessage),
                                e.submitted>>
            /\ Incoming(e2) = Incoming(e)

\* The message f is accepted: it is the expected one, and there is a place for it.
Takes(e, e2, f) ==
    /\ f.type = "APPLICATION" /\ f.id = e.id
    /\ e.phase = "ESTABLISHED" /\ e.received = NoMessage
    /\ f.seq = NextSequence(e.lastRx.seq)
    /\ Session(e2) = Session(e) /\ Outgoing(e2) = Outgoing(e)
    /\ Incoming(e2) = <<Baseline(f), f.msg>>

\* The submitted message is confirmed by the ACK f.
Finishes(e, e2, f) ==
    /\ f.type = "ACK" /\ f.id = e.id /\ f.ack = e.out.nextTx
    /\ e.phase = "ESTABLISHED" /\ e.out.rel.frame.type = "APPLICATION"
    /\ Session(e2) = Session(e)
    /\ Outgoing(e2) = <<NextSequence(e.out.nextTx), NoFrame, NoMessage>>
    /\ Incoming(e2) = Incoming(e)

Moved(e, e2, f) ==
    \/ Keeps(e, e2) \/ Leaves(e, e2, f) \/ Begins(e, e2) \/ Publishes(e, e2)
    \/ Replies(e, e2, f) \/ Completes(e, e2, f) \/ Adopts(e, e2, f) \/ Joins(e, e2, f)
    \/ Takes(e, e2, f) \/ Finishes(e, e2, f)

\* One of these, by the body the parser holds; the parser keeps it, drops it, or is given
\* the input.
Moves(e, e2, input) ==
    /\ e2.role = e.role
    /\ e2.parser.body \in {e.parser.body, NoFrame, input}
    /\ Extends(e.events, e2.events)
    /\ Reported(e, e2, "DELIVERY_CONFIRMED") => Finishes(e, e2, e.parser.body)
    /\ Moved(e, e2, e.parser.body)

\* A set of endpoints no move leads out of.  Every call below stays in every such set, so
\* an invariant is known to survive a call when it survives each move.
Closed(S, input) ==
    /\ \A e \in S : Sound(e)
    /\ \A e \in S : \A e2 : Sound(e2) /\ Moves(e, e2, input) => e2 \in S

-----------------------------------------------------------------------------
(* The event queue *)

\* Extending a queue twice extends it.
LEMMA ExtendsTransitive ==
    ASSUME NEW s \in Seq(EventTypes), NEW t \in Seq(EventTypes), NEW u \in Seq(EventTypes),
           Extends(s, t), Extends(t, u)
    PROVE  Extends(s, u)
  BY DEF Extends

\* What is new after two steps was new in one of them.
LEMMA ReportedTwice ==
    ASSUME NEW a \in Endpoint, NEW b \in Endpoint, NEW c \in Endpoint, NEW type,
           Extends(a.events, b.events), Extends(b.events, c.events)
    PROVE  Reported(a, c, type) <=> Reported(a, b, type) \/ Reported(b, c, type)
  <1>1. /\ a.events \in Seq(EventTypes) /\ b.events \in Seq(EventTypes)
        /\ c.events \in Seq(EventTypes)
    BY DEF Endpoint, EndpointRecord
  <1>2. Len(a.events) \in Nat /\ Len(b.events) \in Nat /\ Len(c.events) \in Nat
    BY <1>1
  <1>3. /\ Len(a.events) <= Len(b.events) /\ Len(b.events) <= Len(c.events)
        /\ \A i \in 1 .. Len(b.events) : c.events[i] = b.events[i]
    BY DEF Extends
  <1>4. ASSUME Reported(a, c, type)
        PROVE  Reported(a, b, type) \/ Reported(b, c, type)
    <2>1. PICK i \in Len(a.events) + 1 .. Len(c.events) : c.events[i] = type
      BY <1>4 DEF Reported
    <2>2. CASE i <= Len(b.events)
      <3>1. i \in Len(a.events) + 1 .. Len(b.events) /\ i \in 1 .. Len(b.events)
        BY <1>2, <2>2
      <3> QED BY <1>3, <2>1, <3>1 DEF Reported
    <2>3. CASE ~ i <= Len(b.events)
      <3>1. i \in Len(b.events) + 1 .. Len(c.events)
        BY <1>2, <2>3
      <3> QED BY <2>1, <3>1 DEF Reported
    <2> QED BY <2>2, <2>3
  <1>5. ASSUME Reported(a, b, type)
        PROVE  Reported(a, c, type)
    <2>1. PICK i \in Len(a.events) + 1 .. Len(b.events) : b.events[i] = type
      BY <1>5 DEF Reported
    <2>2. i \in 1 .. Len(b.events) /\ i \in Len(a.events) + 1 .. Len(c.events)
      BY <1>2, <1>3
    <2> QED BY <1>3, <2>1, <2>2 DEF Reported
  <1>6. ASSUME Reported(b, c, type)
        PROVE  Reported(a, c, type)
    <2>1. PICK i \in Len(b.events) + 1 .. Len(c.events) : c.events[i] = type
      BY <1>6 DEF Reported
    <2>2. i \in Len(a.events) + 1 .. Len(c.events)
      BY <1>2, <1>3
    <2> QED BY <2>1, <2>2 DEF Reported
  <1> QED BY <1>4, <1>5, <1>6

\* What was reported since an endpoint depends on its queue alone.
LEMMA ReportedSince ==
    ASSUME NEW e, NEW d, d.events = e.events
    PROVE  /\ EventsFull(d) = EventsFull(e)
           /\ \A c : Extends(d.events, c.events) <=> Extends(e.events, c.events)
           /\ \A c, t : Reported(d, c, t) <=> Reported(e, c, t)
  BY DEF EventsFull, Extends, Reported

\* Publishing appends one event or, when the queue is full, none.
LEMMA Publishing ==
    ASSUME NEW e \in Endpoint, NEW type \in EventTypes
    PROVE  LET p == Events_Publish(e, type)
           IN  /\ p \in Endpoint
               /\ p = [e EXCEPT !.events = p.events]
               /\ Extends(e.events, p.events)
               /\ \A t : Reported(e, p, t) <=> ~ EventsFull(e) /\ t = type
               /\ EventsFull(e) => EventsFull(p) /\ p = e
  <1>1. e.events \in Seq(EventTypes) /\ Len(e.events) <= EventCapacity
    BY DEF Endpoint, EndpointRecord
  <1>2. CASE EventsFull(e)
    BY <1>1, <1>2 DEF Events_Publish, Endpoint, EndpointRecord, Extends, Reported
  <1>3. CASE ~ EventsFull(e)
    <2>1. Append(e.events, type) \in {s \in Seq(EventTypes) : Len(s) <= EventCapacity}
      BY <1>1, <1>3, EventAssumption DEF EventsFull, EventAssumption
    <2>2. Events_Publish(e, type) = [e EXCEPT !.events = Append(e.events, type)]
      BY <1>3 DEF Events_Publish
    <2>3. Events_Publish(e, type).events = Append(e.events, type)
      BY <2>2 DEF Endpoint, EndpointRecord
    <2>4. Events_Publish(e, type) \in Endpoint
      BY <2>1, <2>2 DEF Endpoint, EndpointRecord
    <2>5. \A t : Reported(e, Events_Publish(e, type), t) <=> t = type
      BY <1>1, <2>3 DEF Reported
    <2>6. Extends(e.events, Append(e.events, type))
      BY <1>1 DEF Extends
    <2> QED BY <1>3, <2>2, <2>3, <2>4, <2>5, <2>6
  <1> QED BY <1>2, <1>3

\* Every part of Sound is about something else than the events.
LEMMA PublishingIsSound ==
    ASSUME NEW e, Sound(e), NEW type \in EventTypes
    PROVE  Sound(Events_Publish(e, type))
  <1> DEFINE p == Events_Publish(e, type)
  <1>1. p \in Endpoint /\ p = [e EXCEPT !.events = p.events]
    BY Publishing DEF Sound
  <1> HIDE DEF p
  <1>2. /\ p.role = e.role /\ p.link = e.link /\ p.state = e.state /\ p.phase = e.phase
        /\ p.id = e.id /\ p.nextId = e.nextId /\ p.abandoned = e.abandoned /\ p.out = e.out
        /\ p.lastRx = e.lastRx /\ p.confirm = e.confirm /\ p.parser = e.parser
        /\ p.errPending = e.errPending /\ p.submitted = e.submitted /\ p.received = e.received
    BY <1>1 DEF Sound, Endpoint, EndpointRecord
  <1>3. Output_Coherent(p.out, Recovering(p))
    BY <1>2 DEF Sound, Recovering, Connected
  <1>4. LifeOK(p) /\ RetainedOK(p) /\ ControlOK(p) /\ ParserOK(p)
    BY <1>2 DEF Sound, LifeOK, Connected, RetainedOK, ControlOK, ParserOK
  <1>5. WorkOK(p) /\ IdentityOK(p)
    BY <1>2 DEF Sound, WorkOK, BaselineTypes, IdentityOK, CursorValid
  <1> QED BY <1>1, <1>3, <1>4, <1>5 DEF Sound, p

-----------------------------------------------------------------------------
(* Composing steps of one call *)

\* A step that leaves the queue, the session and its work alone follows.
LEMMA QuietStepFollows ==
    ASSUME NEW e \in Endpoint, NEW e2 \in Endpoint,
           e2.role = e.role, e2.link = e.link, e2.events = e.events, e2.id = e.id,
           e2.received = e.received, e2.submitted = e.submitted,
           e2.state = "ESTABLISHED" => e.state = "ESTABLISHED",
           e2.out.resetId = e.out.resetId
    PROVE  Follows(e, e2)
  <1>1. Len(e.events) \in Nat
    BY DEF Endpoint, EndpointRecord
  <1>2. \A t : ~ Reported(e, e2, t)
    BY <1>1 DEF Reported
  <1>3. Extends(e.events, e2.events)
    BY <1>1 DEF Extends
  <1> QED BY <1>2, <1>3 DEF Follows

\* A call that follows a call that follows, follows.
LEMMA FollowsTransitive ==
    ASSUME NEW a \in Endpoint, NEW b \in Endpoint, NEW c \in Endpoint,
           Follows(a, b), Follows(b, c)
    PROVE  Follows(a, c)
  <1>1. Extends(a.events, b.events) /\ Extends(b.events, c.events)
    BY DEF Follows
  <1>2. Extends(a.events, c.events)
    BY <1>1, ExtendsTransitive DEF Endpoint, EndpointRecord
  <1>3. \A t : Reported(a, c, t) <=> Reported(a, b, t) \/ Reported(b, c, t)
    BY <1>1, ReportedTwice
  <1> QED BY <1>2, <1>3 DEF Follows

\* Publishing an event that confirms nothing follows.
LEMMA PublishingFollows ==
    ASSUME NEW e \in Endpoint, NEW type \in EventTypes, type # "DELIVERY_CONFIRMED"
    PROVE  Follows(e, Events_Publish(e, type))
  <1> DEFINE p == Events_Publish(e, type)
  <1>1. p \in Endpoint /\ p = [e EXCEPT !.events = p.events] /\ Extends(e.events, p.events)
        /\ \A t : Reported(e, p, t) <=> ~ EventsFull(e) /\ t = type
    BY Publishing
  <1> HIDE DEF p
  <1>2. /\ p.role = e.role /\ p.link = e.link /\ p.state = e.state /\ p.id = e.id /\ p.out = e.out
        /\ p.submitted = e.submitted /\ p.received = e.received
    BY <1>1 DEF Endpoint, EndpointRecord
  <1> QED BY <1>1, <1>2 DEF Follows, p

-----------------------------------------------------------------------------
(* The session coordinator *)

\* Nothing of the session is left but its identifier, which is remembered as abandoned.
Left(e, a) ==
    /\ a \in Endpoint
    /\ a.role = e.role /\ a.link = e.link /\ a.nextId = e.nextId
    /\ a.state = Unestablished(e) /\ a.phase = "INACTIVE" /\ a.id = NoSession
    /\ a.abandoned = IF e.id # NoSession THEN e.id ELSE e.abandoned
    /\ a.out = InitialOutput /\ a.lastRx = NoBaseline /\ a.confirm = NoSequence
    /\ a.parser = EmptyParser /\ ~ a.errPending
    /\ a.submitted = NoMessage /\ a.received = NoMessage

\* Clear_Scoped_Work returns an endpoint, and what it clears.
LEMMA ClearType ==
    ASSUME NEW e \in Endpoint
    PROVE  Clear_Scoped_Work(e) \in Endpoint
  <1>1. InitialOutput \in OutputRecord({0})
    BY InitialOutputType
  <1>2. /\ EmptyParser \in ParserRecord /\ NoBaseline \in BaselineRecord
        /\ NoSession \in SessionIdsOrNone
    BY IdentifierAssumption
    DEF EmptyParser, ParserRecord, NoBaseline, BaselineRecord, NoSession, SessionIdsOrNone,
        IdentifierAssumption
  <1> QED BY <1>1, <1>2 DEF Clear_Scoped_Work, Endpoint, EndpointRecord, HandshakePhases

\* What Clear_Scoped_Work keeps and what it makes of the rest.
LEMMA ClearFields ==
    ASSUME NEW e \in Endpoint
    PROVE  LET q == Clear_Scoped_Work(e)
           IN  /\ q.role = e.role /\ q.link = e.link /\ q.nextId = e.nextId
               /\ q.abandoned = e.abandoned /\ q.events = e.events
               /\ q.phase = "INACTIVE" /\ q.id = NoSession
               /\ q.out = InitialOutput /\ q.lastRx = NoBaseline /\ q.confirm = NoSequence
               /\ q.parser = EmptyParser /\ ~ q.errPending
               /\ q.submitted = NoMessage /\ q.received = NoMessage
  BY DEF Clear_Scoped_Work, Endpoint, EndpointRecord

\* An endpoint that kept its identity rules and left its session is sound.
LEMMA LeftIsSound ==
    ASSUME NEW e \in Endpoint, IdentityOK(e), NEW a, Left(e, a)
    PROVE  Sound(a)
  <1>1. Output_Coherent(a.out, Recovering(a))
    BY ClearedOutputCoherent DEF Left, Recovering
  <1>2. LifeOK(a)
    BY DEF Left, LifeOK, Unestablished, Connected, PhasesOf, HostPhases, RigPhases
  <1>3. RetainedOK(a) /\ ControlOK(a)
    BY DEF Left, RetainedOK, ControlOK, InitialOutput, IdleReliable, IdleControl, NoFrame,
           RetainedTypes
  <1>4. WorkOK(a) /\ ParserOK(a)
    BY DEF Left, WorkOK, BaselineTypes, NoBaseline, ParserOK, EmptyParser
  <1>5. IdentityOK(a)
    BY DEF Left, IdentityOK, CursorValid, Endpoint, EndpointRecord, Roles
  <1> QED BY <1>1, <1>2, <1>3, <1>4, <1>5 DEF Sound, Left

\* A new context is sound: a host is seeded with its first identifier.
LEMMA Created ==
    ASSUME NEW role \in Roles
    PROVE  LET e == InitialEndpoint(role, IF role = "HOST" THEN 1 ELSE NoSession)
           IN  /\ Sound(e) /\ HeldOK(e)
               /\ e.role = role /\ e.state = "DISCONNECTED" /\ e.parser = EmptyParser
  <1> DEFINE e == InitialEndpoint(role, IF role = "HOST" THEN 1 ELSE NoSession)
  <1>1. e \in Endpoint
    <2>1. InitialOutput \in OutputRecord({0})
      BY InitialOutputType
    <2>2. <<>> \in {s \in Seq(EventTypes) : Len(s) <= EventCapacity}
      BY EventAssumption DEF EventAssumption
    <2>3. EmptyParser \in ParserRecord /\ NoBaseline \in BaselineRecord
          /\ NoSession \in SessionIdsOrNone /\ 1 \in SessionIdsOrNone
      BY IdentifierAssumption
      DEF EmptyParser, ParserRecord, NoBaseline, BaselineRecord, NoSession, SessionIdsOrNone,
          IdentifierAssumption
    <2> QED
      BY <2>1, <2>2, <2>3
      DEF InitialEndpoint, Endpoint, EndpointRecord, LinkStates, SessionStates, HandshakePhases
  <1>2. /\ e.role = role /\ e.link = "UNOBSERVED" /\ e.state = "DISCONNECTED"
        /\ e.phase = "INACTIVE" /\ e.id = NoSession
        /\ e.nextId = (IF role = "HOST" THEN 1 ELSE NoSession)
        /\ e.abandoned = NoSession /\ e.out = InitialOutput /\ e.lastRx = NoBaseline
        /\ e.confirm = NoSequence /\ e.parser = EmptyParser /\ ~ e.errPending
        /\ e.submitted = NoMessage /\ e.received = NoMessage
    BY DEF InitialEndpoint
  <1> HIDE DEF e
  <1>3. IdentityOK(e)
    BY <1>2, IdentifierAssumption
    DEF IdentityOK, CursorValid, SessionIds, NoSession, Roles, IdentifierAssumption
  <1>4. Left(e, e)
    BY <1>1, <1>2 DEF Left, Unestablished, Connected
  <1>5. Sound(e) /\ HeldOK(e)
    BY <1>1, <1>2, <1>3, <1>4, LeftIsSound DEF HeldOK, EmptyParser
  <1> QED BY <1>2, <1>5 DEF e

\* Abandoning a session never fails: it leaves the session and reports it if it can.
LEMMA Abandoning ==
    ASSUME NEW e \in Endpoint, Completed_Confirm_Valid(e), e.state # "FAULT", IdentityOK(e)
    PROVE  LET r == Abandon(e)
           IN  /\ Left(e, r.e) /\ Sound(r.e)
               /\ r.s = IF EventsFull(e) THEN "CAPACITY_EXHAUSTED" ELSE "OK"
               /\ Extends(e.events, r.e.events)
               /\ \A t : Reported(e, r.e, t) => t = "SESSION_RESET"
  <1> DEFINE left == [Clear_Scoped_Work(e) EXCEPT
                         !.abandoned = IF e.id # NoSession THEN e.id ELSE @,
                         !.state = Unestablished(e)]
             a == Events_Publish(left, "SESSION_RESET")
  <1>1. Abandon(e) = Result(a, IF EventsFull(e) THEN "CAPACITY_EXHAUSTED" ELSE "OK")
    BY DEF Abandon
  <1> DEFINE q == Clear_Scoped_Work(e)
             gone == IF e.id # NoSession THEN e.id ELSE e.abandoned
             state == Unestablished(e)
  <1>20. q \in Endpoint
    BY ClearType
  <1>21. /\ q.role = e.role /\ q.link = e.link /\ q.nextId = e.nextId /\ q.events = e.events
         /\ q.abandoned = e.abandoned /\ q.phase = "INACTIVE" /\ q.id = NoSession
         /\ q.out = InitialOutput /\ q.lastRx = NoBaseline /\ q.confirm = NoSequence
         /\ q.parser = EmptyParser /\ ~ q.errPending
         /\ q.submitted = NoMessage /\ q.received = NoMessage
    BY ClearFields
  <1>22. left = [q EXCEPT !.abandoned = gone, !.state = state]
    BY <1>20, <1>21 DEF Endpoint, EndpointRecord
  <1>23. gone \in SessionIdsOrNone /\ state \in SessionStates
    BY DEF Unestablished, SessionStates, Endpoint, EndpointRecord
  <1> HIDE DEF q, left, gone, state
  <1>2. left \in Endpoint
    BY <1>20, <1>22, <1>23 DEF Endpoint, EndpointRecord
  <1>24. /\ left.role = q.role /\ left.link = q.link /\ left.nextId = q.nextId
         /\ left.events = q.events /\ left.abandoned = gone /\ left.state = state
         /\ left.phase = q.phase /\ left.id = q.id /\ left.out = q.out
         /\ left.lastRx = q.lastRx /\ left.confirm = q.confirm /\ left.parser = q.parser
         /\ left.errPending = q.errPending /\ left.submitted = q.submitted
         /\ left.received = q.received
    BY <1>20, <1>22 DEF Endpoint, EndpointRecord
  <1>3. Left(e, left) /\ left.events = e.events
    BY <1>2, <1>21, <1>24 DEF Left, gone, state
  <1>4. /\ a \in Endpoint /\ a = [left EXCEPT !.events = a.events]
        /\ Extends(left.events, a.events)
        /\ \A t : Reported(left, a, t) => t = "SESSION_RESET"
    BY <1>2, Publishing DEF EventTypes
  <1> HIDE DEF a
  <1>5. Left(e, a)
    BY <1>3, <1>4 DEF Left, Endpoint, EndpointRecord
  <1>6. \A t : Reported(e, a, t) => t = "SESSION_RESET"
    BY <1>3, <1>4 DEF Reported
  <1> QED BY <1>1, <1>3, <1>4, <1>5, <1>6, LeftIsSound DEF Result

\* The identifier cursor stays in range and never stands still.
LEMMA NextSessionIdType ==
    ASSUME NEW id \in SessionIds
    PROVE  NextSessionId(id) \in SessionIds /\ NextSessionId(id) # id
  BY IdentifierAssumption DEF NextSessionId, SessionIds, ReservedSession, IdentifierAssumption

\* What an endpoint must be before it may establish: nothing of an earlier session is left.
Drained(e) ==
    /\ e \in Endpoint
    /\ Connected(e) /\ e.state \in {"DISCONNECTED", "RECOVERING"}
    /\ FullyCleared(e) /\ e.out.resetId = NoSession
    /\ IdentityOK(e)

\* In RECOVERING only the RESET, a held body and an owed diagnostic are left to drain.
LEMMA RecoveringDrains ==
    ASSUME NEW e, Sound(e), e.state = "RECOVERING", ~ ControlPending(e.out),
           e.parser.state = "EMPTY", ~ e.errPending
    PROVE  Drained(e)
  <1>1. e \in Endpoint /\ Connected(e) /\ e.phase = "INACTIVE" /\ e.id = NoSession
    BY DEF Sound, LifeOK, PhasesOf
  <1>2. e.out.rel.frame.type = "INVALID"
    BY <1>1 DEF Sound, RetainedOK, RetainedTypes
  <1>3. e.out.rel = IdleReliable
    BY <1>2 DEF Sound, Output_Coherent, Reliability_Coherent, ReliableTypes
  <1>4. e.out.resetId = NoSession /\ e.out.ctl.state = "IDLE" /\ e.out.ctl.item = NoFrame
    BY DEF Sound, Output_Coherent, Control_Coherent, ControlPending
  <1>5. e.out.ctl = IdleControl
    BY <1>1, <1>4 DEF Endpoint, EndpointRecord, OutputRecord, ControlRecord, IdleControl
  <1>6. e.out.sel = "NONE"
    BY <1>1, <1>3, <1>4
    DEF Sound, Output_Coherent, ReliablePeeked, ControlPeeked, IdleReliable, Endpoint,
        EndpointRecord, OutputRecord, Selections
  <1>7. e.parser = EmptyParser
    BY <1>1 DEF Sound, ParserOK, EmptyParser, Endpoint, EndpointRecord, ParserRecord
  <1>8. e.lastRx = NoBaseline
    BY <1>1
    DEF Sound, WorkOK, BaselineTypes, Endpoint, EndpointRecord, BaselineRecord, ReliableTypes
  <1>9. e.confirm = NoSequence /\ e.received = NoMessage
    BY DEF Sound, WorkOK
  <1>10. e.submitted = NoMessage
    BY <1>3 DEF Sound, RetainedOK, IdleReliable, NoFrame
  <1>11. IdentityOK(e)
    BY DEF Sound
  <1> QED
    BY <1>1, <1>3, <1>4, <1>5, <1>6, <1>7, <1>8, <1>9, <1>10, <1>11 DEF Drained, FullyCleared

\* A drained endpoint always begins the next attempt, a host under a fresh identifier.
LEMMA Beginning ==
    ASSUME NEW e, Drained(e)
    PROVE  LET r == Begin_Establishment(e)
           IN  /\ r = Result(Establishing(e), "OK")
               /\ Sound(r.e) /\ Follows(e, r.e)
               /\ r.e.state = "CONNECTING" /\ r.e.parser = EmptyParser /\ ~ r.e.errPending
               /\ r.e.events = e.events /\ r.e.out.resetId = NoSession
               /\ r.e.id = IF e.role = "HOST" THEN e.nextId ELSE NoSession
  <1> DEFINE b == Establishing(e)
  <1>1. Begin_Establishment(e) = Result(b, "OK")
    BY DEF Begin_Establishment, Drained, FullyCleared, Completed_Confirm_Valid, IdentityOK
  <1>2. /\ e \in Endpoint /\ e.out.rel = IdleReliable /\ e.out.ctl = IdleControl
        /\ e.out.sel = "NONE" /\ e.out.resetId = NoSession /\ e.phase = "INACTIVE"
        /\ e.id = NoSession /\ e.confirm = NoSequence /\ e.submitted = NoMessage
        /\ e.received = NoMessage /\ ~ e.errPending /\ e.parser = EmptyParser
        /\ e.lastRx = NoBaseline /\ Connected(e)
    BY DEF Drained, FullyCleared
  <1>3. /\ e.role = "HOST" => e.nextId \in SessionIds /\ NextSessionId(e.nextId) \in SessionIds
        /\ e.role # "HOST" => e.nextId = NoSession
    BY NextSessionIdType DEF Drained, IdentityOK, CursorValid
  <1>4. b \in Endpoint
    <2>1. InitialSequence \in Sequences16
      BY SequenceAssumption DEF SequenceAssumption, Sequences16
    <2>2. [e.out EXCEPT !.nextTx = InitialSequence] \in OutputRecord({0})
      BY <1>2, <2>1 DEF Endpoint, EndpointRecord, OutputRecord
    <2>3. SessionIds \subseteq SessionIdsOrNone
      BY IdentifierAssumption DEF SessionIds, SessionIdsOrNone, IdentifierAssumption
    <2> DEFINE phase == IF e.role = "HOST" THEN "INITIATE_PENDING" ELSE "WAITING_FOR_INITIATE"
               id == IF e.role = "HOST" THEN e.nextId ELSE NoSession
               nextId == IF e.role = "HOST" THEN NextSessionId(e.nextId) ELSE e.nextId
               out == [e.out EXCEPT !.nextTx = InitialSequence]
    <2>4. /\ phase \in HandshakePhases /\ "CONNECTING" \in SessionStates
          /\ id \in SessionIdsOrNone /\ nextId \in SessionIdsOrNone
      BY <1>2, <1>3, <2>3 DEF HandshakePhases, SessionStates, Endpoint, EndpointRecord
    <2>5. b = [e EXCEPT !.state = "CONNECTING", !.phase = phase, !.id = id, !.nextId = nextId,
                        !.out = out]
      BY <1>2 DEF Establishing, Endpoint, EndpointRecord
    <2> HIDE DEF b, phase, id, nextId, out
    <2> QED BY <1>2, <2>2, <2>4, <2>5 DEF Endpoint, EndpointRecord, out
  <1>5. /\ b.role = e.role /\ b.link = e.link /\ b.state = "CONNECTING"
        /\ b.phase = IF e.role = "HOST" THEN "INITIATE_PENDING" ELSE "WAITING_FOR_INITIATE"
        /\ b.id = IF e.role = "HOST" THEN e.nextId ELSE NoSession
        /\ b.nextId = IF e.role = "HOST" THEN NextSessionId(e.nextId) ELSE e.nextId
        /\ b.abandoned = e.abandoned /\ b.out.rel = IdleReliable /\ b.out.ctl = IdleControl
        /\ b.out.sel = "NONE" /\ b.out.resetId = NoSession /\ b.lastRx = NoBaseline
        /\ b.confirm = NoSequence /\ b.parser = EmptyParser /\ ~ b.errPending
        /\ b.submitted = NoMessage /\ b.received = NoMessage /\ b.events = e.events
    BY <1>2 DEF Establishing, Endpoint, EndpointRecord, OutputRecord
  <1> HIDE DEF b
  <1>6. Output_Coherent(b.out, Recovering(b))
    BY <1>5, RetryAssumption
    DEF Output_Coherent, Reliability_Coherent, Control_Coherent, ReliablePeeked, ControlPeeked,
        IdleReliable, IdleControl, NoFrame, RetryAssumption
  <1>7. LifeOK(b)
    BY <1>2, <1>3, <1>5
    DEF LifeOK, Connected, PhasesOf, HostPhases, RigPhases, Endpoint, EndpointRecord, Roles,
        SessionIds, NoSession
  <1>8. RetainedOK(b) /\ ControlOK(b)
    BY <1>5 DEF RetainedOK, ControlOK, IdleReliable, IdleControl, NoFrame, RetainedTypes
  <1>9. WorkOK(b) /\ ParserOK(b)
    BY <1>5 DEF WorkOK, BaselineTypes, NoBaseline, ParserOK, EmptyParser
  <1>10. IdentityOK(b)
    BY <1>2, <1>3, <1>5
    DEF IdentityOK, CursorValid, Drained, Endpoint, EndpointRecord, Roles, SessionIds, NoSession
  <1>11. Sound(b)
    BY <1>4, <1>6, <1>7, <1>8, <1>9, <1>10 DEF Sound
  <1>12. Follows(e, b)
    <2>1. Len(e.events) \in Nat
      BY <1>2 DEF Endpoint, EndpointRecord
    <2>2. Extends(e.events, b.events) /\ \A t : ~ Reported(e, b, t)
      BY <1>5, <2>1 DEF Extends, Reported
    <2> QED BY <1>2, <1>5, <2>2 DEF Follows
  <1> QED BY <1>1, <1>5, <1>11, <1>12 DEF Result, b

-----------------------------------------------------------------------------
(* Recovery *)

\* The RESET of a session is a control frame.
LEMMA ResetFrameType ==
    ASSUME NEW id \in SessionIds
    PROVE  ResetFrame(id) \in ControlFrame
  BY SequenceAssumption, IdentifierAssumption
  DEF ResetFrame, MakeFrame, ControlFrame, Frame, FrameTypes, ControlTypes, ValidFrame, WireIds,
      SessionIds, ReservedSession, Sequences16, SequenceAssumption, IdentifierAssumption

\* An endpoint that just left a session, or owes this very RESET, can owe it.
LEMMA Owing ==
    ASSUME NEW a, Sound(a), a.state = "RECOVERING", NEW id \in SessionIds, a.abandoned = id,
           Control_Accepts(a.out, ResetFrame(id))
    PROVE  LET p == Publish_Recovery_Reset(a, id)
           IN  /\ Sound(p) /\ p.out.resetId = id
               /\ p = [a EXCEPT !.out = p.out]
  <1> DEFINE o == Control_Publish(a.out, ResetFrame(id))
             q == [o EXCEPT !.resetId = id]
             p == Publish_Recovery_Reset(a, id)
  <1>1. a \in Endpoint /\ a.out \in OutputRecord({0}) /\ Connected(a) /\ Recovering(a)
    BY DEF Sound, Endpoint, EndpointRecord, LifeOK, Recovering
  <1>2. ResetFrame(id) \in ControlFrame
    BY ResetFrameType
  <1>3. o \in OutputRecord({0})
    BY <1>1, <1>2, PublishControlType
  <1>4. /\ Output_Coherent(o, Recovering(a)) /\ o.ctl.item = ResetFrame(id) /\ o.ctl.state # "IDLE"
        /\ o.rel = a.out.rel /\ o.sel = a.out.sel
    BY <1>1, <1>2, PublishControlCoherent DEF Sound
  <1> HIDE DEF o
  <1>5. q \in OutputRecord({0}) /\ q.resetId = id /\ q.rel = o.rel /\ q.ctl = o.ctl /\ q.sel = o.sel
        /\ q.nextTx = o.nextTx
    BY <1>3 DEF OutputRecord, SessionIds, SessionIdsOrNone
  <1>6. Output_Coherent(q, Recovering(a))
    BY <1>1, <1>4, <1>5
    DEF Output_Coherent, Reliability_Coherent, Control_Coherent, ReliablePeeked, ControlPeeked,
        ControlPending
  <1> HIDE DEF q
  <1>7. p = [a EXCEPT !.out = q]
    BY DEF Publish_Recovery_Reset, o, q
  <1>8. p \in Endpoint
    BY <1>1, <1>5, <1>7 DEF Endpoint, EndpointRecord
  <1>9. /\ p.role = a.role /\ p.link = a.link /\ p.state = a.state /\ p.phase = a.phase
        /\ p.id = a.id /\ p.nextId = a.nextId /\ p.abandoned = a.abandoned /\ p.out = q
        /\ p.lastRx = a.lastRx /\ p.confirm = a.confirm /\ p.parser = a.parser
        /\ p.errPending = a.errPending /\ p.submitted = a.submitted /\ p.received = a.received
    BY <1>1, <1>7 DEF Endpoint, EndpointRecord
  <1> HIDE DEF p
  <1>10. Output_Coherent(p.out, Recovering(p))
    BY <1>6, <1>9 DEF Recovering, Connected
  <1>11. LifeOK(p) /\ WorkOK(p) /\ ParserOK(p) /\ IdentityOK(p)
    BY <1>9
    DEF Sound, LifeOK, Connected, WorkOK, BaselineTypes, ParserOK, IdentityOK, CursorValid
  <1>12. RetainedOK(p)
    BY <1>4, <1>5, <1>9 DEF Sound, RetainedOK
  <1>13. ControlOK(p)
    BY <1>4, <1>5, <1>9 DEF ControlOK, ResetFrame, MakeFrame, SessionIds, NoSession
  <1>14. Sound(p)
    BY <1>8, <1>10, <1>11, <1>12, <1>13 DEF Sound
  <1> QED BY <1>5, <1>7, <1>9, <1>14 DEF p

\* Work belongs to a session, and a session has a connected link and owes no RESET.
LEMMA SessionScope ==
    ASSUME NEW e, Sound(e)
    PROVE  /\ e.id = NoSession => /\ e.submitted = NoMessage /\ e.received = NoMessage
                                  /\ e.confirm = NoSequence /\ e.out.rel = IdleReliable
           /\ e.id # NoSession => /\ Connected(e) /\ e.out.resetId = NoSession
                                  /\ e.state \in {"CONNECTING", "ESTABLISHED"}
           /\ Completed_Confirm_Valid(e) /\ e.state # "FAULT"
           /\ e \in Endpoint /\ IdentityOK(e)
           /\ e.state = "CONNECTING" => e.out.resetId = NoSession
           /\ e.out.resetId # NoSession => e.state = "RECOVERING"
  <1>1. e \in Endpoint /\ IdentityOK(e)
    BY DEF Sound
  <1>2. e.state # "FAULT" /\ (e.out.resetId # NoSession => e.state = "RECOVERING")
    BY DEF Sound, LifeOK, PhasesOf, Output_Coherent, Recovering
  <1>3. CASE e.phase \in {"INACTIVE", "WAITING_FOR_INITIATE"}
    <2>1. e.id = NoSession /\ e.state # "ESTABLISHED"
      BY <1>3 DEF Sound, LifeOK, PhasesOf
    <2>2. e.out.rel = IdleReliable
      BY <1>3
      DEF Sound, RetainedOK, RetainedTypes, Output_Coherent, Reliability_Coherent, ReliableTypes
    <2>3. e.submitted = NoMessage
      BY <2>2 DEF Sound, RetainedOK, IdleReliable, NoFrame
    <2> QED
      BY <1>1, <1>2, <2>1, <2>2, <2>3 DEF Sound, WorkOK, Completed_Confirm_Valid
  <1>4. CASE e.phase \notin {"INACTIVE", "WAITING_FOR_INITIATE"}
    <2>1. e.id # NoSession /\ e.state \in {"CONNECTING", "ESTABLISHED"} /\ Connected(e)
          /\ (e.state = "ESTABLISHED" => e.phase = "ESTABLISHED")
      BY <1>1, <1>2, <1>4 DEF Sound, LifeOK, PhasesOf, Endpoint, EndpointRecord, SessionStates
    <2> QED
      BY <1>1, <1>2, <2>1 DEF Sound, WorkOK, Completed_Confirm_Valid
  <1> QED BY <1>3, <1>4

\* A failure detected here leaves the session and owes its RESET to the peer.
LEMMA LocalRecovery ==
    ASSUME NEW e, Sound(e), Connected(e), e.out.resetId = NoSession
    PROVE  LET r == Begin_Local_Recovery(e)
           IN  /\ Sound(r.e) /\ Follows(e, r.e)
               /\ r.s = IF EventsFull(e) THEN "CAPACITY_EXHAUSTED" ELSE "OK"
               /\ r.e.parser = EmptyParser /\ ~ r.e.errPending /\ r.e.state = "RECOVERING"
  <1> DEFINE left == Abandon(e)
             r == Begin_Local_Recovery(e)
  <1>1. /\ Left(e, left.e) /\ Sound(left.e)
        /\ left.s = IF EventsFull(e) THEN "CAPACITY_EXHAUSTED" ELSE "OK"
        /\ Extends(e.events, left.e.events)
        /\ \A t : Reported(e, left.e, t) => t = "SESSION_RESET"
    BY Abandoning, SessionScope
  <1> HIDE DEF left
  <1>2. left.e.state = "RECOVERING" /\ left.e.out = InitialOutput
    BY <1>1 DEF Left, Unestablished
  <1>3. CASE e.id = NoSession
    <2>1. r = left
      BY <1>1, <1>3 DEF Begin_Local_Recovery, Announced, left
    <2>2. Follows(e, left.e)
      BY <1>1, <1>2, <1>3, SessionScope DEF Left, Follows
    <2> QED BY <1>1, <1>2, <2>1, <2>2 DEF Left
  <1>4. CASE e.id # NoSession
    <2> DEFINE p == Publish_Recovery_Reset(left.e, e.id)
    <2>1. r = Result(p, left.s)
      BY <1>1, <1>4 DEF Begin_Local_Recovery, Announced, left
    <2>2. e.id \in SessionIds
      BY <1>4 DEF Sound, Endpoint, EndpointRecord, SessionIdsOrNone, SessionIds, NoSession
    <2>3. Control_Accepts(left.e.out, ResetFrame(e.id))
      BY <1>2 DEF Control_Accepts, InitialOutput, IdleControl
    <2>4. Sound(p) /\ p.out.resetId = e.id /\ p = [left.e EXCEPT !.out = p.out]
      BY <1>1, <1>2, <1>4, <2>2, <2>3, Owing DEF Left
    <2> HIDE DEF p
    <2>5. /\ p.role = e.role /\ p.link = e.link /\ p.state = "RECOVERING"
          /\ p.events = left.e.events /\ p.parser = EmptyParser /\ ~ p.errPending
          /\ p.submitted = NoMessage
      BY <1>1, <1>2, <2>4 DEF Left, Endpoint, EndpointRecord
    <2>6. Follows(e, p)
      BY <1>1, <1>4, <2>4, <2>5 DEF Follows, Reported
    <2> QED BY <1>1, <2>1, <2>4, <2>5, <2>6 DEF Result
  <1> QED BY <1>3, <1>4

\* A link notification loses the session with the link, begins one when the link comes up,
\* or does nothing.
LEMMA Linking ==
    ASSUME NEW e, Sound(e), NEW link \in {"DISCONNECTED", "CONNECTED"}
    PROVE  LET r == Session_Notify_Link_State(e, link)
           IN  /\ Sound(r.e) /\ Extends(e.events, r.e.events)
               /\ r.e = e \/ (Ends(e, r.e) /\ r.e.parser = EmptyParser)
               /\ Keeps(e, r.e) \/ Clears(e, r.e) \/ Begins(e, r.e)
  <1> DEFINE r == Session_Notify_Link_State(e, link)
  <1>0. e \in Endpoint /\ Completed_Confirm_Valid(e) /\ e.state # "FAULT" /\ IdentityOK(e)
    BY SessionScope
  <1>00. e.events \in Seq(EventTypes) /\ Len(e.events) \in Nat
    BY <1>0 DEF Endpoint, EndpointRecord
  <1>1. CASE e.link = link
    <2>1. r = Result(e, "OK")
      BY <1>0, <1>1 DEF Session_Notify_Link_State
    <2>2. Extends(e.events, e.events)
      BY <1>00 DEF Extends
    <2> QED BY <2>1, <2>2 DEF Result, Keeps
  <1>2. CASE e.link = "UNOBSERVED" /\ link = "DISCONNECTED"
    <2> DEFINE d == [e EXCEPT !.link = link, !.abandoned = NoSession]
    <2>1. r = Result(d, "OK")
      BY <1>0, <1>2 DEF Session_Notify_Link_State
    <2>2. d \in Endpoint
      <3>1. NoSession \in SessionIdsOrNone
        BY IdentifierAssumption DEF NoSession, SessionIdsOrNone, IdentifierAssumption
      <3> QED BY <1>0, <3>1 DEF Endpoint, EndpointRecord, LinkStates
    <2>3. /\ d.role = e.role /\ d.link = link /\ d.state = e.state /\ d.phase = e.phase
          /\ d.id = e.id /\ d.nextId = e.nextId /\ d.abandoned = NoSession /\ d.out = e.out
          /\ d.lastRx = e.lastRx /\ d.confirm = e.confirm /\ d.parser = e.parser
          /\ d.errPending = e.errPending /\ d.submitted = e.submitted /\ d.received = e.received
          /\ d.events = e.events
      BY <1>0 DEF Endpoint, EndpointRecord
    <2> HIDE DEF d
    <2>4. e.state = "DISCONNECTED" /\ e.phase = "INACTIVE" /\ e.id = NoSession
          /\ e.out.resetId = NoSession /\ e.parser = EmptyParser
      BY <1>2 DEF Sound, LifeOK, Connected, PhasesOf, Output_Coherent, Recovering, ParserOK
    <2>5. Output_Coherent(d.out, Recovering(d))
      BY <1>2, <2>3, <2>4 DEF Sound, Output_Coherent, Recovering, Connected
    <2>6. LifeOK(d) /\ RetainedOK(d) /\ ControlOK(d) /\ ParserOK(d)
      BY <1>2, <2>3, <2>4 DEF Sound, LifeOK, Connected, RetainedOK, ControlOK, ParserOK
    <2>7. WorkOK(d) /\ IdentityOK(d)
      BY <2>3 DEF Sound, WorkOK, BaselineTypes, IdentityOK, CursorValid
    <2>8. Ends(e, d) /\ Extends(e.events, d.events)
      BY <1>00, <2>3, <2>4, SessionScope DEF Ends, Extends, Reported
    <2>9. Keeps(e, d)
      BY <2>3 DEF Keeps, Session, Outgoing, Incoming
    <2> QED BY <2>1, <2>2, <2>3, <2>4, <2>5, <2>6, <2>7, <2>8, <2>9 DEF Sound, Result
  <1>3. CASE e.link # link /\ link = "DISCONNECTED" /\ e.link # "UNOBSERVED"
    <2> DEFINE d == [e EXCEPT !.link = "DISCONNECTED"]
               p == Events_Publish(d, "LINK_STATE_CHANGED")
               left == Abandon(p)
               f == [left.e EXCEPT !.abandoned = NoSession]
    <2>1. r.e = f
      BY <1>0, <1>3 DEF Session_Notify_Link_State, LinkChanged, LinkLost, ForgetAbandoned, Result
    <2>2. /\ d \in Endpoint /\ d.events = e.events /\ d.link = "DISCONNECTED"
          /\ d.role = e.role /\ d.state = e.state /\ d.phase = e.phase /\ d.id = e.id
          /\ d.nextId = e.nextId /\ d.abandoned = e.abandoned /\ d.confirm = e.confirm
      BY <1>0 DEF Endpoint, EndpointRecord, LinkStates
    <2>3. /\ p \in Endpoint /\ p = [d EXCEPT !.events = p.events]
          /\ Extends(d.events, p.events) /\ (\A t : Reported(d, p, t) => t = "LINK_STATE_CHANGED")
      BY <2>2, Publishing DEF EventTypes
    <2> HIDE DEF d, p
    <2>4. /\ p.role = e.role /\ p.state = e.state /\ p.phase = e.phase /\ p.id = e.id
          /\ p.nextId = e.nextId /\ p.abandoned = e.abandoned /\ p.confirm = e.confirm
          /\ p.link = "DISCONNECTED"
      BY <2>2, <2>3 DEF Endpoint, EndpointRecord
    <2>5. Completed_Confirm_Valid(p) /\ p.state # "FAULT" /\ IdentityOK(p)
      BY <1>0, <2>4 DEF Completed_Confirm_Valid, IdentityOK, CursorValid
    <2>6. /\ Left(p, left.e) /\ Extends(p.events, left.e.events)
          /\ \A t : Reported(p, left.e, t) => t = "SESSION_RESET"
      BY <2>3, <2>5, Abandoning
    <2> HIDE DEF left
    <2>7. f \in Endpoint
      BY <2>6, IdentifierAssumption
      DEF Left, Endpoint, EndpointRecord, NoSession, SessionIdsOrNone, IdentifierAssumption
    <2>8. /\ f.role = e.role /\ f.link = "DISCONNECTED" /\ f.nextId = e.nextId
          /\ f.state = "DISCONNECTED" /\ f.phase = "INACTIVE" /\ f.id = NoSession
          /\ f.abandoned = NoSession /\ f.out = InitialOutput /\ f.lastRx = NoBaseline
          /\ f.confirm = NoSequence /\ f.parser = EmptyParser /\ ~ f.errPending
          /\ f.submitted = NoMessage /\ f.received = NoMessage /\ f.events = left.e.events
      BY <2>4, <2>6 DEF Left, Endpoint, EndpointRecord, Unestablished, Connected
    <2> DEFINE g == [e EXCEPT !.link = "DISCONNECTED", !.id = NoSession, !.abandoned = NoSession]
    <2>9. /\ g.role = e.role /\ g.nextId = e.nextId /\ g.abandoned = NoSession
          /\ g.id = NoSession /\ g.link = "DISCONNECTED"
      BY <1>0 DEF Endpoint, EndpointRecord
    <2>99. g \in Endpoint
      <3>1. NoSession \in SessionIdsOrNone
        BY IdentifierAssumption DEF NoSession, SessionIdsOrNone, IdentifierAssumption
      <3> QED
        BY <1>0, <3>1 DEF Endpoint, EndpointRecord, LinkStates
    <2> HIDE DEF f, g
    <2>10. IdentityOK(g) /\ Left(g, f)
      BY <1>0, <2>7, <2>8, <2>9, <2>99
      DEF IdentityOK, CursorValid, Left, Unestablished, Connected
    <2>11. Sound(f)
      BY <2>10, <2>99, LeftIsSound
    <2>12. Extends(e.events, f.events)
      BY <2>2, <2>3, <2>6, <2>8, ExtendsTransitive DEF Endpoint, EndpointRecord, Left
    <2>13. ~ Reported(e, f, "DELIVERY_CONFIRMED")
      <3>1. ~ Reported(d, left.e, "DELIVERY_CONFIRMED")
        BY <2>2, <2>3, <2>6, ReportedTwice DEF Left
      <3> QED BY <2>2, <2>8, <3>1 DEF Reported
    <2>14. Ends(e, f)
      BY <2>8, <2>13 DEF Ends, Connected
    <2>15. Clears(e, f)
      BY <2>8 DEF Clears, Outgoing, Incoming, InitialOutput, IdleReliable
    <2> QED BY <2>1, <2>8, <2>11, <2>12, <2>14, <2>15
  <1>4. CASE e.link # link /\ link = "CONNECTED"
    <2> DEFINE d == [e EXCEPT !.link = "CONNECTED"]
               p == Events_Publish(d, "LINK_STATE_CHANGED")
               b == Begin_Establishment(p)
    <2>1. /\ d \in Endpoint /\ d.events = e.events /\ d.link = "CONNECTED"
          /\ d.role = e.role /\ d.state = e.state /\ d.phase = e.phase /\ d.id = e.id
          /\ d.nextId = e.nextId /\ d.abandoned = e.abandoned /\ d.confirm = e.confirm
          /\ d.out = e.out /\ d.lastRx = e.lastRx /\ d.parser = e.parser
          /\ d.errPending = e.errPending /\ d.submitted = e.submitted /\ d.received = e.received
      BY <1>0 DEF Endpoint, EndpointRecord, LinkStates
    <2>2. /\ p \in Endpoint /\ p = [d EXCEPT !.events = p.events]
          /\ Extends(d.events, p.events) /\ (\A t : Reported(d, p, t) => t = "LINK_STATE_CHANGED")
      BY <2>1, Publishing DEF EventTypes
    <2> HIDE DEF d, p
    <2>3. /\ p.role = e.role /\ p.state = e.state /\ p.phase = e.phase /\ p.id = e.id
          /\ p.nextId = e.nextId /\ p.abandoned = e.abandoned /\ p.confirm = e.confirm
          /\ p.link = "CONNECTED" /\ p.out = e.out /\ p.lastRx = e.lastRx /\ p.parser = e.parser
          /\ p.errPending = e.errPending /\ p.submitted = e.submitted /\ p.received = e.received
      BY <2>1, <2>2 DEF Endpoint, EndpointRecord
    <2>4. e.state = "DISCONNECTED" /\ e.phase = "INACTIVE" /\ e.id = NoSession
          /\ e.out.resetId = NoSession /\ e.parser = EmptyParser /\ ~ e.errPending
      BY <1>4 DEF Sound, LifeOK, Connected, PhasesOf, Output_Coherent, Recovering, ParserOK
    <2>5. Drained(p)
      <3>1. e.submitted = NoMessage /\ e.received = NoMessage /\ e.confirm = NoSequence
            /\ e.out.rel = IdleReliable
        BY <2>4, SessionScope
      <3>2. e.lastRx = NoBaseline
        BY <1>0, <2>4
        DEF Sound, WorkOK, BaselineTypes, Endpoint, EndpointRecord, BaselineRecord, ReliableTypes
      <3>3. e.out.ctl.item = NoFrame
        <4>1. e.out.ctl.item.type # "ACK"
          BY <3>2 DEF Sound, ControlOK, NoBaseline
        <4>2. e.out.ctl.item.type # "RESET"
          BY <2>4 DEF Sound, ControlOK
        <4> QED
          BY <1>0, <4>1, <4>2
          DEF Endpoint, EndpointRecord, OutputRecord, ControlRecord, ControlFrame, ControlTypes
      <3>4. e.out.ctl = IdleControl
        BY <1>0, <3>3
        DEF Sound, Output_Coherent, Control_Coherent, IdleControl, Endpoint, EndpointRecord,
            OutputRecord, ControlRecord
      <3>5. e.out.sel = "NONE"
        BY <1>0, <3>1, <3>4
        DEF Sound, Output_Coherent, ReliablePeeked, ControlPeeked, IdleReliable, IdleControl,
            Endpoint, EndpointRecord, OutputRecord, Selections
      <3>6. IdentityOK(p)
        BY <1>0, <2>3 DEF IdentityOK, CursorValid
      <3> QED
        BY <2>2, <2>3, <2>4, <3>1, <3>2, <3>4, <3>5, <3>6 DEF Drained, FullyCleared, Connected
    <2>6. /\ b = Result(Establishing(p), "OK") /\ Sound(b.e) /\ b.e.events = p.events
          /\ b.e.state = "CONNECTING" /\ b.e.parser = EmptyParser /\ b.e.out.resetId = NoSession
      BY <2>5, Beginning
    <2> HIDE DEF b
    <2>7. r.e = b.e
      BY <1>0, <1>4, <2>6
      DEF Session_Notify_Link_State, LinkChanged, LinkGained, MustBegin, Result, b, p, d
    <2>8. Sound(b.e) /\ b.e.submitted = NoMessage /\ b.e.received = NoMessage
      <3>1. Follows(p, b.e) /\ p.submitted = NoMessage
        BY <2>3, <2>4, <2>5, Beginning, SessionScope DEF b
      <3> QED
        BY <2>6, <3>1 DEF Follows, Sound, WorkOK
    <2>81. b.e.role = e.role
      BY <2>3, <2>5, Beginning DEF Follows, b
    <2>9. ~ Reported(e, b.e, "DELIVERY_CONFIRMED") /\ Extends(e.events, b.e.events)
      BY <2>1, <2>2, <2>6 DEF Reported
    <2>10. Ends(e, b.e)
      BY <2>4, <2>6, <2>8, <2>81, <2>9 DEF Ends
    <2>11. Begins(e, b.e)
      <3>1. /\ p.out.rel = IdleReliable /\ p.lastRx = NoBaseline /\ p.id = NoSession
            /\ p.submitted = NoMessage /\ p.received = NoMessage /\ b.e = Establishing(p)
        BY <2>3, <2>4, <2>5, <2>6, SessionScope DEF Drained, FullyCleared, Result
      <3> QED
        BY <2>2, <2>3, <2>4, <3>1
        DEF Establishing, Begins, Outgoing, Incoming, IdleReliable, Endpoint, EndpointRecord,
            OutputRecord
    <2> QED BY <2>6, <2>7, <2>8, <2>9, <2>10, <2>11
  <1> QED BY <1>1, <1>2, <1>3, <1>4

-----------------------------------------------------------------------------
(* Steps that change only the output record *)

\* The output record may change as long as what is retained and offered stays the session's.
LEMMA OutputSound ==
    ASSUME NEW e, Sound(e), NEW o \in OutputRecord({0}), Output_Coherent(o, Recovering(e)),
           o.rel.frame = e.out.rel.frame,
           \/ o.ctl.item = e.out.ctl.item /\ o.resetId = e.out.resetId
           \/ o.ctl.item = NoFrame /\ o.resetId = NoSession
           \/ /\ o.ctl.item = AckFrame(e, e.lastRx.seq) /\ o.resetId = NoSession
              /\ e.lastRx.type \in {"CONFIRM", "APPLICATION"}
    PROVE  Sound([e EXCEPT !.out = o])
  <1> DEFINE q == [e EXCEPT !.out = o]
  <1>1. q \in Endpoint
    BY DEF Sound, Endpoint, EndpointRecord
  <1>2. /\ q.role = e.role /\ q.link = e.link /\ q.state = e.state /\ q.phase = e.phase
        /\ q.id = e.id /\ q.nextId = e.nextId /\ q.abandoned = e.abandoned /\ q.out = o
        /\ q.lastRx = e.lastRx /\ q.confirm = e.confirm /\ q.parser = e.parser
        /\ q.errPending = e.errPending /\ q.submitted = e.submitted /\ q.received = e.received
    BY DEF Sound, Endpoint, EndpointRecord
  <1> HIDE DEF q
  <1>3. Output_Coherent(q.out, Recovering(q))
    BY <1>2 DEF Recovering, Connected
  <1>4. LifeOK(q) /\ WorkOK(q) /\ ParserOK(q) /\ IdentityOK(q)
    BY <1>2 DEF Sound, LifeOK, Connected, WorkOK, BaselineTypes, ParserOK, IdentityOK, CursorValid
  <1>5. RetainedOK(q)
    BY <1>2 DEF Sound, RetainedOK
  <1>6. ControlOK(q)
    BY <1>2 DEF Sound, ControlOK, AckFrame, MakeFrame, NoFrame
  <1>7. Sound(q)
    BY <1>1, <1>3, <1>4, <1>5, <1>6 DEF Sound
  <1> QED BY <1>7 DEF q

\* Such a step follows, unless it withdraws a RESET.
LEMMA OutputFollows ==
    ASSUME NEW e, Sound(e), NEW o \in OutputRecord({0}), o.resetId = e.out.resetId
    PROVE  Follows(e, [e EXCEPT !.out = o])
  <1> DEFINE q == [e EXCEPT !.out = o]
  <1>1. q \in Endpoint /\ e \in Endpoint
    BY DEF Sound, Endpoint, EndpointRecord
  <1>2. /\ q.role = e.role /\ q.link = e.link /\ q.state = e.state /\ q.id = e.id /\ q.out = o
        /\ q.submitted = e.submitted /\ q.received = e.received /\ q.events = e.events
    BY DEF Sound, Endpoint, EndpointRecord
  <1> HIDE DEF q
  <1>3. Follows(e, q)
    BY <1>1, <1>2, QuietStepFollows
  <1> QED BY <1>3 DEF q

-----------------------------------------------------------------------------
(* What a handler of a received frame returns *)

\* What a handler makes of a frame.
Classes == {"ACCEPTED", "DUPLICATE", "STALE", "INCOMPATIBLE", "CAPACITY_EXHAUSTED"}

\* The body at hand was neither consumed nor refused.
SameBody(e, e2) == e2.parser = e.parser /\ e2.errPending = e.errPending

\* A refusal changes nothing, and what was refused for lack of room has had no effect.
Handled(e, r) ==
    /\ r.s \in Classes
    /\ Sound(r.e)
    /\ r.s \in {"STALE", "INCOMPATIBLE"} => r.e = e
    /\ Follows(e, r.e) /\ SameBody(e, r.e)
    /\ r.s = "CAPACITY_EXHAUSTED" => SameWork(e, r.e)

\* The peer's RESET of the current session replaces the session.
ReplacedBy(e, f, r) ==
    /\ f.type = "RESET" /\ f.id = e.id
    /\ r.s \in {"ACCEPTED", "CAPACITY_EXHAUSTED"}
    /\ Sound(r.e) /\ Replaced(e, r.e)

\* A RESET that replaces nothing is never kept for another try in its own session.
IgnoredReset(e, f, r) ==
    f.type = "RESET" =>
        /\ r.s # "CAPACITY_EXHAUSTED"
        /\ r.s = "STALE" => e.id = NoSession

\* The frames the decoder lets through.
WireFrame == {f \in Frame : ValidFrame(f)}

\* A frame that changes nothing is handled.
LEMMA Ignoring ==
    ASSUME NEW e, Sound(e), NEW s \in Classes
    PROVE  Handled(e, Result(e, s))
  <1>1. e \in Endpoint
    BY DEF Sound
  <1>2. Follows(e, e)
    BY <1>1, QuietStepFollows
  <1> QED BY <1>2 DEF Handled, Result, SameBody, SameWork

\* A repeated peer frame finds the answer it asks for, or nothing, in the retained slot.
LEMMA Repeating ==
    ASSUME NEW e, Sound(e), NEW type, e.out.rel.state # "IDLE" => e.out.rel.frame.type = type
    PROVE  Handled(e, Repeat_Answer(e, type))
  <1> DEFINE o == Reliability_Request_Retransmission(e.out)
             q == [e EXCEPT !.out = o]
  <1>1. Repeat_Answer(e, type) = Result(q, "DUPLICATE")
    BY DEF Repeat_Answer, Retransmission_Mismatch
  <1>2. e.out \in OutputRecord({0}) /\ e \in Endpoint
    BY DEF Sound, Endpoint, EndpointRecord
  <1>3. CASE e.out.rel.state = "AWAITING_ACK"
    <2>1. o = RetryOrExhaust(e.out)
      BY <1>3 DEF Reliability_Request_Retransmission
    <2>2. /\ Output_Coherent(o, Recovering(e)) /\ o.rel.frame = e.out.rel.frame
          /\ o.ctl = e.out.ctl /\ o.resetId = e.out.resetId
      BY <1>2, <1>3, <2>1, RetryCoherent DEF Sound
    <2>3. o \in OutputRecord({0})
      BY <1>2, <2>1, RetryType
    <2> HIDE DEF o
    <2>4. Sound(q) /\ Follows(e, q)
      BY <2>2, <2>3, OutputSound, OutputFollows
    <2>5. SameBody(e, q)
      BY <1>2 DEF SameBody, Endpoint, EndpointRecord
    <2> QED BY <1>1, <2>4, <2>5 DEF Handled, Result, Classes
  <1>4. CASE e.out.rel.state # "AWAITING_ACK"
    <2>1. q = e
      BY <1>2, <1>4 DEF Reliability_Request_Retransmission, Endpoint, EndpointRecord
    <2> QED BY <1>1, <2>1, Ignoring DEF Classes
  <1> QED BY <1>3, <1>4

\* A handshake frame that is not the next expected one.
LEMMA NotExpecting ==
    ASSUME NEW e, Sound(e), NEW f, NEW phases, NEW type,
           e.phase \in phases /\ e.out.rel.state # "IDLE" => e.out.rel.frame.type = type
    PROVE  Handled(e, Not_Expected(e, f, phases, type))
  <1>1. CASE /\ Session_Classify_Sequence(e, f.seq) = "DUPLICATE" /\ Is_Exact_Duplicate(e, f)
             /\ e.phase \in phases
    <2>1. Not_Expected(e, f, phases, type) = Repeat_Answer(e, type)
      BY <1>1 DEF Not_Expected
    <2> QED BY <1>1, <2>1, Repeating
  <1>2. CASE ~ (/\ Session_Classify_Sequence(e, f.seq) = "DUPLICATE" /\ Is_Exact_Duplicate(e, f)
                /\ e.phase \in phases)
    <2>1. \E s \in Classes : Not_Expected(e, f, phases, type) = Result(e, s)
      BY <1>2 DEF Not_Expected, Classes
    <2> QED BY <2>1, Ignoring
  <1> QED BY <1>1, <1>2

\* The RESET of the current session replaces it; any other changes nothing.
LEMMA HandlingReset ==
    ASSUME NEW e, Sound(e), NEW f \in WireFrame, f.type = "RESET"
    PROVE  LET r == Handle_Reset(e, f)
           IN  (Handled(e, r) /\ IgnoredReset(e, f, r)) \/ ReplacedBy(e, f, r)
  <1> DEFINE left == Abandon(e)
             b == Begin_Establishment(left.e)
  <1>1. CASE f.id = ReservedSession \/ e.id = NoSession \/ f.id # e.id
    <2>1. \E s \in Classes : /\ Handle_Reset(e, f) = Result(e, s)
                             /\ s = "STALE" => e.id = NoSession
                             /\ s # "CAPACITY_EXHAUSTED"
      BY <1>1 DEF Handle_Reset, Classes
    <2> QED BY <2>1, Ignoring DEF Result, IgnoredReset
  <1>2. CASE ~ (f.id = ReservedSession \/ e.id = NoSession \/ f.id # e.id)
    <2>1. e.id # NoSession /\ Connected(e)
      BY <1>2, SessionScope
    <2>2. /\ Left(e, left.e) /\ Sound(left.e)
          /\ left.s = IF EventsFull(e) THEN "CAPACITY_EXHAUSTED" ELSE "OK"
          /\ Extends(e.events, left.e.events)
          /\ \A t : Reported(e, left.e, t) => t = "SESSION_RESET"
      BY Abandoning, SessionScope
    <2>3. Handle_Reset(e, f) = Begin_Replacement(left)
      BY <1>2 DEF Handle_Reset
    <2> HIDE DEF left
    <2>4. Connected(left.e) /\ left.e.state = "RECOVERING"
      BY <2>1, <2>2 DEF Left, Connected, Unestablished
    <2>5. Drained(left.e)
      BY <2>2, <2>4, RecoveringDrains
      DEF Left, InitialOutput, IdleControl, ControlPending, EmptyParser
    <2>6. /\ b = Result(b.e, "OK") /\ Sound(b.e) /\ Follows(left.e, b.e)
          /\ b.e.state = "CONNECTING" /\ b.e.parser = EmptyParser /\ ~ b.e.errPending
          /\ b.e.events = left.e.events /\ b.e.out.resetId = NoSession
          /\ b.e.id = IF left.e.role = "HOST" THEN left.e.nextId ELSE NoSession
      BY <2>5, Beginning DEF Result
    <2> HIDE DEF b
    <2>7. Begin_Replacement(left) =
              Result(b.e, IF left.s = "OK" THEN "ACCEPTED" ELSE left.s)
      <3>1. left.s # "INTERNAL_ERROR" /\ b.s = "OK"
        BY <2>2, <2>6 DEF Result
      <3> QED BY <2>4, <3>1 DEF Begin_Replacement, Reset_Accepted, b
    <2>8. b.e.id # e.id
      <3>1. CASE e.role = "HOST"
        <4>1. e.id \in SessionIds /\ e.nextId = NextSessionId(e.id)
          BY <2>1, <3>1
          DEF Sound, IdentityOK, Endpoint, EndpointRecord, SessionIdsOrNone, SessionIds, NoSession
        <4> QED BY <2>2, <2>6, <3>1, <4>1, NextSessionIdType DEF Left
      <3>2. CASE e.role # "HOST"
        BY <2>1, <2>2, <2>6, <3>2 DEF Left
      <3> QED BY <3>1, <3>2
    <2>9. b.e.submitted = NoMessage /\ b.e.received = NoMessage
      BY <2>2, <2>6 DEF Left, Follows, Sound, WorkOK
    <2>10. Replaced(e, b.e)
      <3>1. ~ Reported(e, b.e, "DELIVERY_CONFIRMED") /\ Extends(e.events, b.e.events)
        BY <2>2, <2>6 DEF Reported
      <3>2. b.e.role = e.role
        BY <2>2, <2>6 DEF Left, Follows
      <3> QED
        BY <2>1, <2>6, <2>8, <2>9, <3>1, <3>2, SessionScope DEF Replaced, Ends
    <2> QED BY <1>2, <2>2, <2>3, <2>6, <2>7, <2>10 DEF ReplacedBy, Result
  <1> QED BY <1>1, <1>2

-----------------------------------------------------------------------------
(* The handshake *)

\* What the handshake accepts becomes the receive baseline.
LEMMA BaselineType ==
    ASSUME NEW f \in WireFrame, f.type \in ReliableTypes
    PROVE  [type |-> f.type, seq |-> f.seq, ack |-> f.ack] \in BaselineRecord
  BY DEF WireFrame, Frame, BaselineRecord

\* The ACK of an accepted sequence is a control frame.
LEMMA AckFrameType ==
    ASSUME NEW e \in Endpoint, e.id # NoSession, NEW seq \in Sequences16
    PROVE  AckFrame(e, seq) \in ControlFrame
  <1>1. e.id \in WireIds
    BY IdentifierAssumption
    DEF Endpoint, EndpointRecord, SessionIdsOrNone, WireIds, ReservedSession, NoSession,
        IdentifierAssumption
  <1>2. 0 \in Sequences16
    BY SequenceAssumption DEF Sequences16, SequenceAssumption
  <1> QED
    BY <1>1, <1>2
    DEF AckFrame, MakeFrame, ControlFrame, Frame, FrameTypes, ControlTypes, ValidFrame

\* In a waiting phase the retained frame is there: its slot is in use and it bears a sequence.
LEMMA RetainedFrame ==
    ASSUME NEW e, Sound(e), e.out.rel.frame.type \in ReliableTypes
    PROVE  /\ e.out \in OutputRecord({0}) /\ e.out.rel.frame \in ReliableFrame
           /\ e.out.rel.frame.seq \in Sequences16 /\ e.out.rel.state # "IDLE"
  <1>1. e.out \in OutputRecord({0}) /\ e.out.rel.frame \in ReliableFrame
    BY DEF Sound, Endpoint, EndpointRecord, OutputRecord, ReliableRecord, NoFrame, ReliableTypes
  <1>2. e.out.rel.state # "IDLE"
    BY DEF Sound, Output_Coherent, Reliability_Coherent, IdleReliable, NoFrame, ReliableTypes
  <1> QED BY <1>1, <1>2 DEF ReliableFrame, Frame

\* The host establishes once its CONFIRM is acknowledged, and reports it.
LEMMA CompletingHost ==
    ASSUME NEW e, Sound(e), e.phase = "WAITING_FOR_CONFIRM_ACK", ~ EventsFull(e),
           e.out.rel.state \in {"AWAITING_ACK", "RETRANSMIT_READY"}
    PROVE  LET c == Complete_Host(e)
           IN  /\ Sound(c) /\ Follows(e, c) /\ SameBody(e, c) /\ SameWork(e, c)
               /\ c.id = e.id /\ c.state = "ESTABLISHED" /\ c.phase = "ESTABLISHED"
               /\ c.role = e.role
  <1> DEFINE seq == e.out.rel.frame.seq
             o == Reliability_Accept_Acknowledgement(e.out, seq)
             d == [Handshake_Set_Established(e) EXCEPT !.out = o, !.confirm = seq]
             c == Complete_Host(e)
  <1>1. e.out.rel.frame.type = "CONFIRM" /\ e.role = "HOST" /\ e \in Endpoint
    BY DEF Sound, RetainedOK, RetainedTypes, LifeOK, HostPhases
  <1>2. e.out \in OutputRecord({0}) /\ seq \in Sequences16
    BY <1>1, RetainedFrame DEF ReliableTypes
  <1>3. e.state = "CONNECTING" /\ Connected(e) /\ e.id # NoSession /\ e.submitted = NoMessage
        /\ e.received = NoMessage /\ e.out.resetId = NoSession
    <2>1. e.state = "CONNECTING"
      BY DEF Sound, LifeOK, PhasesOf
    <2>2. e.id # NoSession
      BY DEF Sound, LifeOK
    <2>3. e.submitted = NoMessage
      <3>1. e.out.rel.frame.msg = NoMessage
        BY <1>1, RetainedFrame DEF ReliableTypes, ReliableFrame, ValidFrame
      <3> QED BY <3>1 DEF Sound, RetainedOK
    <2>4. e.received = NoMessage
      BY <2>1 DEF Sound, WorkOK
    <2> QED BY <2>1, <2>2, <2>3, <2>4, SessionScope
  <1>4. Ack_Matches(e.out, seq)
    BY DEF Ack_Matches
  <1>5. o \in OutputRecord({0})
    BY <1>2, AcknowledgementType
  <1>6. /\ Output_Coherent(o, Recovering(e)) /\ o.rel = IdleReliable /\ o.ctl = e.out.ctl
        /\ o.resetId = e.out.resetId
    BY <1>2, <1>4, AcknowledgementCoherent DEF Sound
  <1> HIDE DEF o
  <1>7. d \in Endpoint
    BY <1>1, <1>2, <1>5
    DEF Handshake_Set_Established, Endpoint, EndpointRecord, SessionStates, HandshakePhases
  <1>8. /\ d.role = e.role /\ d.link = e.link /\ d.state = "ESTABLISHED" /\ d.phase = "ESTABLISHED"
        /\ d.id = e.id /\ d.nextId = e.nextId /\ d.abandoned = e.abandoned /\ d.out = o
        /\ d.lastRx = e.lastRx /\ d.confirm = seq /\ d.parser = e.parser
        /\ d.errPending = e.errPending /\ d.submitted = e.submitted /\ d.received = e.received
        /\ d.events = e.events
    BY <1>1 DEF Handshake_Set_Established, Endpoint, EndpointRecord
  <1> HIDE DEF d
  <1>9. Output_Coherent(d.out, Recovering(d))
    BY <1>3, <1>6, <1>8 DEF Recovering, Output_Coherent
  <1>10. LifeOK(d)
    BY <1>3, <1>8 DEF LifeOK, Connected, PhasesOf, HostPhases, RigPhases
  <1>11. RetainedOK(d) /\ ControlOK(d)
    BY <1>3, <1>6, <1>8
    DEF Sound, RetainedOK, RetainedTypes, IdleReliable, NoFrame, ControlOK
  <1>12. WorkOK(d)
    BY <1>1, <1>8 DEF Sound, WorkOK, BaselineTypes
  <1>13. ParserOK(d) /\ IdentityOK(d)
    BY <1>3, <1>8 DEF Sound, ParserOK, IdentityOK, CursorValid
  <1>14. Sound(d)
    BY <1>7, <1>9, <1>10, <1>11, <1>12, <1>13 DEF Sound
  <1>15. c = Events_Publish(d, "SESSION_ESTABLISHED")
    <2>1. Handshake_Set_Established(e).out = e.out
      BY <1>1 DEF Handshake_Set_Established, Endpoint, EndpointRecord
    <2> QED BY <2>1 DEF Complete_Host, d, o
  <1>16. Sound(c)
    BY <1>14, <1>15, PublishingIsSound DEF EventTypes
  <1>17. /\ c \in Endpoint /\ c = [d EXCEPT !.events = c.events] /\ Extends(d.events, c.events)
         /\ \A t : Reported(d, c, t) <=> ~ EventsFull(d) /\ t = "SESSION_ESTABLISHED"
    BY <1>7, <1>15, Publishing DEF EventTypes
  <1> HIDE DEF c
  <1>18. /\ c.role = d.role /\ c.link = d.link /\ c.state = d.state /\ c.phase = d.phase
         /\ c.id = d.id /\ c.out = d.out /\ c.lastRx = d.lastRx /\ c.parser = d.parser
         /\ c.errPending = d.errPending /\ c.submitted = d.submitted /\ c.received = d.received
    BY <1>7, <1>17 DEF Endpoint, EndpointRecord
  <1>19. \A t : Reported(e, c, t) <=> t = "SESSION_ESTABLISHED"
    <2>1. EventsFull(d) = EventsFull(e) /\ \A t : Reported(d, c, t) <=> Reported(e, c, t)
      BY <1>8, ReportedSince
    <2> QED BY <1>17, <2>1
  <1>20. Follows(e, c)
    <2>1. Extends(e.events, c.events)
      BY <1>8, <1>17 DEF Extends
    <2>2. /\ c.role = e.role /\ c.link = e.link /\ c.submitted = e.submitted
          /\ c.received = e.received /\ c.id = e.id
          /\ e.out.resetId # NoSession => c.out.resetId = e.out.resetId
      BY <1>3, <1>6, <1>8, <1>18
    <2> QED BY <1>19, <2>1, <2>2 DEF Follows
  <1>21. SameBody(e, c) /\ SameWork(e, c)
    BY <1>6, <1>8, <1>18 DEF SameBody, SameWork
  <1> QED BY <1>8, <1>16, <1>18, <1>20, <1>21 DEF c

\* The host takes a RESPONSE to its INITIATE only while it waits for one.
LEMMA HandlingResponse ==
    ASSUME NEW e, Sound(e), e.role = "HOST", NEW f \in WireFrame, f.type = "RESPONSE"
    PROVE  Handled(e, Handle_Host_Response(e, f))
  <1> DEFINE ack == Classify_Acknowledgement(e, f, "INITIATE")
             o == Reliability_Accept_Acknowledgement(e.out, f.ack)
             d == [Accept_Frame(e, f) EXCEPT !.out = o, !.phase = "CONFIRM_PENDING"]
  <1>1. CASE f.id = e.id /\ Session_Classify_Sequence(e, f.seq) # "EXPECTED"
    <2>1. Handle_Host_Response(e, f) =
             Not_Expected(e, f, {"CONFIRM_PENDING", "WAITING_FOR_CONFIRM_ACK"}, "CONFIRM")
      BY <1>1 DEF Handle_Host_Response
    <2>2. e.phase \in {"CONFIRM_PENDING", "WAITING_FOR_CONFIRM_ACK"} /\ e.out.rel.state # "IDLE"
             => e.out.rel.frame.type = "CONFIRM"
      BY DEF Sound, RetainedOK, RetainedTypes, Output_Coherent, Reliability_Coherent, ReliableTypes
    <2> QED BY <2>1, <2>2, NotExpecting
  <1>2. CASE /\ f.id = e.id /\ Session_Classify_Sequence(e, f.seq) = "EXPECTED"
             /\ e.phase = "WAITING_FOR_RESPONSE" /\ ack = "MATCHED"
    <2>1. Handle_Host_Response(e, f) = Result(d, "ACCEPTED")
      <3>1. Accept_Frame(e, f).out = e.out
        BY DEF Accept_Frame, Sound, Endpoint, EndpointRecord
      <3> QED BY <1>2, <3>1 DEF Handle_Host_Response
    <2>2. Ack_Matches(e.out, f.ack) /\ e.out.rel.frame.type = "INITIATE"
      BY <1>2 DEF Classify_Acknowledgement
    <2>3. /\ e \in Endpoint /\ e.out \in OutputRecord({0}) /\ e.state = "CONNECTING"
          /\ e.lastRx.type = "INVALID"
      BY <1>2
      DEF Sound, Endpoint, EndpointRecord, LifeOK, PhasesOf, WorkOK, BaselineTypes
    <2>4. f.ack \in Sequences16 /\ f.seq \in Sequences16
      BY DEF WireFrame, Frame
    <2>5. o \in OutputRecord({0})
      BY <2>3, <2>4, AcknowledgementType
    <2>6. /\ Output_Coherent(o, Recovering(e)) /\ o.rel = IdleReliable /\ o.ctl = e.out.ctl
          /\ o.resetId = e.out.resetId
      BY <2>2, <2>3, AcknowledgementCoherent DEF Sound
    <2> HIDE DEF o
    <2>7. [type |-> f.type, seq |-> f.seq, ack |-> f.ack] \in BaselineRecord
      BY BaselineType DEF ReliableTypes
    <2>8. d \in Endpoint
      BY <2>3, <2>5, <2>7 DEF Accept_Frame, Endpoint, EndpointRecord, HandshakePhases
    <2>9. /\ d.role = e.role /\ d.link = e.link /\ d.state = e.state
          /\ d.phase = "CONFIRM_PENDING" /\ d.id = e.id /\ d.nextId = e.nextId
          /\ d.abandoned = e.abandoned /\ d.out = o /\ d.lastRx.type = "RESPONSE"
          /\ d.confirm = e.confirm /\ d.parser = e.parser /\ d.errPending = e.errPending
          /\ d.submitted = e.submitted /\ d.received = e.received /\ d.events = e.events
      BY <2>3 DEF Accept_Frame, Endpoint, EndpointRecord
    <2> HIDE DEF d
    <2>10. Output_Coherent(d.out, Recovering(d))
      BY <2>6, <2>9 DEF Recovering, Connected
    <2>11. LifeOK(d)
      BY <1>2, <2>3, <2>9 DEF Sound, LifeOK, Connected, PhasesOf, HostPhases, RigPhases
    <2>12. e.submitted = NoMessage
      <3>1. e.out.rel.frame.msg = NoMessage
        BY <2>2, RetainedFrame DEF ReliableTypes, ReliableFrame, ValidFrame
      <3> QED BY <3>1 DEF Sound, RetainedOK
    <2>13. RetainedOK(d) /\ ControlOK(d)
      BY <2>3, <2>6, <2>9, <2>12
      DEF Sound, RetainedOK, RetainedTypes, IdleReliable, NoFrame, ControlOK
    <2>14. WorkOK(d) /\ ParserOK(d) /\ IdentityOK(d)
      BY <2>3, <2>9 DEF Sound, WorkOK, BaselineTypes, ParserOK, IdentityOK, CursorValid
    <2>15. Sound(d)
      BY <2>8, <2>10, <2>11, <2>13, <2>14 DEF Sound
    <2>16. Follows(e, d)
      BY <2>3, <2>6, <2>8, <2>9, QuietStepFollows
    <2> QED BY <2>1, <2>9, <2>15, <2>16 DEF Handled, Result, SameBody, Classes
  <1>3. CASE \/ f.id # e.id
             \/ /\ Session_Classify_Sequence(e, f.seq) = "EXPECTED"
                /\ e.phase # "WAITING_FOR_RESPONSE" \/ ack # "MATCHED"
    <2>1. \E s \in Classes : Handle_Host_Response(e, f) = Result(e, s)
      BY <1>3 DEF Handle_Host_Response, Classify_Acknowledgement, Classes
    <2> QED BY <2>1, Ignoring
  <1> QED BY <1>1, <1>2, <1>3

\* The host takes an ACK of its CONFIRM only while it waits for one and can report it.
LEMMA HandlingHostAck ==
    ASSUME NEW e, Sound(e), NEW f \in WireFrame
    PROVE  Handled(e, Handle_Host_Ack(e, f))
  <1> DEFINE ack == Classify_Acknowledgement(e, f, "CONFIRM")
  <1>1. CASE /\ f.id = e.id /\ e.phase = "WAITING_FOR_CONFIRM_ACK" /\ ack = "MATCHED"
             /\ ~ EventsFull(e)
    <2>1. Handle_Host_Ack(e, f) = Result(Complete_Host(e), "ACCEPTED")
      BY <1>1 DEF Handle_Host_Ack
    <2>2. e.out.rel.state \in {"AWAITING_ACK", "RETRANSMIT_READY"}
      BY <1>1 DEF Classify_Acknowledgement, Ack_Matches
    <2> QED BY <1>1, <2>1, <2>2, CompletingHost DEF Handled, Result, Classes
  <1>2. CASE ~ (/\ f.id = e.id /\ e.phase = "WAITING_FOR_CONFIRM_ACK" /\ ack = "MATCHED"
                /\ ~ EventsFull(e))
    <2>1. \E s \in Classes : Handle_Host_Ack(e, f) = Result(e, s)
      BY <1>2 DEF Handle_Host_Ack, Classify_Acknowledgement, Classes
    <2> QED BY <2>1, Ignoring
  <1> QED BY <1>1, <1>2

\* A rig without a session adopts the one an INITIATE offers, unless it just abandoned it.
LEMMA HandlingInitiate ==
    ASSUME NEW e, Sound(e), e.role = "RIG", NEW f \in WireFrame, f.type = "INITIATE",
           ~ Is_Recently_Abandoned(e, f)
    PROVE  Handled(e, Handle_Rig_Initiate(e, f))
  <1> DEFINE d == [Accept_Frame(e, f) EXCEPT !.id = f.id, !.phase = "RESPONSE_PENDING"]
             ours == f.id # ReservedSession /\ (e.id = NoSession \/ f.id = e.id)
             class == Session_Classify_Sequence(e, f.seq)
  <1>1. CASE ours /\ class # "EXPECTED"
    <2>1. Handle_Rig_Initiate(e, f) =
             Not_Expected(e, f, {"RESPONSE_PENDING", "WAITING_FOR_CONFIRM"}, "RESPONSE")
      BY <1>1 DEF Handle_Rig_Initiate
    <2>2. e.phase \in {"RESPONSE_PENDING", "WAITING_FOR_CONFIRM"} /\ e.out.rel.state # "IDLE"
             => e.out.rel.frame.type = "RESPONSE"
      BY DEF Sound, RetainedOK, RetainedTypes, Output_Coherent, Reliability_Coherent, ReliableTypes
    <2> QED BY <2>1, <2>2, NotExpecting
  <1>2. CASE /\ ours /\ class = "EXPECTED" /\ Connected(e) /\ e.state = "CONNECTING"
             /\ e.phase = "WAITING_FOR_INITIATE"
    <2>1. Handle_Rig_Initiate(e, f) = Result(d, "ACCEPTED")
      BY <1>2 DEF Handle_Rig_Initiate
    <2>2. /\ e \in Endpoint /\ e.id = NoSession /\ e.lastRx.type = "INVALID"
          /\ e.out.resetId = NoSession /\ e.submitted = NoMessage /\ e.received = NoMessage
      <3>1. e.id = NoSession
        BY <1>2 DEF Sound, LifeOK
      <3> QED BY <1>2, <3>1, SessionScope DEF Sound, WorkOK, BaselineTypes
    <2>3. f.id \in SessionIds /\ f.id \in SessionIdsOrNone /\ f.id # NoSession
      BY <1>2, IdentifierAssumption
      DEF WireFrame, Frame, WireIds, SessionIds, SessionIdsOrNone, ReservedSession, NoSession,
          IdentifierAssumption
    <2>4. [type |-> f.type, seq |-> f.seq, ack |-> f.ack] \in BaselineRecord
      BY BaselineType DEF ReliableTypes
    <2>5. d \in Endpoint
      BY <2>2, <2>3, <2>4 DEF Accept_Frame, Endpoint, EndpointRecord, HandshakePhases
    <2>6. /\ d.role = e.role /\ d.link = e.link /\ d.state = e.state
          /\ d.phase = "RESPONSE_PENDING" /\ d.id = f.id /\ d.nextId = e.nextId
          /\ d.abandoned = e.abandoned /\ d.out = e.out /\ d.lastRx.type = "INITIATE"
          /\ d.confirm = e.confirm /\ d.parser = e.parser /\ d.errPending = e.errPending
          /\ d.submitted = e.submitted /\ d.received = e.received /\ d.events = e.events
      BY <2>2 DEF Accept_Frame, Endpoint, EndpointRecord
    <2> HIDE DEF d
    <2>7. Output_Coherent(d.out, Recovering(d))
      BY <2>6 DEF Sound, Recovering, Connected
    <2>8. LifeOK(d)
      BY <1>2, <2>3, <2>6 DEF Sound, LifeOK, Connected, PhasesOf, HostPhases, RigPhases
    <2>9. RetainedOK(d)
      BY <1>2, <2>2, <2>6, SessionScope DEF Sound, RetainedOK, RetainedTypes, IdleReliable
    <2>10. ControlOK(d) /\ WorkOK(d) /\ ParserOK(d)
      BY <2>2, <2>6 DEF Sound, ControlOK, WorkOK, BaselineTypes, ParserOK
    <2>11. IdentityOK(d)
      BY <2>2, <2>3, <2>6 DEF Sound, IdentityOK, CursorValid, Is_Recently_Abandoned
    <2>12. Sound(d)
      BY <2>5, <2>7, <2>8, <2>9, <2>10, <2>11 DEF Sound
    <2>13. Follows(e, d)
      <3>1. Len(e.events) \in Nat
        BY <2>2 DEF Endpoint, EndpointRecord
      <3>2. Extends(e.events, d.events) /\ \A t : ~ Reported(e, d, t)
        BY <2>6, <3>1 DEF Extends, Reported
      <3> QED BY <1>2, <2>2, <2>6, <3>2 DEF Follows
    <2> QED BY <2>1, <2>6, <2>12, <2>13 DEF Handled, Result, SameBody, Classes
  <1>3. CASE \/ ~ ours
             \/ /\ ours /\ class = "EXPECTED"
                /\ ~ (Connected(e) /\ e.state = "CONNECTING" /\ e.phase = "WAITING_FOR_INITIATE")
    <2>1. \E s \in Classes : Handle_Rig_Initiate(e, f) = Result(e, s)
      BY <1>3 DEF Handle_Rig_Initiate, Classes
    <2> QED BY <2>1, Ignoring
  <1> QED BY <1>1, <1>2, <1>3

\* What was accepted last may be acknowledged again.
LEMMA Acknowledging ==
    ASSUME NEW e, Sound(e), e.id # NoSession, e.lastRx.type \in {"CONFIRM", "APPLICATION"},
           CanAcknowledge(e, e.lastRx.seq)
    PROVE  Handled(e, Result(Publish_Acknowledgement(e, e.lastRx.seq), "DUPLICATE"))
  <1> DEFINE item == AckFrame(e, e.lastRx.seq)
             o == Control_Publish(e.out, item)
             q == [e EXCEPT !.out = o]
  <1>1. e \in Endpoint /\ e.out \in OutputRecord({0}) /\ e.out.resetId = NoSession
    BY SessionScope DEF Endpoint, EndpointRecord
  <1>2. e.lastRx.seq \in Sequences16
    BY <1>1 DEF Endpoint, EndpointRecord, BaselineRecord, NoBaseline
  <1>3. item \in ControlFrame
    BY <1>1, <1>2, AckFrameType
  <1>4. o \in OutputRecord({0})
    BY <1>1, <1>3, PublishControlType
  <1>5. /\ Output_Coherent(o, Recovering(e)) /\ o.ctl.item = item
        /\ o.rel = e.out.rel /\ o.resetId = e.out.resetId
    BY <1>1, <1>3, PublishControlCoherent DEF Sound, CanAcknowledge
  <1> HIDE DEF o
  <1>6. Sound(q) /\ Follows(e, q)
    BY <1>1, <1>4, <1>5, OutputSound, OutputFollows
  <1>7. SameBody(e, q)
    BY <1>1 DEF SameBody, Endpoint, EndpointRecord
  <1>8. Publish_Acknowledgement(e, e.lastRx.seq) = q
    BY DEF Publish_Acknowledgement, o
  <1> QED BY <1>6, <1>7, <1>8 DEF Handled, Result, Classes

\* The rig accepts the CONFIRM, owns its ACK and establishes in one step.
LEMMA AcceptingConfirm ==
    ASSUME NEW e, Sound(e), e.phase = "WAITING_FOR_CONFIRM", ~ EventsFull(e),
           NEW f \in WireFrame, f.type = "CONFIRM",
           Ack_Matches(e.out, f.ack), CanAcknowledge(e, f.seq)
    PROVE  Handled(e, Result(Confirm_Accepted(e, f), "ACCEPTED"))
  <1> DEFINE item == AckFrame(e, f.seq)
             o1 == Control_Publish(e.out, item)
             o2 == Reliability_Accept_Acknowledgement(o1, f.ack)
             base == [type |-> f.type, seq |-> f.seq, ack |-> f.ack]
             d == [e EXCEPT !.state = "ESTABLISHED", !.phase = "ESTABLISHED", !.out = o2,
                            !.lastRx = base]
             c == Confirm_Accepted(e, f)
  <1>1. /\ e \in Endpoint /\ e.out \in OutputRecord({0}) /\ e.role = "RIG"
        /\ e.state = "CONNECTING" /\ e.id # NoSession /\ e.out.rel.frame.type = "RESPONSE"
    BY DEF Sound, Endpoint, EndpointRecord, RetainedOK, RetainedTypes, LifeOK, PhasesOf, RigPhases
  <1>2. e.out.resetId = NoSession /\ Connected(e) /\ e.received = NoMessage
    BY <1>1, SessionScope DEF Sound, WorkOK
  <1>3. e.submitted = NoMessage
    <2>1. e.out.rel.frame.msg = NoMessage
      BY <1>1, RetainedFrame DEF ReliableTypes, ReliableFrame, ValidFrame
    <2> QED BY <2>1 DEF Sound, RetainedOK
  <1>4. f.seq \in Sequences16 /\ f.ack \in Sequences16
    BY DEF WireFrame, Frame
  <1>5. item \in ControlFrame /\ base \in BaselineRecord
    BY <1>1, <1>4, AckFrameType, BaselineType DEF ReliableTypes
  <1>6. o1 \in OutputRecord({0})
    BY <1>1, <1>5, PublishControlType
  <1>7. /\ Output_Coherent(o1, Recovering(e)) /\ o1.ctl.item = item
        /\ o1.rel = e.out.rel /\ o1.resetId = e.out.resetId
    BY <1>1, <1>5, PublishControlCoherent DEF Sound, CanAcknowledge
  <1>8. Publish_Acknowledgement(e, f.seq) = [e EXCEPT !.out = o1]
    BY DEF Publish_Acknowledgement
  <1> HIDE DEF o1
  <1>9. Ack_Matches(o1, f.ack)
    BY <1>7 DEF Ack_Matches
  <1>10. o2 \in OutputRecord({0})
    BY <1>4, <1>6, AcknowledgementType
  <1>11. /\ Output_Coherent(o2, Recovering(e)) /\ o2.rel = IdleReliable /\ o2.ctl.item = item
         /\ o2.resetId = NoSession
    BY <1>2, <1>6, <1>7, <1>9, AcknowledgementCoherent
  <1>12. Handshake_Set_Established(
            [Accept_Frame(Publish_Acknowledgement(e, f.seq), f) EXCEPT
                !.out = Reliability_Accept_Acknowledgement(@, f.ack)]) = d
    BY <1>1, <1>8
    DEF Accept_Frame, Handshake_Set_Established, Endpoint, EndpointRecord
  <1> HIDE DEF o2, base
  <1>13. d \in Endpoint
    BY <1>1, <1>5, <1>10 DEF Endpoint, EndpointRecord, SessionStates, HandshakePhases
  <1>14. /\ d.role = e.role /\ d.link = e.link /\ d.state = "ESTABLISHED"
         /\ d.phase = "ESTABLISHED" /\ d.id = e.id /\ d.nextId = e.nextId
         /\ d.abandoned = e.abandoned /\ d.out = o2 /\ d.lastRx = base
         /\ d.confirm = e.confirm /\ d.parser = e.parser /\ d.errPending = e.errPending
         /\ d.submitted = e.submitted /\ d.received = e.received /\ d.events = e.events
    BY <1>1 DEF Endpoint, EndpointRecord
  <1> HIDE DEF d
  <1>15. base.type = "CONFIRM" /\ base.seq = f.seq
    BY DEF base
  <1>16. Output_Coherent(d.out, Recovering(d))
    BY <1>11, <1>14 DEF Recovering, Output_Coherent
  <1>17. LifeOK(d)
    BY <1>1, <1>2, <1>14 DEF LifeOK, Connected, PhasesOf, HostPhases, RigPhases
  <1>18. RetainedOK(d)
    BY <1>3, <1>11, <1>14 DEF RetainedOK, RetainedTypes, IdleReliable, NoFrame
  <1>19. ControlOK(d)
    BY <1>11, <1>14, <1>15 DEF ControlOK, AckFrame, MakeFrame
  <1>20. WorkOK(d) /\ ParserOK(d) /\ IdentityOK(d)
    BY <1>1, <1>2, <1>14, <1>15
    DEF Sound, WorkOK, BaselineTypes, ParserOK, IdentityOK, CursorValid
  <1>21. Sound(d)
    BY <1>13, <1>16, <1>17, <1>18, <1>19, <1>20 DEF Sound
  <1>22. c = Events_Publish(d, "SESSION_ESTABLISHED")
    BY <1>12 DEF Confirm_Accepted
  <1>23. Sound(c)
    BY <1>21, <1>22, PublishingIsSound DEF EventTypes
  <1>24. /\ c \in Endpoint /\ c = [d EXCEPT !.events = c.events] /\ Extends(d.events, c.events)
         /\ \A t : Reported(d, c, t) <=> ~ EventsFull(d) /\ t = "SESSION_ESTABLISHED"
    BY <1>13, <1>22, Publishing DEF EventTypes
  <1> HIDE DEF c
  <1>25. /\ c.role = d.role /\ c.link = d.link /\ c.state = d.state /\ c.id = d.id
         /\ c.out = d.out /\ c.parser = d.parser /\ c.errPending = d.errPending
         /\ c.submitted = d.submitted /\ c.received = d.received
    BY <1>13, <1>24 DEF Endpoint, EndpointRecord
  <1>26. \A t : Reported(e, c, t) <=> t = "SESSION_ESTABLISHED"
    <2>1. EventsFull(d) = EventsFull(e) /\ \A t : Reported(d, c, t) <=> Reported(e, c, t)
      BY <1>14, ReportedSince
    <2> QED BY <1>24, <2>1
  <1>27. Follows(e, c)
    <2>1. Extends(e.events, c.events)
      BY <1>14, <1>24 DEF Extends
    <2>2. e.out.resetId # NoSession => c.out.resetId = e.out.resetId
      BY <1>2
    <2>3. /\ c.role = e.role /\ c.link = e.link /\ c.submitted = e.submitted
          /\ c.received = e.received /\ c.id = e.id
      BY <1>2, <1>14, <1>25
    <2>4. Reported(e, c, "SESSION_ESTABLISHED") /\ ~ Reported(e, c, "DELIVERY_CONFIRMED")
      BY <1>26
    <2> QED BY <2>1, <2>2, <2>3, <2>4 DEF Follows
  <1> QED BY <1>14, <1>23, <1>25, <1>27 DEF Handled, Result, SameBody, Classes, c

\* A CONFIRM, expected or repeated, at the rig.
LEMMA HandlingConfirm ==
    ASSUME NEW e, Sound(e), e.role = "RIG", NEW f \in WireFrame, f.type = "CONFIRM"
    PROVE  Handled(e, Handle_Rig_Confirm(e, f))
  <1> DEFINE class == Session_Classify_Sequence(e, f.seq)
             ack == Classify_Acknowledgement(e, f, "RESPONSE")
  <1>1. CASE /\ f.id = e.id /\ class = "DUPLICATE" /\ Is_Exact_Duplicate(e, f)
             /\ e.phase = "ESTABLISHED" /\ CanAcknowledge(e, f.seq)
    <2>1. e.lastRx.type = "CONFIRM" /\ e.lastRx.seq = f.seq
      BY <1>1 DEF Is_Exact_Duplicate
    <2>2. Handle_Rig_Confirm(e, f) =
              Result(Publish_Acknowledgement(e, e.lastRx.seq), "DUPLICATE")
      BY <1>1, <2>1 DEF Handle_Rig_Confirm, Repeated_Confirm
    <2>3. e.id # NoSession
      BY <1>1 DEF Sound, LifeOK
    <2> QED BY <1>1, <2>1, <2>2, <2>3, Acknowledging
  <1>2. CASE /\ f.id = e.id /\ class \notin {"DUPLICATE", "STALE", "INCOMPATIBLE"}
             /\ e.phase = "WAITING_FOR_CONFIRM" /\ ack = "MATCHED" /\ ~ EventsFull(e)
             /\ CanAcknowledge(e, f.seq)
    <2>1. Handle_Rig_Confirm(e, f) = Result(Confirm_Accepted(e, f), "ACCEPTED")
      BY <1>2 DEF Handle_Rig_Confirm
    <2>2. Ack_Matches(e.out, f.ack)
      BY <1>2 DEF Classify_Acknowledgement
    <2> QED BY <1>2, <2>1, <2>2, AcceptingConfirm
  <1>3. CASE /\ ~ (/\ f.id = e.id /\ class = "DUPLICATE" /\ Is_Exact_Duplicate(e, f)
                   /\ e.phase = "ESTABLISHED" /\ CanAcknowledge(e, f.seq))
             /\ ~ (/\ f.id = e.id /\ class \notin {"DUPLICATE", "STALE", "INCOMPATIBLE"}
                   /\ e.phase = "WAITING_FOR_CONFIRM" /\ ack = "MATCHED" /\ ~ EventsFull(e)
                   /\ CanAcknowledge(e, f.seq))
    <2>1. ack \in {"MATCHED", "BLOCKED", "UNEXPECTED"}
      BY DEF Classify_Acknowledgement
    <2>2. \E s \in Classes : Handle_Rig_Confirm(e, f) = Result(e, s)
      BY <1>3, <2>1 DEF Handle_Rig_Confirm, Repeated_Confirm, Classes
    <2> QED BY <2>2, Ignoring
  <1> QED BY <1>1, <1>2, <1>3

\* Every handshake frame, whatever the role it is meant for.
LEMMA HandlingHandshake ==
    ASSUME NEW e, Sound(e), NEW f \in WireFrame, ~ Is_Recently_Abandoned(e, f)
    PROVE  LET r == Handshake_Handle_Frame(e, f)
           IN  (Handled(e, r) /\ IgnoredReset(e, f, r)) \/ ReplacedBy(e, f, r)
  <1>1. Completed_Confirm_Valid(e)
    BY SessionScope
  <1>2. CASE f.type = "RESET"
    <2>1. Handshake_Handle_Frame(e, f) = Handle_Reset(e, f)
      BY <1>1, <1>2 DEF Handshake_Handle_Frame
    <2> QED BY <1>2, <2>1, HandlingReset
  <1>3. CASE e.role = "HOST" /\ f.type = "RESPONSE"
    BY <1>1, <1>3, HandlingResponse DEF Handshake_Handle_Frame, IgnoredReset
  <1>4. CASE e.role = "HOST" /\ f.type = "ACK"
    BY <1>1, <1>4, HandlingHostAck DEF Handshake_Handle_Frame, IgnoredReset
  <1>5. CASE e.role = "RIG" /\ f.type = "INITIATE"
    BY <1>1, <1>5, HandlingInitiate DEF Handshake_Handle_Frame, IgnoredReset
  <1>6. CASE e.role = "RIG" /\ f.type = "CONFIRM"
    BY <1>1, <1>6, HandlingConfirm DEF Handshake_Handle_Frame, IgnoredReset
  <1>7. CASE /\ f.type # "RESET"
             /\ ~ (e.role = "HOST" /\ f.type \in {"RESPONSE", "ACK"})
             /\ ~ (e.role = "RIG" /\ f.type \in {"INITIATE", "CONFIRM"})
    <2>1. Handshake_Handle_Frame(e, f) = Result(e, "INCOMPATIBLE")
      BY <1>1, <1>7 DEF Handshake_Handle_Frame
    <2> QED BY <1>7, <2>1, Ignoring DEF Classes, IgnoredReset
  <1> QED BY <1>2, <1>3, <1>4, <1>5, <1>6, <1>7

-----------------------------------------------------------------------------
(* Application messages *)

\* The only four ways a sequence is classified.
LEMMA ClassificationType ==
    ASSUME NEW e, NEW seq
    PROVE  Session_Classify_Sequence(e, seq) \in {"EXPECTED", "DUPLICATE", "STALE", "INCOMPATIBLE"}
  BY DEF Session_Classify_Sequence

\* The ACK of a message returns it to the caller with the event that confirms it.
LEMMA HandlingDeliveryAck ==
    ASSUME NEW e, Sound(e), e.out.rel.frame.type = "APPLICATION", NEW f \in WireFrame
    PROVE  Handled(e, Application_Handle_Acknowledgement(e, f))
  <1> DEFINE o == Reliability_Accept_Acknowledgement(e.out, f.ack)
             d == [e EXCEPT !.out = o, !.submitted = NoMessage]
             c == Events_Publish(d, "DELIVERY_CONFIRMED")
             r == Application_Handle_Acknowledgement(e, f)
  <1>1. e \in Endpoint /\ e.out \in OutputRecord({0}) /\ e.phase = "ESTABLISHED"
    BY DEF Sound, Endpoint, EndpointRecord, RetainedOK, RetainedTypes
  <1>2. e.state = "ESTABLISHED" /\ e.id # NoSession
    BY <1>1 DEF Sound, LifeOK, PhasesOf, HostPhases, RigPhases
  <1>3. e.submitted # NoMessage
    <2>1. e.out.rel.frame.msg # NoMessage
      BY RetainedFrame DEF ReliableTypes, ReliableFrame, ValidFrame
    <2> QED BY <2>1 DEF Sound, RetainedOK
  <1>4. CASE f.id = e.id /\ Ack_Matches(e.out, f.ack) /\ ~ EventsFull(e)
    <2>1. ~ Ack_Blocked(e, f.ack)
      BY <1>4 DEF Ack_Blocked, Ack_Matches
    <2>2. r = Result(c, "ACCEPTED")
      BY <1>1, <1>2, <1>3, <1>4, <2>1 DEF Application_Handle_Acknowledgement, Is_Established
    <2>3. f.ack \in Sequences16
      BY DEF WireFrame, Frame
    <2>4. o \in OutputRecord({0})
      BY <1>1, <2>3, AcknowledgementType
    <2>5. /\ Output_Coherent(o, Recovering(e)) /\ o.rel = IdleReliable /\ o.ctl = e.out.ctl
          /\ o.resetId = e.out.resetId
      BY <1>1, <1>4, AcknowledgementCoherent DEF Sound
    <2> HIDE DEF o
    <2>6. d \in Endpoint
      BY <1>1, <2>4 DEF Endpoint, EndpointRecord
    <2>7. /\ d.role = e.role /\ d.link = e.link /\ d.state = e.state /\ d.phase = e.phase
          /\ d.id = e.id /\ d.nextId = e.nextId /\ d.abandoned = e.abandoned /\ d.out = o
          /\ d.lastRx = e.lastRx /\ d.confirm = e.confirm /\ d.parser = e.parser
          /\ d.errPending = e.errPending /\ d.submitted = NoMessage /\ d.received = e.received
          /\ d.events = e.events
      BY <1>1 DEF Endpoint, EndpointRecord
    <2> HIDE DEF d
    <2>8. Output_Coherent(d.out, Recovering(d))
      BY <2>5, <2>7 DEF Recovering, Connected
    <2>9. LifeOK(d) /\ WorkOK(d) /\ ParserOK(d) /\ IdentityOK(d)
      BY <2>7
      DEF Sound, LifeOK, Connected, WorkOK, BaselineTypes, ParserOK, IdentityOK, CursorValid
    <2>10. RetainedOK(d) /\ ControlOK(d)
      BY <1>1, <2>5, <2>7 DEF Sound, RetainedOK, RetainedTypes, IdleReliable, NoFrame, ControlOK
    <2>11. Sound(d)
      BY <2>6, <2>8, <2>9, <2>10 DEF Sound
    <2>12. Sound(c)
      BY <2>11, PublishingIsSound DEF EventTypes
    <2>13. /\ c \in Endpoint /\ c = [d EXCEPT !.events = c.events] /\ Extends(d.events, c.events)
           /\ \A t : Reported(d, c, t) <=> ~ EventsFull(d) /\ t = "DELIVERY_CONFIRMED"
      BY <2>6, Publishing DEF EventTypes
    <2> HIDE DEF c
    <2>14. /\ c.role = d.role /\ c.link = d.link /\ c.state = d.state /\ c.id = d.id
           /\ c.out = d.out /\ c.parser = d.parser /\ c.errPending = d.errPending
           /\ c.submitted = d.submitted /\ c.received = d.received
      BY <2>6, <2>13 DEF Endpoint, EndpointRecord
    <2>15. \A t : Reported(e, c, t) <=> t = "DELIVERY_CONFIRMED"
      BY <1>4, <2>7, <2>13 DEF Reported, EventsFull
    <2>16. Follows(e, c)
      BY <1>2, <1>3, <2>5, <2>7, <2>13, <2>14, <2>15 DEF Follows
    <2> QED BY <2>2, <2>7, <2>12, <2>14, <2>16 DEF Handled, Result, SameBody, Classes
  <1>5. CASE ~ (f.id = e.id /\ Ack_Matches(e.out, f.ack) /\ ~ EventsFull(e))
    <2>1. \E s \in Classes : r = Result(e, s)
      BY <1>1, <1>2, <1>3, <1>5 DEF Application_Handle_Acknowledgement, Is_Established, Classes
    <2> QED BY <2>1, Ignoring
  <1> QED BY <1>4, <1>5

\* A message is accepted, acknowledged and made readable in one step, or not at all.
LEMMA HandlingMessage ==
    ASSUME NEW e, Sound(e), NEW f \in WireFrame, f.type = "APPLICATION"
    PROVE  LET r == Application_Handle_Received_Frame(e, f)
           IN  /\ Handled(e, r)
               /\ r.s \in {"STALE", "INCOMPATIBLE", "CAPACITY_EXHAUSTED"} => r.e = e
               /\ r.s # "STALE"
               /\ (Is_Established(e) /\ f.id = e.id
                   /\ Session_Classify_Sequence(e, f.seq) = "EXPECTED")
                     => r.s # "INCOMPATIBLE"
  <1> DEFINE r == Application_Handle_Received_Frame(e, f)
             class == Session_Classify_Sequence(e, f.seq)
             refused == \/ ~ Is_Established(e) \/ f.id # e.id
                        \/ class \in {"STALE", "INCOMPATIBLE"}
                        \/ (class = "DUPLICATE" /\ e.lastRx.type # "APPLICATION")
             noRoom == (class = "EXPECTED" /\ e.received # NoMessage) \/ ~ CanAcknowledge(e, f.seq)
  <1>0. e \in Endpoint /\ e.out \in OutputRecord({0})
    BY DEF Sound, Endpoint, EndpointRecord
  <1>1. CASE refused
    <2>1. r = Result(e, "INCOMPATIBLE")
      BY <1>1 DEF Application_Handle_Received_Frame
    <2>2. Handled(e, r)
      BY <2>1, Ignoring DEF Classes
    <2> QED BY <1>1, <2>1, <2>2 DEF Result
  <1>2. CASE ~ refused /\ noRoom
    <2>1. r = Result(e, "CAPACITY_EXHAUSTED")
      BY <1>2 DEF Application_Handle_Received_Frame
    <2>2. Handled(e, r)
      BY <2>1, Ignoring DEF Classes
    <2> QED BY <2>1, <2>2 DEF Result
  <1>3. CASE ~ refused /\ ~ noRoom /\ class = "DUPLICATE"
    <2>1. e.lastRx.seq = f.seq
      BY <1>3 DEF Session_Classify_Sequence
    <2>2. r = Result(Publish_Acknowledgement(e, e.lastRx.seq), "DUPLICATE")
      BY <1>3, <2>1 DEF Application_Handle_Received_Frame
    <2>3. Handled(e, r)
      BY <1>3, <2>1, <2>2, Acknowledging DEF Is_Established
    <2> QED BY <2>2, <2>3 DEF Result
  <1>4. CASE ~ refused /\ ~ noRoom /\ class # "DUPLICATE"
    <2> DEFINE item == AckFrame(e, f.seq)
               o == Control_Publish(e.out, item)
               base == [type |-> f.type, seq |-> f.seq, ack |-> f.ack]
               d == [e EXCEPT !.out = o, !.lastRx = base, !.received = f.msg]
    <2>1. /\ e.state = "ESTABLISHED" /\ e.phase = "ESTABLISHED" /\ e.id # NoSession
          /\ e.received = NoMessage
      BY <1>4, ClassificationType DEF Is_Established
    <2>2. r = Result(d, "ACCEPTED")
      <3>1. [Accept_Frame(Publish_Acknowledgement(e, f.seq), f) EXCEPT !.received = f.msg] = d
        BY <1>0 DEF Accept_Frame, Publish_Acknowledgement, Endpoint, EndpointRecord
      <3> HIDE DEF d
      <3> QED BY <1>4, <3>1 DEF Application_Handle_Received_Frame
    <2>3. f.seq \in Sequences16 /\ f.msg \in Messages \cup {NoMessage}
      BY DEF WireFrame, Frame
    <2>4. item \in ControlFrame /\ base \in BaselineRecord
      BY <1>0, <2>1, <2>3, AckFrameType, BaselineType DEF ReliableTypes
    <2>5. o \in OutputRecord({0})
      BY <1>0, <2>4, PublishControlType
    <2>6. /\ Output_Coherent(o, Recovering(e)) /\ o.ctl.item = item
          /\ o.rel = e.out.rel /\ o.resetId = e.out.resetId
      BY <1>0, <1>4, <2>4, PublishControlCoherent DEF Sound, CanAcknowledge
    <2>7. base.type = "APPLICATION" /\ base.seq = f.seq
      OBVIOUS
    <2> HIDE DEF o, base
    <2>8. d \in Endpoint
      BY <1>0, <2>3, <2>4, <2>5 DEF Endpoint, EndpointRecord
    <2>9. /\ d.role = e.role /\ d.link = e.link /\ d.state = e.state /\ d.phase = e.phase
          /\ d.id = e.id /\ d.nextId = e.nextId /\ d.abandoned = e.abandoned /\ d.out = o
          /\ d.lastRx = base /\ d.confirm = e.confirm /\ d.parser = e.parser
          /\ d.errPending = e.errPending /\ d.submitted = e.submitted
          /\ d.events = e.events
      BY <1>0 DEF Endpoint, EndpointRecord
    <2> HIDE DEF d
    <2>10. Output_Coherent(d.out, Recovering(d))
      BY <2>6, <2>9 DEF Recovering, Connected
    <2>11. LifeOK(d) /\ ParserOK(d) /\ IdentityOK(d)
      BY <2>9 DEF Sound, LifeOK, Connected, ParserOK, IdentityOK, CursorValid
    <2>12. RetainedOK(d)
      BY <2>6, <2>9 DEF Sound, RetainedOK
    <2>13. e.out.resetId = NoSession
      BY <2>1, SessionScope
    <2>14. ControlOK(d)
      BY <2>6, <2>7, <2>9, <2>13 DEF ControlOK, AckFrame, MakeFrame
    <2>15. WorkOK(d)
      BY <2>1, <2>7, <2>9 DEF Sound, WorkOK, BaselineTypes
    <2>16. Sound(d)
      BY <2>8, <2>10, <2>11, <2>12, <2>14, <2>15 DEF Sound
    <2>17. Follows(e, d)
      <3>1. Len(e.events) \in Nat
        BY <1>0 DEF Endpoint, EndpointRecord
      <3>2. Extends(e.events, d.events) /\ \A t : ~ Reported(e, d, t)
        BY <2>9, <3>1 DEF Extends, Reported
      <3> QED BY <2>1, <2>6, <2>9, <3>2 DEF Follows
    <2>18. Handled(e, r)
      BY <2>2, <2>9, <2>16, <2>17 DEF Handled, Result, SameBody, Classes
    <2> QED BY <2>2, <2>18 DEF Result
  <1> QED BY <1>1, <1>2, <1>3, <1>4

\* A message that proves the CONFIRM arrived first completes the host's handshake.
LEMMA HandlingProof ==
    ASSUME NEW e, Sound(e), NEW f \in WireFrame, f.type = "APPLICATION"
    PROVE  Handled(e, Accept_Proved(Try_Complete_Host_From_Application(e, f), f))
  <1> DEFINE t == Try_Complete_Host_From_Application(e, f)
             c == Complete_Host(e)
  <1>1. CASE t = Result(e, "NOT_APPLICABLE")
    BY <1>1, HandlingMessage DEF Accept_Proved, Result
  <1>2. CASE t.s \in {"INCOMPATIBLE", "CAPACITY_EXHAUSTED"} /\ t = Result(e, t.s)
    <2>1. Accept_Proved(t, f) = Result(e, t.s)
      BY <1>2 DEF Accept_Proved
    <2> QED BY <1>2, <2>1, Ignoring DEF Classes
  <1>3. CASE /\ t = Result(c, "ACCEPTED") /\ e.phase = "WAITING_FOR_CONFIRM_ACK" /\ f.id = e.id
             /\ Session_Classify_Sequence(e, f.seq) = "EXPECTED" /\ ~ EventsFull(e)
             /\ e.out.rel.state \in {"AWAITING_ACK", "RETRANSMIT_READY"}
    <2> DEFINE r == Application_Handle_Received_Frame(c, f)
    <2>1. /\ Sound(c) /\ Follows(e, c) /\ SameBody(e, c) /\ SameWork(e, c)
          /\ c.id = e.id /\ c.state = "ESTABLISHED" /\ c.phase = "ESTABLISHED"
      BY <1>3, CompletingHost
    <2> HIDE DEF c
    <2>2. Accept_Proved(t, f) = r
      BY <1>3 DEF Accept_Proved, Result
    <2>3. Session_Classify_Sequence(c, f.seq) = "EXPECTED" /\ Is_Established(c)
      <3>1. c.id # NoSession
        BY <2>1 DEF Sound, LifeOK
      <3> QED
        BY <1>3, <2>1, <3>1 DEF Session_Classify_Sequence, SameWork, Is_Established
    <2>4. /\ Handled(c, r)
          /\ r.s = "CAPACITY_EXHAUSTED" => r.e = c
          /\ r.s # "STALE" /\ r.s # "INCOMPATIBLE"
      BY <1>3, <2>1, <2>3, HandlingMessage
    <2> HIDE DEF r
    <2>5. Follows(e, r.e)
      BY <2>1, <2>4, FollowsTransitive DEF Sound, Handled
    <2> QED BY <2>1, <2>2, <2>4, <2>5 DEF Handled, SameBody
  <1>4. \/ t = Result(e, "NOT_APPLICABLE")
        \/ t.s \in {"INCOMPATIBLE", "CAPACITY_EXHAUSTED"} /\ t = Result(e, t.s)
        \/ /\ t = Result(c, "ACCEPTED") /\ e.phase = "WAITING_FOR_CONFIRM_ACK" /\ f.id = e.id
           /\ Session_Classify_Sequence(e, f.seq) = "EXPECTED" /\ ~ EventsFull(e)
           /\ e.out.rel.state \in {"AWAITING_ACK", "RETRANSMIT_READY"}
    <2>1. e.phase = "WAITING_FOR_CONFIRM_ACK" => e.out.rel.frame.type = "CONFIRM"
      BY DEF Sound, RetainedOK, RetainedTypes
    <2> HIDE DEF c
    <2> QED BY <2>1 DEF Try_Complete_Host_From_Application, Result, c
  <1> QED BY <1>1, <1>2, <1>3, <1>4

-----------------------------------------------------------------------------
(* What becomes of the body in the parser *)

\* The parser may be emptied, filled or owe a diagnostic: nothing else depends on it.
LEMMA ParserSound ==
    ASSUME NEW e, Sound(e), NEW parser \in ParserRecord, NEW pending \in BOOLEAN,
           ParserOK([e EXCEPT !.parser = parser, !.errPending = pending])
    PROVE  LET q == [e EXCEPT !.parser = parser, !.errPending = pending]
           IN  Sound(q) /\ Follows(e, q) /\ SameWork(e, q)
  <1> DEFINE q == [e EXCEPT !.parser = parser, !.errPending = pending]
  <1>1. e \in Endpoint /\ q \in Endpoint
    BY DEF Sound, Endpoint, EndpointRecord
  <1>2. /\ q.role = e.role /\ q.link = e.link /\ q.state = e.state /\ q.phase = e.phase
        /\ q.id = e.id /\ q.nextId = e.nextId /\ q.abandoned = e.abandoned /\ q.out = e.out
        /\ q.lastRx = e.lastRx /\ q.confirm = e.confirm /\ q.submitted = e.submitted
        /\ q.received = e.received /\ q.events = e.events
    BY <1>1 DEF Endpoint, EndpointRecord
  <1>3. ParserOK(q)
    OBVIOUS
  <1> HIDE DEF q
  <1>4. Output_Coherent(q.out, Recovering(q))
    BY <1>2 DEF Sound, Recovering, Connected
  <1>5. LifeOK(q) /\ RetainedOK(q) /\ ControlOK(q)
    BY <1>2 DEF Sound, LifeOK, Connected, RetainedOK, ControlOK
  <1>6. WorkOK(q) /\ IdentityOK(q)
    BY <1>2 DEF Sound, WorkOK, BaselineTypes, IdentityOK, CursorValid
  <1>7. Sound(q)
    BY <1>1, <1>3, <1>4, <1>5, <1>6 DEF Sound
  <1>8. Follows(e, q) /\ SameWork(e, q)
    BY <1>1, <1>2, QuietStepFollows DEF SameWork
  <1> QED BY <1>7, <1>8 DEF q

\* Consuming a body empties the parser; what is still owed is its diagnostic.
LEMMA Consuming ==
    ASSUME NEW e, Sound(e), NEW pending \in BOOLEAN, e.state # "DISCONNECTED" \/ ~ pending
    PROVE  LET q == [e EXCEPT !.parser = EmptyParser, !.errPending = pending]
           IN  /\ Sound(q) /\ HeldOK(q) /\ Follows(e, q)
               /\ q.parser = EmptyParser /\ q.errPending = pending
  <1> DEFINE q == [e EXCEPT !.parser = EmptyParser, !.errPending = pending]
  <1>1. EmptyParser \in ParserRecord
    BY DEF EmptyParser, ParserRecord
  <1>2. q.parser = EmptyParser /\ q.errPending = pending /\ q.state = e.state
    BY DEF Sound, Endpoint, EndpointRecord
  <1>3. ParserOK(q)
    BY <1>2 DEF ParserOK, EmptyParser
  <1>4. Sound(q) /\ Follows(e, q)
    BY <1>1, <1>3, ParserSound
  <1> HIDE DEF q
  <1>5. HeldOK(q)
    BY <1>2 DEF HeldOK, EmptyParser
  <1> QED BY <1>2, <1>4, <1>5 DEF q

\* A call finds a whole body of the peer in the parser.
Holding(e) == Sound(e) /\ Connected(e) /\ e.parser.state = "READY"

\* What a call that looks at it leaves: OK means that nothing is in the way any more, and a
\* body kept for another try has had no effect.
Settled(e, r) ==
    /\ Sound(r.e) /\ HeldOK(r.e)
    /\ r.s \in {"OK", "CAPACITY_EXHAUSTED"}
    /\ r.s = "OK" => ~ r.e.errPending /\ r.e.parser.state # "READY"
    /\ r.e.parser = EmptyParser \/ (r.e.parser = e.parser /\ SameWork(e, r.e))

SettledQuietly(e, r) == Settled(e, r) /\ Follows(e, r.e)

\* A held body owes no diagnostic yet.
LEMMA HoldingIsClear ==
    ASSUME NEW e, Holding(e)
    PROVE  /\ e \in Endpoint /\ ~ e.errPending /\ e.state # "DISCONNECTED"
           /\ e.parser.body \in Bodies
  BY DEF Holding, Sound, ParserOK, LifeOK, EmptyParser

\* A consumed body is settled.
LEMMA SettlingConsumed ==
    ASSUME NEW e, Holding(e), NEW o, o.action = "CONSUME", Sound(o.e), Follows(e, o.e),
           o.s \in {"OK", "CAPACITY_EXHAUSTED"}, o.s = "OK" => ~ o.e.errPending
    PROVE  SettledQuietly(e, Settle(o))
  <1> DEFINE q == [o.e EXCEPT !.parser = EmptyParser, !.errPending = o.e.errPending]
  <1>1. o.e \in Endpoint /\ o.e.errPending \in BOOLEAN
    BY DEF Sound, Endpoint, EndpointRecord
  <1>2. o.e.state # "DISCONNECTED" \/ ~ o.e.errPending
    BY <1>1 DEF Sound, ParserOK
  <1>3. /\ Sound(q) /\ HeldOK(q) /\ Follows(o.e, q)
        /\ q.parser = EmptyParser /\ q.errPending = o.e.errPending
    BY <1>1, <1>2, Consuming
  <1>4. Settle(o) = Result(q, o.s)
    <2>1. [o.e EXCEPT !.parser = EmptyParser] = q
      BY <1>1 DEF Endpoint, EndpointRecord
    <2> QED BY <2>1 DEF Settle
  <1> HIDE DEF q
  <1>5. Follows(e, q)
    BY <1>3, FollowsTransitive DEF Holding, Sound
  <1> QED BY <1>3, <1>4, <1>5 DEF SettledQuietly, Settled, Result, EmptyParser

\* A body kept for another try is settled when nothing it could count twice has changed.
LEMMA SettlingRetained ==
    ASSUME NEW e, Holding(e), NEW o, o.action = "RETAIN", Sound(o.e), Follows(e, o.e),
           SameBody(e, o.e), SameWork(e, o.e), HeldOK(o.e), o.s = "CAPACITY_EXHAUSTED"
    PROVE  SettledQuietly(e, Settle(o))
  BY DEF Settle, Result, SettledQuietly, Settled, SameBody

\* Reporting bad traffic: the endpoint the report leaves.
LEMMA Reporting ==
    ASSUME NEW e, Sound(e)
    PROVE  LET p == Events_Publish(e, "PROTOCOL_ERROR")
           IN  /\ Sound(p) /\ Follows(e, p) /\ p = [e EXCEPT !.events = p.events]
               /\ EventsFull(e) => EventsFull(p) /\ p = e
               /\ p.link = e.link /\ p.state = e.state /\ p.out = e.out /\ p.parser = e.parser
               /\ p.errPending = e.errPending /\ p.id = e.id
               /\ EventsFull(e) \in BOOLEAN
  <1> DEFINE p == Events_Publish(e, "PROTOCOL_ERROR")
  <1>1. e \in Endpoint
    BY DEF Sound
  <1>2. Sound(p) /\ Follows(e, p)
    BY <1>1, PublishingIsSound, PublishingFollows DEF EventTypes
  <1>3. p = [e EXCEPT !.events = p.events] /\ (EventsFull(e) => EventsFull(p) /\ p = e)
    BY <1>1, Publishing DEF EventTypes
  <1>4. EventsFull(e) \in BOOLEAN
    BY DEF EventsFull
  <1> HIDE DEF p
  <1>5. p.link = e.link /\ p.state = e.state /\ p.out = e.out /\ p.parser = e.parser
        /\ p.errPending = e.errPending /\ p.id = e.id
    BY <1>1, <1>3 DEF Endpoint, EndpointRecord
  <1> QED BY <1>2, <1>3, <1>4, <1>5 DEF p

\* A body of the current session is rejected with its diagnostic, or kept until there is room.
LEMMA Rejecting ==
    ASSUME NEW e, Holding(e), HeldOK(e)
    PROVE  SettledQuietly(e, Settle(Reject_Retained_Body(e)))
  <1> DEFINE p == Events_Publish(e, "PROTOCOL_ERROR")
             o == Reject_Retained_Body(e)
  <1>1. /\ Sound(p) /\ Follows(e, p) /\ (EventsFull(e) => p = e)
        /\ p.errPending = e.errPending /\ EventsFull(e) \in BOOLEAN
    BY Reporting DEF Holding
  <1>2. o.e = p /\ o.s = EventStatus(e) /\ o.action = IF EventsFull(e) THEN "RETAIN" ELSE "CONSUME"
    BY DEF Reject_Retained_Body, Outcome
  <1> HIDE DEF o, p
  <1>3. ~ p.errPending
    BY <1>1, HoldingIsClear
  <1>4. CASE EventsFull(e)
    <2>1. o.s = "CAPACITY_EXHAUSTED" /\ o.action = "RETAIN" /\ o.e = e
      BY <1>1, <1>2, <1>4 DEF EventStatus
    <2>2. Sound(o.e) /\ Follows(e, o.e) /\ SameBody(e, o.e) /\ SameWork(e, o.e) /\ HeldOK(o.e)
      BY <1>1, <1>2, <1>4, <2>1 DEF SameBody, SameWork
    <2> QED BY <2>1, <2>2, SettlingRetained DEF o
  <1>5. CASE ~ EventsFull(e)
    <2>1. o.s = "OK" /\ o.action = "CONSUME"
      BY <1>2, <1>5 DEF EventStatus
    <2> QED BY <1>1, <1>2, <1>3, <2>1, SettlingConsumed DEF o
  <1> QED BY <1>4, <1>5

\* A body of a dead session is discarded at once: at most its diagnostic stays owed.
LEMMA Discarding ==
    ASSUME NEW e, Holding(e)
    PROVE  SettledQuietly(e, Settle(Reject_Obsolete_Body(e)))
  <1> DEFINE p == Events_Publish(e, "PROTOCOL_ERROR")
             q == [p EXCEPT !.parser = EmptyParser, !.errPending = EventsFull(e)]
  <1>1. Sound(p) /\ Follows(e, p) /\ p.state = e.state /\ EventsFull(e) \in BOOLEAN
    BY Reporting DEF Holding
  <1>2. p \in Endpoint
    BY <1>1 DEF Sound
  <1> HIDE DEF p
  <1>3. /\ Sound(q) /\ HeldOK(q) /\ Follows(p, q)
        /\ q.parser = EmptyParser /\ q.errPending = EventsFull(e)
    BY <1>1, HoldingIsClear, Consuming
  <1>4. Settle(Reject_Obsolete_Body(e)) = Result(q, EventStatus(e))
    <2>1. [[p EXCEPT !.errPending = EventsFull(e)] EXCEPT !.parser = EmptyParser] = q
      BY <1>2 DEF Endpoint, EndpointRecord
    <2> HIDE DEF q
    <2> QED BY <2>1 DEF Settle, Reject_Obsolete_Body, Outcome, p
  <1> HIDE DEF q
  <1>5. Follows(e, q)
    BY <1>1, <1>2, <1>3, FollowsTransitive DEF Holding, Sound
  <1> QED BY <1>3, <1>4, <1>5 DEF SettledQuietly, Settled, Result, EmptyParser, EventStatus

\* Incompatible traffic ends the session with a RESET to the peer; while one is still owed,
\* the traffic is only discarded.
LEMMA Leaving ==
    ASSUME NEW e, Holding(e)
    PROVE  SettledQuietly(e, Settle(Abandon_Incompatible_Session(e)))
  <1>1. CASE e.out.resetId = NoSession
    <2> DEFINE p == Events_Publish(e, "PROTOCOL_ERROR")
               r == Begin_Local_Recovery(p)
               q == [r.e EXCEPT !.parser = EmptyParser, !.errPending = EventsFull(e)]
    <2>1. /\ Sound(p) /\ Follows(e, p) /\ p.link = e.link /\ p.out = e.out
          /\ (EventsFull(e) => EventsFull(p)) /\ EventsFull(e) \in BOOLEAN
      BY Reporting DEF Holding
    <2> HIDE DEF p
    <2>2. Connected(p) /\ p.out.resetId = NoSession
      BY <1>1, <2>1 DEF Holding, Connected
    <2>3. /\ Sound(r.e) /\ Follows(p, r.e)
          /\ r.s = IF EventsFull(p) THEN "CAPACITY_EXHAUSTED" ELSE "OK"
          /\ r.e.parser = EmptyParser /\ ~ r.e.errPending /\ r.e.state = "RECOVERING"
      BY <2>1, <2>2, LocalRecovery
    <2> HIDE DEF r
    <2>4. p \in Endpoint /\ r.e \in Endpoint
      BY <2>1, <2>3 DEF Sound
    <2>5. /\ Sound(q) /\ HeldOK(q) /\ Follows(r.e, q)
          /\ q.parser = EmptyParser /\ q.errPending = EventsFull(e)
      BY <2>1, <2>3, Consuming
    <2>6. Settle(Abandon_Incompatible_Session(e)) = Result(q, r.s)
      <3>1. [r.e EXCEPT !.errPending = EventsFull(e)] = q
        BY <2>3, <2>4 DEF Endpoint, EndpointRecord
      <3> HIDE DEF q
      <3>2. r.s # "INTERNAL_ERROR"
        BY <2>3
      <3>3. Abandon_Incompatible_Session(e) = Abandoned(r, EventsFull(e))
        BY <1>1 DEF Abandon_Incompatible_Session, r, p
      <3> QED BY <3>1, <3>2, <3>3 DEF Settle, Abandoned, Outcome
    <2> HIDE DEF q
    <2>7. Follows(e, q)
      <3>1. Follows(e, r.e)
        BY <2>1, <2>3, <2>4, FollowsTransitive DEF Holding, Sound
      <3> QED BY <2>4, <2>5, <3>1, FollowsTransitive DEF Holding, Sound
    <2> QED BY <2>1, <2>3, <2>5, <2>6, <2>7 DEF SettledQuietly, Settled, Result, EmptyParser
  <1>2. CASE e.out.resetId # NoSession
    <2>1. e.state = "RECOVERING" /\ Connected(e) /\ ControlPending(e.out)
      BY <1>2, SessionScope DEF Holding, Sound, Output_Coherent
    <2>2. Abandon_Incompatible_Session(e) = Reject_Obsolete_Body(e)
      BY <1>2, <2>1 DEF Abandon_Incompatible_Session
    <2> QED BY <2>2, Discarding
  <1> QED BY <1>1, <1>2

-----------------------------------------------------------------------------
(* Dispatch *)

\* What a handler of the body in the parser returned decides what becomes of the body.
LEMMA Disposing ==
    ASSUME NEW e, Holding(e), e.parser.body \in WireFrame, NEW r, Handled(e, r),
           IgnoredReset(e, e.parser.body, r)
    PROVE  SettledQuietly(e, Settle(Dispose(r)))
  <1> DEFINE o == Dispose(r)
  <1>1. /\ Sound(r.e) /\ Follows(e, r.e) /\ SameBody(e, r.e)
        /\ r.e.parser.state = "READY" /\ ~ r.e.errPending
    BY HoldingIsClear DEF Handled, SameBody, Holding
  <1>2. CASE r.s = "CAPACITY_EXHAUSTED"
    <2>1. o.e = r.e /\ o.s = r.s /\ o.action = "RETAIN"
      BY <1>1, <1>2 DEF Dispose, Outcome
    <2>2. HeldOK(r.e)
      BY <1>1, <1>2 DEF HeldOK, IgnoredReset, SameBody
    <2> HIDE DEF o
    <2>3. SettledQuietly(e, Settle(o))
      BY <1>1, <1>2, <2>1, <2>2, SettlingRetained DEF Handled
    <2> QED BY <2>3 DEF o
  <1>3. CASE r.s \in {"ACCEPTED", "DUPLICATE"}
    <2>1. o.e = r.e /\ o.s = "OK" /\ o.action = "CONSUME"
      BY <1>1, <1>3 DEF Dispose, Outcome
    <2> HIDE DEF o
    <2>2. SettledQuietly(e, Settle(o))
      BY <1>1, <2>1, SettlingConsumed
    <2> QED BY <2>2 DEF o
  <1>4. CASE r.s = "STALE"
    <2>1. r.e = e /\ o = Reject_Retained_Body(e)
      BY <1>4 DEF Dispose, Handled
    <2>2. HeldOK(e)
      BY <1>4, IdentifierAssumption
      DEF HeldOK, IgnoredReset, WireFrame, Frame, WireIds, ReservedSession, NoSession,
          IdentifierAssumption
    <2> QED BY <2>1, <2>2, Rejecting
  <1>5. CASE r.s = "INCOMPATIBLE"
    <2>1. r.e = e /\ o = Abandon_Incompatible_Session(e)
      BY <1>5 DEF Dispose, Handled
    <2> QED BY <2>1, Leaving
  <1> QED BY <1>2, <1>3, <1>4, <1>5 DEF Handled, Classes

\* After the peer's RESET the body is gone with the session it ended.
LEMMA DisposingReset ==
    ASSUME NEW e, Holding(e), NEW f, NEW r, ReplacedBy(e, f, r)
    PROVE  Settled(e, Settle(Dispose(r))) /\ Replaced(e, Settle(Dispose(r)).e)
  <1>1. /\ Sound(r.e) /\ Replaced(e, r.e) /\ r.e.parser = EmptyParser /\ ~ r.e.errPending
        /\ r.s \in {"ACCEPTED", "CAPACITY_EXHAUSTED"}
    BY DEF ReplacedBy, Replaced
  <1>2. r.e.parser.state = "EMPTY" /\ HeldOK(r.e)
    BY <1>1 DEF EmptyParser, HeldOK
  <1>3. \E s \in {"OK", "CAPACITY_EXHAUSTED"} : Settle(Dispose(r)) = Result(r.e, s)
    BY <1>1, <1>2 DEF Dispose, Outcome, Settle
  <1> QED BY <1>1, <1>2, <1>3 DEF Settled, Result

\* Every frame of the peer, whatever session it bears.
LEMMA Dispatching ==
    ASSUME NEW e, Holding(e), e.parser.body \in WireFrame
    PROVE  LET r == Settle(Dispatch_Frame(e, e.parser.body))
           IN  \/ SettledQuietly(e, r)
               \/ Settled(e, r) /\ Replaced(e, r.e) /\ ~ HeldOK(e)
  <1> DEFINE f == e.parser.body
             h == Handshake_Handle_Frame(e, f)
             r == Settle(Dispatch_Frame(e, f))
  <1>0. Sound(e) /\ f \in WireFrame
    BY DEF Holding
  <1>1. CASE Is_Recently_Abandoned(e, f) \/ (Rig_Is_Waiting_Unbound(e) /\ f.type # "INITIATE")
    <2>1. Dispatch_Frame(e, f) = Reject_Obsolete_Body(e)
      BY <1>1 DEF Dispatch_Frame
    <2> QED BY <2>1, Discarding
  <1>2. CASE /\ ~ (Is_Recently_Abandoned(e, f) \/ (Rig_Is_Waiting_Unbound(e) /\ f.type # "INITIATE"))
             /\ e.id # NoSession /\ f.id # e.id
    <2>1. Dispatch_Frame(e, f) = Abandon_Incompatible_Session(e)
      BY <1>2 DEF Dispatch_Frame
    <2> QED BY <2>1, Leaving
  <1> DEFINE ours == /\ ~ Is_Recently_Abandoned(e, f)
                     /\ ~ (Rig_Is_Waiting_Unbound(e) /\ f.type # "INITIATE")
                     /\ ~ (e.id # NoSession /\ f.id # e.id)
  <1>3. ASSUME ours, Settle(Dispatch_Frame(e, f)) = Settle(Dispose(h))
        PROVE  \/ SettledQuietly(e, r)
               \/ Settled(e, r) /\ Replaced(e, r.e) /\ ~ HeldOK(e)
    <2>1. (Handled(e, h) /\ IgnoredReset(e, f, h)) \/ ReplacedBy(e, f, h)
      BY <1>0, <1>3, HandlingHandshake
    <2>2. CASE Handled(e, h) /\ IgnoredReset(e, f, h)
      BY <1>0, <1>3, <2>2, Disposing
    <2>3. CASE ReplacedBy(e, f, h)
      <3>1. ~ HeldOK(e)
        BY <2>3 DEF ReplacedBy, HeldOK, Holding
      <3> QED BY <1>3, <2>3, <3>1, DisposingReset
    <2> QED BY <2>1, <2>2, <2>3
  <1>4. CASE ours /\ f.type = "ACK"
    <2>1. Dispatch_Frame(e, f) = Dispatch_Acknowledgement(e, f)
      BY <1>4 DEF Dispatch_Frame
    <2>2. CASE e.out.rel.frame.type = "APPLICATION"
      <3> DEFINE a == Application_Handle_Acknowledgement(e, f)
      <3>1. Dispatch_Frame(e, f) = Dispose(a)
        BY <2>1, <2>2 DEF Dispatch_Acknowledgement
      <3>2. Handled(e, a) /\ IgnoredReset(e, f, a)
        BY <1>0, <1>4, <2>2, HandlingDeliveryAck DEF IgnoredReset
      <3> HIDE DEF a
      <3> QED BY <1>0, <3>1, <3>2, Disposing
    <2>3. CASE e.out.rel.frame.type # "APPLICATION" /\ e.state # "ESTABLISHED"
      <3>1. Dispatch_Frame(e, f) = Dispose(h)
        BY <2>1, <2>3 DEF Dispatch_Acknowledgement
      <3> QED BY <1>3, <1>4, <3>1
    <2>4. CASE /\ e.out.rel.frame.type # "APPLICATION" /\ e.state = "ESTABLISHED"
               /\ Is_Duplicate_Final_Host_Acknowledgement(e, f)
      <3> DEFINE o == Outcome(e, "OK", "CONSUME")
      <3>1. Dispatch_Frame(e, f) = o
        BY <2>1, <2>4 DEF Dispatch_Acknowledgement
      <3>2. o.e = e /\ o.s = "OK" /\ o.action = "CONSUME"
        BY DEF Outcome
      <3>3. Follows(e, e) /\ ~ e.errPending
        BY HoldingIsClear, QuietStepFollows
      <3> HIDE DEF o
      <3> QED BY <1>0, <3>1, <3>2, <3>3, SettlingConsumed
    <2>5. CASE /\ e.out.rel.frame.type # "APPLICATION" /\ e.state = "ESTABLISHED"
               /\ ~ Is_Duplicate_Final_Host_Acknowledgement(e, f)
      <3>1. Dispatch_Frame(e, f) = Reject_Retained_Body(e)
        BY <2>1, <2>5 DEF Dispatch_Acknowledgement
      <3>2. HeldOK(e)
        BY <1>4 DEF HeldOK
      <3> QED BY <3>1, <3>2, Rejecting
    <2> QED BY <2>2, <2>3, <2>4, <2>5
  <1>5. CASE ours /\ f.type = "APPLICATION"
    <2> DEFINE a == Accept_Proved(Try_Complete_Host_From_Application(e, f), f)
    <2>1. Dispatch_Frame(e, f) = Dispose(a)
      BY <1>5 DEF Dispatch_Frame, Dispatch_Application
    <2>2. Handled(e, a) /\ IgnoredReset(e, f, a)
      BY <1>0, <1>5, HandlingProof DEF IgnoredReset
    <2> HIDE DEF a
    <2> QED BY <1>0, <2>1, <2>2, Disposing
  <1>6. CASE ours /\ f.type \notin {"ACK", "APPLICATION"}
    <2>1. Dispatch_Frame(e, f) = Dispose(h)
      BY <1>6 DEF Dispatch_Frame
    <2> QED BY <1>3, <1>6, <2>1
  <1> QED BY <1>1, <1>2, <1>4, <1>5, <1>6

\* The body in the parser, whatever its bytes decode to.
LEMMA ProcessingBody ==
    ASSUME NEW e, Holding(e)
    PROVE  LET r == Process_Retained_Body(e)
           IN  \/ SettledQuietly(e, r)
               \/ Settled(e, r) /\ Replaced(e, r.e) /\ ~ HeldOK(e)
  <1> DEFINE body == e.parser.body
  <1>1. CASE body \notin {MalformedBody, OtherVersionBody}
    <2>1. Process_Retained_Body(e) = Settle(Dispatch_Frame(e, body))
      BY <1>1 DEF Process_Retained_Body, Decode_Retained_Body
    <2>2. body \in WireFrame
      BY <1>1, HoldingIsClear DEF Bodies, WireFrame
    <2> QED BY <2>1, <2>2, Dispatching
  <1>2. CASE body = OtherVersionBody /\ e.id # NoSession
    <2>1. Process_Retained_Body(e) = Settle(Abandon_Incompatible_Session(e))
      BY <1>2 DEF Process_Retained_Body, Decode_Retained_Body
    <2> QED BY <2>1, Leaving
  <1>3. CASE body = MalformedBody \/ (body = OtherVersionBody /\ e.id = NoSession)
    <2>1. Process_Retained_Body(e) = Settle(Reject_Retained_Body(e))
      BY <1>3 DEF Process_Retained_Body, Decode_Retained_Body, MalformedBody, OtherVersionBody,
                  NoFrame
    <2>2. HeldOK(e)
      BY <1>3 DEF HeldOK, MalformedBody, OtherVersionBody, NoFrame
    <2> QED BY <2>1, <2>2, Rejecting
  <1> QED BY <1>1, <1>2, <1>3

-----------------------------------------------------------------------------
(* Receive_Bytes *)

\* All that a call of Receive_Bytes can be given.
AnyInput == Bodies \cup {PartialInput, OverflowInput, NoInput}

\* What a whole call promises about the caller's work: its events stay, a RESET stays owed,
\* and what the session held is still there, or reported, or gone with the session.
Leads(a, c) ==
    /\ c.role = a.role
    /\ Extends(a.events, c.events)
    /\ a.out.resetId # NoSession => c.out.resetId = a.out.resetId
    /\ a.received # NoMessage =>
          /\ c.received = a.received \/ c.id # a.id
          /\ c.received \in {a.received, NoMessage}
    /\ a.submitted # NoMessage =>
          c.submitted = a.submitted \/ Reported(a, c, "DELIVERY_CONFIRMED") \/ c.id # a.id
    /\ Reported(a, c, "DELIVERY_CONFIRMED") => a.submitted # NoMessage /\ c.submitted = NoMessage
    /\ a.state # "ESTABLISHED" /\ c.state = "ESTABLISHED" => Reported(a, c, "SESSION_ESTABLISHED")

\* A step that follows keeps these promises.
LEMMA FollowingLeads ==
    ASSUME NEW a, Sound(a), NEW c, Sound(c), Follows(a, c)
    PROVE  Leads(a, c)
  <1>1. a.received # NoMessage \/ a.submitted # NoMessage => a.id # NoSession
    BY SessionScope
  <1>2. c.out.resetId # NoSession => c.id = NoSession /\ c.received = NoMessage
    BY SessionScope
  <1> QED BY <1>1, <1>2 DEF Follows, Leads

\* And so does the peer's RESET after it.
LEMMA ReplacingLeads ==
    ASSUME NEW a, Sound(a), NEW b, Sound(b), NEW c, Sound(c), Follows(a, b), Replaced(b, c)
    PROVE  Leads(a, c)
  <1>1. Extends(a.events, b.events) /\ Extends(b.events, c.events)
    BY DEF Follows, Replaced
  <1>2. Extends(a.events, c.events)
    BY <1>1, ExtendsTransitive DEF Sound, Endpoint, EndpointRecord
  <1>3. \A t : Reported(a, c, t) <=> Reported(a, b, t) \/ Reported(b, c, t)
    BY <1>1, ReportedTwice DEF Sound
  <1>4. b.out.resetId = NoSession /\ b.id # NoSession /\ c.id # b.id
    BY SessionScope DEF Replaced, Ends
  <1> QED BY <1>2, <1>3, <1>4 DEF Follows, Leads, Replaced, Ends

\* An owed diagnostic is reported or stays owed.
LEMMA ReportingOwed ==
    ASSUME NEW e, Sound(e), Connected(e), e.errPending
    PROVE  LET r == Process_Pending_Error(e)
           IN  /\ Sound(r.e) /\ HeldOK(r.e) /\ Follows(e, r.e)
               /\ r.e.parser = e.parser /\ r.e.parser.state = "EMPTY"
               /\ r.s \in {"OK", "CAPACITY_EXHAUSTED"}
               /\ r.s = "OK" => ~ r.e.errPending
  <1> DEFINE p == Events_Publish(e, "PROTOCOL_ERROR")
             q == [p EXCEPT !.parser = e.parser, !.errPending = EventsFull(e)]
  <1>1. /\ Sound(p) /\ Follows(e, p) /\ p.parser = e.parser /\ p.state = e.state
        /\ EventsFull(e) \in BOOLEAN
    BY Reporting
  <1> HIDE DEF p
  <1>2. e \in Endpoint /\ p \in Endpoint
    BY <1>1 DEF Sound
  <1>3. e.parser.state = "EMPTY" /\ e.state # "DISCONNECTED" /\ e.parser \in ParserRecord
    BY <1>2 DEF Sound, ParserOK, LifeOK, Endpoint, EndpointRecord
  <1>4. q.parser = e.parser /\ q.errPending = EventsFull(e) /\ q.state = e.state
    BY <1>1, <1>2 DEF Endpoint, EndpointRecord
  <1>5. ParserOK(q)
    BY <1>3, <1>4 DEF Sound, ParserOK
  <1>6. Sound(q) /\ Follows(p, q)
    BY <1>1, <1>3, <1>5, ParserSound
  <1>7. Process_Pending_Error(e) = Result(q, EventStatus(e))
    <2>1. [p EXCEPT !.errPending = EventsFull(e)] = q
      BY <1>1, <1>2 DEF Endpoint, EndpointRecord
    <2> HIDE DEF q
    <2> QED BY <2>1 DEF Process_Pending_Error, p
  <1> HIDE DEF q
  <1>8. Follows(e, q)
    BY <1>1, <1>2, <1>6, FollowsTransitive DEF Sound
  <1> QED BY <1>3, <1>4, <1>6, <1>7, <1>8 DEF Result, EventStatus, HeldOK

\* Crossing the recovery boundary never fails.
LEMMA Advancing ==
    ASSUME NEW e, Sound(e), HeldOK(e)
    PROVE  LET r == Try_Advance_Recovery(e)
           IN  /\ Sound(r.e) /\ HeldOK(r.e) /\ Follows(e, r.e) /\ r.s = "OK"
               /\ r.e = e \/ (r.e.parser = EmptyParser /\ ~ r.e.errPending)
               /\ e.state # "RECOVERING" => r.e = e
  <1> DEFINE waits == \/ e.state # "RECOVERING"
                      \/ e.out.resetId # NoSession \/ ControlPending(e.out) \/ e.out.sel # "NONE"
                      \/ e.errPending \/ e.parser.state # "EMPTY"
  <1>1. CASE waits
    <2>1. Try_Advance_Recovery(e) = Result(e, "OK")
      BY <1>1 DEF Try_Advance_Recovery
    <2>2. Follows(e, e)
      BY QuietStepFollows DEF Sound
    <2> QED BY <2>1, <2>2 DEF Result
  <1>2. CASE ~ waits
    <2>1. Try_Advance_Recovery(e) = Begin_Establishment(e)
      BY <1>2 DEF Try_Advance_Recovery
    <2>2. Drained(e)
      BY <1>2, RecoveringDrains
    <2> QED BY <1>2, <2>1, <2>2, Beginning DEF Result, HeldOK, EmptyParser
  <1> QED BY <1>1, <1>2

\* What an earlier call left: its diagnostic, its body and its recovery come first.
LEMMA Starting ==
    ASSUME NEW e, Sound(e), HeldOK(e), Connected(e)
    PROVE  LET r == Receive_Start(e)
           IN  /\ Sound(r.e) /\ HeldOK(r.e) /\ Follows(e, r.e)
               /\ r.s \in {"OK", "CAPACITY_EXHAUSTED"}
               /\ r.s = "OK" => ~ r.e.errPending /\ r.e.parser.state # "READY"
               /\ r.s # "OK" /\ e.parser.state = "READY" =>
                     r.e.parser = EmptyParser \/ SameWork(e, r.e)
  <1> DEFINE first == Process_Pending_Error(e)
             held == After_Error(first)
             r == Receive_Start(e)
  <1>1. /\ Sound(held.e) /\ HeldOK(held.e) /\ Follows(e, held.e)
        /\ held.s \in {"OK", "CAPACITY_EXHAUSTED"}
        /\ held.s = "OK" => ~ held.e.errPending /\ held.e.parser.state # "READY"
        /\ held.s # "OK" /\ e.parser.state = "READY" =>
              held.e.parser = EmptyParser \/ SameWork(e, held.e)
    <2>1. CASE e.errPending
      <3>1. /\ Sound(first.e) /\ HeldOK(first.e) /\ Follows(e, first.e)
            /\ first.e.parser.state = "EMPTY" /\ first.s \in {"OK", "CAPACITY_EXHAUSTED"}
            /\ first.s = "OK" => ~ first.e.errPending
        BY <2>1, ReportingOwed
      <3>2. e.parser.state # "READY"
        BY <2>1 DEF Sound, ParserOK
      <3> HIDE DEF first
      <3>3. CASE first.s = "OK"
        <4>1. held = Result(first.e, "OK")
          BY <3>1, <3>3 DEF After_Error, Process_Held
        <4> QED BY <3>1, <3>2, <3>3, <4>1 DEF Result
      <3>4. CASE first.s # "OK"
        <4>1. held = first
          BY <3>4 DEF After_Error
        <4> QED BY <3>1, <3>2, <3>4, <4>1
      <3> QED BY <3>3, <3>4
    <2>2. CASE ~ e.errPending /\ e.parser.state = "READY"
      <3>1. held = Process_Retained_Body(e)
        BY <2>2 DEF Process_Pending_Error, After_Error, Process_Held, Result
      <3>2. SettledQuietly(e, held)
        BY <2>2, <3>1, ProcessingBody DEF Holding
      <3> QED BY <3>2 DEF SettledQuietly, Settled
    <2>3. CASE ~ e.errPending /\ e.parser.state # "READY"
      <3>1. held = Result(e, "OK")
        BY <2>3 DEF Process_Pending_Error, After_Error, Process_Held, Result
      <3>2. Follows(e, e)
        BY QuietStepFollows DEF Sound
      <3> QED BY <2>3, <3>1, <3>2 DEF Result
    <2> QED BY <2>1, <2>2, <2>3
  <1>2. r = Then_Advance(held)
    BY DEF Receive_Start
  <1> HIDE DEF held, r
  <1>3. CASE held.s = "OK"
    <2>1. r = Try_Advance_Recovery(held.e)
      BY <1>2, <1>3 DEF Then_Advance
    <2>2. /\ Sound(r.e) /\ HeldOK(r.e) /\ Follows(held.e, r.e) /\ r.s = "OK"
          /\ r.e = held.e \/ (r.e.parser = EmptyParser /\ ~ r.e.errPending)
      BY <1>1, <2>1, Advancing
    <2>3. Follows(e, r.e)
      BY <1>1, <2>2, FollowsTransitive DEF Sound
    <2> QED BY <1>1, <1>3, <2>2, <2>3 DEF EmptyParser, r
  <1>4. CASE held.s # "OK"
    <2>1. r = held
      BY <1>2, <1>4 DEF Then_Advance
    <2> QED BY <1>1, <1>4, <2>1 DEF r
  <1> QED BY <1>3, <1>4

\* Bytes without a delimiter are no body.
LEMMA PiecesAreNoBodies ==
    /\ PartialInput \notin Bodies /\ OverflowInput \notin Bodies /\ NoInput \notin Bodies
    /\ PartialInput # OverflowInput /\ PartialInput # NoInput /\ OverflowInput # NoInput
  BY DEF NoInput, PartialInput, OverflowInput, NoFrame, Bodies, Frame, FrameTypes, ReliableTypes,
         ControlTypes, MalformedBody, OtherVersionBody

\* New bytes are taken only when nothing held back is in the way: they fill the parser, are
\* dropped, or complete a body that is settled in the same call.
LEMMA Pushing ==
    ASSUME NEW e, Sound(e), HeldOK(e), Connected(e), ~ e.errPending, e.parser.state # "READY",
           NEW input \in AnyInput
    PROVE  LET r == Push_Bytes(e, input)
           IN  /\ Sound(r.e) /\ HeldOK(r.e) /\ (Follows(e, r.e) \/ Replaced(e, r.e))
               /\ r.s \in {"OK", "CAPACITY_EXHAUSTED"}
  <1> DEFINE r == Push_Bytes(e, input)
  <1>0. e \in Endpoint /\ e.parser.body = NoFrame /\ e.errPending = FALSE
    BY DEF Sound, ParserOK, Endpoint, EndpointRecord
  <1>00. e.state # "DISCONNECTED"
    BY DEF Sound, LifeOK
  <1>1. ASSUME NEW state \in {"PARTIAL", "DISCARDING"}, r = Result([e EXCEPT !.parser.state = state], "OK")
        PROVE  /\ Sound(r.e) /\ HeldOK(r.e) /\ Follows(e, r.e)
               /\ r.s \in {"OK", "CAPACITY_EXHAUSTED"}
    <2> DEFINE parser == [state |-> state, body |-> NoFrame]
               q == [e EXCEPT !.parser = parser, !.errPending = FALSE]
    <2>1. [e EXCEPT !.parser.state = state] = q
      <3>1. [e.parser EXCEPT !.state = state] = parser
        BY <1>0 DEF Endpoint, EndpointRecord, ParserRecord
      <3> HIDE DEF parser
      <3> QED BY <1>0, <3>1 DEF Endpoint, EndpointRecord
    <2>2. parser \in ParserRecord
      BY DEF ParserRecord
    <2>3. q.parser = parser /\ q.errPending = FALSE /\ q.state = e.state
      BY <1>0 DEF Endpoint, EndpointRecord
    <2>4. ParserOK(q) /\ HeldOK(q)
      BY <1>00, <2>3 DEF ParserOK, HeldOK
    <2>5. Sound(q) /\ Follows(e, q)
      BY <2>2, <2>4, ParserSound
    <2> HIDE DEF q
    <2> QED BY <1>1, <2>1, <2>4, <2>5 DEF Result
  <1>2. CASE input = PartialInput /\ e.parser.state # "DISCARDING"
    <2>1. r = Result([e EXCEPT !.parser.state = "PARTIAL"], "OK")
      BY <1>2, PiecesAreNoBodies DEF Push_Bytes
    <2> QED BY <1>1, <2>1
  <1>3. CASE input = OverflowInput
    <2>1. r = Result([e EXCEPT !.parser.state = "DISCARDING"], "OK")
      BY <1>3, PiecesAreNoBodies DEF Push_Bytes
    <2> QED BY <1>1, <2>1
  <1> DEFINE parser == [state |-> "READY", body |-> input]
             q == [e EXCEPT !.parser = parser, !.errPending = FALSE]
             d == [e EXCEPT !.parser = EmptyParser, !.errPending = TRUE]
  <1>4. CASE input \in Bodies /\ e.parser.state # "DISCARDING"
    <2>1. [e EXCEPT !.parser = [state |-> "READY", body |-> input]] = q
      BY <1>0 DEF Endpoint, EndpointRecord
    <2>2. parser \in ParserRecord
      BY <1>4 DEF ParserRecord
    <2>3. /\ q.parser = parser /\ q.errPending = FALSE /\ q.state = e.state /\ q.link = e.link
          /\ q.id = e.id /\ q.events = e.events /\ q.out = e.out
      BY <1>0 DEF Endpoint, EndpointRecord
    <2>4. ParserOK(q)
      BY <1>00, <1>4, <2>3 DEF ParserOK
    <2>5. Sound(q) /\ Follows(e, q)
      BY <2>2, <2>4, ParserSound
    <2>6. Holding(q)
      BY <2>3, <2>5 DEF Holding, Connected
    <2>7. r = Process_Retained_Body(q)
      <3> HIDE DEF q
      <3> QED BY <1>4, <2>1, PiecesAreNoBodies DEF Push_Bytes
    <2> HIDE DEF q
    <2>8. Settled(q, r) /\ (Follows(q, r.e) \/ Replaced(q, r.e))
      BY <2>6, <2>7, ProcessingBody DEF SettledQuietly
    <2>9. CASE Follows(q, r.e)
      <3>1. Follows(e, r.e)
        BY <2>5, <2>8, <2>9, FollowsTransitive DEF Sound, Settled
      <3> QED BY <2>8, <3>1 DEF Settled
    <2>10. CASE Replaced(q, r.e)
      <3>1. Replaced(e, r.e)
        BY <2>3, <2>5, <2>10 DEF Replaced, Ends, Reported, Follows
      <3> QED BY <2>8, <3>1 DEF Settled
    <2> QED BY <2>8, <2>9, <2>10
  <1>5. CASE input \in Bodies /\ e.parser.state = "DISCARDING"
    <2>1. Sound(d) /\ Follows(e, d) /\ d.errPending = TRUE
      BY <1>00, Consuming
    <2>2. d.link = e.link
      BY <1>0 DEF Endpoint, EndpointRecord
    <2>3. r = Process_Pending_Error(d)
      <3> HIDE DEF d
      <3>1. [e EXCEPT !.parser = EmptyParser, !.errPending = TRUE] = d
        BY DEF d
      <3> QED BY <1>5, <3>1, PiecesAreNoBodies DEF Push_Bytes
    <2> HIDE DEF d
    <2>4. /\ Sound(r.e) /\ HeldOK(r.e) /\ Follows(d, r.e)
          /\ r.s \in {"OK", "CAPACITY_EXHAUSTED"}
      BY <2>1, <2>2, <2>3, ReportingOwed DEF Connected
    <2>5. Follows(e, r.e)
      BY <2>1, <2>4, FollowsTransitive DEF Sound
    <2> QED BY <2>4, <2>5
  <1>6. CASE input = NoInput \/ (input = PartialInput /\ e.parser.state = "DISCARDING")
    <2>1. input \notin Bodies /\ input # OverflowInput
      BY <1>6, PiecesAreNoBodies
    <2>2. ~ (input = PartialInput /\ e.parser.state # "DISCARDING")
      BY <1>6, PiecesAreNoBodies
    <2>3. r = Result(e, "OK")
      BY <2>1, <2>2 DEF Push_Bytes
    <2>4. Follows(e, e)
      BY <1>0, QuietStepFollows
    <2> QED BY <2>3, <2>4 DEF Result
  <1> QED BY <1>2, <1>3, <1>4, <1>5, <1>6 DEF AnyInput

\* One call of Receive_Bytes.  When it returns without having taken the bytes because of the
\* body it holds, and still holds that body, the call has had no effect on the work.
LEMMA Receiving ==
    ASSUME NEW e, Sound(e), HeldOK(e), NEW input \in AnyInput
    PROVE  LET r == Receive_Bytes(e, input)
           IN  /\ Sound(r.e) /\ HeldOK(r.e) /\ Leads(e, r.e)
               /\ r.s \in {"OK", "CAPACITY_EXHAUSTED", "NOT_READY"}
               /\ input = NoInput => Follows(e, r.e)
               /\ input = NoInput /\ r.s = "OK" => ~ r.e.errPending /\ Receive_Consumes(e)
               /\ ~ Receive_Consumes(e) /\ e.parser.state = "READY" =>
                     r.e.parser = EmptyParser \/ SameWork(e, r.e)
  <1> DEFINE start == Receive_Start(e)
             pushed == Then_Push(start, input)
             r == Receive_Bytes(e, input)
  <1>1. /\ e \in Endpoint /\ e.state # "FAULT" /\ Receive_Valid(e)
    BY SessionScope DEF Sound, ParserOK, Receive_Valid
  <1>2. CASE ~ Connected(e)
    <2>1. r = Result(e, "NOT_READY")
      BY <1>1, <1>2 DEF Receive_Bytes
    <2>2. Follows(e, e)
      BY <1>1, QuietStepFollows
    <2>3. Leads(e, e)
      BY <2>2, FollowingLeads
    <2> QED BY <1>2, <2>1, <2>2, <2>3 DEF Result, SameWork
  <1>3. CASE Connected(e)
    <2>1. /\ Sound(start.e) /\ HeldOK(start.e) /\ Follows(e, start.e)
          /\ start.s \in {"OK", "CAPACITY_EXHAUSTED"}
          /\ start.s = "OK" => ~ start.e.errPending /\ start.e.parser.state # "READY"
          /\ start.s # "OK" /\ e.parser.state = "READY" =>
                start.e.parser = EmptyParser \/ SameWork(e, start.e)
      BY <1>3, Starting
    <2>2. r = After_Body(pushed, input)
      BY <1>1, <1>3 DEF Receive_Bytes
    <2>3. Receive_Consumes(e) <=> start.s = "OK"
      BY <1>1, <1>3 DEF Receive_Consumes
    <2> HIDE DEF start, r
    <2>4. CASE start.s # "OK"
      <3>1. pushed = start
        BY <2>4 DEF Then_Push
      <3>2. r = start
        BY <2>2, <2>4, <3>1 DEF After_Body, Then_Advance
      <3>3. Leads(e, start.e)
        BY <2>1, FollowingLeads
      <3> QED BY <2>1, <2>3, <2>4, <3>2, <3>3 DEF r
    <2>5. CASE start.s = "OK"
      <3>1. pushed = Push_Bytes(start.e, input)
        BY <2>5 DEF Then_Push
      <3>2. Connected(start.e)
        BY <1>3, <2>1 DEF Follows, Connected
      <3>3. /\ Sound(pushed.e) /\ HeldOK(pushed.e)
            /\ Follows(start.e, pushed.e) \/ Replaced(start.e, pushed.e)
            /\ pushed.s \in {"OK", "CAPACITY_EXHAUSTED"}
        BY <2>1, <2>5, <3>1, <3>2, Pushing
      <3> HIDE DEF pushed
      <3>4. /\ Sound(r.e) /\ HeldOK(r.e)
            /\ Follows(pushed.e, r.e) /\ (pushed.e.state # "RECOVERING" => r.e = pushed.e)
            /\ r.s \in {"OK", "CAPACITY_EXHAUSTED"}
        <4>1. CASE input \in Bodies /\ pushed.s = "OK"
          <5>1. r = Try_Advance_Recovery(pushed.e)
            BY <2>2, <4>1 DEF After_Body, Then_Advance
          <5> QED BY <3>3, <5>1, Advancing
        <4>2. CASE ~ (input \in Bodies /\ pushed.s = "OK")
          <5>1. r = pushed
            BY <2>2, <4>2 DEF After_Body, Then_Advance
          <5>2. Follows(pushed.e, pushed.e)
            BY <3>3, QuietStepFollows DEF Sound
          <5> QED BY <3>3, <5>1, <5>2
        <4> QED BY <4>1, <4>2
      <3>5. Leads(e, r.e)
        <4>1. CASE Follows(start.e, pushed.e)
          <5>1. Follows(e, pushed.e)
            BY <2>1, <3>3, <4>1, FollowsTransitive DEF Sound
          <5>2. Follows(e, r.e)
            BY <3>3, <3>4, <5>1, FollowsTransitive DEF Sound
          <5> QED BY <3>4, <5>2, FollowingLeads
        <4>2. CASE Replaced(start.e, pushed.e)
          <5>1. r.e = pushed.e
            BY <3>4, <4>2 DEF Replaced
          <5> QED BY <2>1, <3>3, <4>2, <5>1, ReplacingLeads
        <4> QED BY <3>3, <4>1, <4>2
      <3>6. ASSUME input = NoInput
            PROVE  Follows(e, r.e) /\ ~ r.e.errPending
        <4>1. input \notin Bodies /\ input # PartialInput /\ input # OverflowInput
          BY <3>6, PiecesAreNoBodies
        <4>2. pushed = Result(start.e, "OK")
          BY <3>1, <4>1 DEF Push_Bytes
        <4>3. r.e = start.e
          BY <2>2, <4>1, <4>2 DEF After_Body, Result
        <4> QED BY <2>1, <2>5, <4>3
      <3> QED BY <2>3, <2>5, <3>4, <3>5, <3>6 DEF r
    <2> QED BY <2>1, <2>4, <2>5
  <1> QED BY <1>2, <1>3

-----------------------------------------------------------------------------
(* Process *)

\* The frame a pending phase publishes is the one the next phase waits on.
LEMMA PublishingHandshake ==
    ASSUME NEW e, Sound(e), NEW type, NEW ack \in Sequences16, NEW next,
           \/ e.phase = "INITIATE_PENDING" /\ type = "INITIATE" /\ ack = 0
              /\ next = "WAITING_FOR_RESPONSE"
           \/ e.phase = "RESPONSE_PENDING" /\ type = "RESPONSE" /\ next = "WAITING_FOR_CONFIRM"
           \/ e.phase = "CONFIRM_PENDING" /\ type = "CONFIRM" /\ next = "WAITING_FOR_CONFIRM_ACK"
    PROVE  LET r == Handshake_Publish_Reliable(e, type, ack, next)
           IN  Sound(r.e) /\ Follows(e, r.e) /\ SameBody(e, r.e) /\ r.e.id = e.id /\ r.s = "OK"
  <1> DEFINE frame == MakeFrame(type, e.id, e.out.nextTx, ack, NoMessage)
             o == Reliability_Publish(e.out, frame)
             q == [e EXCEPT !.out = o, !.phase = next]
  <1>1. /\ e \in Endpoint /\ e.out \in OutputRecord({0}) /\ e.out.nextTx \in Sequences16
        /\ e.id \in SessionIdsOrNone
    BY DEF Sound, Endpoint, EndpointRecord, OutputRecord
  <1>2. /\ e.state = "CONNECTING" /\ e.id # NoSession
        /\ e.out.rel.frame.type = "INVALID"
    BY <1>1
    DEF Sound, LifeOK, PhasesOf, RetainedOK, RetainedTypes, Endpoint, EndpointRecord, SessionStates
  <1>3. e.out.rel = IdleReliable
    BY <1>2 DEF Sound, Output_Coherent, Reliability_Coherent, ReliableTypes
  <1>4. e.submitted = NoMessage
    BY <1>3 DEF Sound, RetainedOK, IdleReliable, NoFrame
  <1>5. frame \in ReliableFrame
    <2>1. e.id \in WireIds
      BY <1>1, <1>2, IdentifierAssumption
      DEF SessionIdsOrNone, WireIds, ReservedSession, NoSession, IdentifierAssumption
    <2> QED
      BY <1>1, <2>1
      DEF MakeFrame, ReliableFrame, Frame, FrameTypes, ReliableTypes, ValidFrame
  <1>6. Reliability_CanPublish(e.out, frame)
    BY <1>3, <1>5 DEF Reliability_CanPublish, IdleReliable, MakeFrame, ReliableFrame
  <1>7. Handshake_Publish_Reliable(e, type, ack, next) = Result(q, "OK")
    BY <1>6 DEF Handshake_Publish_Reliable
  <1>8. frame.id = e.id /\ frame.type = type /\ frame.msg = NoMessage
    BY DEF MakeFrame
  <1> HIDE DEF frame
  <1>9. o \in OutputRecord({0})
    BY <1>1, <1>5, PublishReliableType
  <1>10. /\ Output_Coherent(o, Recovering(e)) /\ o.rel.frame = frame
         /\ o.ctl = e.out.ctl /\ o.resetId = e.out.resetId
    <2>1. Output_Coherent(e.out, Recovering(e))
      BY DEF Sound
    <2>2. /\ Output_Coherent(o, Recovering(e))
          /\ o.rel = [state |-> "READY", frame |-> frame, retx |-> 0, sent |-> 0]
          /\ o.ctl = e.out.ctl /\ o.resetId = e.out.resetId
      BY <1>1, <1>5, <1>6, <2>1, PublishReliableCoherent
    <2> HIDE DEF o
    <2> QED BY <2>2
  <1> HIDE DEF o
  <1>11. q \in Endpoint
    BY <1>1, <1>9 DEF Endpoint, EndpointRecord, HandshakePhases
  <1>12. /\ q.role = e.role /\ q.link = e.link /\ q.state = e.state /\ q.phase = next
         /\ q.id = e.id /\ q.nextId = e.nextId /\ q.abandoned = e.abandoned /\ q.out = o
         /\ q.lastRx = e.lastRx /\ q.confirm = e.confirm /\ q.parser = e.parser
         /\ q.errPending = e.errPending /\ q.submitted = e.submitted
         /\ q.received = e.received /\ q.events = e.events
    BY <1>1 DEF Endpoint, EndpointRecord
  <1> HIDE DEF q
  <1>13. Output_Coherent(q.out, Recovering(q))
    BY <1>10, <1>12 DEF Recovering, Connected
  <1>14. LifeOK(q)
    BY <1>2, <1>12 DEF Sound, LifeOK, Connected, PhasesOf, HostPhases, RigPhases
  <1>15. RetainedOK(q)
    BY <1>4, <1>8, <1>10, <1>12 DEF RetainedOK, RetainedTypes
  <1>16. ControlOK(q) /\ WorkOK(q)
    BY <1>2, <1>10, <1>12 DEF Sound, ControlOK, WorkOK, BaselineTypes
  <1>17. ParserOK(q) /\ IdentityOK(q)
    BY <1>12 DEF Sound, ParserOK, IdentityOK, CursorValid
  <1>18. Sound(q)
    BY <1>11, <1>13, <1>14, <1>15, <1>16, <1>17 DEF Sound
  <1>19. Follows(e, q)
    BY <1>1, <1>10, <1>11, <1>12, QuietStepFollows
  <1> QED BY <1>7, <1>12, <1>18, <1>19 DEF Result, SameBody

\* The handshake step of Process.
LEMMA Shaking ==
    ASSUME NEW e, Sound(e)
    PROVE  LET r == Handshake_Process(e)
           IN  Sound(r.e) /\ Follows(e, r.e) /\ SameBody(e, r.e) /\ r.e.id = e.id /\ r.s = "OK"
  <1>1. 0 \in Sequences16 /\ e.lastRx.seq \in Sequences16
    BY SequenceAssumption
    DEF Sound, Endpoint, EndpointRecord, BaselineRecord, NoBaseline, Sequences16,
        SequenceAssumption
  <1>2. CASE e.phase = "INITIATE_PENDING"
    BY <1>1, <1>2, PublishingHandshake DEF Handshake_Process
  <1>3. CASE e.phase = "RESPONSE_PENDING"
    BY <1>1, <1>3, PublishingHandshake DEF Handshake_Process
  <1>4. CASE e.phase = "CONFIRM_PENDING"
    BY <1>1, <1>4, PublishingHandshake DEF Handshake_Process
  <1>5. CASE e.phase \notin {"INITIATE_PENDING", "RESPONSE_PENDING", "CONFIRM_PENDING"}
    <2>1. Handshake_Process(e) = Result(e, "OK")
      BY <1>5 DEF Handshake_Process
    <2>2. Follows(e, e)
      BY QuietStepFollows DEF Sound
    <2> QED BY <2>1, <2>2 DEF Result, SameBody
  <1> QED BY <1>2, <1>3, <1>4, <1>5

\* Giving up the retained frame reports a lost message, then leaves the session.
LEMMA GivingUp ==
    ASSUME NEW e, Sound(e), HeldOK(e)
    PROVE  LET r == Give_Up(e) IN Sound(r.e) /\ HeldOK(r.e) /\ Follows(e, r.e)
  <1> DEFINE r == Give_Up(e)
             p == Events_Publish(e, "DELIVERY_FAILED")
  <1>0. e \in Endpoint /\ Follows(e, e)
    BY QuietStepFollows DEF Sound
  <1>1. CASE e.out.rel.state # "EXHAUSTED"
    <2>1. r = Result(e, "OK")
      BY <1>1 DEF Give_Up
    <2> QED BY <1>0, <2>1 DEF Result
  <1>2. ASSUME e.out.rel.state = "EXHAUSTED"
        PROVE  Connected(e) /\ e.out.resetId = NoSession
    <2>1. e.out.rel.frame.type \in ReliableTypes
      BY <1>2 DEF Sound, Output_Coherent, Reliability_Coherent
    <2>2. e.id # NoSession
      BY <2>1 DEF Sound, RetainedOK, RetainedTypes, LifeOK, ReliableTypes
    <2> QED BY <2>2, SessionScope
  <1>3. CASE e.out.rel.state = "EXHAUSTED" /\ e.out.rel.frame.type # "APPLICATION"
    <2>1. r = Begin_Local_Recovery(e)
      BY <1>3 DEF Give_Up
    <2> QED BY <1>2, <1>3, <2>1, LocalRecovery DEF HeldOK, EmptyParser
  <1>4. CASE e.out.rel.state = "EXHAUSTED" /\ e.out.rel.frame.type = "APPLICATION"
    <2>1. e.submitted # NoMessage
      <3>1. e.out.rel.frame.msg # NoMessage
        BY <1>4, RetainedFrame DEF ReliableTypes, ReliableFrame, ValidFrame
      <3> QED BY <3>1 DEF Sound, RetainedOK
    <2>2. CASE EventsFull(e)
      <3>1. r = Result(e, "CAPACITY_EXHAUSTED")
        BY <1>4, <2>1, <2>2 DEF Give_Up, Application_Handle_Retry_Exhaustion
      <3> QED BY <1>0, <3>1 DEF Result
    <2>3. CASE ~ EventsFull(e)
      <3> DEFINE left == Begin_Local_Recovery(p)
      <3>1. r = Delivery_Failed(left)
        BY <1>4, <2>1, <2>3 DEF Give_Up, Application_Handle_Retry_Exhaustion
      <3>2. r.e = left.e
        BY <3>1 DEF Delivery_Failed, Result
      <3>3. Sound(p) /\ Follows(e, p)
        BY <1>0, PublishingIsSound, PublishingFollows DEF EventTypes
      <3>4. p.out = e.out /\ p.link = e.link
        <4>1. p = [e EXCEPT !.events = p.events]
          BY <1>0, Publishing DEF EventTypes
        <4> HIDE DEF p
        <4> QED BY <1>0, <4>1 DEF Endpoint, EndpointRecord
      <3> HIDE DEF p
      <3>5. Sound(left.e) /\ Follows(p, left.e) /\ left.e.parser = EmptyParser
        BY <1>2, <1>4, <3>3, <3>4, LocalRecovery DEF Connected
      <3> HIDE DEF left, r
      <3>6. Follows(e, left.e)
        BY <3>3, <3>5, FollowsTransitive DEF Sound
      <3> QED BY <3>2, <3>5, <3>6 DEF HeldOK, EmptyParser, r
    <2> QED BY <2>2, <2>3
  <1> QED BY <1>1, <1>3, <1>4

\* The retransmission timer, and what an exhausted frame leads to.
LEMMA Retrying ==
    ASSUME NEW e, Sound(e), HeldOK(e), NEW expired \in BOOLEAN
    PROVE  LET r == Process_Reliability(e, expired)
           IN  Sound(r.e) /\ HeldOK(r.e) /\ Follows(e, r.e)
  <1> DEFINE o == Reliability_Process_Pending(e.out, expired)
             q == [e EXCEPT !.out = o]
  <1>1. e \in Endpoint /\ e.out \in OutputRecord({0}) /\ Output_Coherent(e.out, Recovering(e))
    BY DEF Sound, Endpoint, EndpointRecord
  <1>2. Process_Reliability(e, expired) = Give_Up(q)
    BY <1>1 DEF Process_Reliability, Output_Coherent
  <1>3. Sound(q) /\ Follows(e, q)
    <2>1. CASE e.out.rel.state = "AWAITING_ACK" /\ expired
      <3>1. o = RetryOrExhaust(e.out)
        BY <2>1 DEF Reliability_Process_Pending
      <3>2. /\ Output_Coherent(o, Recovering(e)) /\ o.rel.frame = e.out.rel.frame
            /\ o.ctl = e.out.ctl /\ o.resetId = e.out.resetId
        BY <1>1, <2>1, <3>1, RetryCoherent
      <3>3. o \in OutputRecord({0})
        BY <1>1, <3>1, RetryType
      <3> HIDE DEF o
      <3> QED BY <3>2, <3>3, OutputSound, OutputFollows
    <2>2. CASE ~ (e.out.rel.state = "AWAITING_ACK" /\ expired)
      <3>1. q = e
        BY <1>1, <2>2 DEF Reliability_Process_Pending, Endpoint, EndpointRecord
      <3>2. Follows(e, e)
        BY <1>1, QuietStepFollows
      <3> HIDE DEF q
      <3> QED BY <3>1, <3>2
    <2> QED BY <2>1, <2>2
  <1>4. HeldOK(q)
    <2>1. q.parser = e.parser /\ q.id = e.id
      BY <1>1 DEF Endpoint, EndpointRecord
    <2> HIDE DEF q
    <2> QED BY <2>1 DEF HeldOK
  <1> HIDE DEF q
  <1>5. LET r == Give_Up(q) IN Sound(r.e) /\ HeldOK(r.e) /\ Follows(q, r.e)
    BY <1>3, <1>4, GivingUp
  <1>6. Follows(e, Give_Up(q).e)
    BY <1>1, <1>3, <1>5, FollowsTransitive DEF Sound
  <1> QED BY <1>2, <1>5, <1>6

\* The session part of Process: recovery, then the handshake, then the retained frame.
LEMMA ProcessingSession ==
    ASSUME NEW e, Sound(e), HeldOK(e), ~ e.errPending, NEW expired \in BOOLEAN
    PROVE  LET r == Process_Session(e, expired)
           IN  Sound(r.e) /\ HeldOK(r.e) /\ Follows(e, r.e)
  <1> DEFINE a == Process_Recovery(e)
             b == Handshake_Process(a.e)
             c == Process_Reliability(b.e, expired)
  <1>0. e \in Endpoint /\ Follows(e, e)
    BY QuietStepFollows DEF Sound
  <1>1. CASE StillRecovering(e)
    <2>1. Process_Session(e, expired) = Result(e, "OK")
      BY <1>1 DEF Process_Session
    <2> QED BY <1>0, <2>1 DEF Result
  <1>2. CASE ~ StillRecovering(e)
    <2>1. Sound(a.e) /\ HeldOK(a.e) /\ Follows(e, a.e) /\ a.s = "OK"
      <3>1. CASE e.state = "RECOVERING"
        <4>1. Drained(e)
          BY <1>2, <3>1, RecoveringDrains DEF StillRecovering
        <4>2. a = Begin_Establishment(e)
          BY <3>1 DEF Process_Recovery
        <4> QED BY <4>1, <4>2, Beginning DEF Result, HeldOK, EmptyParser
      <3>2. CASE e.state # "RECOVERING"
        <4>1. a = Result(e, "OK")
          BY <3>2 DEF Process_Recovery
        <4> QED BY <1>0, <4>1 DEF Result
      <3> QED BY <3>1, <3>2
    <2> HIDE DEF a
    <2>2. Sound(b.e) /\ Follows(a.e, b.e) /\ SameBody(a.e, b.e) /\ b.e.id = a.e.id /\ b.s = "OK"
      BY <2>1, Shaking
    <2>3. HeldOK(b.e)
      BY <2>1, <2>2 DEF HeldOK, SameBody
    <2> HIDE DEF b
    <2>4. Sound(c.e) /\ HeldOK(c.e) /\ Follows(b.e, c.e)
      BY <2>2, <2>3, Retrying
    <2>5. Process_Session(e, expired) = c
      <3>1. Then_Handshake(a) = b
        BY <2>1 DEF Then_Handshake, b
      <3> HIDE DEF c
      <3>2. Then_Reliability(b, expired) = c
        BY <2>2 DEF Then_Reliability, c
      <3> QED BY <1>2, <3>1, <3>2 DEF Process_Session, a
    <2> HIDE DEF c
    <2>6. Follows(e, b.e)
      BY <1>0, <2>1, <2>2, FollowsTransitive DEF Sound
    <2>7. Follows(e, c.e)
      BY <1>0, <2>2, <2>4, <2>6, FollowsTransitive DEF Sound
    <2> QED BY <2>4, <2>5, <2>7
  <1> QED BY <1>1, <1>2

\* One call of Process.  It tries a held body again like a call of Receive_Bytes would.
LEMMA Processing ==
    ASSUME NEW e, Sound(e), HeldOK(e), NEW expired \in BOOLEAN
    PROVE  LET r == Profile_Process(e, expired)
           IN  /\ Sound(r.e) /\ HeldOK(r.e) /\ Follows(e, r.e)
               /\ ~ Receive_Consumes(e) /\ e.parser.state = "READY" =>
                     r.e.parser = EmptyParser \/ SameWork(e, r.e)
  <1> DEFINE r == Profile_Process(e, expired)
             a == Process_Receive(e)
  <1>0. e \in Endpoint /\ e.state # "FAULT" /\ Follows(e, e)
    BY SessionScope, QuietStepFollows
  <1>1. CASE ~ Connected(e)
    <2>1. r = Result(e, "OK")
      BY <1>0, <1>1 DEF Profile_Process
    <2> QED BY <1>0, <2>1 DEF Result, SameWork
  <1>2. CASE Connected(e)
    <2>1. r = Then_Session(a, expired)
      BY <1>0, <1>2 DEF Profile_Process
    <2>2. /\ Sound(a.e) /\ HeldOK(a.e) /\ Follows(e, a.e)
          /\ a.s = "OK" => ~ a.e.errPending
          /\ a.s = "OK" /\ e.parser.state = "READY" => Receive_Consumes(e)
          /\ ~ Receive_Consumes(e) /\ e.parser.state = "READY" =>
                a.e.parser = EmptyParser \/ SameWork(e, a.e)
      <3>1. CASE e.errPending \/ e.parser.state = "READY"
        <4>1. a = Receive_Bytes(e, NoInput)
          BY <3>1 DEF Process_Receive
        <4>2. NoInput \in AnyInput
          BY DEF AnyInput
        <4> QED BY <4>1, <4>2, Receiving
      <3>2. CASE ~ (e.errPending \/ e.parser.state = "READY")
        <4>1. a = Result(e, "OK")
          BY <3>2 DEF Process_Receive
        <4> QED BY <1>0, <3>2, <4>1 DEF Result
      <3> QED BY <3>1, <3>2
    <2> HIDE DEF a, r
    <2>3. CASE a.s = "OK"
      <3> DEFINE c == Process_Session(a.e, expired)
      <3>1. r = c
        BY <2>1, <2>3 DEF Then_Session
      <3>2. Sound(c.e) /\ HeldOK(c.e) /\ Follows(a.e, c.e)
        BY <2>2, <2>3, ProcessingSession
      <3> HIDE DEF c
      <3>3. Follows(e, c.e)
        BY <1>0, <2>2, <3>2, FollowsTransitive DEF Sound
      <3> QED BY <2>2, <2>3, <3>1, <3>2, <3>3 DEF r
    <2>4. CASE a.s # "OK"
      <3>1. r = a
        BY <2>1, <2>4 DEF Then_Session
      <3> QED BY <2>2, <3>1 DEF r
    <2> QED BY <2>3, <2>4
  <1> QED BY <1>1, <1>2

-----------------------------------------------------------------------------
(* The calls of the application and of the I/O *)

\* An explicit Reset ends the session and owes the peer the RESET of it, or of the session
\* whose RESET was owed already.
LEMMA Resetting ==
    ASSUME NEW e, Sound(e)
    PROVE  LET a == Profile_Reset(e)
           IN  /\ Sound(a) /\ a.parser = EmptyParser /\ a.role = e.role
               /\ a.submitted = NoMessage /\ a.received = NoMessage /\ a.id = NoSession
               /\ a.state # "ESTABLISHED" /\ a.events = <<>>
               /\ e.out.resetId # NoSession => a.out.resetId = e.out.resetId
               /\ Clears(e, a)
  <1> DEFINE cleared == Explicit_Reset(e)
             target == ResetTarget(e)
             b == [cleared EXCEPT !.abandoned = target]
             p == Publish_Recovery_Reset(b, target)
             a == Profile_Reset(e)
  <1>1. /\ e \in Endpoint /\ IdentityOK(e) /\ CursorValid(e) /\ Clear_Scoped_Work(e) \in Endpoint
    BY SessionScope, ClearType DEF IdentityOK
  <1>2. cleared = [Clear_Scoped_Work(e) EXCEPT !.events = <<>>, !.state = Unestablished(e)]
    BY <1>1 DEF Explicit_Reset
  <1>3. cleared \in Endpoint
    <2>1. <<>> \in {s \in Seq(EventTypes) : Len(s) <= EventCapacity}
      BY EventAssumption DEF EventAssumption
    <2> QED
      BY <1>1, <1>2, <2>1 DEF Endpoint, EndpointRecord, Unestablished, SessionStates
  <1>4. /\ cleared.role = e.role /\ cleared.link = e.link /\ cleared.nextId = e.nextId
        /\ cleared.state = Unestablished(e) /\ cleared.phase = "INACTIVE"
        /\ cleared.id = NoSession /\ cleared.abandoned = e.abandoned
        /\ cleared.out = InitialOutput /\ cleared.lastRx = NoBaseline
        /\ cleared.confirm = NoSequence /\ cleared.parser = EmptyParser /\ ~ cleared.errPending
        /\ cleared.submitted = NoMessage /\ cleared.received = NoMessage
        /\ cleared.events = <<>>
    BY <1>1, <1>2 DEF Clear_Scoped_Work, Endpoint, EndpointRecord
  <1>5. cleared.state \in {"RECOVERING", "DISCONNECTED"}
    BY <1>4 DEF Unestablished
  <1>6. a = IF target = NoSession THEN cleared ELSE p
    BY <1>5 DEF Profile_Reset
  <1> HIDE DEF cleared
  <1>7. e.id # NoSession => HasActiveSession(e) /\ ~ HasPendingReset(e)
    <2>1. ASSUME e.id # NoSession
          PROVE  HasActiveSession(e) /\ ~ HasPendingReset(e)
      <3>1. /\ Connected(e) /\ Completed_Confirm_Valid(e) /\ e.out.resetId = NoSession
            /\ e.state \in {"CONNECTING", "ESTABLISHED"}
        BY <2>1, SessionScope
      <3>2. e.phase \notin {"INACTIVE", "WAITING_FOR_INITIATE"}
        BY <2>1 DEF Sound, LifeOK
      <3>3. /\ e.state = "ESTABLISHED" => e.phase = "ESTABLISHED"
            /\ e.state = "CONNECTING" => e.phase # "ESTABLISHED"
        BY DEF Sound, LifeOK, PhasesOf, HostPhases, RigPhases
      <3> QED BY <2>1, <3>1, <3>2, <3>3 DEF HasActiveSession, HasPendingReset
    <2> QED BY <2>1
  <1>8. e.out.resetId # NoSession => HasPendingReset(e) /\ e.abandoned = e.out.resetId
    <2>1. ASSUME e.out.resetId # NoSession
          PROVE  HasPendingReset(e) /\ e.abandoned = e.out.resetId
      <3>1. e.state = "RECOVERING" /\ e.id = NoSession /\ e.out.rel = IdleReliable
        BY <2>1, SessionScope
      <3>2. e.phase = "INACTIVE" /\ Recovering(e)
        BY <2>1, <3>1 DEF Sound, LifeOK, PhasesOf, Output_Coherent
      <3>3. /\ e.out.ctl.state # "IDLE"
            /\ ControlPeeked(e.out) = (e.out.sel = "CONTROL")
            /\ ReliablePeeked(e.out) = (e.out.sel = "RELIABLE")
        BY <2>1 DEF Sound, Output_Coherent, ControlPending
      <3>4. e.out.sel \in {"NONE", "CONTROL"}
        BY <1>1, <3>1, <3>3
        DEF ReliablePeeked, IdleReliable, Endpoint, EndpointRecord, OutputRecord, Selections
      <3>5. \/ e.out.ctl.state = "READY" /\ e.out.sel = "NONE"
            \/ e.out.ctl.state = "PEEKED" /\ e.out.sel = "CONTROL"
        BY <1>1, <3>3, <3>4
        DEF ControlPeeked, Endpoint, EndpointRecord, OutputRecord, ControlRecord, ControlStates
      <3>6. HasPendingReset(e)
        BY <2>1, <3>1, <3>2, <3>5 DEF HasPendingReset
      <3>7. e.abandoned = e.out.resetId
        BY <2>1 DEF Sound, ControlOK
      <3> QED BY <3>6, <3>7
    <2> QED BY <2>1
  <1>9. CASE e.id = NoSession /\ e.out.resetId = NoSession
    <2>1. target = NoSession
      BY <1>9 DEF ResetTarget, HasPendingReset, HasActiveSession
    <2>2. Left(e, cleared)
      BY <1>3, <1>4, <1>9 DEF Left
    <2>3. Sound(cleared)
      BY <1>1, <2>2, LeftIsSound
    <2>4. Clears(e, cleared)
      BY <1>4 DEF Clears, Outgoing, Incoming, InitialOutput, IdleReliable
    <2> QED BY <1>4, <1>5, <1>6, <1>9, <2>1, <2>3, <2>4
  <1>10. CASE e.id # NoSession \/ e.out.resetId # NoSession
    <2>1. /\ target = IF e.id # NoSession THEN e.id ELSE e.abandoned
          /\ e.out.resetId # NoSession => target = e.out.resetId
          /\ target # NoSession /\ target \in SessionIdsOrNone
      BY <1>1, <1>7, <1>8, <1>10
      DEF ResetTarget, HasPendingReset, Endpoint, EndpointRecord, OutputRecord
    <2> HIDE DEF target
    <2>2. b \in Endpoint
      BY <1>3, <2>1 DEF Endpoint, EndpointRecord
    <2>3. /\ b.role = e.role /\ b.link = e.link /\ b.nextId = e.nextId
          /\ b.state = Unestablished(e) /\ b.phase = "INACTIVE"
          /\ b.id = NoSession /\ b.abandoned = target
          /\ b.out = InitialOutput /\ b.lastRx = NoBaseline
          /\ b.confirm = NoSequence /\ b.parser = EmptyParser /\ ~ b.errPending
          /\ b.submitted = NoMessage /\ b.received = NoMessage /\ b.events = <<>>
      BY <1>3, <1>4 DEF Endpoint, EndpointRecord
    <2>4. a = p
      BY <1>6, <2>1
    <2> HIDE DEF b, a
    <2>5. Sound(b)
      BY <1>1, <2>1, <2>2, <2>3, LeftIsSound DEF Left
    <2>6. Connected(e)
      BY <1>10, SessionScope DEF Sound, Output_Coherent, Recovering
    <2>7. b.state = "RECOVERING"
      BY <2>3, <2>6 DEF Unestablished
    <2>8. target \in SessionIds
      BY <2>1 DEF SessionIdsOrNone, SessionIds, NoSession
    <2>9. Control_Accepts(b.out, ResetFrame(target))
      BY <2>3 DEF Control_Accepts, InitialOutput, IdleControl
    <2>10. Sound(p) /\ p.out.resetId = target /\ p = [b EXCEPT !.out = p.out]
      BY <2>3, <2>5, <2>7, <2>8, <2>9, Owing
    <2> HIDE DEF p
    <2>11. /\ p.parser = EmptyParser /\ p.submitted = NoMessage /\ p.received = NoMessage
           /\ p.role = e.role /\ p.id = NoSession /\ p.state = "RECOVERING" /\ p.events = <<>>
      BY <2>2, <2>3, <2>7, <2>10 DEF Endpoint, EndpointRecord
    <2>12. Clears(e, p)
      <3>1. p.nextId = e.nextId /\ p.phase = "INACTIVE" /\ p.lastRx = NoBaseline
        BY <2>2, <2>3, <2>10 DEF Endpoint, EndpointRecord
      <3>2. p.out.nextTx = InitialSequence /\ p.out.rel.frame = NoFrame
        BY <2>3 DEF p, Publish_Recovery_Reset, Control_Publish, InitialOutput, IdleControl,
                    IdleReliable
      <3> QED BY <1>10, <2>1, <2>10, <2>11, <3>1, <3>2 DEF Clears, Outgoing, Incoming
    <2> QED BY <2>1, <2>4, <2>10, <2>11, <2>12 DEF a
  <1> QED BY <1>9, <1>10

\* A peek pins what it offers and changes nothing else.
LEMMA Peeking ==
    ASSUME NEW e, Sound(e), NEW fits \in BOOLEAN
    PROVE  LET q == Profile_Peek_Output(e, fits)
           IN  Sound(q) /\ Follows(e, q) /\ q = [e EXCEPT !.out = q.out]
  <1> DEFINE o == Output_Peek(e.out, fits)
             q == [e EXCEPT !.out = o]
  <1>1. /\ e \in Endpoint /\ e.out \in OutputRecord({0}) /\ e.state # "FAULT"
        /\ Output_Coherent(e.out, Recovering(e))
    BY SessionScope DEF Sound, Endpoint, EndpointRecord
  <1>2. Profile_Peek_Output(e, fits) = q
    BY <1>1 DEF Profile_Peek_Output
  <1>3. o \in OutputRecord({0})
    BY <1>1, PeekType
  <1>4. /\ Output_Coherent(o, Recovering(e)) /\ o.rel.frame = e.out.rel.frame
        /\ o.ctl.item = e.out.ctl.item /\ o.resetId = e.out.resetId
    BY <1>1, PeekCoherent
  <1> HIDE DEF o
  <1>5. Sound(q) /\ Follows(e, q)
    BY <1>3, <1>4, OutputSound, OutputFollows
  <1>6. q.out = o
    BY <1>1 DEF Endpoint, EndpointRecord
  <1> QED BY <1>2, <1>5, <1>6

\* A commit releases what was pinned; only the commit of a RESET withdraws it.
LEMMA Committing ==
    ASSUME NEW e, Sound(e)
    PROVE  LET q == Profile_Commit_Output(e)
           IN  Sound(q) /\ q = [e EXCEPT !.out = q.out]
  <1> DEFINE o == Output_Commit(e.out, 0)
             q == [e EXCEPT !.out = o]
  <1>1. /\ e \in Endpoint /\ e.out \in OutputRecord({0}) /\ e.state # "FAULT"
        /\ Output_Coherent(e.out, Recovering(e)) /\ Reliability_Coherent(e.out)
        /\ e.out.sel = "RELIABLE" => ReliablePeeked(e.out)
    BY SessionScope DEF Sound, Endpoint, EndpointRecord, Output_Coherent
  <1>2. Profile_Commit_Output(e) = q
    BY <1>1 DEF Profile_Commit_Output
  <1>3. 0 \in {0}
    OBVIOUS
  <1>4. o \in OutputRecord({0})
    BY <1>1, <1>3, CommitType
  <1>5. /\ Output_Coherent(o, Recovering(e)) /\ o.rel.frame = e.out.rel.frame
        /\ \/ o.ctl = e.out.ctl /\ o.resetId = e.out.resetId
           \/ o.ctl = IdleControl /\ o.resetId = NoSession
    BY <1>1, <1>3, CommitCoherent
  <1> HIDE DEF o
  <1>6. Sound(q)
    BY <1>4, <1>5, OutputSound DEF IdleControl
  <1>7. q.out = o
    BY <1>1 DEF Endpoint, EndpointRecord
  <1> QED BY <1>2, <1>6, <1>7

\* A submission is retained under the next sequence of the current session.
LEMMA Submitting ==
    ASSUME NEW e, Sound(e), NEW m \in Messages, Application_CanSubmit(e)
    PROVE  LET q == Application_Submit(e, m)
           IN  /\ Sound(q) /\ q = [e EXCEPT !.out = q.out, !.submitted = m]
               /\ q.out.resetId = e.out.resetId
  <1> DEFINE frame == MakeFrame("APPLICATION", e.id, e.out.nextTx, 0, m)
             o == Reliability_Publish(e.out, frame)
             q == [e EXCEPT !.out = o, !.submitted = m]
  <1>1. /\ e \in Endpoint /\ e.out \in OutputRecord({0}) /\ e.out.nextTx \in Sequences16
        /\ e.id \in SessionIdsOrNone /\ Output_Coherent(e.out, Recovering(e))
    BY DEF Sound, Endpoint, EndpointRecord, OutputRecord
  <1>2. e.state = "ESTABLISHED" /\ e.phase = "ESTABLISHED" /\ e.id # NoSession
        /\ e.out.rel.state = "IDLE"
    BY DEF Application_CanSubmit, Is_Established
  <1>3. m # NoMessage
    BY MessageAssumption DEF MessageAssumption
  <1>4. frame \in ReliableFrame
    <2>1. e.id \in WireIds
      BY <1>1, <1>2, IdentifierAssumption
      DEF SessionIdsOrNone, WireIds, ReservedSession, NoSession, IdentifierAssumption
    <2>2. 0 \in Sequences16
      BY SequenceAssumption DEF Sequences16, SequenceAssumption
    <2> QED
      BY <1>1, <1>3, <2>1, <2>2
      DEF MakeFrame, ReliableFrame, Frame, FrameTypes, ReliableTypes, ValidFrame
  <1>5. /\ Reliability_CanPublish(e.out, frame)
        /\ frame.id = e.id /\ frame.type = "APPLICATION" /\ frame.msg = m
    BY <1>2 DEF Reliability_CanPublish, MakeFrame, ReliableTypes
  <1>6. Application_Submit(e, m) = q
    BY DEF Application_Submit
  <1> HIDE DEF frame
  <1>7. o \in OutputRecord({0})
    BY <1>1, <1>4, PublishReliableType
  <1>8. /\ Output_Coherent(o, Recovering(e)) /\ o.rel.frame = frame
        /\ o.ctl = e.out.ctl /\ o.resetId = e.out.resetId
    <2>1. /\ Output_Coherent(o, Recovering(e))
          /\ o.rel = [state |-> "READY", frame |-> frame, retx |-> 0, sent |-> 0]
          /\ o.ctl = e.out.ctl /\ o.resetId = e.out.resetId
      BY <1>1, <1>4, <1>5, PublishReliableCoherent
    <2> HIDE DEF o
    <2> QED BY <2>1
  <1> HIDE DEF o
  <1>9. q \in Endpoint
    BY <1>1, <1>7 DEF Endpoint, EndpointRecord
  <1>10. /\ q.role = e.role /\ q.link = e.link /\ q.state = e.state /\ q.phase = e.phase
         /\ q.id = e.id /\ q.nextId = e.nextId /\ q.abandoned = e.abandoned /\ q.out = o
         /\ q.lastRx = e.lastRx /\ q.confirm = e.confirm /\ q.parser = e.parser
         /\ q.errPending = e.errPending /\ q.submitted = m /\ q.received = e.received
    BY <1>1 DEF Endpoint, EndpointRecord
  <1>11. q = [e EXCEPT !.out = q.out, !.submitted = m]
    BY <1>10
  <1> HIDE DEF q
  <1>12. Output_Coherent(q.out, Recovering(q))
    BY <1>8, <1>10 DEF Recovering, Connected
  <1>13. LifeOK(q) /\ WorkOK(q) /\ ParserOK(q) /\ IdentityOK(q)
    BY <1>10
    DEF Sound, LifeOK, Connected, WorkOK, BaselineTypes, ParserOK, IdentityOK, CursorValid
  <1>14. RetainedOK(q)
    BY <1>2, <1>5, <1>8, <1>10 DEF RetainedOK, RetainedTypes
  <1>15. ControlOK(q)
    BY <1>8, <1>10 DEF Sound, ControlOK
  <1>16. Sound(q)
    BY <1>9, <1>12, <1>13, <1>14, <1>15 DEF Sound
  <1> QED BY <1>6, <1>8, <1>10, <1>11, <1>16

\* Reading a message or an event takes just that.
LEMMA Reading ==
    ASSUME NEW e, Sound(e)
    PROVE  /\ Sound(Application_Read(e))
           /\ e.events # <<>> => Sound([e EXCEPT !.events = Tail(@)])
           /\ Sound([e EXCEPT !.events = <<>>])
  <1>0. e \in Endpoint
    BY DEF Sound
  <1>1. ASSUME NEW q \in Endpoint,
               q.role = e.role, q.link = e.link, q.state = e.state, q.phase = e.phase,
               q.id = e.id, q.nextId = e.nextId, q.abandoned = e.abandoned, q.out = e.out,
               q.lastRx = e.lastRx, q.confirm = e.confirm, q.parser = e.parser,
               q.errPending = e.errPending, q.submitted = e.submitted,
               q.received \in {e.received, NoMessage}
        PROVE  Sound(q)
    <2>1. Output_Coherent(q.out, Recovering(q))
      BY <1>1 DEF Sound, Recovering, Connected
    <2>2. LifeOK(q) /\ RetainedOK(q) /\ ControlOK(q) /\ ParserOK(q)
      BY <1>1 DEF Sound, LifeOK, Connected, RetainedOK, ControlOK, ParserOK
    <2>3. WorkOK(q) /\ IdentityOK(q)
      BY <1>1 DEF Sound, WorkOK, BaselineTypes, IdentityOK, CursorValid
    <2> QED BY <1>1, <2>1, <2>2, <2>3 DEF Sound
  <1>2. Sound(Application_Read(e))
    <2> DEFINE q == [e EXCEPT !.received = NoMessage]
    <2>1. q \in Endpoint
      BY <1>0 DEF Endpoint, EndpointRecord
    <2>2. Sound(q)
      BY <1>0, <1>1, <2>1 DEF Endpoint, EndpointRecord
    <2> QED BY <2>2 DEF Application_Read
  <1>3. ASSUME e.events # <<>>
        PROVE  Sound([e EXCEPT !.events = Tail(@)])
    <2> DEFINE q == [e EXCEPT !.events = Tail(e.events)]
    <2>1. Tail(e.events) \in {s \in Seq(EventTypes) : Len(s) <= EventCapacity}
      <3>1. e.events \in Seq(EventTypes) /\ Len(e.events) <= EventCapacity
        BY <1>0 DEF Endpoint, EndpointRecord
      <3> QED BY <1>3, <3>1, EventAssumption DEF EventAssumption
    <2>2. q \in Endpoint
      BY <1>0, <2>1 DEF Endpoint, EndpointRecord
    <2>3. Sound(q)
      BY <1>0, <1>1, <2>2 DEF Endpoint, EndpointRecord
    <2> QED BY <2>3
  <1>4. Sound([e EXCEPT !.events = <<>>])
    <2> DEFINE q == [e EXCEPT !.events = <<>>]
    <2>1. <<>> \in {s \in Seq(EventTypes) : Len(s) <= EventCapacity}
      BY EventAssumption DEF EventAssumption
    <2>2. q \in Endpoint
      BY <1>0, <2>1 DEF Endpoint, EndpointRecord
    <2>3. Sound(q)
      BY <1>0, <1>1, <2>2 DEF Endpoint, EndpointRecord
    <2> QED BY <2>3
  <1> QED BY <1>2, <1>3, <1>4

-----------------------------------------------------------------------------
(* The moves of each operation *)

\* Nothing the peer depends on changed, and nothing was reported but by name.
LEMMA Staying ==
    ASSUME NEW e \in Endpoint, NEW e2, NEW input, e2.role = e.role, Keeps(e, e2),
           e2.parser.body \in {e.parser.body, NoFrame, input},
           Extends(e.events, e2.events), ~ Reported(e, e2, "DELIVERY_CONFIRMED")
    PROVE  Moves(e, e2, input)
  BY DEF Moves, Moved

\* An unchanged queue reports nothing.
LEMMA Unreported ==
    ASSUME NEW e \in Endpoint, NEW e2, e2.events = e.events
    PROVE  Extends(e.events, e2.events) /\ \A t : ~ Reported(e, e2, t)
  <1>1. Len(e.events) \in Nat
    BY DEF Endpoint, EndpointRecord
  <1> QED BY <1>1 DEF Extends, Reported

\* A report is no move of the session.
LEMMA StayingReports ==
    ASSUME NEW S, NEW input, Closed(S, input), NEW e \in S,
           NEW type \in EventTypes, type # "DELIVERY_CONFIRMED"
    PROVE  Events_Publish(e, type) \in S
  <1> DEFINE p == Events_Publish(e, type)
  <1>1. Sound(e) /\ e \in Endpoint
    BY DEF Closed, Sound
  <1>2. Sound(p)
    BY <1>1, PublishingIsSound
  <1>3. p = [e EXCEPT !.events = p.events] /\ Extends(e.events, p.events)
        /\ ~ Reported(e, p, "DELIVERY_CONFIRMED")
    BY <1>1, Publishing
  <1> HIDE DEF p
  <1>4. p.role = e.role /\ p.parser = e.parser /\ Keeps(e, p)
    BY <1>1, <1>3 DEF Keeps, Session, Outgoing, Incoming, Endpoint, EndpointRecord
  <1>5. Moves(e, p, input)
    BY <1>1, <1>3, <1>4, Staying
  <1> QED BY <1>2, <1>5 DEF Closed, p

\* Nor is what the arbiter and the control slot do.
LEMMA StayingOutput ==
    ASSUME NEW S, NEW input, Closed(S, input), NEW e \in S, NEW o,
           Sound([e EXCEPT !.out = o]), o.nextTx = e.out.nextTx,
           o.rel.frame = e.out.rel.frame, o.resetId = e.out.resetId
    PROVE  [e EXCEPT !.out = o] \in S
  <1> DEFINE p == [e EXCEPT !.out = o]
  <1>1. Sound(e) /\ e \in Endpoint
    BY DEF Closed, Sound
  <1>2. p.role = e.role /\ p.parser = e.parser /\ p.events = e.events /\ Keeps(e, p)
    BY <1>1 DEF Keeps, Session, Outgoing, Incoming, Endpoint, EndpointRecord
  <1> HIDE DEF p
  <1>3. Moves(e, p, input)
    BY <1>1, <1>2, Unreported, Staying
  <1> QED BY <1>3 DEF Closed, p

\* Nor is what becomes of a body that was dispatched, or the arrival of the next one.
LEMMA StayingParser ==
    ASSUME NEW S, NEW input, Closed(S, input), NEW e \in S, NEW parser, NEW pending,
           Sound([e EXCEPT !.parser = parser, !.errPending = pending]),
           parser.body \in {e.parser.body, NoFrame, input}
    PROVE  [e EXCEPT !.parser = parser, !.errPending = pending] \in S
  <1> DEFINE p == [e EXCEPT !.parser = parser, !.errPending = pending]
  <1>1. Sound(e) /\ e \in Endpoint
    BY DEF Closed, Sound
  <1>2. p.role = e.role /\ p.parser = parser /\ p.events = e.events /\ Keeps(e, p)
    BY <1>1 DEF Keeps, Session, Outgoing, Incoming, Endpoint, EndpointRecord
  <1> HIDE DEF p
  <1>3. Moves(e, p, input)
    BY <1>1, <1>2, Unreported, Staying
  <1> QED BY <1>3 DEF Closed, p

\* The receive path consumes a body, or owes a diagnostic instead of it.
LEMMA StayingConsumed ==
    ASSUME NEW S, NEW input, Closed(S, input), NEW e \in S, NEW pending \in BOOLEAN,
           e.state # "DISCONNECTED" \/ ~ pending
    PROVE  [e EXCEPT !.parser = EmptyParser, !.errPending = pending] \in S
  <1>1. Sound(e)
    BY DEF Closed
  <1>2. Sound([e EXCEPT !.parser = EmptyParser, !.errPending = pending])
    BY <1>1, Consuming
  <1> QED BY <1>2, StayingParser DEF EmptyParser

\* A drained endpoint begins its next attempt.
LEMMA MovingBegin ==
    ASSUME NEW S, NEW input, Closed(S, input), NEW e \in S, Drained(e)
    PROVE  Begin_Establishment(e).e \in S
  <1> DEFINE b == Establishing(e)
  <1>1. /\ Begin_Establishment(e).e = b /\ Sound(b) /\ b.parser = EmptyParser
        /\ b.events = e.events /\ b.out.resetId = NoSession
    BY Beginning DEF Result
  <1>2. /\ e \in Endpoint /\ e.out.rel = IdleReliable /\ e.out.resetId = NoSession
        /\ e.id = NoSession /\ e.submitted = NoMessage /\ e.received = NoMessage
        /\ e.lastRx = NoBaseline
    BY DEF Drained, FullyCleared
  <1>3. b.role = e.role /\ Begins(e, b)
    BY <1>1, <1>2
    DEF Establishing, Begins, Outgoing, Incoming, IdleReliable, Endpoint, EndpointRecord,
        OutputRecord
  <1> HIDE DEF b
  <1>4. Moves(e, b, input)
    BY <1>1, <1>2, <1>3, Unreported DEF Moves, Moved, EmptyParser
  <1> QED BY <1>1, <1>4 DEF Closed

\* The peer's RESET: the session is left, and the next attempt begins.
LEMMA MovingReset ==
    ASSUME NEW S, NEW input, Closed(S, input), NEW e \in S,
           NEW f, f = e.parser.body, f.type = "RESET"
    PROVE  Handle_Reset(e, f).e \in S
  <1> DEFINE left == Abandon(e)
  <1>0. Sound(e) /\ e \in Endpoint
    BY DEF Closed, Sound
  <1>1. CASE f.id = ReservedSession \/ e.id = NoSession \/ f.id # e.id
    BY <1>1 DEF Handle_Reset, Result
  <1>2. CASE ~ (f.id = ReservedSession \/ e.id = NoSession \/ f.id # e.id)
    <2>1. e.id # NoSession /\ Connected(e)
      BY <1>0, <1>2, SessionScope
    <2>2. /\ Left(e, left.e) /\ Sound(left.e)
          /\ left.s = IF EventsFull(e) THEN "CAPACITY_EXHAUSTED" ELSE "OK"
          /\ Extends(e.events, left.e.events)
          /\ \A t : Reported(e, left.e, t) => t = "SESSION_RESET"
      BY <1>0, Abandoning, SessionScope
    <2>3. Handle_Reset(e, f) = Begin_Replacement(left)
      BY <1>2 DEF Handle_Reset
    <2> HIDE DEF left
    <2>4. Connected(left.e) /\ left.e.state = "RECOVERING"
      BY <2>1, <2>2 DEF Left, Connected, Unestablished
    <2>5. Drained(left.e)
      BY <2>2, <2>4, RecoveringDrains
      DEF Left, InitialOutput, IdleControl, ControlPending, EmptyParser
    <2>6. Leaves(e, left.e, f)
      BY <1>2, <2>2
      DEF Leaves, Clears, Outgoing, Incoming, Left, InitialOutput, IdleReliable
    <2>7. Moves(e, left.e, input)
      BY <2>2, <2>6 DEF Moves, Moved, Left, EmptyParser
    <2>8. left.e \in S
      BY <2>2, <2>7 DEF Closed
    <2>9. Begin_Establishment(left.e).e \in S
      BY <2>5, <2>8, MovingBegin
    <2>10. Begin_Replacement(left).e \in {left.e, Begin_Establishment(left.e).e}
      BY <2>4 DEF Begin_Replacement, Reset_Accepted, Result
    <2> QED BY <2>3, <2>8, <2>9, <2>10
  <1> QED BY <1>1, <1>2

\* A failure detected here: the session is left, and its RESET is owed.
LEMMA MovingRecovery ==
    ASSUME NEW S, NEW input, Closed(S, input), NEW e \in S, Connected(e),
           e.out.resetId = NoSession
    PROVE  Begin_Local_Recovery(e).e \in S
  <1> DEFINE left == Abandon(e)
             r == Begin_Local_Recovery(e)
  <1>0. Sound(e) /\ e \in Endpoint
    BY DEF Closed, Sound
  <1>1. /\ Left(e, left.e) /\ Sound(left.e)
        /\ left.s = IF EventsFull(e) THEN "CAPACITY_EXHAUSTED" ELSE "OK"
        /\ Extends(e.events, left.e.events)
        /\ \A t : Reported(e, left.e, t) => t = "SESSION_RESET"
    BY <1>0, Abandoning, SessionScope
  <1>2. Sound(r.e)
    BY <1>0, LocalRecovery
  <1> HIDE DEF left
  <1>3. CASE e.id = NoSession
    <2>1. r = left
      BY <1>1, <1>3 DEF Begin_Local_Recovery, Announced, left
    <2>2. Leaves(e, left.e, e.parser.body)
      BY <1>1, <1>3
      DEF Leaves, Clears, Outgoing, Incoming, Left, InitialOutput, IdleReliable
    <2>3. Moves(e, left.e, input)
      BY <1>1, <2>2 DEF Moves, Moved, Left, EmptyParser
    <2> QED BY <1>1, <2>1, <2>3 DEF Closed
  <1>4. CASE e.id # NoSession
    <2> DEFINE p == Publish_Recovery_Reset(left.e, e.id)
    <2>1. r.e = p
      BY <1>1, <1>4 DEF Begin_Local_Recovery, Announced, left, Result
    <2>2. /\ p = [left.e EXCEPT !.out = p.out] /\ p.out.rel = IdleReliable
          /\ p.out.nextTx = InitialSequence /\ p.out.resetId = e.id
      BY <1>1
      DEF Publish_Recovery_Reset, Control_Publish, Left, InitialOutput, IdleControl, Endpoint,
          EndpointRecord, OutputRecord
    <2> HIDE DEF p
    <2>3. /\ p.role = e.role /\ p.parser = EmptyParser /\ p.events = left.e.events
          /\ Leaves(e, p, e.parser.body)
      BY <1>1, <1>4, <2>2
      DEF Leaves, Clears, Outgoing, Incoming, Left, IdleReliable, Endpoint, EndpointRecord
    <2>4. Extends(e.events, p.events) /\ ~ Reported(e, p, "DELIVERY_CONFIRMED")
      BY <1>1, <2>3 DEF Reported
    <2>5. Moves(e, p, input)
      BY <2>3, <2>4 DEF Moves, Moved, EmptyParser
    <2> QED BY <1>2, <2>1, <2>5 DEF Closed
  <1> QED BY <1>3, <1>4

-----------------------------------------------------------------------------
(* The moves of the handshake *)

\* An acknowledgement frees the slot and advances the sequence.
LEMMA Acknowledged ==
    ASSUME NEW e, Sound(e), NEW seq, Ack_Matches(e.out, seq)
    PROVE  LET o == Reliability_Accept_Acknowledgement(e.out, seq)
           IN  /\ o.rel.frame = NoFrame /\ o.nextTx = NextSequence(e.out.nextTx)
               /\ o.resetId = e.out.resetId /\ seq = e.out.nextTx
  <1>1. e.out \in OutputRecord({0}) /\ Output_Coherent(e.out, Recovering(e))
    BY DEF Sound, Endpoint, EndpointRecord
  <1>2. e.out.rel.frame.seq = e.out.nextTx /\ seq = e.out.rel.frame.seq
    BY <1>1 DEF Output_Coherent, Reliability_Coherent, Ack_Matches
  <1> QED BY <1>1, <1>2 DEF Reliability_Accept_Acknowledgement, OutputRecord, IdleReliable

\* A repeated frame is answered again from the retained slot.
LEMMA MovingRepeat ==
    ASSUME NEW S, NEW input, Closed(S, input), NEW e \in S,
           NEW type, e.out.rel.state # "IDLE" => e.out.rel.frame.type = type
    PROVE  Repeat_Answer(e, type).e \in S
  <1> DEFINE o == Reliability_Request_Retransmission(e.out)
  <1>1. Sound(e) /\ e.out \in OutputRecord({0})
    BY DEF Closed, Sound, Endpoint, EndpointRecord
  <1>2. Repeat_Answer(e, type).e = [e EXCEPT !.out = o]
    BY DEF Repeat_Answer, Retransmission_Mismatch, Result
  <1>3. Sound([e EXCEPT !.out = o])
    BY <1>1, <1>2, Repeating DEF Handled
  <1>4. o.nextTx = e.out.nextTx /\ o.rel.frame = e.out.rel.frame /\ o.resetId = e.out.resetId
    BY <1>1
    DEF Reliability_Request_Retransmission, RetryOrExhaust, OutputRecord, ReliableRecord
  <1> HIDE DEF o
  <1> QED BY <1>2, <1>3, <1>4, StayingOutput

\* A handshake frame out of its phase is answered again or ignored.
LEMMA MovingNotExpected ==
    ASSUME NEW S, NEW input, Closed(S, input), NEW e \in S, NEW f, NEW phases, NEW type,
           e.phase \in phases /\ e.out.rel.state # "IDLE" => e.out.rel.frame.type = type
    PROVE  Not_Expected(e, f, phases, type).e \in S
  <1>1. CASE e.phase \in phases
    BY <1>1, MovingRepeat DEF Not_Expected, Result
  <1>2. CASE e.phase \notin phases
    BY <1>2 DEF Not_Expected, Result
  <1> QED BY <1>1, <1>2

\* The host takes the RESPONSE it waits for.
LEMMA MovingResponse ==
    ASSUME NEW S, NEW input, Closed(S, input), NEW e \in S, e.role = "HOST",
           NEW f \in WireFrame, f = e.parser.body, f.type = "RESPONSE"
    PROVE  Handle_Host_Response(e, f).e \in S
  <1> DEFINE o == Reliability_Accept_Acknowledgement(e.out, f.ack)
             d == [Accept_Frame(e, f) EXCEPT !.out = o, !.phase = "CONFIRM_PENDING"]
             r == Handle_Host_Response(e, f)
             n == Not_Expected(e, f, {"CONFIRM_PENDING", "WAITING_FOR_CONFIRM_ACK"}, "CONFIRM")
  <1>1. Sound(e) /\ e \in Endpoint /\ Sound(r.e)
    BY HandlingResponse DEF Closed, Sound, Handled
  <1>2. \/ r.e = e
        \/ r = n
        \/ /\ r.e = d /\ f.id = e.id /\ e.phase = "WAITING_FOR_RESPONSE"
           /\ Ack_Matches(e.out, f.ack)
    <2>1. Accept_Frame(e, f).out = e.out
      BY <1>1 DEF Accept_Frame, Endpoint, EndpointRecord
    <2> QED BY <2>1 DEF Handle_Host_Response, Classify_Acknowledgement, Result
  <1>3. n.e \in S
    <2>1. e.phase \in {"CONFIRM_PENDING", "WAITING_FOR_CONFIRM_ACK"} /\ e.out.rel.state # "IDLE"
             => e.out.rel.frame.type = "CONFIRM"
      BY <1>1
      DEF Sound, RetainedOK, RetainedTypes, Output_Coherent, Reliability_Coherent, ReliableTypes
    <2> QED BY <2>1, MovingNotExpected
  <1>4. CASE r.e = d /\ f.id = e.id /\ e.phase = "WAITING_FOR_RESPONSE"
             /\ Ack_Matches(e.out, f.ack)
    <2>1. /\ o.rel.frame = NoFrame /\ o.nextTx = NextSequence(e.out.nextTx)
          /\ o.resetId = e.out.resetId
      BY <1>1, <1>4, Acknowledged
    <2> HIDE DEF o
    <2>2. d.role = e.role /\ d.parser = e.parser /\ d.events = e.events /\ Replies(e, d, f)
      BY <1>1, <1>4, <2>1
      DEF Accept_Frame, Replies, Session, Outgoing, Incoming, Baseline, Endpoint, EndpointRecord
    <2> HIDE DEF d
    <2>3. Moves(e, d, input)
      BY <1>1, <2>2, Unreported DEF Moves, Moved
    <2> QED BY <1>1, <1>4, <2>3 DEF Closed
  <1> HIDE DEF n, r, d
  <1> QED BY <1>2, <1>3, <1>4 DEF r

\* The host establishes.
LEMMA MovingCompletion ==
    ASSUME NEW S, NEW input, Closed(S, input), NEW e \in S,
           e.phase = "WAITING_FOR_CONFIRM_ACK", ~ EventsFull(e),
           e.out.rel.state \in {"AWAITING_ACK", "RETRANSMIT_READY"},
           e.parser.body.type \in {"ACK", "APPLICATION"}, e.parser.body.id = e.id
    PROVE  Complete_Host(e) \in S
  <1> DEFINE seq == e.out.rel.frame.seq
             o == Reliability_Accept_Acknowledgement(e.out, seq)
             d == [Handshake_Set_Established(e) EXCEPT !.out = o, !.confirm = seq]
             c == Complete_Host(e)
  <1>1. Sound(e) /\ e \in Endpoint /\ e.role = "HOST" /\ Sound(c) /\ SameBody(e, c)
    BY CompletingHost DEF Closed, Sound, LifeOK, HostPhases
  <1>2. /\ o.rel.frame = NoFrame /\ o.nextTx = NextSequence(e.out.nextTx)
        /\ o.resetId = e.out.resetId
    BY <1>1, Acknowledged DEF Ack_Matches
  <1>3. o \in OutputRecord({0}) /\ seq \in Sequences16
    <2>1. e.out.rel.frame.type = "CONFIRM"
      BY <1>1 DEF Sound, RetainedOK, RetainedTypes
    <2> QED BY <1>1, <2>1, RetainedFrame, AcknowledgementType DEF ReliableTypes
  <1>4. c = Events_Publish(d, "SESSION_ESTABLISHED")
    <2>1. Handshake_Set_Established(e).out = e.out
      BY <1>1 DEF Handshake_Set_Established, Endpoint, EndpointRecord
    <2> QED BY <2>1 DEF Complete_Host
  <1> HIDE DEF o
  <1>5. d \in Endpoint
    BY <1>1, <1>3
    DEF Handshake_Set_Established, Endpoint, EndpointRecord, SessionStates, HandshakePhases
  <1>6. /\ d.role = e.role /\ d.parser = e.parser /\ d.events = e.events
        /\ Completes(e, d, e.parser.body)
    BY <1>1, <1>2
    DEF Handshake_Set_Established, Completes, Session, Outgoing, Incoming, Endpoint,
        EndpointRecord
  <1> HIDE DEF c, d
  <1>7. /\ c = [d EXCEPT !.events = c.events] /\ Extends(e.events, c.events)
        /\ ~ Reported(e, c, "DELIVERY_CONFIRMED")
    <2>1. /\ c = [d EXCEPT !.events = c.events] /\ Extends(d.events, c.events)
          /\ ~ Reported(d, c, "DELIVERY_CONFIRMED")
      BY <1>4, <1>5, Publishing DEF EventTypes
    <2> QED BY <1>6, <2>1, ReportedSince
  <1>8. c.role = e.role /\ c.parser = e.parser /\ Completes(e, c, e.parser.body)
    BY <1>5, <1>6, <1>7
    DEF Completes, Session, Outgoing, Incoming, Endpoint, EndpointRecord
  <1>9. Moves(e, c, input)
    BY <1>7, <1>8 DEF Moves, Moved
  <1> QED BY <1>1, <1>9 DEF Closed, c

\* The host takes the ACK of its CONFIRM.
LEMMA MovingHostAck ==
    ASSUME NEW S, NEW input, Closed(S, input), NEW e \in S,
           NEW f \in WireFrame, f = e.parser.body, f.type = "ACK"
    PROVE  Handle_Host_Ack(e, f).e \in S
  <1> DEFINE r == Handle_Host_Ack(e, f)
  <1>1. \/ r.e = e
        \/ /\ r.e = Complete_Host(e) /\ f.id = e.id /\ e.phase = "WAITING_FOR_CONFIRM_ACK"
           /\ Ack_Matches(e.out, f.ack) /\ ~ EventsFull(e)
    BY DEF Handle_Host_Ack, Classify_Acknowledgement, Result
  <1> HIDE DEF r
  <1>2. CASE /\ r.e = Complete_Host(e) /\ f.id = e.id /\ e.phase = "WAITING_FOR_CONFIRM_ACK"
             /\ Ack_Matches(e.out, f.ack) /\ ~ EventsFull(e)
    BY <1>2, MovingCompletion DEF Ack_Matches, r
  <1> QED BY <1>1, <1>2 DEF r

\* The rig adopts the session of the INITIATE.
LEMMA MovingInitiate ==
    ASSUME NEW S, NEW input, Closed(S, input), NEW e \in S, e.role = "RIG",
           NEW f \in WireFrame, f = e.parser.body, f.type = "INITIATE",
           ~ Is_Recently_Abandoned(e, f)
    PROVE  Handle_Rig_Initiate(e, f).e \in S
  <1> DEFINE d == [Accept_Frame(e, f) EXCEPT !.id = f.id, !.phase = "RESPONSE_PENDING"]
             r == Handle_Rig_Initiate(e, f)
             n == Not_Expected(e, f, {"RESPONSE_PENDING", "WAITING_FOR_CONFIRM"}, "RESPONSE")
  <1>1. Sound(e) /\ e \in Endpoint /\ Sound(r.e)
    BY HandlingInitiate DEF Closed, Sound, Handled
  <1>2. \/ r.e = e
        \/ r = n
        \/ r.e = d /\ e.phase = "WAITING_FOR_INITIATE"
    BY DEF Handle_Rig_Initiate, Result
  <1>3. n.e \in S
    <2>1. e.phase \in {"RESPONSE_PENDING", "WAITING_FOR_CONFIRM"} /\ e.out.rel.state # "IDLE"
             => e.out.rel.frame.type = "RESPONSE"
      BY <1>1
      DEF Sound, RetainedOK, RetainedTypes, Output_Coherent, Reliability_Coherent, ReliableTypes
    <2> QED BY <2>1, MovingNotExpected
  <1>4. CASE r.e = d /\ e.phase = "WAITING_FOR_INITIATE"
    <2>1. d.role = e.role /\ d.parser = e.parser /\ d.events = e.events /\ Adopts(e, d, f)
      BY <1>1, <1>4
      DEF Accept_Frame, Adopts, Session, Outgoing, Incoming, Baseline, Endpoint, EndpointRecord
    <2> HIDE DEF d
    <2>2. Moves(e, d, input)
      BY <1>1, <2>1, Unreported DEF Moves, Moved
    <2> QED BY <1>1, <1>4, <2>2 DEF Closed
  <1> HIDE DEF n, r, d
  <1> QED BY <1>2, <1>3, <1>4 DEF r

\* What was accepted last is acknowledged again.
LEMMA MovingAcknowledge ==
    ASSUME NEW S, NEW input, Closed(S, input), NEW e \in S, e.id # NoSession,
           e.lastRx.type \in {"CONFIRM", "APPLICATION"}, CanAcknowledge(e, e.lastRx.seq)
    PROVE  Publish_Acknowledgement(e, e.lastRx.seq) \in S
  <1> DEFINE o == Control_Publish(e.out, AckFrame(e, e.lastRx.seq))
  <1>1. Sound(e) /\ e \in Endpoint /\ e.out \in OutputRecord({0})
    BY DEF Closed, Sound, Endpoint, EndpointRecord
  <1>2. Publish_Acknowledgement(e, e.lastRx.seq) = [e EXCEPT !.out = o]
    BY DEF Publish_Acknowledgement
  <1>3. Sound([e EXCEPT !.out = o])
    BY <1>1, <1>2, Acknowledging DEF Handled, Result
  <1>4. o.nextTx = e.out.nextTx /\ o.rel = e.out.rel /\ o.resetId = e.out.resetId
    BY <1>1 DEF Control_Publish, OutputRecord
  <1> HIDE DEF o
  <1> QED BY <1>2, <1>3, <1>4, StayingOutput

\* The rig takes the CONFIRM it waits for, or repeats the ACK.
LEMMA MovingConfirm ==
    ASSUME NEW S, NEW input, Closed(S, input), NEW e \in S, e.role = "RIG",
           NEW f \in WireFrame, f = e.parser.body, f.type = "CONFIRM"
    PROVE  Handle_Rig_Confirm(e, f).e \in S
  <1> DEFINE o1 == Control_Publish(e.out, AckFrame(e, f.seq))
             o2 == Reliability_Accept_Acknowledgement(o1, f.ack)
             d == [e EXCEPT !.state = "ESTABLISHED", !.phase = "ESTABLISHED", !.out = o2,
                            !.lastRx = Baseline(f)]
             c == Confirm_Accepted(e, f)
             r == Handle_Rig_Confirm(e, f)
  <1>1. /\ Sound(e) /\ e \in Endpoint /\ e.out \in OutputRecord({0}) /\ Sound(r.e)
        /\ SameBody(e, r.e)
    BY HandlingConfirm DEF Closed, Sound, Handled, Endpoint, EndpointRecord
  <1>2. \/ r.e = e
        \/ /\ r.e = Publish_Acknowledgement(e, f.seq) /\ f.id = e.id
           /\ Is_Exact_Duplicate(e, f) /\ CanAcknowledge(e, f.seq)
        \/ /\ r.e = c /\ f.id = e.id /\ e.phase = "WAITING_FOR_CONFIRM"
           /\ Ack_Matches(e.out, f.ack) /\ CanAcknowledge(e, f.seq)
    <2> HIDE DEF c
    <2> QED BY DEF Handle_Rig_Confirm, Repeated_Confirm, Classify_Acknowledgement, Result, c
  <1>3. CASE /\ r.e = Publish_Acknowledgement(e, f.seq) /\ f.id = e.id
             /\ Is_Exact_Duplicate(e, f) /\ CanAcknowledge(e, f.seq)
    <2>1. e.lastRx.type = "CONFIRM" /\ e.lastRx.seq = f.seq
      BY <1>3 DEF Is_Exact_Duplicate
    <2>2. e.id # NoSession
      BY <1>3 DEF WireFrame, Frame, WireIds, NoSession
    <2> HIDE DEF r
    <2> QED BY <1>3, <2>1, <2>2, MovingAcknowledge DEF r
  <1>4. CASE /\ r.e = c /\ f.id = e.id /\ e.phase = "WAITING_FOR_CONFIRM"
             /\ Ack_Matches(e.out, f.ack) /\ CanAcknowledge(e, f.seq)
    <2>1. e.id # NoSession /\ f.seq \in Sequences16 /\ f.ack \in Sequences16
      BY <1>4 DEF WireFrame, Frame, WireIds, NoSession
    <2>2. AckFrame(e, f.seq) \in ControlFrame
      BY <1>1, <2>1, AckFrameType
    <2>3. /\ Output_Coherent(o1, Recovering(e)) /\ o1.rel = e.out.rel
          /\ o1.resetId = e.out.resetId /\ o1.nextTx = e.out.nextTx
          /\ o1 \in OutputRecord({0})
      <3>1. o1 \in OutputRecord({0})
        BY <1>1, <2>2, PublishControlType
      <3>2. o1.nextTx = e.out.nextTx
        BY <1>1 DEF Control_Publish, OutputRecord
      <3> QED
        BY <1>1, <1>4, <2>2, <3>1, <3>2, PublishControlCoherent DEF Sound, CanAcknowledge
    <2>4. Publish_Acknowledgement(e, f.seq) = [e EXCEPT !.out = o1]
      BY DEF Publish_Acknowledgement
    <2> HIDE DEF o1
    <2>5. /\ o2.rel.frame = NoFrame /\ o2.nextTx = NextSequence(e.out.nextTx)
          /\ o2.resetId = e.out.resetId
      <3>1. o1.rel.frame.seq = o1.nextTx /\ f.ack = o1.rel.frame.seq
        BY <1>4, <2>3 DEF Ack_Matches, Output_Coherent, Reliability_Coherent
      <3> QED
        BY <1>4, <2>3, <3>1
        DEF Ack_Matches, Reliability_Accept_Acknowledgement, OutputRecord, IdleReliable
    <2>6. o2 \in OutputRecord({0})
      BY <2>1, <2>3, AcknowledgementType
    <2>7. c = Events_Publish(d, "SESSION_ESTABLISHED")
      <3>1. Handshake_Set_Established(
                [Accept_Frame(Publish_Acknowledgement(e, f.seq), f) EXCEPT
                    !.out = Reliability_Accept_Acknowledgement(@, f.ack)]) = d
        BY <1>1, <2>4
        DEF Accept_Frame, Handshake_Set_Established, Baseline, Endpoint, EndpointRecord
      <3> HIDE DEF d
      <3> QED BY <3>1 DEF Confirm_Accepted
    <2> HIDE DEF o2
    <2>8. Baseline(f) \in BaselineRecord
      BY BaselineType DEF Baseline, ReliableTypes
    <2>9. d \in Endpoint
      BY <1>1, <2>6, <2>8 DEF Endpoint, EndpointRecord, SessionStates, HandshakePhases
    <2>10. d.role = e.role /\ d.parser = e.parser /\ d.events = e.events /\ Joins(e, d, f)
      BY <1>1, <1>4, <2>5
      DEF Joins, Session, Outgoing, Incoming, Endpoint, EndpointRecord, Sound, LifeOK
    <2> HIDE DEF c, d, r
    <2>11. /\ c = [d EXCEPT !.events = c.events] /\ Extends(e.events, c.events)
           /\ ~ Reported(e, c, "DELIVERY_CONFIRMED")
      <3>1. /\ c = [d EXCEPT !.events = c.events] /\ Extends(d.events, c.events)
            /\ ~ Reported(d, c, "DELIVERY_CONFIRMED")
        BY <2>7, <2>9, Publishing DEF EventTypes
      <3> QED BY <2>10, <3>1, ReportedSince
    <2>12. c.role = e.role /\ c.parser = e.parser /\ Joins(e, c, f)
      BY <2>9, <2>10, <2>11
      DEF Joins, Session, Outgoing, Incoming, Endpoint, EndpointRecord
    <2>13. Moves(e, c, input)
      BY <2>11, <2>12 DEF Moves, Moved
    <2> QED BY <1>1, <1>4, <2>13 DEF Closed, r
  <1> HIDE DEF r
  <1> QED BY <1>2, <1>3, <1>4 DEF r

\* Every handshake frame.
LEMMA MovingHandshake ==
    ASSUME NEW S, NEW input, Closed(S, input), NEW e \in S,
           NEW f \in WireFrame, f = e.parser.body, ~ Is_Recently_Abandoned(e, f)
    PROVE  Handshake_Handle_Frame(e, f).e \in S
  <1>1. Completed_Confirm_Valid(e)
    BY SessionScope DEF Closed
  <1>2. CASE f.type = "RESET"
    BY <1>1, <1>2, MovingReset DEF Handshake_Handle_Frame
  <1>3. CASE e.role = "HOST" /\ f.type = "RESPONSE"
    BY <1>1, <1>3, MovingResponse DEF Handshake_Handle_Frame
  <1>4. CASE e.role = "HOST" /\ f.type = "ACK"
    BY <1>1, <1>4, MovingHostAck DEF Handshake_Handle_Frame
  <1>5. CASE e.role = "RIG" /\ f.type = "INITIATE"
    BY <1>1, <1>5, MovingInitiate DEF Handshake_Handle_Frame
  <1>6. CASE e.role = "RIG" /\ f.type = "CONFIRM"
    BY <1>1, <1>6, MovingConfirm DEF Handshake_Handle_Frame
  <1>7. CASE /\ f.type # "RESET"
             /\ ~ (e.role = "HOST" /\ f.type \in {"RESPONSE", "ACK"})
             /\ ~ (e.role = "RIG" /\ f.type \in {"INITIATE", "CONFIRM"})
    BY <1>1, <1>7 DEF Handshake_Handle_Frame, Result
  <1> QED BY <1>2, <1>3, <1>4, <1>5, <1>6, <1>7

-----------------------------------------------------------------------------
(* The moves of messages *)

\* The submitted message is confirmed.
LEMMA MovingDeliveryAck ==
    ASSUME NEW S, NEW input, Closed(S, input), NEW e \in S, e.out.rel.frame.type = "APPLICATION",
           NEW f \in WireFrame, f = e.parser.body, f.type = "ACK"
    PROVE  Application_Handle_Acknowledgement(e, f).e \in S
  <1> DEFINE o == Reliability_Accept_Acknowledgement(e.out, f.ack)
             d == [e EXCEPT !.out = o, !.submitted = NoMessage]
             c == Events_Publish(d, "DELIVERY_CONFIRMED")
             r == Application_Handle_Acknowledgement(e, f)
  <1>1. /\ Sound(e) /\ e \in Endpoint /\ e.out \in OutputRecord({0})
        /\ e.phase = "ESTABLISHED" /\ Sound(r.e)
    BY HandlingDeliveryAck
    DEF Closed, Sound, Endpoint, EndpointRecord, RetainedOK, RetainedTypes, Handled
  <1>2. \/ r.e = e
        \/ r.e = c /\ f.id = e.id /\ Ack_Matches(e.out, f.ack)
    <2>1. e.state = "ESTABLISHED" /\ e.id # NoSession
      BY <1>1 DEF Sound, LifeOK, PhasesOf, HostPhases, RigPhases
    <2>2. e.submitted # NoMessage
      <3>1. e.out.rel.frame.msg # NoMessage
        BY <1>1, RetainedFrame DEF ReliableTypes, ReliableFrame, ValidFrame
      <3> QED BY <1>1, <3>1 DEF Sound, RetainedOK
    <2> HIDE DEF c
    <2>3. c = Events_Publish([e EXCEPT !.out = o, !.submitted = NoMessage],
                             "DELIVERY_CONFIRMED")
      BY DEF c
    <2>4. [e EXCEPT !.out = Reliability_Accept_Acknowledgement(@, f.ack),
                    !.submitted = NoMessage] = [e EXCEPT !.out = o, !.submitted = NoMessage]
      OBVIOUS
    <2> QED
      BY <1>1, <2>1, <2>2, <2>3, <2>4
      DEF Application_Handle_Acknowledgement, Is_Established, Result
  <1>3. CASE r.e = c /\ f.id = e.id /\ Ack_Matches(e.out, f.ack)
    <2>1. /\ o.rel.frame = NoFrame /\ o.nextTx = NextSequence(e.out.nextTx)
          /\ o.resetId = e.out.resetId /\ f.ack = e.out.nextTx
      BY <1>1, <1>3, Acknowledged
    <2>2. o \in OutputRecord({0})
      BY <1>1, AcknowledgementType DEF WireFrame, Frame
    <2> HIDE DEF o
    <2>3. d \in Endpoint
      BY <1>1, <2>2 DEF Endpoint, EndpointRecord
    <2>4. d.role = e.role /\ d.parser = e.parser /\ d.events = e.events /\ Finishes(e, d, f)
      BY <1>1, <1>3, <2>1
      DEF Finishes, Session, Outgoing, Incoming, Endpoint, EndpointRecord
    <2> HIDE DEF d, r
    <2>5. c = [d EXCEPT !.events = c.events] /\ Extends(d.events, c.events)
      BY <2>3, Publishing DEF EventTypes
    <2> HIDE DEF c
    <2>6. c.role = e.role /\ c.parser = e.parser /\ Finishes(e, c, f)
          /\ Extends(e.events, c.events)
      BY <2>3, <2>4, <2>5
      DEF Finishes, Session, Outgoing, Incoming, Endpoint, EndpointRecord
    <2>7. Moves(e, c, input)
      BY <2>6 DEF Moves, Moved
    <2> QED BY <1>1, <1>3, <2>7 DEF Closed, r
  <1> HIDE DEF r, c
  <1> QED BY <1>2, <1>3 DEF r

\* A message is taken, or the ACK of the last one is repeated.
LEMMA MovingMessage ==
    ASSUME NEW S, NEW input, Closed(S, input), NEW e \in S,
           NEW f \in WireFrame, f = e.parser.body, f.type = "APPLICATION"
    PROVE  Application_Handle_Received_Frame(e, f).e \in S
  <1> DEFINE o == Control_Publish(e.out, AckFrame(e, f.seq))
             d == [e EXCEPT !.out = o, !.lastRx = Baseline(f), !.received = f.msg]
             r == Application_Handle_Received_Frame(e, f)
             class == Session_Classify_Sequence(e, f.seq)
  <1>1. Sound(e) /\ e \in Endpoint /\ e.out \in OutputRecord({0}) /\ Sound(r.e)
    BY HandlingMessage DEF Closed, Sound, Endpoint, EndpointRecord, Handled
  <1>2. [Accept_Frame(Publish_Acknowledgement(e, f.seq), f) EXCEPT !.received = f.msg] = d
    BY <1>1 DEF Accept_Frame, Publish_Acknowledgement, Baseline, Endpoint, EndpointRecord
  <1> HIDE DEF d
  <1>3. \/ r.e = e
        \/ /\ r.e = Publish_Acknowledgement(e, f.seq) /\ Is_Established(e)
           /\ class = "DUPLICATE" /\ e.lastRx.type = "APPLICATION" /\ CanAcknowledge(e, f.seq)
        \/ /\ r.e = d /\ Is_Established(e) /\ f.id = e.id /\ class = "EXPECTED"
           /\ e.received = NoMessage
    BY <1>2, ClassificationType DEF Application_Handle_Received_Frame, Result
  <1>4. CASE /\ r.e = Publish_Acknowledgement(e, f.seq) /\ Is_Established(e)
             /\ class = "DUPLICATE" /\ e.lastRx.type = "APPLICATION" /\ CanAcknowledge(e, f.seq)
    <2>1. e.lastRx.seq = f.seq
      BY <1>4 DEF Session_Classify_Sequence
    <2> HIDE DEF r
    <2> QED BY <1>4, <2>1, MovingAcknowledge DEF Is_Established, r
  <1>5. CASE /\ r.e = d /\ Is_Established(e) /\ f.id = e.id /\ class = "EXPECTED"
             /\ e.received = NoMessage
    <2>1. o.nextTx = e.out.nextTx /\ o.rel = e.out.rel /\ o.resetId = e.out.resetId
      BY <1>1 DEF Control_Publish, OutputRecord
    <2> HIDE DEF o
    <2>2. f.seq = NextSequence(e.lastRx.seq)
      <3>1. e.lastRx # NoBaseline
        BY <1>1, <1>5 DEF Sound, WorkOK, BaselineTypes, Is_Established, NoBaseline
      <3> QED BY <1>5, <3>1 DEF Session_Classify_Sequence
    <2>3. d.role = e.role /\ d.parser = e.parser /\ d.events = e.events /\ Takes(e, d, f)
      BY <1>1, <1>5, <2>1, <2>2
      DEF d, Takes, Session, Outgoing, Incoming, Endpoint, EndpointRecord, Is_Established
    <2>4. Moves(e, d, input)
      BY <1>1, <2>3, Unreported DEF Moves, Moved
    <2> HIDE DEF r
    <2> QED BY <1>1, <1>5, <2>4 DEF Closed, r
  <1> HIDE DEF r, class
  <1> QED BY <1>3, <1>4, <1>5 DEF r

\* A message that proves the CONFIRM arrived completes the handshake first.
LEMMA MovingProof ==
    ASSUME NEW S, NEW input, Closed(S, input), NEW e \in S,
           NEW f \in WireFrame, f = e.parser.body, f.type = "APPLICATION"
    PROVE  Accept_Proved(Try_Complete_Host_From_Application(e, f), f).e \in S
  <1> DEFINE t == Try_Complete_Host_From_Application(e, f)
             c == Complete_Host(e)
  <1>1. Sound(e)
    BY DEF Closed
  <1>2. \/ t = Result(e, "NOT_APPLICABLE")
        \/ t.s \in {"INCOMPATIBLE", "CAPACITY_EXHAUSTED"} /\ t.e = e
        \/ /\ t = Result(c, "ACCEPTED") /\ e.phase = "WAITING_FOR_CONFIRM_ACK" /\ f.id = e.id
           /\ ~ EventsFull(e) /\ e.out.rel.state \in {"AWAITING_ACK", "RETRANSMIT_READY"}
    <2>1. e.phase = "WAITING_FOR_CONFIRM_ACK" => e.out.rel.frame.type = "CONFIRM"
      BY <1>1 DEF Sound, RetainedOK, RetainedTypes
    <2> HIDE DEF c
    <2> QED BY <2>1 DEF Try_Complete_Host_From_Application, Result, c
  <1> HIDE DEF t
  <1>3. CASE t = Result(e, "NOT_APPLICABLE")
    BY <1>3, MovingMessage DEF Accept_Proved, Result, t
  <1>4. CASE t.s \in {"INCOMPATIBLE", "CAPACITY_EXHAUSTED"} /\ t.e = e
    BY <1>4 DEF Accept_Proved, t
  <1>5. CASE /\ t = Result(c, "ACCEPTED") /\ e.phase = "WAITING_FOR_CONFIRM_ACK" /\ f.id = e.id
             /\ ~ EventsFull(e) /\ e.out.rel.state \in {"AWAITING_ACK", "RETRANSMIT_READY"}
    <2>1. c \in S /\ c.parser = e.parser
      BY <1>1, <1>5, MovingCompletion, CompletingHost DEF SameBody
    <2> HIDE DEF c
    <2>2. Application_Handle_Received_Frame(c, f).e \in S
      BY <2>1, MovingMessage
    <2> QED BY <1>5, <2>2 DEF Accept_Proved, Result, t
  <1> QED BY <1>2, <1>3, <1>4, <1>5

-----------------------------------------------------------------------------
(* The moves of a call of Receive_Bytes *)

\* What was dispatched is settled.
LEMMA MovingSettled ==
    ASSUME NEW S, NEW input, Closed(S, input), NEW o, o.e \in S
    PROVE  Settle(o).e \in S
  <1> DEFINE q == [o.e EXCEPT !.parser = EmptyParser, !.errPending = o.e.errPending]
  <1>1. Sound(o.e) /\ o.e \in Endpoint /\ o.e.errPending \in BOOLEAN
    BY DEF Closed, Sound, Endpoint, EndpointRecord
  <1>2. o.e.state # "DISCONNECTED" \/ ~ o.e.errPending
    BY <1>1 DEF Sound, ParserOK
  <1>3. q \in S
    BY <1>1, <1>2, StayingConsumed
  <1>4. [o.e EXCEPT !.parser = EmptyParser] = q
    BY <1>1 DEF Endpoint, EndpointRecord
  <1> HIDE DEF q
  <1> QED BY <1>3, <1>4 DEF Settle, Result

\* A rejected body.
LEMMA MovingRejected ==
    ASSUME NEW S, NEW input, Closed(S, input), NEW e \in S
    PROVE  Settle(Reject_Retained_Body(e)).e \in S
  <1>1. Events_Publish(e, "PROTOCOL_ERROR") \in S
    BY StayingReports DEF EventTypes
  <1>2. Reject_Retained_Body(e).e = Events_Publish(e, "PROTOCOL_ERROR")
    BY DEF Reject_Retained_Body, Outcome
  <1> QED BY <1>1, <1>2, MovingSettled

\* A body of a dead session.
LEMMA MovingDiscarded ==
    ASSUME NEW S, NEW input, Closed(S, input), NEW e \in S, Holding(e)
    PROVE  Settle(Reject_Obsolete_Body(e)).e \in S
  <1> DEFINE p == Events_Publish(e, "PROTOCOL_ERROR")
             q == [p EXCEPT !.parser = EmptyParser, !.errPending = EventsFull(e)]
  <1>1. Sound(p) /\ p.state = e.state /\ EventsFull(e) \in BOOLEAN
    BY Reporting DEF Holding
  <1>2. p \in Endpoint /\ e.state # "DISCONNECTED"
    BY <1>1, HoldingIsClear DEF Sound
  <1>3. p \in S
    BY StayingReports DEF EventTypes
  <1> HIDE DEF p
  <1>4. q \in S
    BY <1>1, <1>2, <1>3, StayingConsumed
  <1>5. [[p EXCEPT !.errPending = EventsFull(e)] EXCEPT !.parser = EmptyParser] = q
    BY <1>2 DEF Endpoint, EndpointRecord
  <1> HIDE DEF q
  <1> QED BY <1>4, <1>5 DEF Settle, Reject_Obsolete_Body, Outcome, Result, p

\* Incompatible traffic.
LEMMA MovingAbandoned ==
    ASSUME NEW S, NEW input, Closed(S, input), NEW e \in S, Holding(e)
    PROVE  Settle(Abandon_Incompatible_Session(e)).e \in S
  <1>1. CASE e.out.resetId = NoSession
    <2> DEFINE p == Events_Publish(e, "PROTOCOL_ERROR")
               r == Begin_Local_Recovery(p)
               q == [r.e EXCEPT !.parser = EmptyParser, !.errPending = EventsFull(e)]
    <2>1. Sound(p) /\ p.link = e.link /\ p.out = e.out /\ EventsFull(e) \in BOOLEAN
      BY Reporting DEF Holding
    <2>2. p \in S
      BY StayingReports DEF EventTypes
    <2> HIDE DEF p
    <2>3. Connected(p) /\ p.out.resetId = NoSession
      BY <1>1, <2>1 DEF Holding, Connected
    <2>4. /\ r.e \in S /\ r.e \in Endpoint /\ r.s # "INTERNAL_ERROR"
          /\ r.e.parser = EmptyParser /\ r.e.state = "RECOVERING"
      BY <2>1, <2>2, <2>3, LocalRecovery, MovingRecovery DEF Sound
    <2> HIDE DEF r
    <2>5. q \in S
      BY <2>1, <2>4, StayingConsumed
    <2>6. [r.e EXCEPT !.errPending = EventsFull(e)] = q
      BY <2>4 DEF Endpoint, EndpointRecord
    <2> HIDE DEF q
    <2>7. Abandon_Incompatible_Session(e) = Abandoned(r, EventsFull(e))
      BY <1>1 DEF Abandon_Incompatible_Session, r, p
    <2> QED BY <2>4, <2>5, <2>6, <2>7 DEF Settle, Abandoned, Outcome, Result
  <1>2. CASE e.out.resetId # NoSession
    <2>1. e.state = "RECOVERING" /\ Connected(e) /\ ControlPending(e.out)
      BY <1>2, SessionScope DEF Holding, Sound, Output_Coherent
    <2>2. Abandon_Incompatible_Session(e) = Reject_Obsolete_Body(e)
      BY <1>2, <2>1 DEF Abandon_Incompatible_Session
    <2> QED BY <2>2, MovingDiscarded
  <1> QED BY <1>1, <1>2

\* What a handler's classification means for the body.
LEMMA MovingDisposed ==
    ASSUME NEW S, NEW input, Closed(S, input), NEW r, r.e \in S, r.s \in Classes,
           r.s = "INCOMPATIBLE" => Holding(r.e)
    PROVE  Settle(Dispose(r)).e \in S
  <1>1. CASE r.s \in {"CAPACITY_EXHAUSTED", "ACCEPTED", "DUPLICATE"}
    <2>1. Dispose(r).e = r.e
      BY <1>1 DEF Dispose, Outcome
    <2> QED BY <2>1, MovingSettled
  <1>2. CASE r.s = "STALE"
    BY <1>2, MovingRejected DEF Dispose
  <1>3. CASE r.s = "INCOMPATIBLE"
    BY <1>3, MovingAbandoned DEF Dispose
  <1> QED BY <1>1, <1>2, <1>3 DEF Classes

\* Every frame of the peer.
LEMMA MovingDispatch ==
    ASSUME NEW S, NEW input, Closed(S, input), NEW e \in S, Holding(e),
           e.parser.body \in WireFrame
    PROVE  Settle(Dispatch_Frame(e, e.parser.body)).e \in S
  <1> DEFINE f == e.parser.body
             h == Handshake_Handle_Frame(e, f)
             r == Settle(Dispatch_Frame(e, f))
             ours == /\ ~ Is_Recently_Abandoned(e, f)
                     /\ ~ (Rig_Is_Waiting_Unbound(e) /\ f.type # "INITIATE")
                     /\ ~ (e.id # NoSession /\ f.id # e.id)
  <1>0. Sound(e)
    BY DEF Holding
  <1>1. CASE ~ ours
    <2>1. Dispatch_Frame(e, f) \in {Reject_Obsolete_Body(e), Abandon_Incompatible_Session(e)}
      BY <1>1 DEF Dispatch_Frame
    <2> QED BY <2>1, MovingDiscarded, MovingAbandoned
  <1>2. ASSUME ours
        PROVE  Settle(Dispose(h)).e \in S
    <2>1. h.e \in S
      BY <1>2, MovingHandshake
    <2>2. Handled(e, h) \/ ReplacedBy(e, f, h)
      BY <1>0, <1>2, HandlingHandshake
    <2> HIDE DEF h
    <2> QED BY <2>1, <2>2, MovingDisposed DEF Handled, ReplacedBy, Classes
  <1>3. CASE ours /\ f.type = "ACK"
    <2>1. Dispatch_Frame(e, f) = Dispatch_Acknowledgement(e, f)
      BY <1>3 DEF Dispatch_Frame
    <2>2. CASE e.out.rel.frame.type = "APPLICATION"
      <3> DEFINE a == Application_Handle_Acknowledgement(e, f)
      <3>1. Dispatch_Frame(e, f) = Dispose(a)
        BY <2>1, <2>2 DEF Dispatch_Acknowledgement
      <3>2. Handled(e, a)
        BY <1>0, <1>3, <2>2, HandlingDeliveryAck
      <3>3. a.e \in S
        BY <1>3, <2>2, MovingDeliveryAck
      <3> HIDE DEF a
      <3> QED BY <3>1, <3>2, <3>3, MovingDisposed DEF Handled
    <2>3. CASE e.out.rel.frame.type # "APPLICATION" /\ e.state # "ESTABLISHED"
      <3>1. Dispatch_Frame(e, f) = Dispose(h)
        BY <2>1, <2>3 DEF Dispatch_Acknowledgement
      <3> QED BY <1>2, <1>3, <3>1
    <2>4. CASE e.out.rel.frame.type # "APPLICATION" /\ e.state = "ESTABLISHED"
      <3>1. \/ Dispatch_Frame(e, f) = Outcome(e, "OK", "CONSUME")
            \/ Dispatch_Frame(e, f) = Reject_Retained_Body(e)
        BY <2>1, <2>4 DEF Dispatch_Acknowledgement
      <3>2. Outcome(e, "OK", "CONSUME").e = e
        BY DEF Outcome
      <3> QED BY <3>1, <3>2, MovingSettled, MovingRejected
    <2> QED BY <2>2, <2>3, <2>4
  <1>4. CASE ours /\ f.type = "APPLICATION"
    <2> DEFINE a == Accept_Proved(Try_Complete_Host_From_Application(e, f), f)
    <2>1. Dispatch_Frame(e, f) = Dispose(a)
      BY <1>4 DEF Dispatch_Frame, Dispatch_Application
    <2>2. Handled(e, a)
      BY <1>0, <1>4, HandlingProof
    <2>3. a.e \in S
      BY <1>4, MovingProof
    <2> HIDE DEF a
    <2> QED BY <2>1, <2>2, <2>3, MovingDisposed DEF Handled
  <1>5. CASE ours /\ f.type \notin {"ACK", "APPLICATION"}
    <2>1. Dispatch_Frame(e, f) = Dispose(h)
      BY <1>5 DEF Dispatch_Frame
    <2> QED BY <1>2, <1>5, <2>1
  <1> QED BY <1>1, <1>3, <1>4, <1>5

\* Whatever the parser holds.
LEMMA MovingBody ==
    ASSUME NEW S, NEW input, Closed(S, input), NEW e \in S, Holding(e)
    PROVE  Process_Retained_Body(e).e \in S
  <1> DEFINE body == e.parser.body
  <1>1. CASE body \notin {MalformedBody, OtherVersionBody}
    <2>1. Process_Retained_Body(e) = Settle(Dispatch_Frame(e, body))
      BY <1>1 DEF Process_Retained_Body, Decode_Retained_Body
    <2>2. body \in WireFrame
      BY <1>1, HoldingIsClear DEF Bodies, WireFrame
    <2> QED BY <2>1, <2>2, MovingDispatch
  <1>2. CASE body \in {MalformedBody, OtherVersionBody}
    <2>1. \/ Process_Retained_Body(e) = Settle(Abandon_Incompatible_Session(e))
          \/ Process_Retained_Body(e) = Settle(Reject_Retained_Body(e))
      BY <1>2 DEF Process_Retained_Body, Decode_Retained_Body
    <2> QED BY <2>1, MovingAbandoned, MovingRejected
  <1> QED BY <1>1, <1>2

\* An owed diagnostic.
LEMMA MovingOwed ==
    ASSUME NEW S, NEW input, Closed(S, input), NEW e \in S, Connected(e)
    PROVE  Process_Pending_Error(e).e \in S
  <1> DEFINE p == Events_Publish(e, "PROTOCOL_ERROR")
             q == [p EXCEPT !.parser = p.parser, !.errPending = EventsFull(e)]
             r == Process_Pending_Error(e)
  <1>1. CASE ~ e.errPending
    BY <1>1 DEF Process_Pending_Error, Result
  <1>2. CASE e.errPending
    <2>1. Sound(e)
      BY DEF Closed
    <2>2. p \in S /\ p \in Endpoint /\ p.parser = e.parser
      BY <2>1, Reporting, StayingReports DEF EventTypes, Sound
    <2>3. r.e = q
      <3> HIDE DEF p
      <3>1. [p EXCEPT !.errPending = EventsFull(e)] = q
        BY <2>2 DEF Endpoint, EndpointRecord
      <3> HIDE DEF q
      <3> QED BY <1>2, <3>1 DEF Process_Pending_Error, Result, p
    <2>4. Sound(r.e)
      BY <1>2, <2>1, ReportingOwed
    <2> HIDE DEF p, r
    <2>5. q \in S
      BY <2>2, <2>3, <2>4, StayingParser
    <2> QED BY <2>3, <2>5 DEF r
  <1> QED BY <1>1, <1>2

\* The recovery boundary.
LEMMA MovingAdvance ==
    ASSUME NEW S, NEW input, Closed(S, input), NEW e \in S
    PROVE  Try_Advance_Recovery(e).e \in S
  <1> DEFINE waits == \/ e.state # "RECOVERING"
                      \/ e.out.resetId # NoSession \/ ControlPending(e.out) \/ e.out.sel # "NONE"
                      \/ e.errPending \/ e.parser.state # "EMPTY"
  <1>1. CASE waits
    BY <1>1 DEF Try_Advance_Recovery, Result
  <1>2. CASE ~ waits
    <2>1. Try_Advance_Recovery(e) = Begin_Establishment(e)
      BY <1>2 DEF Try_Advance_Recovery
    <2>2. Drained(e)
      BY <1>2, RecoveringDrains DEF Closed
    <2> QED BY <2>1, <2>2, MovingBegin
  <1> QED BY <1>1, <1>2

\* After the body, recovery may go on.
LEMMA MovingThenAdvance ==
    ASSUME NEW S, NEW input, Closed(S, input), NEW r, r.e \in S
    PROVE  Then_Advance(r).e \in S
  BY MovingAdvance DEF Then_Advance

\* What an earlier call left.
LEMMA MovingStart ==
    ASSUME NEW S, NEW input, Closed(S, input), NEW e \in S, Connected(e), HeldOK(e)
    PROVE  Receive_Start(e).e \in S
  <1> DEFINE first == Process_Pending_Error(e)
             held == After_Error(first)
  <1>0. Sound(e)
    BY DEF Closed
  <1>1. held.e \in S
    <2>1. CASE e.errPending
      <3>1. first.e \in S /\ first.e.parser.state = "EMPTY"
        BY <1>0, <2>1, MovingOwed, ReportingOwed
      <3> HIDE DEF first
      <3> QED BY <3>1 DEF After_Error, Process_Held, Result
    <2>2. CASE ~ e.errPending /\ e.parser.state = "READY"
      <3>1. held = Process_Retained_Body(e)
        BY <2>2 DEF Process_Pending_Error, After_Error, Process_Held, Result
      <3> QED BY <1>0, <2>2, <3>1, MovingBody DEF Holding
    <2>3. CASE ~ e.errPending /\ e.parser.state # "READY"
      BY <2>3 DEF Process_Pending_Error, After_Error, Process_Held, Result
    <2> QED BY <2>1, <2>2, <2>3
  <1> HIDE DEF held
  <1> QED BY <1>1, MovingThenAdvance DEF Receive_Start, held

\* New bytes.
LEMMA MovingPush ==
    ASSUME NEW S, NEW input \in AnyInput, Closed(S, input), NEW e \in S,
           HeldOK(e), Connected(e), ~ e.errPending, e.parser.state # "READY"
    PROVE  Push_Bytes(e, input).e \in S
  <1> DEFINE r == Push_Bytes(e, input)
  <1>0. Sound(e) /\ e \in Endpoint /\ e.parser.body = NoFrame /\ e.errPending = FALSE
    BY DEF Closed, Sound, ParserOK, Endpoint, EndpointRecord
  <1>00. e.state # "DISCONNECTED"
    BY <1>0 DEF Sound, LifeOK
  <1>1. CASE r.e = e
    BY <1>1
  <1>2. ASSUME NEW state \in {"PARTIAL", "DISCARDING"}, r.e = [e EXCEPT !.parser.state = state],
               Sound(r.e)
        PROVE  r.e \in S
    <2> DEFINE parser == [state |-> state, body |-> NoFrame]
               q == [e EXCEPT !.parser = parser, !.errPending = FALSE]
    <2>1. r.e = q
      <3>1. [e.parser EXCEPT !.state = state] = parser
        BY <1>0 DEF Endpoint, EndpointRecord, ParserRecord
      <3> HIDE DEF parser, r
      <3> QED BY <1>0, <1>2, <3>1 DEF Endpoint, EndpointRecord
    <2>2. parser.body = NoFrame
      OBVIOUS
    <2> HIDE DEF parser, r
    <2>3. q \in S
      BY <1>2, <2>1, <2>2, StayingParser
    <2> QED BY <2>1, <2>3
  <1> DEFINE parser == [state |-> "READY", body |-> input]
             q == [e EXCEPT !.parser = parser, !.errPending = FALSE]
             d == [e EXCEPT !.parser = EmptyParser, !.errPending = TRUE]
  <1>3. CASE input \in Bodies /\ e.parser.state # "DISCARDING"
    <2>1. [e EXCEPT !.parser = [state |-> "READY", body |-> input]] = q
      BY <1>0 DEF Endpoint, EndpointRecord
    <2>2. parser \in ParserRecord
      BY <1>3 DEF ParserRecord
    <2>3. q.parser = parser /\ q.errPending = FALSE /\ q.state = e.state /\ q.link = e.link
      BY <1>0 DEF Endpoint, EndpointRecord
    <2>4. ParserOK(q)
      BY <1>00, <1>3, <2>3 DEF ParserOK
    <2>5. Sound(q)
      BY <1>0, <2>2, <2>4, ParserSound
    <2>6. parser.body = input /\ parser.state = "READY"
      OBVIOUS
    <2>7. r = Process_Retained_Body(q)
      <3> HIDE DEF q
      <3> QED BY <1>3, <2>1, PiecesAreNoBodies DEF Push_Bytes
    <2> HIDE DEF parser
    <2>8. q \in S
      BY <2>5, <2>6, StayingParser
    <2>9. Holding(q)
      BY <2>3, <2>5, <2>6 DEF Holding, Connected
    <2> HIDE DEF q
    <2> QED BY <2>7, <2>8, <2>9, MovingBody
  <1>4. CASE input \in Bodies /\ e.parser.state = "DISCARDING"
    <2>1. d \in S
      BY <1>00, StayingConsumed
    <2>2. d.link = e.link
      BY <1>0 DEF Endpoint, EndpointRecord
    <2>3. r = Process_Pending_Error(d)
      <3> HIDE DEF d
      <3>1. [e EXCEPT !.parser = EmptyParser, !.errPending = TRUE] = d
        BY DEF d
      <3> QED BY <1>4, <3>1, PiecesAreNoBodies DEF Push_Bytes
    <2> HIDE DEF d
    <2> QED BY <2>1, <2>2, <2>3, MovingOwed DEF Connected
  <1>5. Sound(r.e)
    BY <1>0, Pushing
  <1>6. CASE input \notin Bodies
    <2>1. r.e = e \/ \E state \in {"PARTIAL", "DISCARDING"} :
                        r.e = [e EXCEPT !.parser.state = state]
      BY <1>6 DEF Push_Bytes, Result
    <2> HIDE DEF r
    <2> QED BY <1>1, <1>2, <1>5, <2>1 DEF r
  <1> QED BY <1>3, <1>4, <1>6

\* A whole call of Receive_Bytes is a sequence of moves.
LEMMA MovingReceive ==
    ASSUME NEW S, NEW input \in AnyInput, Closed(S, input), NEW e \in S, HeldOK(e)
    PROVE  Receive_Bytes(e, input).e \in S
  <1> DEFINE start == Receive_Start(e)
             pushed == Then_Push(start, input)
  <1>1. Sound(e) /\ e \in Endpoint /\ e.state # "FAULT" /\ Receive_Valid(e)
    BY SessionScope DEF Closed, Sound, ParserOK, Receive_Valid
  <1>2. CASE ~ Connected(e)
    BY <1>1, <1>2 DEF Receive_Bytes, Result
  <1>3. CASE Connected(e)
    <2>1. /\ HeldOK(start.e) /\ Connected(start.e)
          /\ start.s = "OK" => ~ start.e.errPending /\ start.e.parser.state # "READY"
      BY <1>1, <1>3, Starting DEF Follows, Connected
    <2>2. start.e \in S
      BY <1>3, MovingStart
    <2> HIDE DEF start
    <2>3. pushed.e \in S
      BY <2>1, <2>2, MovingPush DEF Then_Push
    <2>4. Receive_Bytes(e, input) = After_Body(pushed, input)
      BY <1>1, <1>3 DEF Receive_Bytes, start
    <2> HIDE DEF pushed
    <2> QED BY <2>3, <2>4, MovingThenAdvance DEF After_Body
  <1> QED BY <1>2, <1>3

-----------------------------------------------------------------------------
(* The moves of a call of Process *)

\* A handshake frame is published.
LEMMA MovingPublished ==
    ASSUME NEW S, NEW input, Closed(S, input), NEW e \in S, NEW h \in Handshakes,
           e.phase = h[1]
    PROVE  LET ack == IF h[2] = "INITIATE" THEN 0 ELSE e.lastRx.seq
           IN  Handshake_Publish_Reliable(e, h[2], ack, h[3]).e \in S
  <1> DEFINE ack == IF h[2] = "INITIATE" THEN 0 ELSE e.lastRx.seq
             frame == MakeFrame(h[2], e.id, e.out.nextTx, ack, NoMessage)
             o == Reliability_Publish(e.out, frame)
             q == [e EXCEPT !.out = o, !.phase = h[3]]
             r == Handshake_Publish_Reliable(e, h[2], ack, h[3])
  <1>1. Sound(e) /\ e \in Endpoint /\ e.out \in OutputRecord({0})
    BY DEF Closed, Sound, Endpoint, EndpointRecord
  <1>2. ack \in Sequences16
    BY <1>1, SequenceAssumption
    DEF Endpoint, EndpointRecord, BaselineRecord, NoBaseline, Sequences16, SequenceAssumption
  <1>3. Sound(r.e)
    <2>1. \/ e.phase = "INITIATE_PENDING" /\ h[2] = "INITIATE" /\ ack = 0
             /\ h[3] = "WAITING_FOR_RESPONSE"
          \/ e.phase = "RESPONSE_PENDING" /\ h[2] = "RESPONSE" /\ h[3] = "WAITING_FOR_CONFIRM"
          \/ e.phase = "CONFIRM_PENDING" /\ h[2] = "CONFIRM"
             /\ h[3] = "WAITING_FOR_CONFIRM_ACK"
      BY DEF Handshakes
    <2> HIDE DEF ack
    <2> QED BY <1>1, <1>2, <2>1, PublishingHandshake
  <1>4. r.e = e \/ r.e = q
    BY DEF Handshake_Publish_Reliable, Result
  <1>5. CASE r.e = q
    <2>1. o.rel.frame = frame /\ o.nextTx = e.out.nextTx /\ o.resetId = e.out.resetId
      BY <1>1 DEF Reliability_Publish, OutputRecord
    <2> HIDE DEF o, frame
    <2>2. /\ q.role = e.role /\ q.parser = e.parser /\ q.events = e.events
          /\ Session(q) = <<e.id, e.nextId, h[3], e.out.resetId>>
          /\ Outgoing(q) = <<e.out.nextTx, frame, e.submitted>>
          /\ Incoming(q) = Incoming(e)
      BY <1>1, <2>1 DEF Session, Outgoing, Incoming, Endpoint, EndpointRecord
    <2> HIDE DEF q, r
    <2>3. Publishes(e, q)
      BY <2>2 DEF Publishes, frame
    <2>4. Moves(e, q, input)
      BY <1>1, <2>2, <2>3, Unreported DEF Moves, Moved
    <2>5. r.e \in S
      BY <1>1, <1>3, <1>5, <2>4 DEF Closed
    <2> QED BY <2>5 DEF r
  <1> HIDE DEF q, r
  <1> QED BY <1>4, <1>5 DEF r

\* Process in each phase of the handshake.
LEMMA MovingShaking ==
    ASSUME NEW S, NEW input, Closed(S, input), NEW e \in S
    PROVE  Handshake_Process(e).e \in S
  <1>1. CASE e.phase = "INITIATE_PENDING"
    <2> DEFINE h == <<"INITIATE_PENDING", "INITIATE", "WAITING_FOR_RESPONSE">>
    <2>1. h \in Handshakes /\ h[1] = e.phase /\ h[2] = "INITIATE" /\ h[3] = "WAITING_FOR_RESPONSE"
      BY <1>1 DEF Handshakes
    <2> HIDE DEF h
    <2>2. Handshake_Publish_Reliable(e, h[2], 0, h[3]).e \in S
      BY <2>1, MovingPublished
    <2> QED BY <1>1, <2>1, <2>2 DEF Handshake_Process
  <1>2. CASE e.phase = "RESPONSE_PENDING"
    <2> DEFINE h == <<"RESPONSE_PENDING", "RESPONSE", "WAITING_FOR_CONFIRM">>
    <2>1. h \in Handshakes /\ h[1] = e.phase /\ h[2] = "RESPONSE" /\ h[3] = "WAITING_FOR_CONFIRM"
      BY <1>2 DEF Handshakes
    <2> HIDE DEF h
    <2>2. Handshake_Publish_Reliable(e, h[2], e.lastRx.seq, h[3]).e \in S
      BY <2>1, MovingPublished
    <2> QED BY <1>2, <2>1, <2>2 DEF Handshake_Process
  <1>3. CASE e.phase = "CONFIRM_PENDING"
    <2> DEFINE h == <<"CONFIRM_PENDING", "CONFIRM", "WAITING_FOR_CONFIRM_ACK">>
    <2>1. h \in Handshakes /\ h[1] = e.phase /\ h[2] = "CONFIRM"
          /\ h[3] = "WAITING_FOR_CONFIRM_ACK"
      BY <1>3 DEF Handshakes
    <2> HIDE DEF h
    <2>2. Handshake_Publish_Reliable(e, h[2], e.lastRx.seq, h[3]).e \in S
      BY <2>1, MovingPublished
    <2> QED BY <1>3, <2>1, <2>2 DEF Handshake_Process
  <1>4. CASE e.phase \notin {"INITIATE_PENDING", "RESPONSE_PENDING", "CONFIRM_PENDING"}
    BY <1>4 DEF Handshake_Process, Result
  <1> QED BY <1>1, <1>2, <1>3, <1>4

\* The retained frame is given up.
LEMMA MovingGivenUp ==
    ASSUME NEW S, NEW input, Closed(S, input), NEW e \in S
    PROVE  Give_Up(e).e \in S
  <1> DEFINE p == Events_Publish(e, "DELIVERY_FAILED")
             r == Give_Up(e)
  <1>0. Sound(e) /\ e \in Endpoint
    BY DEF Closed, Sound
  <1>1. CASE e.out.rel.state # "EXHAUSTED"
    BY <1>1 DEF Give_Up, Result
  <1>2. ASSUME e.out.rel.state = "EXHAUSTED"
        PROVE  Connected(e) /\ e.out.resetId = NoSession
    <2>1. e.out.rel.frame.type \in ReliableTypes
      BY <1>0, <1>2 DEF Sound, Output_Coherent, Reliability_Coherent
    <2>2. e.id # NoSession
      BY <1>0, <2>1 DEF Sound, RetainedOK, RetainedTypes, LifeOK, ReliableTypes
    <2> QED BY <1>0, <2>2, SessionScope
  <1>3. CASE e.out.rel.state = "EXHAUSTED" /\ e.out.rel.frame.type # "APPLICATION"
    BY <1>2, <1>3, MovingRecovery DEF Give_Up
  <1>4. CASE e.out.rel.state = "EXHAUSTED" /\ e.out.rel.frame.type = "APPLICATION"
    <2>1. e.submitted # NoMessage
      <3>1. e.out.rel.frame.msg # NoMessage
        BY <1>0, <1>4, RetainedFrame DEF ReliableTypes, ReliableFrame, ValidFrame
      <3> QED BY <1>0, <3>1 DEF Sound, RetainedOK
    <2> DEFINE left == Begin_Local_Recovery(p)
    <2>2. r.e = e \/ r.e = left.e
      <3> HIDE DEF left
      <3> QED
        BY <1>4, <2>1
        DEF Give_Up, Application_Handle_Retry_Exhaustion, Delivery_Failed, Result, left
    <2>3. p \in S
      BY StayingReports DEF EventTypes
    <2>4. p.out = e.out /\ p.link = e.link
      <3>1. p = [e EXCEPT !.events = p.events]
        BY <1>0, Publishing DEF EventTypes
      <3> HIDE DEF p
      <3> QED BY <1>0, <3>1 DEF Endpoint, EndpointRecord
    <2> HIDE DEF p
    <2>5. left.e \in S
      BY <1>2, <1>4, <2>3, <2>4, MovingRecovery DEF Connected
    <2> HIDE DEF left, r
    <2> QED BY <2>2, <2>5 DEF r
  <1> QED BY <1>1, <1>3, <1>4

\* The retransmission timer.
LEMMA MovingRetry ==
    ASSUME NEW S, NEW input, Closed(S, input), NEW e \in S, NEW expired \in BOOLEAN
    PROVE  Process_Reliability(e, expired).e \in S
  <1> DEFINE o == Reliability_Process_Pending(e.out, expired)
             q == [e EXCEPT !.out = o]
  <1>1. /\ Sound(e) /\ e \in Endpoint /\ e.out \in OutputRecord({0})
        /\ Output_Coherent(e.out, Recovering(e))
    BY DEF Closed, Sound, Endpoint, EndpointRecord
  <1>2. Process_Reliability(e, expired) = Give_Up(q)
    BY <1>1 DEF Process_Reliability, Output_Coherent
  <1>3. q \in S
    <2>1. CASE e.out.rel.state = "AWAITING_ACK" /\ expired
      <3>1. o = RetryOrExhaust(e.out)
        BY <2>1 DEF Reliability_Process_Pending
      <3>2. /\ Output_Coherent(o, Recovering(e)) /\ o.rel.frame = e.out.rel.frame
            /\ o.ctl = e.out.ctl /\ o.resetId = e.out.resetId
        BY <1>1, <2>1, <3>1, RetryCoherent
      <3>3. o \in OutputRecord({0}) /\ o.nextTx = e.out.nextTx
        BY <1>1, <3>1, RetryType DEF RetryOrExhaust, OutputRecord
      <3> HIDE DEF o
      <3>4. Sound(q)
        BY <1>1, <3>2, <3>3, OutputSound
      <3> QED BY <3>2, <3>3, <3>4, StayingOutput
    <2>2. CASE ~ (e.out.rel.state = "AWAITING_ACK" /\ expired)
      <3>1. q = e
        BY <1>1, <2>2 DEF Reliability_Process_Pending, Endpoint, EndpointRecord
      <3> HIDE DEF q
      <3> QED BY <3>1
    <2> QED BY <2>1, <2>2
  <1> HIDE DEF q
  <1> QED BY <1>2, <1>3, MovingGivenUp

\* The session part of Process.
LEMMA MovingSession ==
    ASSUME NEW S, NEW input, Closed(S, input), NEW e \in S, ~ e.errPending,
           NEW expired \in BOOLEAN
    PROVE  Process_Session(e, expired).e \in S
  <1> DEFINE a == Process_Recovery(e)
             b == Then_Handshake(a)
             c == Then_Reliability(b, expired)
  <1>1. CASE StillRecovering(e)
    BY <1>1 DEF Process_Session, Result
  <1>2. CASE ~ StillRecovering(e)
    <2>1. a.e \in S
      <3>1. CASE e.state = "RECOVERING"
        <4>1. Drained(e)
          BY <1>2, <3>1, RecoveringDrains DEF StillRecovering, Closed
        <4> QED BY <3>1, <4>1, MovingBegin DEF Process_Recovery
      <3>2. CASE e.state # "RECOVERING"
        BY <3>2 DEF Process_Recovery, Result
      <3> QED BY <3>1, <3>2
    <2> HIDE DEF a
    <2>2. b.e \in S
      BY <2>1, MovingShaking DEF Then_Handshake
    <2> HIDE DEF b
    <2>3. c.e \in S
      BY <2>2, MovingRetry DEF Then_Reliability
    <2>4. Process_Session(e, expired) = c
      BY <1>2 DEF Process_Session, a, b
    <2> QED BY <2>3, <2>4
  <1> QED BY <1>1, <1>2

\* A whole call of Process is a sequence of moves.
LEMMA MovingProcess ==
    ASSUME NEW S, Closed(S, NoInput), NEW e \in S, HeldOK(e), NEW expired \in BOOLEAN
    PROVE  Profile_Process(e, expired).e \in S
  <1> DEFINE a == Process_Receive(e)
  <1>0. Sound(e) /\ e.state # "FAULT"
    BY SessionScope DEF Closed
  <1>1. CASE ~ Connected(e)
    BY <1>0, <1>1 DEF Profile_Process, Result
  <1>2. CASE Connected(e)
    <2>1. Profile_Process(e, expired) = Then_Session(a, expired)
      BY <1>0, <1>2 DEF Profile_Process
    <2>2. a.e \in S /\ (a.s = "OK" => ~ a.e.errPending)
      <3>1. CASE e.errPending \/ e.parser.state = "READY"
        <4>1. a = Receive_Bytes(e, NoInput)
          BY <3>1 DEF Process_Receive
        <4>2. NoInput \in AnyInput
          BY DEF AnyInput
        <4> QED BY <1>0, <4>1, <4>2, Receiving, MovingReceive
      <3>2. CASE ~ (e.errPending \/ e.parser.state = "READY")
        BY <3>2 DEF Process_Receive, Result
      <3> QED BY <3>1, <3>2
    <2> HIDE DEF a
    <2> QED BY <2>1, <2>2, MovingSession DEF Then_Session
  <1> QED BY <1>1, <1>2

=============================================================================
