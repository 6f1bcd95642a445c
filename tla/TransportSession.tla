-------------------------- MODULE TransportSession --------------------------
(***************************************************************************)
(* The MVP session coordinator (transport_session_mvp.c) and the bounded   *)
(* event FIFO (transport_events_mvp.c), as operators on the record of one  *)
(* endpoint.                                                               *)
(*                                                                         *)
(* The record is HIL_Transport_Mvp_Root_T.  Fields the code keeps twice    *)
(* (base and session copies) are kept once; link_state and                 *)
(* link_state_observed are the one field link; flags that say that a value *)
(* is present are folded into the value (NoSession, NoSequence, NoMessage, *)
(* NoBaseline, an empty body).  The diagnostic last_failure and the        *)
(* operating mode, which no branch reads, are left out.                    *)
(***************************************************************************)
EXTENDS OutputArbiter, Sequences

CONSTANT EventCapacity   \* HIL_TRANSPORT_MVP_EVENT_QUEUE_CAPACITY

ASSUME EventAssumption == EventCapacity \in Nat \ {0}

Roles == {"HOST", "RIG"}
LinkStates == {"UNOBSERVED", "DISCONNECTED", "CONNECTED"}
SessionStates == {"DISCONNECTED", "CONNECTING", "ESTABLISHED", "RECOVERING", "FAULT"}
HandshakePhases ==
    {"INACTIVE", "WAITING_FOR_INITIATE", "INITIATE_PENDING", "WAITING_FOR_RESPONSE",
     "RESPONSE_PENDING", "WAITING_FOR_CONFIRM", "CONFIRM_PENDING",
     "WAITING_FOR_CONFIRM_ACK", "ESTABLISHED"}
EventTypes ==
    {"LINK_STATE_CHANGED", "SESSION_ESTABLISHED", "SESSION_RESET", "DELIVERY_CONFIRMED",
     "DELIVERY_FAILED", "PROTOCOL_ERROR"}

NoSequence == -1

\* The last accepted reliable frame: its sequence, type and acknowledgement.  The
\* expected sequence is the successor of seq.
NoBaseline == [type |-> "INVALID", seq |-> 0, ack |-> 0]
BaselineRecord ==
    [type : ReliableTypes, seq : Sequences16, ack : Sequences16] \cup {NoBaseline}

\* A body the parser holds is a frame, or bytes that decode to no frame: damaged or too
\* large ones, and those of another protocol version.
MalformedBody == [NoFrame EXCEPT !.type = "MALFORMED"]
OtherVersionBody == [NoFrame EXCEPT !.type = "SESSION_INCOMPATIBLE"]
Bodies == {f \in Frame : ValidFrame(f)} \cup {MalformedBody, OtherVersionBody}

EmptyParser == [state |-> "EMPTY", body |-> NoFrame]
ParserRecord == [state : {"EMPTY", "PARTIAL", "DISCARDING", "READY"}, body : Bodies \cup {NoFrame}]

EndpointRecord(Times) ==
    [role : Roles, link : LinkStates, state : SessionStates, phase : HandshakePhases,
     id : SessionIdsOrNone, nextId : SessionIdsOrNone, abandoned : SessionIdsOrNone,
     out : OutputRecord(Times), lastRx : BaselineRecord,
     confirm : Sequences16 \cup {NoSequence}, parser : ParserRecord, errPending : BOOLEAN,
     submitted : Messages \cup {NoMessage}, received : Messages \cup {NoMessage},
     events : {s \in Seq(EventTypes) : Len(s) <= EventCapacity}]

\* Session_Init, for a host seeded with its first identifier.
InitialEndpoint(role, seed) ==
    [role |-> role, link |-> "UNOBSERVED", state |-> "DISCONNECTED", phase |-> "INACTIVE",
     id |-> NoSession, nextId |-> seed, abandoned |-> NoSession, out |-> InitialOutput,
     lastRx |-> NoBaseline, confirm |-> NoSequence, parser |-> EmptyParser,
     errPending |-> FALSE, submitted |-> NoMessage, received |-> NoMessage, events |-> <<>>]

\* What an operation returns: the endpoint it leaves and its status or classification.
Result(e, s) == [e |-> e, s |-> s]

-----------------------------------------------------------------------------
(* The event FIFO: it refuses when full and never overwrites *)

EventsFull(e) == Len(e.events) >= EventCapacity

\* Broken variant: the newest event replaces the oldest.
EventsOverwrite(e, type) ==
    [e EXCEPT !.events = IF EventsFull(e) THEN Append(Tail(@), type) ELSE Append(@, type)]

Events_Publish(e, type) ==
    IF EventsFull(e) THEN e ELSE [e EXCEPT !.events = Append(@, type)]

-----------------------------------------------------------------------------
(* Session coordinator *)

Connected(e) == e.link = "CONNECTED"

Completed_Confirm_Valid(e) ==
    e.confirm # NoSequence =>
        e.role = "HOST" /\ e.state = "ESTABLISHED" /\ e.phase = "ESTABLISHED" /\ e.id # NoSession

\* Broken variant: the parser keeps a body of the abandoned session.
ClearAllButParser(e) ==
    [e EXCEPT !.out = InitialOutput, !.submitted = NoMessage, !.received = NoMessage,
              !.errPending = FALSE, !.id = NoSession, !.confirm = NoSequence,
              !.phase = "INACTIVE", !.lastRx = NoBaseline]

Clear_Scoped_Work(e) ==
    [e EXCEPT !.out = InitialOutput, !.parser = EmptyParser, !.submitted = NoMessage,
              !.received = NoMessage, !.errPending = FALSE, !.id = NoSession,
              !.confirm = NoSequence, !.phase = "INACTIVE", !.lastRx = NoBaseline]

Enter_Fault(e) == [Clear_Scoped_Work(e) EXCEPT !.state = "FAULT"]

\* No work of an earlier session is left.
FullyCleared(e) ==
    /\ e.phase = "INACTIVE" /\ e.id = NoSession /\ e.confirm = NoSequence
    /\ e.out.rel = IdleReliable /\ e.out.ctl = IdleControl /\ e.out.sel = "NONE"
    /\ e.submitted = NoMessage /\ e.received = NoMessage
    /\ ~ e.errPending /\ e.parser = EmptyParser /\ e.lastRx = NoBaseline

\* Broken variant: the cursor runs into the reserved identifier.
NextSessionIdUnwrapped(id) == id + 1

\* Broken variant: a cursor too narrow for the identifiers starts over early.
NextSessionIdNarrow(id) == IF id = 2 THEN 1 ELSE id + 1

NextSessionId(id) == IF id = ReservedSession - 1 THEN 1 ELSE id + 1

\* A host begins under its next identifier; a rig waits to adopt the host's.
Establishing(e) ==
    IF e.role = "HOST"
    THEN [e EXCEPT !.state = "CONNECTING", !.phase = "INITIATE_PENDING", !.id = e.nextId,
                   !.nextId = NextSessionId(@), !.out.nextTx = InitialSequence]
    ELSE [e EXCEPT !.state = "CONNECTING", !.phase = "WAITING_FOR_INITIATE",
                   !.out.nextTx = InitialSequence]

CursorValid(e) == IF e.role = "HOST" THEN e.nextId \in SessionIds ELSE e.nextId = NoSession

Begin_Establishment(e) ==
    IF ~ Completed_Confirm_Valid(e) THEN Result(Enter_Fault(e), "INTERNAL_ERROR")
    ELSE IF e.state \notin {"DISCONNECTED", "RECOVERING"} \/ ~ Connected(e)
         THEN Result(e, "NOT_READY")
    ELSE IF ~ FullyCleared(e) \/ ~ CursorValid(e)
         THEN Result(Enter_Fault(e), "INTERNAL_ERROR")
    ELSE Result(Establishing(e), "OK")

Unestablished(e) == IF Connected(e) THEN "RECOVERING" ELSE "DISCONNECTED"

\* The abandoned identifier is remembered even when the event finds the FIFO full.
Abandon(e) ==
    LET left == [Clear_Scoped_Work(e) EXCEPT
                    !.abandoned = IF e.id # NoSession THEN e.id ELSE @,
                    !.state = Unestablished(e)]
    IN  IF ~ Completed_Confirm_Valid(e) \/ e.state = "FAULT"
        THEN Result(Enter_Fault(e), "INTERNAL_ERROR")
        ELSE Result(Events_Publish(left, "SESSION_RESET"),
                    IF EventsFull(e) THEN "CAPACITY_EXHAUSTED" ELSE "OK")

\* The application's reset also drops its unread events, and repairs FAULT.
Explicit_Reset(e) ==
    [Clear_Scoped_Work(e) EXCEPT
        !.events = <<>>,
        !.state = IF CursorValid(e) THEN Unestablished(e) ELSE "FAULT"]

\* In FAULT a link change is only recorded; a lost link still releases the session's work.
LinkInFault(e, link) ==
    IF link = "DISCONNECTED"
    THEN [Enter_Fault(e) EXCEPT !.link = link, !.abandoned = NoSession]
    ELSE [e EXCEPT !.link = link]

ForgetAbandoned(r) == Result([r.e EXCEPT !.abandoned = NoSession], r.s)

LinkLost(e) ==
    ForgetAbandoned(
        Abandon(Events_Publish([e EXCEPT !.link = "DISCONNECTED"], "LINK_STATE_CHANGED")))

MustBegin(r) ==
    IF r.s = "NOT_READY" THEN Result(Enter_Fault(r.e), "INTERNAL_ERROR") ELSE r

LinkGained(e) ==
    MustBegin(Begin_Establishment(
        Events_Publish([e EXCEPT !.link = "CONNECTED"], "LINK_STATE_CHANGED")))

LinkChanged(r, full) == Result(r.e, IF r.s = "OK" /\ full THEN "CAPACITY_EXHAUSTED" ELSE r.s)

\* The first observation of a disconnected link is no change; a full FIFO delays nothing.
Session_Notify_Link_State(e, link) ==
    IF e.state = "FAULT" THEN Result(LinkInFault(e, link), "OK")
    ELSE IF e.link = link THEN Result(e, "OK")
    ELSE IF e.link = "UNOBSERVED" /\ link = "DISCONNECTED"
         THEN Result([e EXCEPT !.link = link, !.abandoned = NoSession], "OK")
    ELSE LinkChanged(IF link = "DISCONNECTED" THEN LinkLost(e) ELSE LinkGained(e),
                     EventsFull(e))

-----------------------------------------------------------------------------
(* Sequence discipline *)

\* Broken variant: the sequence last accepted passes for the expected one.
ClassifyRepeatAsExpected(e, seq) ==
    IF e.lastRx = NoBaseline \/ seq \in {e.lastRx.seq, NextSequence(e.lastRx.seq)}
    THEN "EXPECTED" ELSE "INCOMPATIBLE"

Session_Classify_Sequence(e, seq) ==
    LET expected == NextSequence(e.lastRx.seq)
        behind == (seq - expected) % SequenceModulus > SequenceModulus \div 2
    IN  IF e.lastRx = NoBaseline \/ seq = expected THEN "EXPECTED"
        ELSE IF seq = e.lastRx.seq THEN "DUPLICATE"
        ELSE IF behind THEN "STALE"
        ELSE "INCOMPATIBLE"

\* Session_Accept_Sequence and Handshake_Record_Accepted_Frame.
Accept_Frame(e, f) == [e EXCEPT !.lastRx = [type |-> f.type, seq |-> f.seq, ack |-> f.ack]]

=============================================================================
