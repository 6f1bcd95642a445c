-------------------------- MODULE TransportReceive --------------------------
(***************************************************************************)
(* Application messages (transport_application_mvp.c) and the receive      *)
(* coordinator (transport_receive_mvp.c) with the parser it drives         *)
(* (transport_parser.c).                                                   *)
(*                                                                         *)
(* A dispatch returns [e, s, action]: action says what happens to the body *)
(* in the parser: CONSUME it, RETAIN it until the caller tries again, or   *)
(* RELEASED, when abandoning the session already cleared it.               *)
(***************************************************************************)
EXTENDS TransportHandshake

Is_Established(e) == e.state = "ESTABLISHED" /\ e.phase = "ESTABLISHED" /\ e.id # NoSession

-----------------------------------------------------------------------------
(* Application messages *)

\* One message at a time; its acceptance is the caller's only guarantee until an event.
Application_CanSubmit(e) ==
    /\ Is_Established(e)
    /\ e.submitted = NoMessage
    /\ e.out.rel.state = "IDLE"

Application_Submit(e, m) ==
    LET frame == MakeFrame("APPLICATION", e.id, e.out.nextTx, 0, m)
    IN  [e EXCEPT !.out = Reliability_Publish(@, frame), !.submitted = m]

\* Broken variant: a delivery is confirmed without a place for its event.
ConfirmDeliveryUnchecked(e, f) ==
    IF Ack_Matches(e.out, f.ack)
    THEN Result(Events_Publish([e EXCEPT !.out = Reliability_Accept_Acknowledgement(@, f.ack),
                                         !.submitted = NoMessage], "DELIVERY_CONFIRMED"),
                "ACCEPTED")
    ELSE Result(e, "STALE")

Application_Handle_Acknowledgement(e, f) ==
    LET confirmed == [e EXCEPT !.out = Reliability_Accept_Acknowledgement(@, f.ack),
                               !.submitted = NoMessage]
    IN  IF e.submitted = NoMessage \/ ~ Is_Established(e)
        THEN Result([e EXCEPT !.state = "FAULT"], "INTERNAL_ERROR")
        ELSE IF f.id # e.id THEN Result(e, "INCOMPATIBLE")
        ELSE IF Ack_Blocked(e, f.ack) THEN Result(e, "CAPACITY_EXHAUSTED")
        ELSE IF ~ Ack_Matches(e.out, f.ack) THEN Result(e, "STALE")
        ELSE IF EventsFull(e) THEN Result(e, "CAPACITY_EXHAUSTED")
        ELSE Result(Events_Publish(confirmed, "DELIVERY_CONFIRMED"), "ACCEPTED")

\* Broken variant: the ACK is published before there is room for the message.
AcknowledgeBeforeRoom(e, f) ==
    LET class == Session_Classify_Sequence(e, f.seq)
        acked == Publish_Acknowledgement(e, f.seq)
    IN  IF ~ Is_Established(e) \/ f.id # e.id \/ class \in {"STALE", "INCOMPATIBLE"}
        THEN Result(e, "INCOMPATIBLE")
        ELSE IF ~ CanAcknowledge(e, f.seq) THEN Result(e, "CAPACITY_EXHAUSTED")
        ELSE IF class = "DUPLICATE" THEN Result(acked, "DUPLICATE")
        ELSE IF e.received # NoMessage THEN Result(acked, "CAPACITY_EXHAUSTED")
        ELSE Result([Accept_Frame(acked, f) EXCEPT !.received = f.msg], "ACCEPTED")

\* Broken variant: the next message replaces one that was not read yet.
AcceptOverUnread(e, f) ==
    LET class == Session_Classify_Sequence(e, f.seq)
        acked == Publish_Acknowledgement(e, f.seq)
    IN  IF ~ Is_Established(e) \/ f.id # e.id \/ class # "EXPECTED"
        THEN Result(e, "INCOMPATIBLE")
        ELSE IF ~ CanAcknowledge(e, f.seq) THEN Result(e, "CAPACITY_EXHAUSTED")
        ELSE Result([Accept_Frame(acked, f) EXCEPT !.received = f.msg], "ACCEPTED")

\* A message is accepted, acknowledged and made readable in one step or not at all.
Application_Handle_Received_Frame(e, f) ==
    LET class == Session_Classify_Sequence(e, f.seq)
        acked == Publish_Acknowledgement(e, f.seq)
    IN  IF ~ Is_Established(e) \/ f.id # e.id \/ class \in {"STALE", "INCOMPATIBLE"}
            \/ (class = "DUPLICATE" /\ e.lastRx.type # "APPLICATION")
        THEN Result(e, "INCOMPATIBLE")
        ELSE IF (class = "EXPECTED" /\ e.received # NoMessage) \/ ~ CanAcknowledge(e, f.seq)
             THEN Result(e, "CAPACITY_EXHAUSTED")
        ELSE IF class = "DUPLICATE" THEN Result(acked, "DUPLICATE")
        ELSE Result([Accept_Frame(acked, f) EXCEPT !.received = f.msg], "ACCEPTED")

Application_CanRead(e) == e.received # NoMessage /\ Is_Established(e)
Application_Read(e) == [e EXCEPT !.received = NoMessage]

\* Giving up a message is reported before the session is; without room it is tried again.
Delivery_Failed(left) ==
    Result(left.e, IF left.s = "INTERNAL_ERROR" THEN left.s ELSE "DELIVERY_FAILED")

Application_Handle_Retry_Exhaustion(e) ==
    IF e.submitted = NoMessage THEN Result([e EXCEPT !.state = "FAULT"], "INTERNAL_ERROR")
    ELSE IF EventsFull(e) THEN Result(e, "CAPACITY_EXHAUSTED")
    ELSE Delivery_Failed(Begin_Local_Recovery(Events_Publish(e, "DELIVERY_FAILED")))

-----------------------------------------------------------------------------
(* What becomes of a rejected body *)

Outcome(e, s, action) == [e |-> e, s |-> s, action |-> action]
Receive_Fault(e) == Outcome(Enter_Fault(e), "INTERNAL_ERROR", "RELEASED")

EventStatus(e) == IF EventsFull(e) THEN "CAPACITY_EXHAUSTED" ELSE "OK"

\* A body of the current session waits until its diagnostic can be reported.
Reject_Retained_Body(e) ==
    Outcome(Events_Publish(e, "PROTOCOL_ERROR"), EventStatus(e),
            IF EventsFull(e) THEN "RETAIN" ELSE "CONSUME")

\* A body of a dead session never waits, or it would be read again in the next one: only
\* the diagnostic is owed.
Reject_Obsolete_Body(e) ==
    Outcome([Events_Publish(e, "PROTOCOL_ERROR") EXCEPT !.errPending = EventsFull(e)],
            EventStatus(e), "CONSUME")

Abandoned(r, unreported) ==
    IF r.s = "INTERNAL_ERROR" THEN Receive_Fault(r.e)
    ELSE Outcome([r.e EXCEPT !.errPending = unreported], r.s, "RELEASED")

Abandon_Incompatible_Session(e) ==
    IF e.out.resetId = NoSession
    THEN Abandoned(Begin_Local_Recovery(Events_Publish(e, "PROTOCOL_ERROR")), EventsFull(e))
    ELSE IF e.state = "RECOVERING" /\ Connected(e) /\ ControlPending(e.out)
         THEN Reject_Obsolete_Body(e)
    ELSE Receive_Fault(Events_Publish(e, "PROTOCOL_ERROR"))

-----------------------------------------------------------------------------
(* Dispatch *)

\* Broken variant: an endpoint between two sessions does not recognise stale frames.
AbandonedOnlyWhenBound(e, f) ==
    e.id # NoSession /\ e.abandoned # NoSession /\ f.id = e.abandoned /\ f.id # e.id

Is_Recently_Abandoned(e, f) == e.abandoned # NoSession /\ f.id = e.abandoned /\ f.id # e.id

Rig_Is_Waiting_Unbound(e) ==
    /\ e.role = "RIG" /\ e.state = "CONNECTING"
    /\ e.phase = "WAITING_FOR_INITIATE" /\ e.id = NoSession

\* What a handler's classification means for the body.
Dispose(r) ==
    LET held == r.e.parser.state = "READY"
    IN  CASE r.s = "CAPACITY_EXHAUSTED" ->
                Outcome(r.e, r.s, IF held THEN "RETAIN" ELSE "RELEASED")
          [] r.s \in {"ACCEPTED", "DUPLICATE"} ->
                Outcome(r.e, "OK", IF held THEN "CONSUME" ELSE "RELEASED")
          [] r.s = "STALE" -> Reject_Retained_Body(r.e)
          [] r.s = "INCOMPATIBLE" -> Abandon_Incompatible_Session(r.e)
          [] OTHER -> Receive_Fault(r.e)

Dispatch_Acknowledgement(e, f) ==
    IF e.out.rel.frame.type = "APPLICATION"
    THEN Dispose(Application_Handle_Acknowledgement(e, f))
    ELSE IF e.state # "ESTABLISHED" THEN Dispose(Handshake_Handle_Frame(e, f))
    ELSE IF Is_Duplicate_Final_Host_Acknowledgement(e, f) THEN Outcome(e, "OK", "CONSUME")
    ELSE Reject_Retained_Body(e)

Accept_Proved(completed, f) ==
    IF completed.s \in {"ACCEPTED", "NOT_APPLICABLE"}
    THEN Application_Handle_Received_Frame(completed.e, f)
    ELSE completed

Dispatch_Application(e, f) ==
    Dispose(Accept_Proved(Try_Complete_Host_From_Application(e, f), f))

Dispatch_Frame(e, f) ==
    IF \/ Is_Recently_Abandoned(e, f)
       \/ Rig_Is_Waiting_Unbound(e) /\ f.type # "INITIATE"
    THEN Reject_Obsolete_Body(e)
    ELSE IF e.id # NoSession /\ f.id # e.id THEN Abandon_Incompatible_Session(e)
    ELSE CASE f.type = "ACK"         -> Dispatch_Acknowledgement(e, f)
           [] f.type = "APPLICATION" -> Dispatch_Application(e, f)
           [] OTHER                  -> Dispose(Handshake_Handle_Frame(e, f))

Decode_Retained_Body(e) ==
    LET body == e.parser.body
    IN  IF body \notin {MalformedBody, OtherVersionBody} THEN Dispatch_Frame(e, body)
        ELSE IF body = OtherVersionBody /\ e.id # NoSession
             THEN Abandon_Incompatible_Session(e)
        ELSE Reject_Retained_Body(e)

Settle(o) ==
    Result(IF o.action = "CONSUME" THEN [o.e EXCEPT !.parser = EmptyParser] ELSE o.e, o.s)

Process_Retained_Body(e) == Settle(Decode_Retained_Body(e))

-----------------------------------------------------------------------------
(* Receive_Bytes *)

\* The new attempt starts once the RESET is out and nothing of the old session is left.
Try_Advance_Recovery(e) ==
    IF \/ e.state # "RECOVERING"
       \/ e.out.resetId # NoSession \/ ControlPending(e.out) \/ e.out.sel # "NONE"
       \/ e.errPending \/ e.parser.state # "EMPTY"
    THEN Result(e, "OK")
    ELSE Begin_Establishment(e)

Process_Pending_Error(e) ==
    IF ~ e.errPending THEN Result(e, "OK")
    ELSE Result([Events_Publish(e, "PROTOCOL_ERROR") EXCEPT !.errPending = EventsFull(e)],
                EventStatus(e))

Process_Held(e) == IF e.parser.state = "READY" THEN Process_Retained_Body(e) ELSE Result(e, "OK")

\* Parser_Push_Bytes.  An input is bytes without a delimiter, few (PARTIAL) or too many
\* (OVERFLOW), or bytes that end with the delimiter of a body.
PartialInput == [NoFrame EXCEPT !.type = "PARTIAL"]
OverflowInput == [NoFrame EXCEPT !.type = "OVERFLOW"]
NoInput == NoFrame

Push_Bytes(e, input) ==
    CASE input = PartialInput /\ e.parser.state # "DISCARDING" ->
            Result([e EXCEPT !.parser.state = "PARTIAL"], "OK")
      [] input = OverflowInput -> Result([e EXCEPT !.parser.state = "DISCARDING"], "OK")
      [] input \in Bodies /\ e.parser.state # "DISCARDING" ->
            Process_Retained_Body([e EXCEPT !.parser = [state |-> "READY", body |-> input]])
      [] input \in Bodies /\ e.parser.state = "DISCARDING" ->
            Process_Pending_Error([e EXCEPT !.parser = EmptyParser, !.errPending = TRUE])
      [] OTHER -> Result(e, "OK")

Receive_Valid(e) ==
    Completed_Confirm_Valid(e) /\ (e.errPending => e.parser.state = "EMPTY")

\* The stages of one call: each runs only after the one before it ended OK.
After_Error(r) == IF r.s = "OK" THEN Process_Held(r.e) ELSE r
Then_Advance(r) == IF r.s = "OK" THEN Try_Advance_Recovery(r.e) ELSE r
Then_Push(r, input) == IF r.s = "OK" THEN Push_Bytes(r.e, input) ELSE r

Receive_Start(e) == Then_Advance(After_Error(Process_Pending_Error(e)))

\* The bytes are taken (bytes_consumed) only when nothing held back is still in the way.
Receive_Consumes(e) ==
    e.state # "FAULT" /\ Receive_Valid(e) /\ Connected(e) /\ Receive_Start(e).s = "OK"

\* One call with at most one delimiter.  A longer chunk is the same as several calls: the
\* code comes back to this point between bodies.
After_Body(r, input) == IF input \in Bodies THEN Then_Advance(r) ELSE r

Receive_Bytes(e, input) ==
    IF e.state = "FAULT" THEN Result(e, "INTERNAL_ERROR")
    ELSE IF ~ Receive_Valid(e) THEN Result(Enter_Fault(e), "INTERNAL_ERROR")
    ELSE IF ~ Connected(e) THEN Result(e, "NOT_READY")
    ELSE After_Body(Then_Push(Receive_Start(e), input), input)

=============================================================================
