------------------------- MODULE TransportHandshake -------------------------
(***************************************************************************)
(* The INITIATE / RESPONSE / CONFIRM / ACK handshake and RESET             *)
(* (transport_handshake_mvp.c).  Every handler takes an endpoint and a     *)
(* valid frame and returns the endpoint and one of the classifications     *)
(* ACCEPTED, DUPLICATE, STALE, INCOMPATIBLE, or the statuses               *)
(* CAPACITY_EXHAUSTED (keep the frame and try again) and INTERNAL_ERROR.   *)
(***************************************************************************)
EXTENDS TransportSession

\* Publishing a reliable frame needs an idle slot; its sequence is reserved, not consumed.
Handshake_Publish_Reliable(e, type, ack, next) ==
    LET frame == MakeFrame(type, e.id, e.out.nextTx, ack, NoMessage)
    IN  IF Reliability_CanPublish(e.out, frame)
        THEN Result([e EXCEPT !.out = Reliability_Publish(@, frame), !.phase = next], "OK")
        ELSE Result(e, "NOT_READY")

AckFrame(e, seq) == MakeFrame("ACK", e.id, 0, seq, NoMessage)
ResetFrame(id) == MakeFrame("RESET", id, 0, 0, NoMessage)

\* A different control item in the slot means: retry after the next commit.
CanAcknowledge(e, seq) == Control_Accepts(e.out, AckFrame(e, seq))
Publish_Acknowledgement(e, seq) == [e EXCEPT !.out = Control_Publish(@, AckFrame(e, seq))]

\* Publish_Reset followed by its callers' setting of the recovery barrier.
Publish_Recovery_Reset(e, id) ==
    [e EXCEPT !.out = [Control_Publish(@, ResetFrame(id)) EXCEPT !.resetId = id]]

Handshake_Set_Established(e) == [e EXCEPT !.state = "ESTABLISHED", !.phase = "ESTABLISHED"]

\* Broken variant: the completed CONFIRM stays in the retained slot.
CompleteKeepingConfirm(e) ==
    Events_Publish([Handshake_Set_Established(e) EXCEPT !.confirm = e.out.rel.frame.seq],
                   "SESSION_ESTABLISHED")

\* The host remembers which CONFIRM was completed, to recognise a repeated final ACK.
Complete_Host(e) ==
    LET seq == e.out.rel.frame.seq
    IN  Events_Publish(
            [Handshake_Set_Established(e) EXCEPT
                !.out = Reliability_Accept_Acknowledgement(@, seq), !.confirm = seq],
            "SESSION_ESTABLISHED")

Is_Exact_Duplicate(e, f) == e.lastRx = [type |-> f.type, seq |-> f.seq, ack |-> f.ack]

Is_Duplicate_Final_Host_Acknowledgement(e, f) ==
    /\ f.type = "ACK" /\ e.role = "HOST" /\ e.state = "ESTABLISHED"
    /\ e.confirm # NoSequence /\ f.id = e.id /\ f.ack = e.confirm

\* An exact ACK of a pinned retry is neither taken nor dropped: it waits for the commit.
Ack_Blocked(e, seq) == e.out.rel.state = "RETRANSMIT_PEEKED" /\ seq = e.out.rel.frame.seq

Classify_Acknowledgement(e, f, type) ==
    IF e.out.rel.frame.type # type THEN "UNEXPECTED"
    ELSE IF Ack_Matches(e.out, f.ack) THEN "MATCHED"
    ELSE IF Ack_Blocked(e, f.ack) THEN "BLOCKED"
    ELSE "UNEXPECTED"

\* A repeated peer frame asks for the answer again, unless it was acknowledged already.
Repeat_Answer(e, type) ==
    IF e.out.rel.state # "IDLE" /\ Retransmission_Mismatch(e.out, type)
    THEN Result([e EXCEPT !.state = "FAULT"], "INTERNAL_ERROR")
    ELSE Result([e EXCEPT !.out = Reliability_Request_Retransmission(@)], "DUPLICATE")

\* What every reliable handshake frame does when it is not the next expected one: a
\* repetition is answered while phases says that the answer may still be wanted.
Not_Expected(e, f, phases, type) ==
    LET class == Session_Classify_Sequence(e, f.seq)
    IN  IF class = "DUPLICATE" /\ Is_Exact_Duplicate(e, f)
        THEN IF e.phase \in phases THEN Repeat_Answer(e, type) ELSE Result(e, "STALE")
        ELSE Result(e, IF class = "STALE" THEN "STALE" ELSE "INCOMPATIBLE")

-----------------------------------------------------------------------------
(* Host *)

\* Broken variant: the host believes in the session before the rig has confirmed it.
EstablishOnResponse(e, f) ==
    IF f.id # e.id THEN Result(e, "INCOMPATIBLE")
    ELSE IF e.phase # "WAITING_FOR_RESPONSE" \/ ~ Ack_Matches(e.out, f.ack)
         THEN Result(e, "STALE")
    ELSE Result(Complete_Host(Accept_Frame(e, f)), "ACCEPTED")

Handle_Host_Response(e, f) ==
    LET ack == Classify_Acknowledgement(e, f, "INITIATE")
        accepted == [Accept_Frame(e, f) EXCEPT
                        !.out = Reliability_Accept_Acknowledgement(@, f.ack),
                        !.phase = "CONFIRM_PENDING"]
    IN  IF f.id # e.id THEN Result(e, "INCOMPATIBLE")
        ELSE IF Session_Classify_Sequence(e, f.seq) # "EXPECTED"
             THEN Not_Expected(e, f, {"CONFIRM_PENDING", "WAITING_FOR_CONFIRM_ACK"}, "CONFIRM")
        ELSE IF e.phase # "WAITING_FOR_RESPONSE" THEN Result(e, "STALE")
        ELSE IF ack = "BLOCKED" THEN Result(e, "CAPACITY_EXHAUSTED")
        ELSE IF ack = "UNEXPECTED" THEN Result(e, "INCOMPATIBLE")
        ELSE Result(accepted, "ACCEPTED")

Handle_Host_Ack(e, f) ==
    LET ack == Classify_Acknowledgement(e, f, "CONFIRM")
    IN  IF f.id # e.id THEN Result(e, "INCOMPATIBLE")
        ELSE IF e.phase # "WAITING_FOR_CONFIRM_ACK" \/ ack = "UNEXPECTED"
             THEN Result(e, "STALE")
        ELSE IF ack = "BLOCKED" \/ EventsFull(e) THEN Result(e, "CAPACITY_EXHAUSTED")
        ELSE Result(Complete_Host(e), "ACCEPTED")

\* The rig may send application data although its final ACK was lost: the exact next
\* sequence proves that it accepted the CONFIRM.
Try_Complete_Host_From_Application(e, f) ==
    IF e.role # "HOST" \/ e.state # "CONNECTING" \/ e.phase # "WAITING_FOR_CONFIRM_ACK"
    THEN Result(e, "NOT_APPLICABLE")
    ELSE IF f.id # e.id \/ Session_Classify_Sequence(e, f.seq) # "EXPECTED"
         THEN Result(e, "INCOMPATIBLE")
    ELSE IF e.out.rel.frame.type # "CONFIRM"
         THEN Result([e EXCEPT !.state = "FAULT"], "INTERNAL_ERROR")
    ELSE IF ReliablePeeked(e.out) THEN Result(e, "CAPACITY_EXHAUSTED")
    ELSE IF e.out.rel.state \notin {"AWAITING_ACK", "RETRANSMIT_READY"}
         THEN Result(e, "INCOMPATIBLE")
    ELSE IF EventsFull(e) THEN Result(e, "CAPACITY_EXHAUSTED")
    ELSE Result(Complete_Host(e), "ACCEPTED")

-----------------------------------------------------------------------------
(* Rig *)

Handle_Rig_Initiate(e, f) ==
    LET adopted == [Accept_Frame(e, f) EXCEPT !.id = f.id, !.phase = "RESPONSE_PENDING"]
    IN  IF f.id = ReservedSession \/ (e.id # NoSession /\ f.id # e.id)
        THEN Result(e, "INCOMPATIBLE")
        ELSE IF Session_Classify_Sequence(e, f.seq) # "EXPECTED"
             THEN Not_Expected(e, f, {"RESPONSE_PENDING", "WAITING_FOR_CONFIRM"}, "RESPONSE")
        ELSE IF ~ Connected(e) \/ e.state # "CONNECTING" \/ e.phase # "WAITING_FOR_INITIATE"
             THEN Result(e, "STALE")
        ELSE Result(adopted, "ACCEPTED")

\* Every resource is checked, then the ACK is owned, then the session is established.
Confirm_Accepted(e, f) ==
    Events_Publish(
        Handshake_Set_Established(
            [Accept_Frame(Publish_Acknowledgement(e, f.seq), f) EXCEPT
                !.out = Reliability_Accept_Acknowledgement(@, f.ack)]),
        "SESSION_ESTABLISHED")

\* A repeated CONFIRM is acknowledged again: the host's loss of the ACK must not strand it.
Repeated_Confirm(e, f) ==
    IF ~ Is_Exact_Duplicate(e, f) THEN Result(e, "INCOMPATIBLE")
    ELSE IF e.phase # "ESTABLISHED" THEN Result(e, "STALE")
    ELSE IF ~ CanAcknowledge(e, f.seq) THEN Result(e, "CAPACITY_EXHAUSTED")
    ELSE Result(Publish_Acknowledgement(e, f.seq), "DUPLICATE")

Handle_Rig_Confirm(e, f) ==
    LET class == Session_Classify_Sequence(e, f.seq)
        ack == Classify_Acknowledgement(e, f, "RESPONSE")
    IN  IF f.id # e.id \/ class = "INCOMPATIBLE" THEN Result(e, "INCOMPATIBLE")
        ELSE IF class = "DUPLICATE" THEN Repeated_Confirm(e, f)
        ELSE IF class = "STALE" \/ e.phase # "WAITING_FOR_CONFIRM" THEN Result(e, "STALE")
        ELSE IF ack = "UNEXPECTED" THEN Result(e, "INCOMPATIBLE")
        ELSE IF ack = "BLOCKED" \/ EventsFull(e) \/ ~ CanAcknowledge(e, f.seq)
             THEN Result(e, "CAPACITY_EXHAUSTED")
        ELSE Result(Confirm_Accepted(e, f), "ACCEPTED")

-----------------------------------------------------------------------------
(* Both roles *)

\* The peer's RESET ends the session and, on a connected link, starts the next attempt in
\* the same call, so that an INITIATE right behind it is not stale.
Reset_Accepted(left, begun) ==
    IF begun.s # "OK" THEN begun
    ELSE Result(begun.e, IF left.s = "OK" THEN "ACCEPTED" ELSE left.s)

Begin_Replacement(left) ==
    IF left.s = "INTERNAL_ERROR" THEN left
    ELSE Reset_Accepted(left, IF Connected(left.e) THEN Begin_Establishment(left.e)
                                                   ELSE Result(left.e, "OK"))

Handle_Reset(e, f) ==
    IF f.id = ReservedSession THEN Result(e, "INCOMPATIBLE")
    ELSE IF e.id = NoSession THEN Result(e, "STALE")
    ELSE IF f.id # e.id THEN Result(e, "INCOMPATIBLE")
    ELSE Begin_Replacement(Abandon(e))

Handshake_Handle_Frame(e, f) ==
    IF ~ Completed_Confirm_Valid(e) THEN Result([e EXCEPT !.state = "FAULT"], "INTERNAL_ERROR")
    ELSE IF f.type = "RESET" THEN Handle_Reset(e, f)
    ELSE IF e.role = "HOST" /\ f.type = "RESPONSE" THEN Handle_Host_Response(e, f)
    ELSE IF e.role = "HOST" /\ f.type = "ACK" THEN Handle_Host_Ack(e, f)
    ELSE IF e.role = "RIG" /\ f.type = "INITIATE" THEN Handle_Rig_Initiate(e, f)
    ELSE IF e.role = "RIG" /\ f.type = "CONFIRM" THEN Handle_Rig_Confirm(e, f)
    ELSE Result(e, "INCOMPATIBLE")

\* The pending phases publish their frame on the next Process.
Handshake_Process(e) ==
    CASE e.phase = "INITIATE_PENDING" ->
            Handshake_Publish_Reliable(e, "INITIATE", 0, "WAITING_FOR_RESPONSE")
      [] e.phase = "RESPONSE_PENDING" ->
            Handshake_Publish_Reliable(e, "RESPONSE", e.lastRx.seq, "WAITING_FOR_CONFIRM")
      [] e.phase = "CONFIRM_PENDING" ->
            Handshake_Publish_Reliable(e, "CONFIRM", e.lastRx.seq, "WAITING_FOR_CONFIRM_ACK")
      [] OTHER -> Result(e, "OK")

\* A failure detected here is announced: the RESET of the failed session is owed to the
\* peer even when the event that reports it is not.
Announced(e, left) ==
    IF left.s = "INTERNAL_ERROR" \/ ~ Connected(e) \/ e.id = NoSession
    THEN left
    ELSE Result(Publish_Recovery_Reset(left.e, e.id), left.s)

Begin_Local_Recovery(e) == Announced(e, Abandon(e))

=============================================================================
