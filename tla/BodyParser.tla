----------------------------- MODULE BodyParser -----------------------------
(***************************************************************************)
(* The bounded accumulator that cuts the received byte stream into bodies  *)
(* at its zero bytes: a buffer, a flag that a body is complete and unread, *)
(* and a flag that the current body was too long and is being skipped.     *)
(* A call is an operator from the parser to the parser and a result.       *)
(***************************************************************************)
EXTENDS Naturals, Sequences

Delimiter == 0

Parser_Init(size) ==
    [capacity |-> size, body |-> <<>>, ready |-> FALSE, discarding |-> FALSE]

Parser_Reset(p) == [p EXCEPT !.body = <<>>, !.ready = FALSE, !.discarding = FALSE]

State_Is_Valid(p) ==
    /\ Len(p.body) <= p.capacity
    /\ ~ (p.ready /\ p.discarding)
    /\ ~ (p.ready /\ p.body = <<>>)
    /\ ~ (p.discarding /\ p.body # <<>>)

Pushed(p, result) == [p |-> p, result |-> result]

\* Broken variant: a body may exceed the buffer by one byte.
Push_Nonzero_beyond(p, b) ==
    IF Len(p.body) > p.capacity
    THEN Pushed([p EXCEPT !.body = <<>>, !.discarding = TRUE], "DISCARDING")
    ELSE Pushed([p EXCEPT !.body = Append(@, b)], "NEED_MORE_DATA")

Push_Nonzero(p, b) ==
    IF Len(p.body) = p.capacity
    THEN Pushed([p EXCEPT !.body = <<>>, !.discarding = TRUE], "DISCARDING")
    ELSE Pushed([p EXCEPT !.body = Append(@, b)], "NEED_MORE_DATA")

Push_Delimiter(p) ==
    IF p.body = <<>> THEN Pushed(p, "NEED_MORE_DATA")
    ELSE Pushed([p EXCEPT !.ready = TRUE], "BODY_READY")

Push_Discarded(p, b) ==
    IF b = Delimiter THEN Pushed([p EXCEPT !.discarding = FALSE], "DISCARDED_BODY")
    ELSE Pushed(p, "DISCARDING")

Push_Byte(p, b) ==
    IF ~ State_Is_Valid(p) THEN Pushed(p, "ERROR")
    ELSE IF p.ready THEN Pushed(p, "BODY_READY")
    ELSE IF p.discarding THEN Push_Discarded(p, b)
    ELSE IF b = Delimiter THEN Push_Delimiter(p)
    ELSE Push_Nonzero(p, b)

Peek_Status(p) ==
    IF ~ State_Is_Valid(p) THEN "INTERNAL_ERROR"
    ELSE IF p.ready THEN "OK" ELSE "NOT_READY"

\* Broken variant: the consumed bytes stay in front of the next body.
Consumed_uncleared(p) == [p EXCEPT !.ready = FALSE]

Consumed(p) == [p EXCEPT !.ready = FALSE, !.body = <<>>]

Read_Status(p, room) ==
    IF Peek_Status(p) = "OK" /\ room < Len(p.body) THEN "BUFFER_TOO_SMALL"
    ELSE Peek_Status(p)
=============================================================================
