---------------------------- MODULE StreamParser ----------------------------
(***************************************************************************)
(* The stream parser on its own: every order of its calls, one action for  *)
(* each, with any bytes.                                                   *)
(***************************************************************************)
EXTENDS BodyParser

CONSTANTS
    NonzeroBytes,   \* the values a byte may have, besides the delimiter
    Capacity,       \* scratch_buffer_size
    MaxSegment      \* bound: the most bytes offered between two delimiters

ASSUME ParserAssumption ==
    /\ Delimiter \notin NonzeroBytes
    /\ Capacity \in Nat \ {0}
    /\ MaxSegment \in Nat

Bytes == NonzeroBytes \cup {Delimiter}

VARIABLES
    parser,    \* the parser: accumulated bytes, body_ready, discarding
    told,      \* what the last call returned
    taken,     \* the bytes Read_Body copied out, last
    segment    \* history: the nonzero bytes accepted since the last delimiter

vars == <<parser, told, taken, segment>>

-----------------------------------------------------------------------------
(* Calls *)

Init ==
    /\ parser = Parser_Init(Capacity)
    /\ told = "NONE" /\ taken = <<>> /\ segment = <<>>

\* What was accepted is history: nothing while a body is unread.
PushByte(b) ==
    LET r == Push_Byte(parser, b)
    IN  /\ b = Delimiter \/ Len(segment) < MaxSegment
        /\ parser' = r.p /\ told' = r.result
        /\ segment' = IF parser.ready THEN segment
                      ELSE IF b = Delimiter THEN <<>> ELSE Append(segment, b)
        /\ UNCHANGED taken

ConsumeBody ==
    /\ told' = Peek_Status(parser)
    /\ parser' = IF Peek_Status(parser) = "OK" THEN Consumed(parser) ELSE parser
    /\ UNCHANGED <<taken, segment>>

ReadBody(room) ==
    LET status == Read_Status(parser, room)
    IN  /\ told' = status
        /\ parser' = IF status = "OK" THEN Consumed(parser) ELSE parser
        /\ taken' = IF status = "OK" THEN parser.body ELSE taken
        /\ UNCHANGED segment

\* The session is given up in the middle of a body: the rest of it starts afresh.
Reset ==
    /\ parser' = Parser_Reset(parser)
    /\ told' = "NONE" /\ segment' = <<>>
    /\ UNCHANGED taken

Next ==
    \/ \E b \in Bytes : PushByte(b)
    \/ ConsumeBody
    \/ \E room \in 0 .. Capacity : ReadBody(room)
    \/ Reset

Spec == Init /\ [][Next]_vars

-----------------------------------------------------------------------------
(* Type invariant and properties *)

Bodies == Seq(NonzeroBytes)

\* The buffer is never written beyond its end.
TypeOK ==
    /\ parser \in [capacity : {Capacity}, body : Bodies, ready : BOOLEAN, discarding : BOOLEAN]
    /\ Len(parser.body) <= Capacity
    /\ taken \in Bodies /\ segment \in Bodies

\* No order of calls reaches a state the parser's own validation refuses, which would
\* fault the endpoint.
NeverError == told \notin {"ERROR", "INTERNAL_ERROR"}

\* The parser keeps its promise although it forgets the bytes of a body that is too long:
\* a segment that fits is read whole, as it was when it ended, one that does not is
\* reported once, and the first byte after it opens the next.
Unread == IF parser.ready THEN parser.body ELSE <<>>
Promise == INSTANCE SegmentStream WITH unread <- Unread
ImplementsSegmentStream == Promise!Spec
=============================================================================
