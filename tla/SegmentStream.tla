---------------------------- MODULE SegmentStream ----------------------------
(***************************************************************************)
(* What the stream parser promises to its caller.  The nonzero bytes       *)
(* between two zeros are a segment.  Every segment that is not empty is    *)
(* answered at its end: it is held out to be read, whole, if it fits, and  *)
(* reported as discarded if it does not; and while one is unread no byte   *)
(* is accepted.                                                            *)
(***************************************************************************)
EXTENDS Naturals, Sequences

CONSTANTS
    NonzeroBytes,   \* the values a byte may have, besides the delimiter
    Capacity        \* the longest segment that is kept

VARIABLES
    segment,   \* the bytes since the last delimiter
    unread,    \* the segment held out to the reader, or <<>>
    taken,     \* what the reader was given last
    told       \* the answer to the last call

vars == <<segment, unread, taken, told>>

Init == segment = <<>> /\ unread = <<>> /\ taken = <<>> /\ told = "NONE"

\* A byte of the segment: once it is too long it will not be kept.
Extend ==
    /\ unread = <<>>
    /\ \E b \in NonzeroBytes : segment' = Append(segment, b)
    /\ told' = IF Len(segment') > Capacity THEN "DISCARDING" ELSE "NEED_MORE_DATA"
    /\ UNCHANGED <<unread, taken>>

\* The delimiter answers the segment before it.
End ==
    /\ unread = <<>>
    /\ segment' = <<>> /\ UNCHANGED taken
    /\ \/ segment = <<>> /\ told' = "NEED_MORE_DATA" /\ UNCHANGED unread
       \/ Len(segment) \in 1 .. Capacity /\ told' = "BODY_READY" /\ unread' = segment
       \/ Len(segment) > Capacity /\ told' = "DISCARDED_BODY" /\ UNCHANGED unread

\* Bytes are refused, and reading is, when it is not their turn.
Refuse ==
    /\ told' = IF unread # <<>> THEN "BODY_READY" ELSE "NOT_READY"
    /\ UNCHANGED <<segment, unread, taken>>

\* A reader without room for the whole segment is given nothing of it.
RefuseRoom ==
    /\ unread # <<>> /\ told' = "BUFFER_TOO_SMALL"
    /\ UNCHANGED <<segment, unread, taken>>

\* The segment is read, or dropped unread.
Take ==
    /\ unread # <<>> /\ unread' = <<>>
    /\ taken' \in {taken, unread}
    /\ told' = "OK" /\ UNCHANGED segment

Restart == segment' = <<>> /\ unread' = <<>> /\ told' = "NONE" /\ UNCHANGED taken

Next == Extend \/ End \/ Refuse \/ RefuseRoom \/ Take \/ Restart

Spec == Init /\ [][Next]_vars

=============================================================================
