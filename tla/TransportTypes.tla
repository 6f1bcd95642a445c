--------------------------- MODULE TransportTypes ---------------------------
(***************************************************************************)
(* Vocabulary of the MVP transport profile: roles, frame types, frames,    *)
(* sequence arithmetic and session identifiers.                            *)
(*                                                                         *)
(* A frame is the record of its six header fields and payload.  The bytes  *)
(* on the wire are in one-to-one correspondence with valid frames (COBS    *)
(* and the CRC are lossless or reject), so a queue of bytes is modelled as *)
(* a queue of frames; damage to the bytes is modelled by what decoding     *)
(* then reports.                                                           *)
(***************************************************************************)
EXTENDS Integers, FiniteSets

CONSTANTS
    SequenceModulus,   \* 2^16 in the code: sequences are uint16_t
    InitialSequence,   \* config.initial_reliable_sequence, shared by both ends
    MaxSessionId,      \* HIL_TRANSPORT_SESSION_SEED_RESERVED - 1
    MaxRetries,        \* config.max_retries
    Messages,          \* application payloads
    NoMessage          \* the empty payload

ASSUME SequenceAssumption ==
    /\ SequenceModulus \in Nat
    /\ SequenceModulus >= 4
    /\ SequenceModulus % 2 = 0
    /\ InitialSequence \in 0 .. SequenceModulus - 1

ASSUME IdentifierAssumption == MaxSessionId \in Nat /\ MaxSessionId >= 2

ASSUME RetryAssumption == MaxRetries \in Nat

ASSUME MessageAssumption == NoMessage \notin Messages

Sequences16 == 0 .. SequenceModulus - 1

\* Broken variant: an increment that forgets the width.
NextSequenceUnbounded(s) == s + 1

\* uint16_t increment.
NextSequence(s) == (s + 1) % SequenceModulus

\* Zero is HIL_TRANSPORT_SESSION_SEED_INVALID; the reserved value is above the range.
\* A decoded header is only checked against zero, so the reserved value can arrive.
NoSession == 0
ReservedSession == MaxSessionId + 1
SessionIds == 1 .. MaxSessionId
SessionIdsOrNone == 0 .. MaxSessionId
WireIds == 1 .. ReservedSession

ReliableTypes == {"INITIATE", "RESPONSE", "CONFIRM", "APPLICATION"}
ControlTypes == {"ACK", "RESET"}
FrameTypes == ReliableTypes \cup ControlTypes

Frame ==
    [type : FrameTypes, id : WireIds, seq : Sequences16, ack : Sequences16,
     msg : Messages \cup {NoMessage}]

\* What an absent frame looks like: type HIL_TRANSPORT_MVP_FRAME_INVALID, all zero.
NoFrame == [type |-> "INVALID", id |-> NoSession, seq |-> 0, ack |-> 0, msg |-> NoMessage]

MakeFrame(type, id, seq, ack, msg) ==
    [type |-> type, id |-> id, seq |-> seq, ack |-> ack, msg |-> msg]

\* The header fields each frame type must leave at zero, and the payload only an
\* APPLICATION frame carries.
ValidFrame(f) ==
    /\ f.type \in {"INITIATE", "APPLICATION", "RESET"} => f.ack = 0
    /\ f.type \in {"ACK", "RESET"} => f.seq = 0
    /\ (f.type = "APPLICATION") = (f.msg # NoMessage)

ReliableFrame == {f \in Frame : f.type \in ReliableTypes /\ ValidFrame(f)}
ControlFrame  == {f \in Frame : f.type \in ControlTypes /\ ValidFrame(f)}

=============================================================================
