--------------------------- MODULE OutputArbiter ---------------------------
(***************************************************************************)
(* The output side of one MVP endpoint, as operators on an output record:  *)
(* the sole retained reliable frame (transport_reliability_mvp.c), the     *)
(* one-item control slot (transport_control_output_mvp.c) and the arbiter  *)
(* that pins one of them between a peek and its commit                     *)
(* (transport_output_mvp.c).                                               *)
(*                                                                         *)
(* Every operator named after a function returns the output record that    *)
(* function leaves behind; the operators named ..._Can..., ..._Accepts and *)
(* ..._Matches are the conditions under which it returns OK with an effect.*)
(***************************************************************************)
EXTENDS TransportTypes

ReliableStates ==
    {"IDLE", "READY", "PEEKED", "AWAITING_ACK", "RETRANSMIT_READY",
     "RETRANSMIT_PEEKED", "EXHAUSTED"}
ControlStates == {"IDLE", "READY", "PEEKED"}
Selections == {"NONE", "RELIABLE", "CONTROL"}

\* sent is reliable_last_committed_ms; Times is the set of clock readings in use.
ReliableRecord(Times) ==
    [state : ReliableStates, frame : ReliableFrame \cup {NoFrame},
     retx : 0 .. MaxRetries, sent : Times]
ControlRecord == [state : ControlStates, item : ControlFrame \cup {NoFrame}]

\* resetId is recovery_reset_session_identifier; NoSession also says that
\* recovery_reset_pending is clear.
OutputRecord(Times) ==
    [rel : ReliableRecord(Times), ctl : ControlRecord, sel : Selections,
     resetId : SessionIdsOrNone, nextTx : Sequences16]

IdleReliable == [state |-> "IDLE", frame |-> NoFrame, retx |-> 0, sent |-> 0]
IdleControl  == [state |-> "IDLE", item |-> NoFrame]

InitialOutput ==
    [rel |-> IdleReliable, ctl |-> IdleControl, sel |-> "NONE",
     resetId |-> NoSession, nextTx |-> InitialSequence]

-----------------------------------------------------------------------------
(* The reliable frame *)

ReliablePeeked(o) == o.rel.state \in {"PEEKED", "RETRANSMIT_PEEKED"}
ReliableOffered(o) ==
    o.rel.state \in {"READY", "PEEKED", "RETRANSMIT_READY", "RETRANSMIT_PEEKED"}

Reliability_Coherent(o) ==
    /\ o.rel.retx <= MaxRetries
    /\ o.rel.state = "IDLE" => o.rel = IdleReliable
    /\ o.rel.state # "IDLE" => o.rel.frame.type \in ReliableTypes /\ o.rel.frame.seq = o.nextTx
    /\ o.rel.state \in {"READY", "PEEKED"} => o.rel.retx = 0 /\ o.rel.sent = 0
    /\ o.rel.state \in {"RETRANSMIT_READY", "RETRANSMIT_PEEKED"} => o.rel.retx < MaxRetries
    /\ o.rel.state = "EXHAUSTED" => o.rel.retx = MaxRetries

Reliability_CanPublish(o, f) ==
    /\ o.rel.state = "IDLE"
    /\ f.type \in ReliableTypes
    /\ f.seq = o.nextTx

Reliability_Publish(o, f) ==
    [o EXCEPT !.rel = [state |-> "READY", frame |-> f, retx |-> 0, sent |-> 0]]

Reliability_Peek(o) ==
    [o EXCEPT !.rel.state =
        CASE @ = "READY"            -> "PEEKED"
          [] @ = "RETRANSMIT_READY" -> "RETRANSMIT_PEEKED"
          [] OTHER                  -> @]

\* Broken variant: the first transmission is charged as a retry.
CommitChargedAlways(o, now) ==
    LET r == o.rel
    IN  [o EXCEPT !.rel = [state |-> "AWAITING_ACK", frame |-> r.frame, sent |-> now,
                           retx  |-> IF r.retx < MaxRetries THEN r.retx + 1 ELSE r.retx]]

\* A retry is charged when the I/O accepted it, not when it was offered.
Reliability_Commit(o, now) ==
    LET retry == o.rel.state = "RETRANSMIT_PEEKED"
    IN  [o EXCEPT !.rel = [state |-> "AWAITING_ACK", frame |-> o.rel.frame, sent |-> now,
                           retx  |-> IF retry THEN o.rel.retx + 1 ELSE o.rel.retx]]

\* Broken variants: an ACK releases a pinned retry; an ACK releases an unsent frame.
AckReleasesPinned(o, seq) ==
    /\ o.rel.state \in {"AWAITING_ACK", "RETRANSMIT_READY", "RETRANSMIT_PEEKED"}
    /\ seq = o.rel.frame.seq
AckReleasesUnsent(o, seq) ==
    /\ o.rel.state \in {"READY", "AWAITING_ACK", "RETRANSMIT_READY"}
    /\ seq = o.rel.frame.seq

\* Session_Classify_Acknowledgement: a peeked retry stays pinned, so it matches nothing.
Ack_Matches(o, seq) ==
    /\ o.rel.state \in {"AWAITING_ACK", "RETRANSMIT_READY"}
    /\ seq = o.rel.frame.seq

Reliability_Accept_Acknowledgement(o, seq) ==
    IF Ack_Matches(o, seq)
    THEN [o EXCEPT !.rel = IdleReliable, !.nextTx = NextSequence(o.rel.frame.seq)]
    ELSE o

\* What a timeout or a repeated peer frame does to a frame that awaits its ACK.
RetryOrExhaust(o) ==
    [o EXCEPT !.rel.state =
        IF o.rel.retx < MaxRetries THEN "RETRANSMIT_READY" ELSE "EXHAUSTED"]

\* Broken variant: the timer is never looked at.
RetryNever(o, expired) == o

Reliability_Process_Pending(o, expired) ==
    IF o.rel.state = "AWAITING_ACK" /\ expired THEN RetryOrExhaust(o) ELSE o

\* Asking to repeat a frame other than the retained one is an invariant failure.
Retransmission_Mismatch(o, type) == o.rel.state # "IDLE" /\ o.rel.frame.type # type

Reliability_Request_Retransmission(o) ==
    IF o.rel.state = "AWAITING_ACK" THEN RetryOrExhaust(o) ELSE o

-----------------------------------------------------------------------------
(* The control slot *)

ControlPeeked(o) == o.ctl.state = "PEEKED"
ControlPending(o) == o.ctl.state # "IDLE"

Control_Coherent(o) == (o.ctl.state = "IDLE") = (o.ctl.item = NoFrame)

\* A repeated request for the item already owned is harmless, even while pinned.
Control_Accepts(o, item) == o.ctl.state = "IDLE" \/ o.ctl.item = item

Control_Publish(o, item) ==
    IF o.ctl.state = "IDLE" THEN [o EXCEPT !.ctl = [state |-> "READY", item |-> item]] ELSE o

-----------------------------------------------------------------------------
(* The arbiter *)

\* Output_Validate_State.  recovering: the session is RECOVERING on a connected link.
Output_Coherent(o, recovering) ==
    /\ Reliability_Coherent(o)
    /\ Control_Coherent(o)
    /\ o.resetId # NoSession => recovering /\ ControlPending(o)
    /\ ReliablePeeked(o) = (o.sel = "RELIABLE")
    /\ ControlPeeked(o) = (o.sel = "CONTROL")

\* Control output goes first unless a pinned output must be offered again.
Output_Choice(o) ==
    CASE o.sel # "NONE"     -> o.sel
      [] o.sel = "NONE" /\ ControlPending(o) -> "CONTROL"
      [] o.sel = "NONE" /\ ~ControlPending(o) /\ ReliableOffered(o) -> "RELIABLE"
      [] OTHER              -> "NONE"

Output_Bytes(o) ==
    CASE Output_Choice(o) = "CONTROL"  -> o.ctl.item
      [] Output_Choice(o) = "RELIABLE" -> o.rel.frame
      [] OTHER                         -> NoFrame

\* Broken variant: a peek that copied nothing still pins its choice.
PeekPinsShortBuffer(o, fits) ==
    CASE fits /\ Output_Choice(o) = "CONTROL" ->
            [o EXCEPT !.ctl.state = "PEEKED", !.sel = "CONTROL"]
      [] fits /\ Output_Choice(o) = "RELIABLE" ->
            [Reliability_Peek(o) EXCEPT !.sel = "RELIABLE"]
      [] OTHER -> [o EXCEPT !.sel = Output_Choice(o)]

\* fits: the caller's buffer holds the whole item; a short one is told the size.
Output_Peek(o, fits) ==
    CASE fits /\ Output_Choice(o) = "CONTROL" ->
            [o EXCEPT !.ctl.state = "PEEKED", !.sel = "CONTROL"]
      [] fits /\ Output_Choice(o) = "RELIABLE" ->
            [Reliability_Peek(o) EXCEPT !.sel = "RELIABLE"]
      [] OTHER -> o

\* Broken variant: a control item that was sent is offered again.
CommitKeepsControl(o, now) ==
    CASE o.sel = "RELIABLE" -> [Reliability_Commit(o, now) EXCEPT !.sel = "NONE"]
      [] o.sel = "CONTROL"  -> [o EXCEPT !.ctl.state = "READY", !.sel = "NONE"]
      [] OTHER              -> o

Output_Commit(o, now) ==
    CASE o.sel = "RELIABLE" -> [Reliability_Commit(o, now) EXCEPT !.sel = "NONE"]
      [] o.sel = "CONTROL"  -> [o EXCEPT !.ctl = IdleControl, !.resetId = NoSession, !.sel = "NONE"]
      [] OTHER              -> o

\* The RESET barrier and the next sequence belong to the session, not to this reset.
Output_Reset(o) == [o EXCEPT !.rel = IdleReliable, !.ctl = IdleControl, !.sel = "NONE"]

=============================================================================
