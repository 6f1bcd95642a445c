--------------------------- MODULE ReliableOutput ---------------------------
(***************************************************************************)
(* The output side of one endpoint under every order of calls: the         *)
(* protocol publishes, the caller's I/O loop peeks and commits, time       *)
(* passes and wraps, ACKs arrive, the session is abandoned or the link is  *)
(* lost, at any moment.                                                    *)
(*                                                                         *)
(* The clock is the caller's uint32_t millisecond counter, modulo          *)
(* TimeModulus.  Three variables record what the outside world saw, and    *)
(* influence nothing: copied is the frame the caller last copied out, wire *)
(* counts the commits of the retained frame, and age is the true time      *)
(* since its last commit.                                                  *)
(***************************************************************************)
EXTENDS OutputArbiter

CONSTANTS
    TimeModulus,        \* 2^32 in the code
    RetransmitTimeout,  \* config.retransmit_timeout_ms; zero disables the timer
    Offered,            \* the reliable frames the protocol may publish
    Acknowledgements    \* the ACK frames it may publish

ASSUME TimeAssumption ==
    /\ TimeModulus \in Nat
    /\ RetransmitTimeout \in Nat
    /\ RetransmitTimeout < TimeModulus

ASSUME OfferedAssumption ==
    /\ Offered \subseteq ReliableFrame
    /\ Acknowledgements \subseteq ControlFrame

Times == 0 .. TimeModulus - 1

\* NORMAL stands for every session state but the two that matter to output:
\* RECOVERING, which alone may own a RESET barrier, and FAULT.
Modes == {"NORMAL", "RECOVERING", "FAULT"}

VARIABLES out, mode, now, copied, wire, age

vars == <<out, mode, now, copied, wire, age>>
observed == <<copied, wire, age>>

Init ==
    /\ out = InitialOutput
    /\ mode = "NORMAL"
    /\ now = 0
    /\ copied = NoFrame
    /\ wire = 0
    /\ age = 0

\* Each call validates the output metadata first and faults when it is inconsistent.
Valid == Output_Coherent(out, mode = "RECOVERING")

Checked(result) ==
    IF Valid THEN out' = result /\ UNCHANGED mode
             ELSE mode' = "FAULT" /\ UNCHANGED out

Active == mode # "FAULT"

-----------------------------------------------------------------------------
(* Calls of the protocol *)

\* Handshake_Publish_Reliable and Application_Submit.
PublishReliable(f) ==
    /\ mode = "NORMAL"
    /\ Reliability_CanPublish(out, f)
    /\ Checked(Reliability_Publish(out, f))
    /\ wire' = 0
    /\ UNCHANGED <<now, copied, age>>

\* Handshake_Publish_Ack and Application_Publish_Ack; an occupied slot refuses.
PublishControl(item) ==
    /\ mode = "NORMAL"
    /\ Control_Accepts(out, item)
    /\ Checked(Control_Publish(out, item))
    /\ UNCHANGED <<now, observed>>

AcceptAcknowledgement(seq) ==
    /\ Active
    /\ Ack_Matches(out, seq)
    /\ Checked(Reliability_Accept_Acknowledgement(out, seq))
    /\ age' = 0
    /\ UNCHANGED <<now, copied, wire>>

\* A repeated INITIATE or RESPONSE asks for the answer again.  The callers know
\* which frame they retain; any other is an invariant failure.
RequestRetransmission(type) ==
    /\ Active
    /\ ~ Retransmission_Mismatch(out, type)
    /\ Checked(Reliability_Request_Retransmission(out))
    /\ UNCHANGED <<now, observed>>

\* Handshake_Begin_Local_Recovery: everything owned is dropped, then a RESET naming
\* the failed session becomes the barrier.
BeginRecovery(id) ==
    /\ mode = "NORMAL"
    /\ mode' = "RECOVERING"
    /\ out' = [Control_Publish(InitialOutput, MakeFrame("RESET", id, 0, 0, NoMessage))
                  EXCEPT !.resetId = id]
    /\ wire' = 0
    /\ age' = 0
    /\ UNCHANGED <<now, copied>>

\* Profile_Process or Try_Advance_Recovery: a new attempt once the slot has drained.
BeginEstablishment ==
    /\ mode = "RECOVERING"
    /\ ~ ControlPending(out)
    /\ mode' = IF Valid THEN "NORMAL" ELSE "FAULT"
    /\ UNCHANGED <<out, now, observed>>

\* Broken variant: Output_Reset alone, which leaves the barrier and the next sequence.
AbandonByOutputReset ==
    /\ mode' \in {"NORMAL", "RECOVERING"}
    /\ out' = Output_Reset(out)
    /\ wire' = 0
    /\ age' = 0
    /\ UNCHANGED <<now, copied>>

\* Session_Clear_Scoped_Work: a lost link, a peer's RESET, or an explicit reset, which
\* leaves a connected endpoint RECOVERING without a barrier.
Abandon ==
    /\ mode' \in {"NORMAL", "RECOVERING"}
    /\ out' = InitialOutput
    /\ wire' = 0
    /\ age' = 0
    /\ UNCHANGED <<now, copied>>

-----------------------------------------------------------------------------
(* Calls of the caller's I/O loop, and time *)

PeekOutput(fits) ==
    /\ Active
    /\ Output_Choice(out) # "NONE"
    /\ Checked(Output_Peek(out, fits))
    /\ copied' = IF fits /\ Valid THEN Output_Bytes(out) ELSE copied
    /\ UNCHANGED <<now, wire, age>>

CommitOutput ==
    /\ Active
    /\ out.sel # "NONE"
    /\ Checked(Output_Commit(out, now))
    /\ wire' = IF out.sel = "RELIABLE" THEN wire + 1 ELSE wire
    /\ age' = IF out.sel = "RELIABLE" THEN 0 ELSE age
    /\ UNCHANGED <<now, copied>>

\* Broken variant: signed subtraction.
ElapsedSigned(t, since) == t - since

\* Unsigned subtraction: right across the wrap of the counter.
Elapsed(t, since) == (t - since) % TimeModulus

TimedOut(o, t) == RetransmitTimeout # 0 /\ Elapsed(t, o.rel.sent) >= RetransmitTimeout

\* The timer part of Profile_Process.
ProcessPending ==
    /\ Active
    /\ Checked(Reliability_Process_Pending(out, TimedOut(out, now)))
    /\ UNCHANGED <<now, observed>>

\* The age saturates: beyond a full turn of the counter elapsed time is not defined.
Tick ==
    /\ now' = (now + 1) % TimeModulus
    /\ age' = IF out.rel.state = "AWAITING_ACK" /\ age < TimeModulus THEN age + 1 ELSE age
    /\ UNCHANGED <<out, mode, copied, wire>>

Next ==
    \/ \E f \in Offered : PublishReliable(f)
    \/ \E item \in Acknowledgements : PublishControl(item)
    \/ \E seq \in Sequences16 : AcceptAcknowledgement(seq)
    \/ \E type \in {"RESPONSE", "CONFIRM"} : RequestRetransmission(type)
    \/ \E id \in SessionIds : BeginRecovery(id)
    \/ BeginEstablishment
    \/ Abandon
    \/ \E fits \in BOOLEAN : PeekOutput(fits)
    \/ CommitOutput
    \/ ProcessPending
    \/ Tick

Spec == Init /\ [][Next]_vars

\* The caller's loop keeps peeking with a buffer that is large enough, and commits what it
\* peeked.  Nothing is assumed of the peer, the clock or the protocol's own calls.
Fairness == WF_vars(PeekOutput(TRUE)) /\ WF_vars(CommitOutput)

FairSpec == Spec /\ Fairness

-----------------------------------------------------------------------------
(* Properties *)

\* Every variable holds a value of its type.
TypeOK ==
    /\ out \in OutputRecord(Times)
    /\ mode \in Modes
    /\ now \in Times
    /\ copied \in Frame \cup {NoFrame}
    /\ wire \in 0 .. MaxRetries + 1
    /\ age \in 0 .. TimeModulus

\* No order of legal calls makes the reliability, control or arbiter validation fail:
\* the endpoint is never put in FAULT by its own output bookkeeping.
NeverFaults == mode # "FAULT"

\* While an output is pinned, the bytes a commit would account for are the bytes the
\* caller copied: nothing published, acknowledged or timed out since the peek
\* replaced them (transport.h, Peek_Output and Commit_Output).
PinnedUnchanged == out.sel # "NONE" => copied = Output_Bytes(out)

\* A retained frame has reached the wire once more than the retries charged to it, never
\* more than max_retries + 1 times, and is given up only after using all of them.
TransmissionBound ==
    /\ out.rel.state \in {"READY", "PEEKED"} => wire = 0
    /\ out.rel.state \in {"AWAITING_ACK", "RETRANSMIT_READY", "RETRANSMIT_PEEKED"} =>
            wire = out.rel.retx + 1
    /\ out.rel.state = "EXHAUSTED" => wire = MaxRetries + 1

\* The timer of the retained frame expires exactly when retransmit_timeout_ms have
\* truly passed since its last commit, also across the wrap of the clock.
TimeoutExact ==
    out.rel.state = "AWAITING_ACK" /\ age < TimeModulus =>
        (TimedOut(out, now) <=> RetransmitTimeout # 0 /\ age >= RetransmitTimeout)

\* The RESET of a failed session stands alone before any output of the next one: while it
\* is owed, the control slot holds that very RESET and no reliable frame is retained.
ResetBarrier ==
    out.resetId # NoSession =>
        /\ mode = "RECOVERING"
        /\ out.ctl.item = MakeFrame("RESET", out.resetId, 0, 0, NoMessage)
        /\ out.rel = IdleReliable

\* An acknowledgement completes only a frame that has been on the wire.
CompletionWasTransmitted ==
    [][(\E seq \in Sequences16 : AcceptAcknowledgement(seq)) => wire > 0]_vars

\* A first transmission or a retry that the caller has not yet been offered.
ReliableWaits == out.rel.state \in {"READY", "RETRANSMIT_READY"}

ControlKeepsComing == []<><<\E item \in Acknowledgements : PublishControl(item)>>_vars

\* Control output always goes first (HIL_TRANSPORT_MVP_Output_Peek_Output).  That keeps a
\* reliable frame from the wire for ever only if control items are published for ever:
\* one that was sent does not come back by itself, and no pinned output blocks the arbiter.
StarvedOnlyByControl == []<>(~ ReliableWaits) \/ ControlKeepsComing

=============================================================================
