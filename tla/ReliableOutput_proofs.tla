------------------------ MODULE ReliableOutput_proofs ------------------------
(***************************************************************************)
(* Machine-checked proofs about ReliableOutput, for every sequence width,  *)
(* retry allowance, clock width and set of frames.                         *)
(*                                                                         *)
(* None of the safety properties is inductive alone: that a pinned output  *)
(* keeps its bytes rests on the arbiter's bookkeeping being valid, which   *)
(* rests on the transmission count, which rests on the types.  IInv is     *)
(* their conjunction.                                                      *)
(***************************************************************************)
EXTENDS ReliableOutput, OutputArbiter_proofs

\* What the unsigned subtraction computes is the true age, as long as the counter has not
\* turned over since the commit.
AgeIsElapsed ==
    out.rel.state = "AWAITING_ACK" /\ age < TimeModulus => Elapsed(now, out.rel.sent) = age

IInv ==
    /\ TypeOK
    /\ Valid
    /\ NeverFaults
    /\ PinnedUnchanged
    /\ TransmissionBound
    /\ ResetBarrier
    /\ AgeIsElapsed

-----------------------------------------------------------------------------
(* Arithmetic of the clock *)

\* A remainder of what lies within one modulus of zero, which is all the clock meets.
LEMMA SmallRemainder ==
    ASSUME NEW m \in Nat, m >= 1, NEW a \in Int, -m <= a, a < m
    PROVE  a % m = IF a < 0 THEN a + m ELSE a
  <1>1. CASE a < 0
    BY <1>1, SMT
  <1>2. CASE a >= 0
    BY <1>2, SMT
  <1> QED BY <1>1, <1>2, SMT

\* At the commit itself no time has passed.
LEMMA NoTimePassed ==
    ASSUME NEW t \in Times
    PROVE  Elapsed(t, t) = 0
  <1>1. t - t = 0
    BY TimeAssumption DEF Times, TimeAssumption
  <1> QED
    BY <1>1, SmallRemainder, TimeAssumption DEF Elapsed, TimeAssumption

\* A tick adds one to the elapsed time, across the wrap of the counter too.
LEMMA TickElapsed ==
    ASSUME NEW t \in Times, NEW since \in Times, Elapsed(t, since) + 1 < TimeModulus
    PROVE  Elapsed((t + 1) % TimeModulus, since) = Elapsed(t, since) + 1
  <1> DEFINE M == TimeModulus
  <1>1. M \in Nat /\ M >= 1 /\ t \in 0 .. M - 1 /\ since \in 0 .. M - 1
    BY TimeAssumption DEF Times, TimeAssumption
  <1>2. (t + 1) % M = IF t + 1 = M THEN 0 ELSE t + 1
    <2>1. CASE t + 1 = M
      BY <1>1, <2>1, SMT
    <2>2. CASE t + 1 # M
      <3>1. t + 1 \in Int /\ -M <= t + 1 /\ t + 1 < M /\ ~ t + 1 < 0
        BY <1>1, <2>2
      <3>2. (t + 1) % M = IF t + 1 < 0 THEN t + 1 + M ELSE t + 1
        BY <1>1, <3>1, SmallRemainder
      <3> QED BY <2>2, <3>1, <3>2
    <2> QED BY <2>1, <2>2
  <1>3. Elapsed(t, since) = IF t < since THEN t - since + M ELSE t - since
    <2>1. t - since \in Int /\ -M <= t - since /\ t - since < M
          /\ (t - since < 0 <=> t < since)
      BY <1>1
    <2> HIDE DEF M
    <2>2. (t - since) % M = IF t - since < 0 THEN t - since + M ELSE t - since
      BY <1>1, <2>1, SmallRemainder
    <2> QED BY <2>1, <2>2 DEF Elapsed, M
  <1>4. CASE t + 1 = M
    <2>1. since # 0
      BY <1>1, <1>3, <1>4
    <2>2. 0 - since \in Int /\ -M <= 0 - since /\ 0 - since < M /\ 0 - since < 0
      BY <1>1, <2>1
    <2>3. (0 - since) % M = 0 - since + M
      BY <1>1, <2>2, SmallRemainder
    <2> QED BY <1>1, <1>2, <1>3, <1>4, <2>3 DEF Elapsed
  <1>5. CASE t + 1 # M
    <2>1. t + 1 - since \in Int /\ -M <= t + 1 - since /\ t + 1 - since < M
          /\ (t + 1 - since < 0 <=> t + 1 < since)
      BY <1>1, <1>5
    <2>2. (t + 1 - since) % M = IF t + 1 < since THEN t + 1 - since + M ELSE t + 1 - since
      BY <1>1, <2>1, SmallRemainder
    <2> QED BY <1>1, <1>2, <1>3, <1>5, <2>2 DEF Elapsed
  <1> QED BY <1>4, <1>5

-----------------------------------------------------------------------------
(* The inductive invariant *)

\* A clock that was just started reads zero: the lemmas of OutputArbiter_proofs ask for it.
LEMMA ZeroIsATime == 0 \in Times
  BY TimeAssumption DEF Times, TimeAssumption

\* The initial state, an endpoint just initialised, satisfies the inductive invariant.
LEMMA InitialStep == Init => IInv
  <1> SUFFICES ASSUME Init PROVE IInv
    OBVIOUS
  <1>1. TypeOK
    BY ZeroIsATime, InitialOutputType, TimeAssumption, RetryAssumption
    DEF Init, TypeOK, Times, Modes, TimeAssumption, RetryAssumption
  <1>2. Valid
    BY ClearedOutputCoherent DEF Init, Valid
  <1>3. NeverFaults /\ PinnedUnchanged /\ TransmissionBound /\ ResetBarrier /\ AgeIsElapsed
    BY DEF Init, NeverFaults, PinnedUnchanged, TransmissionBound, ResetBarrier, AgeIsElapsed,
           InitialOutput, IdleReliable, NoSession
  <1> QED
    BY <1>1, <1>2, <1>3 DEF IInv

\* A new handshake or application frame keeps the inductive invariant.
LEMMA PublishReliableStep ==
    ASSUME IInv, NEW f \in Offered, PublishReliable(f)
    PROVE  IInv'
  <1>1. out' = Reliability_Publish(out, f) /\ UNCHANGED <<mode, now, copied, age>> /\ wire' = 0
    BY DEF PublishReliable, Checked, IInv
  <1>2. TypeOK'
    BY ZeroIsATime, <1>1, PublishReliableType, OfferedAssumption, RetryAssumption
    DEF TypeOK, IInv, OfferedAssumption, RetryAssumption
  <1>3. out'.rel = [state |-> "READY", frame |-> f, retx |-> 0, sent |-> 0]
        /\ out'.ctl = out.ctl /\ out'.sel = out.sel /\ out'.resetId = out.resetId
        /\ out'.nextTx = out.nextTx
    BY <1>1 DEF Reliability_Publish, IInv, TypeOK, OutputRecord
  <1>4. Valid'
    BY <1>1, PublishReliableCoherent, OfferedAssumption
    DEF PublishReliable, IInv, Valid, TypeOK, OfferedAssumption
  <1>5. PinnedUnchanged'
    BY <1>1, <1>3
    DEF PublishReliable, Reliability_CanPublish, IInv, Valid, PinnedUnchanged, Output_Bytes,
        Output_Choice, Output_Coherent, ReliablePeeked, ControlPeeked, ControlPending,
        ReliableOffered
  <1>6. TransmissionBound' /\ ResetBarrier' /\ NeverFaults' /\ AgeIsElapsed'
    BY <1>1, <1>3
    DEF PublishReliable, IInv, TransmissionBound, ResetBarrier, NeverFaults, AgeIsElapsed
  <1> QED
    BY <1>2, <1>4, <1>5, <1>6 DEF IInv

\* A coalesced ACK, or the RESET of a failed session, keeps the inductive invariant.
LEMMA PublishControlStep ==
    ASSUME IInv, NEW item \in Acknowledgements, PublishControl(item)
    PROVE  IInv'
  <1>1. out' = Control_Publish(out, item) /\ UNCHANGED <<mode, now, observed>>
    BY DEF PublishControl, Checked, IInv
  <1>2. TypeOK'
    BY <1>1, PublishControlType, OfferedAssumption DEF TypeOK, IInv, observed, OfferedAssumption
  <1>3. item # NoFrame
    BY OfferedAssumption
    DEF OfferedAssumption, ControlFrame, ControlTypes, NoFrame
  <1>4. CASE out.ctl.state = "IDLE"
    <2>1. out'.ctl = [state |-> "READY", item |-> item] /\ out'.rel = out.rel
          /\ out'.sel = out.sel /\ out'.resetId = out.resetId /\ out'.nextTx = out.nextTx
      BY <1>1, <1>4 DEF Control_Publish, IInv, TypeOK, OutputRecord
    <2>2. Valid'
      BY <1>1, <1>3, <1>4, <2>1
      DEF PublishControl, IInv, Valid, Output_Coherent, Reliability_Coherent, Control_Coherent,
          ReliablePeeked, ControlPeeked, ControlPending
    <2>3. PinnedUnchanged'
      BY <1>1, <1>4, <2>1
      DEF IInv, Valid, PinnedUnchanged, Output_Bytes, Output_Choice, Output_Coherent,
          ControlPeeked, observed
    <2>4. TransmissionBound' /\ ResetBarrier' /\ NeverFaults' /\ AgeIsElapsed'
      BY <1>1, <1>4, <2>1
      DEF PublishControl, IInv, TransmissionBound, ResetBarrier, NeverFaults, AgeIsElapsed, observed
    <2> QED
      BY <1>2, <2>2, <2>3, <2>4 DEF IInv
  <1>5. CASE out.ctl.state # "IDLE"
    <2>1. UNCHANGED <<out, mode, now, observed>>
      BY <1>1, <1>5 DEF Control_Publish
    <2> QED
      BY <2>1
      DEF IInv, TypeOK, Valid, NeverFaults, PinnedUnchanged, TransmissionBound, ResetBarrier,
          AgeIsElapsed, observed
  <1> QED
    BY <1>4, <1>5

\* An ACK, fresh, repeated or forged, keeps the inductive invariant.
LEMMA AcceptAcknowledgementStep ==
    ASSUME IInv, NEW seq \in Sequences16, AcceptAcknowledgement(seq)
    PROVE  IInv'
  <1>1. /\ out' = Reliability_Accept_Acknowledgement(out, seq)
        /\ UNCHANGED <<mode, now, copied, wire>> /\ age' = 0
    BY DEF AcceptAcknowledgement, Checked, IInv
  <1>2. TypeOK'
    BY ZeroIsATime, <1>1, AcknowledgementType, TimeAssumption DEF TypeOK, IInv, TimeAssumption
  <1>3. out'.rel = IdleReliable /\ out'.ctl = out.ctl /\ out'.sel = out.sel
        /\ out'.resetId = out.resetId
    BY <1>1
    DEF AcceptAcknowledgement, Reliability_Accept_Acknowledgement, IInv, TypeOK, OutputRecord
  <1>4. out.sel # "RELIABLE"
    BY DEF AcceptAcknowledgement, Ack_Matches, IInv, Valid, Output_Coherent, ReliablePeeked
  <1>5. Valid'
    BY <1>1, AcknowledgementCoherent DEF AcceptAcknowledgement, IInv, Valid, TypeOK
  <1>6. PinnedUnchanged'
    BY <1>1, <1>3, <1>4
    DEF IInv, TypeOK, OutputRecord, Selections, PinnedUnchanged, Output_Bytes, Output_Choice
  <1>7. TransmissionBound' /\ ResetBarrier' /\ NeverFaults' /\ AgeIsElapsed'
    BY <1>1, <1>3
    DEF IInv, TransmissionBound, ResetBarrier, NeverFaults, AgeIsElapsed, IdleReliable
  <1> QED
    BY <1>2, <1>5, <1>6, <1>7 DEF IInv

\* A retry or an exhaustion leaves everything consistent: it is shared by the timer and by
\* a repeated peer frame.
LEMMA RetryOrExhaustStep ==
    ASSUME IInv, out.rel.state = "AWAITING_ACK", out' = RetryOrExhaust(out),
           UNCHANGED <<mode, now, observed>>
    PROVE  IInv'
  <1>1. TypeOK'
    BY RetryType DEF TypeOK, IInv, observed
  <1>2. /\ out'.rel.state = IF out.rel.retx < MaxRetries THEN "RETRANSMIT_READY" ELSE "EXHAUSTED"
        /\ out'.rel.frame = out.rel.frame /\ out'.rel.retx = out.rel.retx
        /\ out'.ctl = out.ctl /\ out'.sel = out.sel /\ out'.resetId = out.resetId
        /\ out'.nextTx = out.nextTx
    BY DEF RetryOrExhaust, IInv, TypeOK, OutputRecord, ReliableRecord
  <1>3. out.rel.retx \in 0 .. MaxRetries /\ out.sel # "RELIABLE"
    BY DEF IInv, TypeOK, OutputRecord, ReliableRecord, Valid, Output_Coherent, ReliablePeeked
  <1>4. Valid'
    BY RetryCoherent DEF IInv, Valid, TypeOK
  <1>5. PinnedUnchanged'
    BY <1>2, <1>3
    DEF IInv, TypeOK, OutputRecord, Selections, PinnedUnchanged, Output_Bytes, Output_Choice,
        observed
  <1>6. out.resetId = NoSession
    BY DEF IInv, ResetBarrier, IdleReliable
  <1>7. TransmissionBound' /\ ResetBarrier' /\ NeverFaults' /\ AgeIsElapsed'
    BY <1>2, <1>3, <1>6, RetryAssumption
    DEF IInv, TransmissionBound, ResetBarrier, NeverFaults, AgeIsElapsed, observed, RetryAssumption
  <1> QED
    BY <1>1, <1>4, <1>5, <1>7 DEF IInv

\* Giving a session up after the last retry keeps the inductive invariant: the RESET is the
\* only output left.
LEMMA BeginRecoveryStep ==
    ASSUME IInv, NEW id \in SessionIds, BeginRecovery(id)
    PROVE  IInv'
  <1> DEFINE reset == MakeFrame("RESET", id, 0, 0, NoMessage)
  <1>1. reset \in ControlFrame
    BY SequenceAssumption, IdentifierAssumption, MessageAssumption
    DEF MakeFrame, ControlFrame, Frame, FrameTypes, ControlTypes, ValidFrame, WireIds, SessionIds,
        ReservedSession, Sequences16, SequenceAssumption, IdentifierAssumption
  <1>2. InitialOutput.ctl.state = "IDLE"
    BY DEF InitialOutput, IdleControl
  <1>3. Control_Publish(InitialOutput, reset) \in OutputRecord(Times)
    BY ZeroIsATime, <1>1, InitialOutputType, PublishControlType
  <1>4. /\ out'.rel = IdleReliable /\ out'.ctl = [state |-> "READY", item |-> reset]
        /\ out'.sel = "NONE" /\ out'.resetId = id
    BY <1>2 DEF BeginRecovery, Control_Publish, InitialOutput
  <1>5. out' \in OutputRecord(Times)
    BY <1>3 DEF BeginRecovery, OutputRecord, SessionIds, SessionIdsOrNone
  <1>6. TypeOK'
    BY <1>5, TimeAssumption, RetryAssumption
    DEF TypeOK, IInv, BeginRecovery, Modes, TimeAssumption, RetryAssumption
  <1>7. reset # NoFrame
    BY DEF MakeFrame, NoFrame
  <1>8. Valid'
    BY <1>4, <1>7, RetryAssumption
    DEF BeginRecovery, Valid, Output_Coherent, Reliability_Coherent, Control_Coherent,
        ReliablePeeked, ControlPeeked, ControlPending, IdleReliable, RetryAssumption
  <1>9. PinnedUnchanged' /\ TransmissionBound' /\ ResetBarrier' /\ NeverFaults' /\ AgeIsElapsed'
    BY <1>4
    DEF BeginRecovery, PinnedUnchanged, TransmissionBound, ResetBarrier, NeverFaults, AgeIsElapsed,
        IdleReliable
  <1> QED
    BY <1>6, <1>8, <1>9 DEF IInv

\* A link loss, a RESET from the peer or a new session keeps the inductive invariant.
LEMMA AbandonStep ==
    ASSUME IInv, Abandon
    PROVE  IInv'
  <1>1. TypeOK'
    BY ZeroIsATime, InitialOutputType, TimeAssumption, RetryAssumption
    DEF TypeOK, IInv, Abandon, Modes, TimeAssumption, RetryAssumption
  <1>2. Valid'
    BY ClearedOutputCoherent DEF Abandon, Valid
  <1>3. PinnedUnchanged' /\ TransmissionBound' /\ ResetBarrier' /\ NeverFaults' /\ AgeIsElapsed'
    BY DEF Abandon, PinnedUnchanged, TransmissionBound, ResetBarrier, NeverFaults, AgeIsElapsed,
           InitialOutput, IdleReliable
  <1> QED
    BY <1>1, <1>2, <1>3 DEF IInv

\* Handing a slot to the caller keeps the inductive invariant: what is pinned was eligible.
LEMMA PeekOutputStep ==
    ASSUME IInv, NEW fits \in BOOLEAN, PeekOutput(fits)
    PROVE  IInv'
  <1>1. /\ out' = Output_Peek(out, fits)
        /\ copied' = IF fits THEN Output_Bytes(out) ELSE copied
        /\ UNCHANGED <<mode, now, wire, age>>
    BY DEF PeekOutput, Checked, IInv
  <1>2. Output_Bytes(out) \in Frame \cup {NoFrame}
    BY DEF IInv, TypeOK, OutputRecord, ReliableRecord, ControlRecord, Output_Bytes,
           ReliableFrame, ControlFrame
  <1>3. TypeOK'
    BY <1>1, <1>2, PeekType DEF TypeOK, IInv
  <1>4. CASE ~ fits
    <2>1. UNCHANGED vars
      BY <1>1, <1>4 DEF Output_Peek, vars, observed
    <2> QED
      BY <2>1
      DEF IInv, TypeOK, Valid, NeverFaults, PinnedUnchanged, TransmissionBound, ResetBarrier,
          AgeIsElapsed, vars
  <1>5. CASE fits /\ Output_Choice(out) = "CONTROL"
    <2>1. /\ out'.ctl = [state |-> "PEEKED", item |-> out.ctl.item] /\ out'.sel = "CONTROL"
          /\ out'.rel = out.rel /\ out'.resetId = out.resetId /\ out'.nextTx = out.nextTx
      BY <1>1, <1>5 DEF Output_Peek, IInv, TypeOK, OutputRecord, ControlRecord
    <2>2. out.ctl.state # "IDLE" /\ out.sel # "RELIABLE"
      BY <1>5
      DEF Output_Choice, IInv, Valid, Output_Coherent, ControlPeeked, ControlPending
    <2>3. Valid'
      BY <1>1, PeekCoherent DEF IInv, Valid, TypeOK
    <2>4. PinnedUnchanged'
      <3>1. copied' = out.ctl.item
        BY <1>1, <1>5 DEF Output_Bytes
      <3>2. Output_Choice(out)' = "CONTROL"
        BY <2>1 DEF Output_Choice
      <3> QED
        BY <2>1, <3>1, <3>2 DEF PinnedUnchanged, Output_Bytes
    <2>5. TransmissionBound' /\ ResetBarrier' /\ NeverFaults' /\ AgeIsElapsed'
      BY <1>1, <2>1 DEF IInv, TransmissionBound, ResetBarrier, NeverFaults, AgeIsElapsed
    <2> QED
      BY <1>3, <2>3, <2>4, <2>5 DEF IInv
  <1>6. CASE fits /\ Output_Choice(out) = "RELIABLE"
    <2>1. /\ out'.rel = Reliability_Peek(out).rel /\ out'.sel = "RELIABLE"
          /\ out'.ctl = out.ctl /\ out'.resetId = out.resetId /\ out'.nextTx = out.nextTx
      BY <1>1, <1>6 DEF Output_Peek, Reliability_Peek, IInv, TypeOK, OutputRecord
    <2>2. out.rel.state \in {"READY", "PEEKED", "RETRANSMIT_READY", "RETRANSMIT_PEEKED"}
          /\ out.sel # "CONTROL"
      BY <1>6
      DEF Output_Choice, IInv, Valid, Output_Coherent, ReliablePeeked, ReliableOffered
    <2>3. /\ out'.rel.state =
                IF out.rel.state \in {"READY", "PEEKED"} THEN "PEEKED" ELSE "RETRANSMIT_PEEKED"
          /\ out'.rel.frame = out.rel.frame /\ out'.rel.retx = out.rel.retx
          /\ out'.rel.sent = out.rel.sent
      BY <2>1, <2>2 DEF Reliability_Peek, IInv, TypeOK, OutputRecord, ReliableRecord
    <2>4. Valid'
      BY <1>1, PeekCoherent DEF IInv, Valid, TypeOK
    <2>5. PinnedUnchanged'
      <3>1. copied' = out.rel.frame
        BY <1>1, <1>6 DEF Output_Bytes
      <3>2. Output_Choice(out)' = "RELIABLE"
        BY <2>1 DEF Output_Choice
      <3> QED
        BY <2>3, <3>1, <3>2 DEF PinnedUnchanged, Output_Bytes
    <2>6. out.resetId = NoSession
      BY <2>2 DEF IInv, ResetBarrier, IdleReliable
    <2>7. TransmissionBound' /\ ResetBarrier' /\ NeverFaults' /\ AgeIsElapsed'
      BY <1>1, <2>1, <2>2, <2>3, <2>6
      DEF IInv, TransmissionBound, ResetBarrier, NeverFaults, AgeIsElapsed
    <2> QED
      BY <1>3, <2>4, <2>5, <2>7 DEF IInv
  <1> QED
    BY <1>4, <1>5, <1>6
    DEF PeekOutput, Output_Choice, IInv, TypeOK, OutputRecord, Selections

\* Committing the bytes of the pinned slot keeps the inductive invariant.
LEMMA CommitOutputStep ==
    ASSUME IInv, CommitOutput
    PROVE  IInv'
  <1>1. /\ out' = Output_Commit(out, now)
        /\ wire' = IF out.sel = "RELIABLE" THEN wire + 1 ELSE wire
        /\ age' = IF out.sel = "RELIABLE" THEN 0 ELSE age
        /\ UNCHANGED <<mode, now, copied>>
    BY DEF CommitOutput, Checked, IInv
  <1>2. out' \in OutputRecord(Times)
    BY <1>1, CommitType DEF IInv, TypeOK, Valid, Output_Coherent
  <1>3. CASE out.sel = "RELIABLE"
    <2>1. /\ out'.rel.state = "AWAITING_ACK" /\ out'.rel.frame = out.rel.frame
          /\ out'.rel.retx = IF out.rel.state = "RETRANSMIT_PEEKED"
                             THEN out.rel.retx + 1 ELSE out.rel.retx
          /\ out'.ctl = out.ctl /\ out'.sel = "NONE" /\ out'.resetId = out.resetId
          /\ out'.nextTx = out.nextTx
      BY <1>1, <1>3 DEF Output_Commit, Reliability_Commit, IInv, TypeOK, OutputRecord
    <2>2. /\ out.rel.state \in {"PEEKED", "RETRANSMIT_PEEKED"}
          /\ out.rel.retx \in 0 .. MaxRetries
          /\ out.rel.state = "RETRANSMIT_PEEKED" => out.rel.retx < MaxRetries
          /\ out.rel.state = "PEEKED" => out.rel.retx = 0
      BY <1>3
      DEF IInv, TypeOK, OutputRecord, ReliableRecord, Valid, Output_Coherent, ReliablePeeked,
          Reliability_Coherent
    <2>3. wire' \in 0 .. MaxRetries + 1 /\ wire' = out'.rel.retx + 1
      BY <1>1, <1>3, <2>1, <2>2, RetryAssumption
      DEF IInv, TransmissionBound, TypeOK, RetryAssumption
    <2>4. TypeOK'
      BY <1>1, <1>2, <1>3, <2>3, TimeAssumption DEF TypeOK, IInv, TimeAssumption
    <2>5. Valid'
      BY <1>1, CommitCoherent DEF IInv, Valid, TypeOK
    <2>6. out.resetId = NoSession
      BY <2>2 DEF IInv, ResetBarrier, IdleReliable
    <2>7. PinnedUnchanged' /\ TransmissionBound' /\ ResetBarrier' /\ NeverFaults'
      BY <1>1, <2>1, <2>3, <2>6
      DEF IInv, PinnedUnchanged, TransmissionBound, ResetBarrier, NeverFaults
    <2>8. AgeIsElapsed'
      <3>1. out'.rel.sent = now
        BY <1>1, <1>3 DEF Output_Commit, Reliability_Commit, IInv, TypeOK, OutputRecord
      <3> QED
        BY <1>1, <1>3, <3>1, NoTimePassed DEF AgeIsElapsed, IInv, TypeOK
    <2> QED
      BY <2>4, <2>5, <2>7, <2>8 DEF IInv
  <1>4. CASE out.sel = "CONTROL"
    <2>1. /\ out'.rel = out.rel /\ out'.ctl = IdleControl /\ out'.sel = "NONE"
          /\ out'.resetId = NoSession /\ out'.nextTx = out.nextTx
      BY <1>1, <1>4 DEF Output_Commit, IInv, TypeOK, OutputRecord
    <2>2. TypeOK'
      BY <1>1, <1>2, <1>4 DEF TypeOK, IInv
    <2>3. Valid'
      BY <1>1, CommitCoherent DEF IInv, Valid, TypeOK
    <2>4. PinnedUnchanged' /\ TransmissionBound' /\ ResetBarrier' /\ NeverFaults' /\ AgeIsElapsed'
      BY <1>1, <1>4, <2>1
      DEF IInv, PinnedUnchanged, TransmissionBound, ResetBarrier, NeverFaults, AgeIsElapsed
    <2> QED
      BY <2>2, <2>3, <2>4 DEF IInv
  <1> QED
    BY <1>3, <1>4 DEF CommitOutput, IInv, TypeOK, OutputRecord, Selections

\* Every step of the specification keeps the inductive invariant.
LEMMA InductiveStep == IInv /\ [Next]_vars => IInv'
  <1> SUFFICES ASSUME IInv, [Next]_vars PROVE IInv'
    OBVIOUS
  <1>0. ASSUME UNCHANGED vars PROVE IInv'
    BY <1>0
    DEF IInv, TypeOK, Valid, NeverFaults, PinnedUnchanged, TransmissionBound, ResetBarrier,
        AgeIsElapsed, vars
  <1>1. ASSUME NEW f \in Offered, PublishReliable(f) PROVE IInv'
    BY <1>1, PublishReliableStep
  <1>2. ASSUME NEW item \in Acknowledgements, PublishControl(item) PROVE IInv'
    BY <1>2, PublishControlStep
  <1>3. ASSUME NEW seq \in Sequences16, AcceptAcknowledgement(seq) PROVE IInv'
    BY <1>3, AcceptAcknowledgementStep
  <1>4. ASSUME NEW type \in {"RESPONSE", "CONFIRM"}, RequestRetransmission(type) PROVE IInv'
    <2>1. out' = Reliability_Request_Retransmission(out) /\ UNCHANGED <<mode, now, observed>>
      BY <1>4 DEF RequestRetransmission, Checked, IInv
    <2>2. CASE out.rel.state = "AWAITING_ACK"
      BY <2>1, <2>2, RetryOrExhaustStep DEF Reliability_Request_Retransmission
    <2>3. CASE out.rel.state # "AWAITING_ACK"
      BY <2>1, <2>3, <1>0 DEF Reliability_Request_Retransmission, vars, observed
    <2> QED BY <2>2, <2>3
  <1>5. ASSUME NEW id \in SessionIds, BeginRecovery(id) PROVE IInv'
    BY <1>5, BeginRecoveryStep
  <1>6. ASSUME BeginEstablishment PROVE IInv'
    <2>1. out.resetId = NoSession
      BY <1>6 DEF BeginEstablishment, IInv, Valid, Output_Coherent
    <2>2. mode' = "NORMAL" /\ UNCHANGED <<out, now, observed>>
      BY <1>6 DEF BeginEstablishment, IInv
    <2>3. /\ TypeOK' /\ NeverFaults' /\ PinnedUnchanged' /\ TransmissionBound' /\ ResetBarrier'
          /\ AgeIsElapsed'
      BY <2>1, <2>2
      DEF IInv, TypeOK, Modes, NeverFaults, PinnedUnchanged, TransmissionBound, ResetBarrier,
          AgeIsElapsed, observed
    <2>4. Valid'
      BY <2>1, <2>2 DEF IInv, Valid, Output_Coherent
    <2> QED BY <2>3, <2>4 DEF IInv
  <1>7. ASSUME Abandon PROVE IInv'
    BY <1>7, AbandonStep
  <1>8. ASSUME NEW fits \in BOOLEAN, PeekOutput(fits) PROVE IInv'
    BY <1>8, PeekOutputStep
  <1>9. ASSUME CommitOutput PROVE IInv'
    BY <1>9, CommitOutputStep
  <1>10. ASSUME ProcessPending PROVE IInv'
    <2>1. out' = Reliability_Process_Pending(out, TimedOut(out, now))
          /\ UNCHANGED <<mode, now, observed>>
      BY <1>10 DEF ProcessPending, Checked, IInv
    <2>2. CASE out.rel.state = "AWAITING_ACK" /\ TimedOut(out, now)
      BY <2>1, <2>2, RetryOrExhaustStep DEF Reliability_Process_Pending
    <2>3. CASE ~ (out.rel.state = "AWAITING_ACK" /\ TimedOut(out, now))
      BY <2>1, <2>3, <1>0 DEF Reliability_Process_Pending, vars, observed
    <2> QED BY <2>2, <2>3
  <1>11. ASSUME Tick PROVE IInv'
    <2>1. now' \in Times
      BY <1>11, RemainderBound, TimeAssumption DEF Tick, IInv, TypeOK, Times, TimeAssumption
    <2>2. age' \in 0 .. TimeModulus
      BY <1>11, TimeAssumption DEF Tick, IInv, TypeOK, TimeAssumption
    <2>3. AgeIsElapsed'
      <3>1. CASE out.rel.state = "AWAITING_ACK" /\ age + 1 < TimeModulus
        <4>1. age < TimeModulus /\ out.rel.sent \in Times /\ age' = age + 1
          BY <1>11, <3>1, TimeAssumption
          DEF Tick, IInv, TypeOK, OutputRecord, ReliableRecord, TimeAssumption
        <4>2. Elapsed(now, out.rel.sent) = age
          BY <3>1, <4>1 DEF IInv, AgeIsElapsed
        <4>3. Elapsed((now + 1) % TimeModulus, out.rel.sent) = age + 1
          BY <3>1, <4>1, <4>2, TickElapsed DEF IInv, TypeOK
        <4> QED BY <1>11, <4>1, <4>3 DEF Tick, AgeIsElapsed
      <3>2. CASE out.rel.state # "AWAITING_ACK"
        BY <1>11, <3>2 DEF Tick, AgeIsElapsed
      <3>3. CASE out.rel.state = "AWAITING_ACK" /\ ~ age + 1 < TimeModulus
        <4>1. ~ age' < TimeModulus
          BY <1>11, <3>3, TimeAssumption DEF Tick, IInv, TypeOK, TimeAssumption
        <4> QED BY <4>1 DEF AgeIsElapsed
      <3> QED BY <3>1, <3>2, <3>3
    <2> QED
      BY <1>11, <2>1, <2>2, <2>3
      DEF Tick, IInv, TypeOK, Valid, NeverFaults, PinnedUnchanged, TransmissionBound, ResetBarrier
  <1> QED
    BY <1>0, <1>1, <1>2, <1>3, <1>4, <1>5, <1>6, <1>7, <1>8, <1>9, <1>10, <1>11 DEF Next

\* The inductive invariant holds in every reachable state.
THEOREM Invariance == Spec => []IInv
  BY InitialStep, InductiveStep, PTL DEF Spec

\* Every variable keeps its type, the 16-bit sequence and the clock across their wrap.
THEOREM TypeCorrectness == Spec => []TypeOK
  BY Invariance, PTL DEF IInv

\* No order of calls drives the output bookkeeping into FAULT.
THEOREM OutputNeverFaults == Spec => []NeverFaults
  BY Invariance, PTL DEF IInv

\* What a commit accounts for is what the caller copied.
THEOREM PinnedOutputIsStable == Spec => []PinnedUnchanged
  BY Invariance, PTL DEF IInv

\* No frame reaches the wire more than max_retries + 1 times, nor is given up earlier.
THEOREM TransmissionsAreBounded == Spec => []TransmissionBound
  BY Invariance, PTL DEF IInv

\* The timer expires exactly when the timeout has truly passed, across the wrap of the clock.
THEOREM TimeoutsAreExact == Spec => []TimeoutExact
  <1>1. IInv => TimeoutExact
    BY DEF IInv, AgeIsElapsed, TimeoutExact, TimedOut
  <1> QED BY <1>1, Invariance, PTL

\* Nothing overtakes the RESET of a failed session.
THEOREM ResetIsABarrier == Spec => []ResetBarrier
  BY Invariance, PTL DEF IInv

\* An ACK completes only a frame that has been transmitted.
THEOREM CompletionFollowsTransmission == Spec => CompletionWasTransmitted
  <1>1. ASSUME IInv, NEW seq \in Sequences16, AcceptAcknowledgement(seq) PROVE wire > 0
    <2>1. out.rel.state \in {"AWAITING_ACK", "RETRANSMIT_READY"}
      BY <1>1 DEF AcceptAcknowledgement, Ack_Matches
    <2>2. out.rel.retx \in 0 .. MaxRetries
      BY <1>1 DEF IInv, TypeOK, OutputRecord, ReliableRecord
    <2> QED
      BY <1>1, <2>1, <2>2, RetryAssumption DEF IInv, TransmissionBound, RetryAssumption
  <1>2. IInv => [(\E seq \in Sequences16 : AcceptAcknowledgement(seq)) => wire > 0]_vars
    BY <1>1
  <1> QED
    BY <1>2, Invariance, PTL DEF CompletionWasTransmitted

=============================================================================
