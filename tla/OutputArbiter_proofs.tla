------------------------- MODULE OutputArbiter_proofs -------------------------
(***************************************************************************)
(* What the operators of OutputArbiter return: a record of the same type,  *)
(* and one that Output_Validate_State accepts when it accepted the record  *)
(* before.  Both the output side on its own (ReliableOutput_proofs) and    *)
(* the whole endpoint (TransportProfile_proofs) rest on these.             *)
(***************************************************************************)
EXTENDS OutputArbiter, TLAPS

\* A remainder lies below its divisor.
LEMMA RemainderBound ==
    ASSUME NEW m \in Nat, m >= 1, NEW a \in Nat
    PROVE  a % m \in 0 .. m - 1
  BY SMT

\* The successor of a sequence is a sequence: uint16_t arithmetic closes over the type.
LEMMA NextSequenceType ==
    ASSUME NEW s \in Sequences16
    PROVE  NextSequence(s) \in Sequences16
  BY RemainderBound, SequenceAssumption DEF NextSequence, Sequences16, SequenceAssumption

-----------------------------------------------------------------------------
(* Types *)

\* What Initial_Output and Reset_Established write is a well-typed record.
LEMMA InitialOutputType ==
    ASSUME NEW T, 0 \in T
    PROVE  InitialOutput \in OutputRecord(T)
  BY SequenceAssumption, RetryAssumption, IdentifierAssumption
  DEF InitialOutput, OutputRecord, ReliableRecord, ControlRecord, IdleReliable, IdleControl,
      ReliableStates, ControlStates, Selections, SessionIdsOrNone, NoSession,
      Sequences16, SequenceAssumption, RetryAssumption, IdentifierAssumption

\* Publishing a reliable frame keeps the record well typed: the slot, its deadline and phase.
LEMMA PublishReliableType ==
    ASSUME NEW T, 0 \in T, NEW o \in OutputRecord(T), NEW f \in ReliableFrame
    PROVE  Reliability_Publish(o, f) \in OutputRecord(T)
  BY RetryAssumption
  DEF Reliability_Publish, OutputRecord, ReliableRecord, ReliableStates, RetryAssumption

\* Publishing a control frame keeps the record well typed.
LEMMA PublishControlType ==
    ASSUME NEW T, NEW o \in OutputRecord(T), NEW item \in ControlFrame
    PROVE  Control_Publish(o, item) \in OutputRecord(T)
  BY DEF Control_Publish, OutputRecord, ControlRecord, ControlStates

\* Retiring the pending frame keeps the record well typed.
LEMMA AcknowledgementType ==
    ASSUME NEW T, 0 \in T, NEW o \in OutputRecord(T), NEW seq \in Sequences16
    PROVE  Reliability_Accept_Acknowledgement(o, seq) \in OutputRecord(T)
  <1>1. CASE Ack_Matches(o, seq)
    <2>1. NextSequence(o.rel.frame.seq) \in Sequences16
      BY <1>1, NextSequenceType DEF Ack_Matches
    <2>2. IdleReliable \in ReliableRecord(T)
      BY RetryAssumption DEF IdleReliable, ReliableRecord, ReliableStates, RetryAssumption
    <2> QED
      BY <1>1, <2>1, <2>2 DEF Reliability_Accept_Acknowledgement, OutputRecord
  <1>2. CASE ~ Ack_Matches(o, seq)
    BY <1>2 DEF Reliability_Accept_Acknowledgement
  <1> QED BY <1>1, <1>2

\* Counting a retry keeps the counter within max_retries and the record well typed.
LEMMA RetryType ==
    ASSUME NEW T, NEW o \in OutputRecord(T)
    PROVE  RetryOrExhaust(o) \in OutputRecord(T)
  BY DEF RetryOrExhaust, OutputRecord, ReliableRecord, ReliableStates

\* Pinning a slot keeps the record well typed.
LEMMA PeekType ==
    ASSUME NEW T, NEW o \in OutputRecord(T), NEW fits \in BOOLEAN
    PROVE  Output_Peek(o, fits) \in OutputRecord(T)
  <1>1. Reliability_Peek(o) \in OutputRecord(T)
    BY DEF Reliability_Peek, OutputRecord, ReliableRecord, ReliableStates
  <1> QED
    BY <1>1 DEF Output_Peek, OutputRecord, ControlRecord, ControlStates, Selections

\* Committing the pinned slot arms a deadline that is a time, and keeps the record well typed.
LEMMA CommitType ==
    ASSUME NEW T, NEW o \in OutputRecord(T), NEW t \in T, Reliability_Coherent(o),
           o.sel = "RELIABLE" => ReliablePeeked(o)
    PROVE  Output_Commit(o, t) \in OutputRecord(T)
  <1>1. ASSUME o.sel = "RELIABLE"
        PROVE  Reliability_Commit(o, t) \in OutputRecord(T)
    <2>1. o.rel.state = "RETRANSMIT_PEEKED" => o.rel.retx + 1 \in 0 .. MaxRetries
      BY RetryAssumption DEF Reliability_Coherent, OutputRecord, ReliableRecord, RetryAssumption
    <2>2. /\ o.rel.frame \in ReliableFrame \cup {NoFrame}
          /\ o.rel.retx \in 0 .. MaxRetries
      BY DEF OutputRecord, ReliableRecord
    <2>3. Reliability_Commit(o, t).rel \in ReliableRecord(T)
      BY <2>1, <2>2 DEF Reliability_Commit, OutputRecord, ReliableRecord, ReliableStates
    <2> QED
      BY <2>3 DEF Reliability_Commit, OutputRecord
  <1>2. IdleControl \in ControlRecord
    BY DEF IdleControl, ControlRecord, ControlStates
  <1>3. CASE o.sel = "RELIABLE"
    BY <1>1, <1>3 DEF Output_Commit, OutputRecord, Selections
  <1>4. CASE o.sel = "CONTROL"
    <2>1. NoSession \in SessionIdsOrNone
      BY IdentifierAssumption DEF NoSession, SessionIdsOrNone, IdentifierAssumption
    <2>2. Output_Commit(o, t) =
            [o EXCEPT !.ctl = IdleControl, !.resetId = NoSession, !.sel = "NONE"]
      BY <1>4 DEF Output_Commit
    <2> QED
      BY <1>2, <2>1, <2>2 DEF OutputRecord, Selections
  <1>5. CASE o.sel = "NONE"
    BY <1>5 DEF Output_Commit
  <1> QED
    BY <1>3, <1>4, <1>5 DEF OutputRecord, Selections

-----------------------------------------------------------------------------
(* Coherence, and the fields each operator changes *)

\* What InitialOutput, left by every abandonment, satisfies whatever the mode.
LEMMA ClearedOutputCoherent ==
    ASSUME NEW recovering \in BOOLEAN
    PROVE  Output_Coherent(InitialOutput, recovering)
  BY RetryAssumption
  DEF Output_Coherent, Reliability_Coherent, Control_Coherent, ReliablePeeked, ControlPeeked,
      InitialOutput, IdleReliable, IdleControl, NoSession, RetryAssumption

\* A published frame waits in the retained slot and disturbs nothing else.
LEMMA PublishReliableCoherent ==
    ASSUME NEW T, NEW o \in OutputRecord(T), NEW f \in ReliableFrame, NEW recovering,
           Output_Coherent(o, recovering), Reliability_CanPublish(o, f)
    PROVE  LET p == Reliability_Publish(o, f)
           IN  /\ Output_Coherent(p, recovering)
               /\ p.rel = [state |-> "READY", frame |-> f, retx |-> 0, sent |-> 0]
               /\ p.ctl = o.ctl /\ p.sel = o.sel /\ p.resetId = o.resetId /\ p.nextTx = o.nextTx
  <1> DEFINE p == Reliability_Publish(o, f)
  <1>1. /\ p.rel = [state |-> "READY", frame |-> f, retx |-> 0, sent |-> 0]
        /\ p.ctl = o.ctl /\ p.sel = o.sel /\ p.resetId = o.resetId /\ p.nextTx = o.nextTx
    BY DEF Reliability_Publish, OutputRecord
  <1>2. Output_Coherent(p, recovering)
    BY <1>1, RetryAssumption
    DEF Reliability_CanPublish, Output_Coherent, Reliability_Coherent, Control_Coherent,
        ReliablePeeked, ControlPeeked, ControlPending, RetryAssumption
  <1> QED BY <1>1, <1>2

\* A control item takes the free slot, or is the one already there.
LEMMA PublishControlCoherent ==
    ASSUME NEW T, NEW o \in OutputRecord(T), NEW item \in ControlFrame, NEW recovering,
           Output_Coherent(o, recovering), Control_Accepts(o, item)
    PROVE  LET p == Control_Publish(o, item)
           IN  /\ Output_Coherent(p, recovering)
               /\ p.ctl.item = item /\ p.ctl.state # "IDLE"
               /\ p.rel = o.rel /\ p.sel = o.sel /\ p.resetId = o.resetId /\ p.nextTx = o.nextTx
  <1> DEFINE p == Control_Publish(o, item)
  <1>1. item # NoFrame
    BY DEF ControlFrame, ControlTypes, NoFrame
  <1>2. CASE o.ctl.state = "IDLE"
    <2>1. /\ p.ctl = [state |-> "READY", item |-> item]
          /\ p.rel = o.rel /\ p.sel = o.sel /\ p.resetId = o.resetId /\ p.nextTx = o.nextTx
      BY <1>2 DEF Control_Publish, OutputRecord
    <2> QED
      BY <1>1, <1>2, <2>1
      DEF Output_Coherent, Reliability_Coherent, Control_Coherent, ReliablePeeked, ControlPeeked,
          ControlPending
  <1>3. CASE o.ctl.state # "IDLE"
    BY <1>3 DEF Control_Publish, Control_Accepts
  <1> QED BY <1>2, <1>3

\* An ACK that matches empties the retained slot, which was not pinned.
LEMMA AcknowledgementCoherent ==
    ASSUME NEW T, NEW o \in OutputRecord(T), NEW seq, NEW recovering,
           Output_Coherent(o, recovering), Ack_Matches(o, seq)
    PROVE  LET p == Reliability_Accept_Acknowledgement(o, seq)
           IN  /\ Output_Coherent(p, recovering)
               /\ p.rel = IdleReliable
               /\ p.ctl = o.ctl /\ p.sel = o.sel /\ p.resetId = o.resetId
  <1> DEFINE p == Reliability_Accept_Acknowledgement(o, seq)
  <1>1. p.rel = IdleReliable /\ p.ctl = o.ctl /\ p.sel = o.sel /\ p.resetId = o.resetId
    BY DEF Reliability_Accept_Acknowledgement, OutputRecord
  <1>2. o.sel # "RELIABLE"
    BY DEF Ack_Matches, Output_Coherent, ReliablePeeked
  <1> QED
    BY <1>1, <1>2, RetryAssumption
    DEF Output_Coherent, Reliability_Coherent, Control_Coherent, ReliablePeeked, ControlPeeked,
        ControlPending, IdleReliable, RetryAssumption

\* A retry or an exhaustion changes the phase of the retained frame, and only that.
LEMMA RetryCoherent ==
    ASSUME NEW T, NEW o \in OutputRecord(T), NEW recovering,
           Output_Coherent(o, recovering), o.rel.state = "AWAITING_ACK"
    PROVE  LET p == RetryOrExhaust(o)
           IN  /\ Output_Coherent(p, recovering)
               /\ p.rel.frame = o.rel.frame /\ p.rel.state # "IDLE"
               /\ p.ctl = o.ctl /\ p.sel = o.sel /\ p.resetId = o.resetId /\ p.nextTx = o.nextTx
  <1> DEFINE p == RetryOrExhaust(o)
  <1>1. /\ p.rel.state = IF o.rel.retx < MaxRetries THEN "RETRANSMIT_READY" ELSE "EXHAUSTED"
        /\ p.rel.frame = o.rel.frame /\ p.rel.retx = o.rel.retx
        /\ p.ctl = o.ctl /\ p.sel = o.sel /\ p.resetId = o.resetId /\ p.nextTx = o.nextTx
    BY DEF RetryOrExhaust, OutputRecord, ReliableRecord
  <1>2. o.rel.retx \in 0 .. MaxRetries /\ o.sel # "RELIABLE"
    BY DEF OutputRecord, ReliableRecord, Output_Coherent, ReliablePeeked
  <1> QED
    BY <1>1, <1>2, RetryAssumption
    DEF Output_Coherent, Reliability_Coherent, Control_Coherent, ReliablePeeked, ControlPeeked,
        ControlPending, RetryAssumption

\* A peek pins at most one slot, which was on offer, and leaves what is in it alone.
LEMMA PeekCoherent ==
    ASSUME NEW T, NEW o \in OutputRecord(T), NEW fits \in BOOLEAN, NEW recovering,
           Output_Coherent(o, recovering)
    PROVE  LET p == Output_Peek(o, fits)
           IN  /\ Output_Coherent(p, recovering)
               /\ p.rel.frame = o.rel.frame /\ p.ctl.item = o.ctl.item
               /\ p.resetId = o.resetId /\ p.nextTx = o.nextTx
  <1> DEFINE p == Output_Peek(o, fits)
  <1>1. CASE fits /\ Output_Choice(o) = "CONTROL"
    <2>1. /\ p.ctl = [state |-> "PEEKED", item |-> o.ctl.item] /\ p.sel = "CONTROL"
          /\ p.rel = o.rel /\ p.resetId = o.resetId /\ p.nextTx = o.nextTx
      BY <1>1 DEF Output_Peek, OutputRecord, ControlRecord
    <2>2. o.ctl.state # "IDLE" /\ o.sel # "RELIABLE"
      BY <1>1 DEF Output_Choice, Output_Coherent, ControlPeeked, ControlPending
    <2> QED
      BY <2>1, <2>2
      DEF Output_Coherent, Reliability_Coherent, Control_Coherent, ReliablePeeked, ControlPeeked,
          ControlPending
  <1>2. CASE fits /\ Output_Choice(o) = "RELIABLE"
    <2>1. /\ p.rel = Reliability_Peek(o).rel /\ p.sel = "RELIABLE"
          /\ p.ctl = o.ctl /\ p.resetId = o.resetId /\ p.nextTx = o.nextTx
      BY <1>2 DEF Output_Peek, Reliability_Peek, OutputRecord
    <2>2. o.rel.state \in {"READY", "PEEKED", "RETRANSMIT_READY", "RETRANSMIT_PEEKED"}
          /\ o.sel # "CONTROL"
      BY <1>2 DEF Output_Choice, Output_Coherent, ReliablePeeked, ReliableOffered
    <2>3. /\ p.rel.state =
                IF o.rel.state \in {"READY", "PEEKED"} THEN "PEEKED" ELSE "RETRANSMIT_PEEKED"
          /\ p.rel.frame = o.rel.frame /\ p.rel.retx = o.rel.retx /\ p.rel.sent = o.rel.sent
      BY <2>1, <2>2 DEF Reliability_Peek, OutputRecord, ReliableRecord
    <2> QED
      BY <2>1, <2>2, <2>3
      DEF Output_Coherent, Reliability_Coherent, Control_Coherent, ReliablePeeked, ControlPeeked,
          ControlPending
  <1>3. CASE ~ fits \/ Output_Choice(o) \notin {"CONTROL", "RELIABLE"}
    BY <1>3 DEF Output_Peek
  <1> QED BY <1>1, <1>2, <1>3

\* A commit empties the control slot or starts the wait for an acknowledgement.
LEMMA CommitCoherent ==
    ASSUME NEW T, NEW o \in OutputRecord(T), NEW t \in T, NEW recovering,
           Output_Coherent(o, recovering)
    PROVE  LET p == Output_Commit(o, t)
           IN  /\ Output_Coherent(p, recovering)
               /\ p.rel.frame = o.rel.frame /\ p.nextTx = o.nextTx
               /\ \/ p.ctl = o.ctl /\ p.resetId = o.resetId
                  \/ o.sel = "CONTROL" /\ p.ctl = IdleControl /\ p.resetId = NoSession
  <1> DEFINE p == Output_Commit(o, t)
  <1>1. CASE o.sel = "RELIABLE"
    <2>1. /\ p.rel.state = "AWAITING_ACK" /\ p.rel.frame = o.rel.frame
          /\ p.rel.retx = IF o.rel.state = "RETRANSMIT_PEEKED"
                             THEN o.rel.retx + 1 ELSE o.rel.retx
          /\ p.ctl = o.ctl /\ p.sel = "NONE" /\ p.resetId = o.resetId
          /\ p.nextTx = o.nextTx
      BY <1>1 DEF Output_Commit, Reliability_Commit, OutputRecord
    <2>2. /\ o.rel.state \in {"PEEKED", "RETRANSMIT_PEEKED"}
          /\ o.rel.retx \in 0 .. MaxRetries
          /\ o.rel.state = "RETRANSMIT_PEEKED" => o.rel.retx < MaxRetries
          /\ o.rel.state = "PEEKED" => o.rel.retx = 0
      BY <1>1
      DEF OutputRecord, ReliableRecord, Output_Coherent, ReliablePeeked, Reliability_Coherent
    <2>3. Output_Coherent(p, recovering)
      BY <1>1, <2>1, <2>2, RetryAssumption
      DEF Output_Coherent, Reliability_Coherent, Control_Coherent, ReliablePeeked, ControlPeeked,
          ControlPending, RetryAssumption
    <2> QED BY <2>1, <2>3
  <1>2. CASE o.sel = "CONTROL"
    <2>1. /\ p.rel = o.rel /\ p.ctl = IdleControl /\ p.sel = "NONE"
          /\ p.resetId = NoSession /\ p.nextTx = o.nextTx
      BY <1>2 DEF Output_Commit, OutputRecord
    <2>2. Output_Coherent(p, recovering)
      BY <1>2, <2>1
      DEF Output_Coherent, Reliability_Coherent, Control_Coherent, ReliablePeeked, ControlPeeked,
          ControlPending, IdleControl
    <2> QED BY <1>2, <2>1, <2>2
  <1>3. CASE o.sel = "NONE"
    BY <1>3 DEF Output_Commit
  <1> QED BY <1>1, <1>2, <1>3 DEF OutputRecord, Selections

=============================================================================
