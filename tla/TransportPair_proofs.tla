------------------------- MODULE TransportPair_proofs -------------------------
(***************************************************************************)
(* The host never believes in a session its rig did not join, for every    *)
(* number of faults, resets and reconnections.  A host establishes on an   *)
(* ACK or an application frame; the rig puts these on the wire only in the *)
(* session it is in.  So every ACK and message on its way to the host, or  *)
(* held by the host, names a joined session (Vouched), and no operation    *)
(* of the host establishes a session that such a frame does not name       *)
(* (Trusting).  What a call does otherwise is in TransportProfile_proofs.  *)
(*                                                                         *)
(* The second half proves that each direction implements MessageService    *)
(* while the identifier the host uses next is on no body under way         *)
(* (Fresh), and that it is not until the identifiers start over.  Its      *)
(* invariant (World) is about the two ends, the sets of bodies under way   *)
(* and which of them is ahead of which; every move of an endpoint, as      *)
(* TransportProfile_proofs lists them, keeps it.                           *)
(***************************************************************************)
EXTENDS TransportPair, TransportProfile_proofs

\* The fields of an endpoint.  Trusting fixes them, so that an EXCEPT on an endpoint is
\* known to change its field without the rest of Sound.
Fields ==
    {"role", "link", "state", "phase", "id", "nextId", "abandoned", "out", "lastRx", "confirm",
     "parser", "errPending", "submitted", "received", "events"}

\* An ACK or a message vouches for the session it names: the rig had joined it.
Vouched(f, ids) == f.type \in {"ACK", "APPLICATION"} => f.id \in ids

\* A host is in a joined session, if any, and the body it holds names no other as joined.
Trusting(e, ids) ==
    /\ DOMAIN e = Fields /\ DOMAIN e.parser = {"state", "body"}
    /\ e.role = "HOST" /\ e.state = "ESTABLISHED" => e.id \in ids
    /\ Vouched(e.parser.body, ids)

-----------------------------------------------------------------------------
(* What the host trusts, one operation at a time *)

\* A report to the application trusts no new session.
LEMMA TrustPublishing ==
    ASSUME NEW ids, NEW e, Trusting(e, ids), NEW type
    PROVE  Trusting(Events_Publish(e, type), ids)
  BY DEF Events_Publish, Trusting, Fields

\* Nor does a fault.
LEMMA TrustFaulting ==
    ASSUME NEW ids, NEW e, Trusting(e, ids)
    PROVE  /\ Trusting(Enter_Fault(e), ids)
           /\ Trusting([e EXCEPT !.state = "FAULT"], ids)
  BY DEF Enter_Fault, Clear_Scoped_Work, EmptyParser, NoFrame, Trusting, Fields, Vouched

\* Output, work, receive baseline, events and link have no part in what is trusted.
LEMMA TrustOutput ==
    ASSUME NEW ids, NEW e, Trusting(e, ids), NEW o
    PROVE  /\ Trusting([e EXCEPT !.out = o], ids)
           /\ \A a : Trusting([e EXCEPT !.out = o, !.submitted = a], ids)
           /\ \A a : Trusting([e EXCEPT !.lastRx = a], ids)
           /\ \A a : Trusting([e EXCEPT !.received = a], ids)
           /\ \A a : Trusting([e EXCEPT !.errPending = a], ids)
           /\ \A a : Trusting([e EXCEPT !.events = a], ids)
           /\ \A a : Trusting([e EXCEPT !.link = a], ids)
  BY DEF Trusting, Fields

\* Abandoning a session leaves it and drops the body held for it.
LEMMA TrustAbandon ==
    ASSUME NEW ids, NEW e, Trusting(e, ids)
    PROVE  Trusting(Abandon(e).e, ids)
  <1> DEFINE left == [Clear_Scoped_Work(e) EXCEPT
                         !.abandoned = IF e.id # NoSession THEN e.id ELSE @,
                         !.state = Unestablished(e)]
  <1>1. Trusting(left, ids)
    BY DEF Clear_Scoped_Work, EmptyParser, NoFrame, Trusting, Fields, Vouched, Unestablished
  <1>2. Abandon(e) =
            IF ~ Completed_Confirm_Valid(e) \/ e.state = "FAULT"
            THEN Result(Enter_Fault(e), "INTERNAL_ERROR")
            ELSE Result(Events_Publish(left, "SESSION_RESET"),
                        IF EventsFull(e) THEN "CAPACITY_EXHAUSTED" ELSE "OK")
    BY DEF Abandon
  <1> HIDE DEF left
  <1>3. Abandon(e).e = Enter_Fault(e) \/ Abandon(e).e = Events_Publish(left, "SESSION_RESET")
    BY <1>2 DEF Result
  <1>4. Trusting(Enter_Fault(e), ids) /\ Trusting(Events_Publish(left, "SESSION_RESET"), ids)
    BY <1>1, TrustFaulting, TrustPublishing
  <1> QED BY <1>3, <1>4

\* A new attempt is connecting only.
LEMMA TrustBegin ==
    ASSUME NEW ids, NEW e, Trusting(e, ids)
    PROVE  Trusting(Begin_Establishment(e).e, ids)
  <1>1. Trusting(Establishing(e), ids)
    BY DEF Establishing, Trusting, Fields
  <1>2. Begin_Establishment(e).e \in {Enter_Fault(e), e, Establishing(e)}
    BY DEF Begin_Establishment, Result
  <1> QED BY <1>1, <1>2, TrustFaulting

\* A local recovery abandons the session and may owe its RESET.
LEMMA TrustRecovery ==
    ASSUME NEW ids, NEW e, Trusting(e, ids)
    PROVE  Trusting(Begin_Local_Recovery(e).e, ids)
  <1>1. \/ Begin_Local_Recovery(e) = Abandon(e)
        \/ Begin_Local_Recovery(e).e = Publish_Recovery_Reset(Abandon(e).e, e.id)
    BY DEF Begin_Local_Recovery, Announced, Result
  <1>2. Trusting(Abandon(e).e, ids)
    BY TrustAbandon
  <1>3. Trusting(Publish_Recovery_Reset(Abandon(e).e, e.id), ids)
    BY <1>2, TrustOutput DEF Publish_Recovery_Reset
  <1> QED BY <1>1, <1>2, <1>3

\* A frame out of its phase is answered again or ignored.
LEMMA TrustNotExpected ==
    ASSUME NEW ids, NEW e, Trusting(e, ids), NEW f, NEW phases, NEW type
    PROVE  Trusting(Not_Expected(e, f, phases, type).e, ids)
  <1>1. Trusting(Repeat_Answer(e, type).e, ids)
    BY TrustFaulting, TrustOutput DEF Repeat_Answer, Result
  <1>2. \/ Not_Expected(e, f, phases, type).e = e
        \/ Not_Expected(e, f, phases, type) = Repeat_Answer(e, type)
    BY DEF Not_Expected, Result
  <1> QED BY <1>1, <1>2

\* The host establishes: it trusts a session the rig is known to have joined.
LEMMA TrustComplete ==
    ASSUME NEW ids, NEW e, Trusting(e, ids), e.id \in ids
    PROVE  Trusting(Complete_Host(e), ids)
  <1> DEFINE d == [Handshake_Set_Established(e) EXCEPT
                     !.out = Reliability_Accept_Acknowledgement(@, e.out.rel.frame.seq),
                     !.confirm = e.out.rel.frame.seq]
  <1>1. Trusting(d, ids)
    BY DEF Handshake_Set_Established, Trusting, Fields
  <1>2. Complete_Host(e) = Events_Publish(d, "SESSION_ESTABLISHED")
    BY DEF Complete_Host
  <1> HIDE DEF d
  <1> QED BY <1>1, <1>2, TrustPublishing

\* A RESET replaces the session or changes nothing.
LEMMA TrustReset ==
    ASSUME NEW ids, NEW e, Trusting(e, ids), NEW f
    PROVE  Trusting(Handle_Reset(e, f).e, ids)
  <1>1. Handle_Reset(e, f).e \in {e, Abandon(e).e, Begin_Establishment(Abandon(e).e).e}
    BY DEF Handle_Reset, Begin_Replacement, Reset_Accepted, Result
  <1> QED BY <1>1, TrustAbandon, TrustBegin

\* A RESPONSE brings the host to its CONFIRM, not into the session.
LEMMA TrustResponse ==
    ASSUME NEW ids, NEW e, Trusting(e, ids), NEW f
    PROVE  Trusting(Handle_Host_Response(e, f).e, ids)
  <1> DEFINE taken == [Accept_Frame(e, f) EXCEPT
                         !.out = Reliability_Accept_Acknowledgement(@, f.ack),
                         !.phase = "CONFIRM_PENDING"]
             n == Not_Expected(e, f, {"CONFIRM_PENDING", "WAITING_FOR_CONFIRM_ACK"}, "CONFIRM")
  <1>1. Trusting(taken, ids)
    BY DEF Accept_Frame, Trusting, Fields
  <1>2. Handle_Host_Response(e, f).e \in {e, n.e, taken}
    BY DEF Handle_Host_Response, Result
  <1> HIDE DEF taken
  <1> QED BY <1>1, <1>2, TrustNotExpected

\* Of the handshake frames only an ACK that vouches for it completes the host.
LEMMA TrustHandshake ==
    ASSUME NEW ids, NEW e, Trusting(e, ids), NEW f, Vouched(f, ids)
    PROVE  Trusting(Handshake_Handle_Frame(e, f).e, ids)
  <1> DEFINE r == Handshake_Handle_Frame(e, f)
  <1>1. CASE e.role = "HOST" /\ f.type = "ACK"
    <2>1. CASE Completed_Confirm_Valid(e)
      <3>1. r.e = e \/ (f.id = e.id /\ r.e = Complete_Host(e))
        BY <1>1, <2>1 DEF Handshake_Handle_Frame, Handle_Host_Ack, Result
      <3> QED BY <1>1, <3>1, TrustComplete DEF Vouched
    <2>2. CASE ~ Completed_Confirm_Valid(e)
      BY <2>2, TrustFaulting DEF Handshake_Handle_Frame, Result
    <2> QED BY <2>1, <2>2
  <1>2. CASE e.role = "RIG" /\ f.type = "INITIATE" /\ Completed_Confirm_Valid(e)
    <2> DEFINE adopted == [Accept_Frame(e, f) EXCEPT !.id = f.id, !.phase = "RESPONSE_PENDING"]
               n == Not_Expected(e, f, {"RESPONSE_PENDING", "WAITING_FOR_CONFIRM"}, "RESPONSE")
    <2>1. Trusting(adopted, ids)
      BY <1>2 DEF Accept_Frame, Trusting, Fields
    <2>2. r = Handle_Rig_Initiate(e, f)
      BY <1>2 DEF Handshake_Handle_Frame
    <2>3. Handle_Rig_Initiate(e, f) = Result(adopted, "ACCEPTED")
          \/ Handle_Rig_Initiate(e, f).e = e \/ Handle_Rig_Initiate(e, f) = n
      <3> HIDE DEF adopted
      <3> QED BY DEF Handle_Rig_Initiate, adopted, Result
    <2> HIDE DEF adopted
    <2> QED BY <2>1, <2>2, <2>3, TrustNotExpected DEF Result
  <1>3. CASE e.role = "RIG" /\ f.type = "CONFIRM" /\ Completed_Confirm_Valid(e)
    <2> DEFINE p == Publish_Acknowledgement(e, f.seq)
               c == Handshake_Set_Established(
                  [Accept_Frame(p, f) EXCEPT
                       !.out = Reliability_Accept_Acknowledgement(@, f.ack)])
    <2>1. Trusting(c, ids)
      BY <1>3 DEF Accept_Frame, Handshake_Set_Established, Publish_Acknowledgement, Trusting, Fields
    <2>2. Confirm_Accepted(e, f) = Events_Publish(c, "SESSION_ESTABLISHED")
      BY DEF Confirm_Accepted
    <2>3. Trusting(p, ids) /\ Trusting(Confirm_Accepted(e, f), ids)
      <3> HIDE DEF c
      <3> QED BY <2>1, <2>2, TrustPublishing, TrustOutput DEF Publish_Acknowledgement
    <2> HIDE DEF p, c
    <2>4. r = Handle_Rig_Confirm(e, f)
      BY <1>3 DEF Handshake_Handle_Frame
    <2>5. r.e = e \/ r.e = p \/ r.e = Confirm_Accepted(e, f)
      BY <2>4 DEF Handle_Rig_Confirm, Repeated_Confirm, Result, p
    <2> QED BY <2>3, <2>5
  <1>4. CASE ~ (e.role = "HOST" /\ f.type = "ACK")
             /\ ~ (/\ e.role = "RIG" /\ f.type \in {"INITIATE", "CONFIRM"}
                   /\ Completed_Confirm_Valid(e))
    <2>1. \/ r.e = e \/ r = Result([e EXCEPT !.state = "FAULT"], "INTERNAL_ERROR")
          \/ r = Handle_Reset(e, f) \/ r = Handle_Host_Response(e, f)
      BY <1>4 DEF Handshake_Handle_Frame, Result
    <2> QED BY <2>1, TrustFaulting, TrustReset, TrustResponse DEF Result
  <1> QED BY <1>1, <1>2, <1>3, <1>4

\* Accepting a message changes the receive side only.
LEMMA TrustMessage ==
    ASSUME NEW ids, NEW e, Trusting(e, ids), NEW f
    PROVE  Trusting(Application_Handle_Received_Frame(e, f).e, ids)
  <1> DEFINE p == Publish_Acknowledgement(e, f.seq)
             a == [Accept_Frame(p, f) EXCEPT !.received = f.msg]
             r == Application_Handle_Received_Frame(e, f)
  <1>1. Trusting(p, ids)
    BY TrustOutput DEF Publish_Acknowledgement
  <1>2. r.e = e \/ r.e = p \/ r.e = a
    <2> HIDE DEF p, a
    <2> QED BY DEF Application_Handle_Received_Frame, Result, p, a
  <1> HIDE DEF p
  <1>3. Trusting(Accept_Frame(p, f), ids)
    BY <1>1, TrustOutput DEF Accept_Frame
  <1>4. Trusting(a, ids)
    BY <1>3, TrustOutput
  <1> HIDE DEF a
  <1> QED BY <1>1, <1>2, <1>4

\* The ACK of a message confirms it and establishes nothing.
LEMMA TrustDeliveryAck ==
    ASSUME NEW ids, NEW e, Trusting(e, ids), NEW f
    PROVE  Trusting(Application_Handle_Acknowledgement(e, f).e, ids)
  <1> DEFINE c == [e EXCEPT !.out = Reliability_Accept_Acknowledgement(@, f.ack),
                            !.submitted = NoMessage]
             b == [e EXCEPT !.state = "FAULT"]
             r == Application_Handle_Acknowledgement(e, f)
  <1>1. Trusting(c, ids) /\ Trusting(b, ids)
    BY TrustOutput, TrustFaulting
  <1> HIDE DEF c, b
  <1>2. r.e = e \/ r.e = b \/ r.e = Events_Publish(c, "DELIVERY_CONFIRMED")
    BY DEF Application_Handle_Acknowledgement, Result, b, c
  <1>3. Trusting(Events_Publish(c, "DELIVERY_CONFIRMED"), ids)
    BY <1>1, TrustPublishing
  <1> QED BY <1>1, <1>2, <1>3

\* A message may complete the host in place of the ACK: it vouches for the session as well.
LEMMA TrustProof ==
    ASSUME NEW ids, NEW e, Trusting(e, ids), NEW f, f.type = "APPLICATION", Vouched(f, ids)
    PROVE  Trusting(Accept_Proved(Try_Complete_Host_From_Application(e, f), f).e, ids)
  <1> DEFINE t == Try_Complete_Host_From_Application(e, f)
             b == [e EXCEPT !.state = "FAULT"]
  <1>1. t.e = e \/ t.e = b \/ (f.id = e.id /\ t.e = Complete_Host(e))
    <2> HIDE DEF b
    <2> QED BY DEF Try_Complete_Host_From_Application, Result, b
  <1>2. Trusting(b, ids)
    BY TrustFaulting
  <1> HIDE DEF b, t
  <1>3. Trusting(t.e, ids)
    BY <1>1, <1>2, TrustComplete DEF Vouched
  <1> QED BY <1>3, TrustMessage DEF Accept_Proved, t

\* Rejecting a body, or reporting a rejection that was owed, is an event.
LEMMA TrustRejecting ==
    ASSUME NEW ids, NEW e, Trusting(e, ids)
    PROVE  /\ Trusting(Reject_Retained_Body(e).e, ids)
           /\ Trusting(Reject_Obsolete_Body(e).e, ids)
           /\ Trusting(Process_Pending_Error(e).e, ids)
  <1> DEFINE p == Events_Publish(e, "PROTOCOL_ERROR")
             q == [p EXCEPT !.errPending = EventsFull(e)]
  <1>1. Trusting(p, ids)
    BY TrustPublishing
  <1>2. Trusting(q, ids)
    <2> HIDE DEF p
    <2> QED BY <1>1, TrustOutput
  <1>3. /\ Reject_Retained_Body(e).e = p
        /\ Reject_Obsolete_Body(e).e = q
        /\ Process_Pending_Error(e).e = e \/ Process_Pending_Error(e).e = q
    BY DEF Reject_Retained_Body, Reject_Obsolete_Body, Process_Pending_Error, Outcome, Result
  <1> HIDE DEF p, q
  <1> QED BY <1>1, <1>2, <1>3

\* Traffic no session allows ends the session, or the report of it waits.
LEMMA TrustLeaving ==
    ASSUME NEW ids, NEW e, Trusting(e, ids)
    PROVE  Trusting(Abandon_Incompatible_Session(e).e, ids)
  <1> DEFINE p == Events_Publish(e, "PROTOCOL_ERROR")
             b == Begin_Local_Recovery(p)
             r == Abandon_Incompatible_Session(e)
  <1>1. Trusting(p, ids)
    BY TrustPublishing
  <1>2. Trusting(b.e, ids)
    BY <1>1, TrustRecovery
  <1>3. r = Abandoned(b, EventsFull(e)) \/ r = Reject_Obsolete_Body(e) \/ r = Receive_Fault(p)
    BY DEF Abandon_Incompatible_Session
  <1> HIDE DEF p, b
  <1>4. Trusting(Enter_Fault(p), ids) /\ Trusting(Enter_Fault(b.e), ids)
    BY <1>1, <1>2, TrustFaulting
  <1>5. Trusting(Abandoned(b, EventsFull(e)).e, ids)
    BY <1>2, <1>4, TrustOutput DEF Abandoned, Receive_Fault, Outcome
  <1>6. Trusting(Receive_Fault(p).e, ids)
    BY <1>4 DEF Receive_Fault, Outcome
  <1>7. Trusting(Reject_Obsolete_Body(e).e, ids)
    BY TrustRejecting
  <1> QED BY <1>3, <1>5, <1>6, <1>7

\* What becomes of the body afterwards is a rejection or the end of the session.
LEMMA TrustDisposing ==
    ASSUME NEW ids, NEW r, Trusting(r.e, ids)
    PROVE  Trusting(Dispose(r).e, ids)
  <1>1. \/ Dispose(r).e = r.e
        \/ Dispose(r) = Reject_Retained_Body(r.e)
        \/ Dispose(r) = Abandon_Incompatible_Session(r.e)
        \/ Dispose(r).e = Enter_Fault(r.e)
    BY DEF Dispose, Outcome, Receive_Fault
  <1>2. Trusting(Enter_Fault(r.e), ids)
    BY TrustFaulting
  <1>3. Trusting(Reject_Retained_Body(r.e).e, ids)
    BY TrustRejecting
  <1>4. Trusting(Abandon_Incompatible_Session(r.e).e, ids)
    BY TrustLeaving
  <1> QED BY <1>1, <1>2, <1>3, <1>4

\* Dispatching one frame: each handler by the lemma of its own.
LEMMA TrustDispatching ==
    ASSUME NEW ids, NEW e, Trusting(e, ids), NEW f, Vouched(f, ids)
    PROVE  Trusting(Dispatch_Frame(e, f).e, ids)
  <1>1. /\ Trusting(Reject_Obsolete_Body(e).e, ids)
        /\ Trusting(Reject_Retained_Body(e).e, ids)
    BY TrustRejecting
  <1>2. Trusting(Abandon_Incompatible_Session(e).e, ids)
    BY TrustLeaving
  <1>3. Trusting(Dispose(Handshake_Handle_Frame(e, f)).e, ids)
    BY TrustHandshake, TrustDisposing
  <1>4. Trusting(Dispatch_Acknowledgement(e, f).e, ids)
    <2>1. Trusting(Dispose(Application_Handle_Acknowledgement(e, f)).e, ids)
      BY TrustDeliveryAck, TrustDisposing
    <2>2. \/ Dispatch_Acknowledgement(e, f) = Dispose(Application_Handle_Acknowledgement(e, f))
          \/ Dispatch_Acknowledgement(e, f) = Dispose(Handshake_Handle_Frame(e, f))
          \/ Dispatch_Acknowledgement(e, f).e = e
          \/ Dispatch_Acknowledgement(e, f) = Reject_Retained_Body(e)
      BY DEF Dispatch_Acknowledgement, Outcome
    <2> QED BY <1>1, <1>3, <2>1, <2>2
  <1>5. f.type = "APPLICATION" => Trusting(Dispatch_Application(e, f).e, ids)
    BY TrustProof, TrustDisposing DEF Dispatch_Application
  <1>6. \/ Dispatch_Frame(e, f) = Reject_Obsolete_Body(e)
        \/ Dispatch_Frame(e, f) = Abandon_Incompatible_Session(e)
        \/ Dispatch_Frame(e, f) = Dispatch_Acknowledgement(e, f)
        \/ f.type = "APPLICATION" /\ Dispatch_Frame(e, f) = Dispatch_Application(e, f)
        \/ Dispatch_Frame(e, f) = Dispose(Handshake_Handle_Frame(e, f))
    BY DEF Dispatch_Frame
  <1> QED BY <1>1, <1>2, <1>3, <1>4, <1>5, <1>6

\* A body that is held, decoded and handled, was vouched for when it was taken in.
LEMMA TrustBody ==
    ASSUME NEW ids, NEW e, Trusting(e, ids)
    PROVE  Trusting(Process_Retained_Body(e).e, ids)
  <1> DEFINE o == Decode_Retained_Body(e)
             q == [o.e EXCEPT !.parser = EmptyParser]
  <1>1. Trusting(o.e, ids)
    <2>1. Vouched(e.parser.body, ids)
      BY DEF Trusting
    <2>2. /\ Trusting(Dispatch_Frame(e, e.parser.body).e, ids)
          /\ Trusting(Abandon_Incompatible_Session(e).e, ids)
          /\ Trusting(Reject_Retained_Body(e).e, ids)
      BY <2>1, TrustDispatching, TrustLeaving, TrustRejecting
    <2>3. \/ o = Dispatch_Frame(e, e.parser.body) \/ o = Abandon_Incompatible_Session(e)
          \/ o = Reject_Retained_Body(e)
      BY DEF Decode_Retained_Body
    <2> QED BY <2>2, <2>3
  <1> HIDE DEF o
  <1>2. Trusting(q, ids)
    BY <1>1 DEF Trusting, Fields, EmptyParser, NoFrame, Vouched
  <1>3. Process_Retained_Body(e).e = o.e \/ Process_Retained_Body(e).e = q
    <2> HIDE DEF q
    <2> QED BY DEF Process_Retained_Body, Settle, Result, o, q
  <1> HIDE DEF q
  <1> QED BY <1>1, <1>2, <1>3

\* The attempt after a recovery.
LEMMA TrustAdvancing ==
    ASSUME NEW ids, NEW e, Trusting(e, ids)
    PROVE  Trusting(Try_Advance_Recovery(e).e, ids)
  <1>1. Try_Advance_Recovery(e).e = e \/ Try_Advance_Recovery(e) = Begin_Establishment(e)
    BY DEF Try_Advance_Recovery, Result
  <1> QED BY <1>1, TrustBegin

\* What a receive call does before it takes new bytes.
LEMMA TrustStarting ==
    ASSUME NEW ids, NEW e, Trusting(e, ids)
    PROVE  Trusting(Receive_Start(e).e, ids)
  <1> DEFINE first == Process_Pending_Error(e)
             held == After_Error(first)
  <1>1. Trusting(first.e, ids)
    BY TrustRejecting
  <1> HIDE DEF first
  <1>2. Trusting(held.e, ids)
    <2>1. held = first \/ held = Process_Retained_Body(first.e) \/ held.e = first.e
      BY DEF After_Error, Process_Held, Result
    <2>2. Trusting(Process_Retained_Body(first.e).e, ids)
      BY <1>1, TrustBody
    <2> HIDE DEF held
    <2> QED BY <1>1, <2>1, <2>2
  <1>3. Receive_Start(e) = held \/ Receive_Start(e) = Try_Advance_Recovery(held.e)
    BY DEF Receive_Start, Then_Advance, first
  <1> HIDE DEF held
  <1> QED BY <1>2, <1>3, TrustAdvancing

\* New bytes fill the parser with the body that arrives, and nothing else.
LEMMA TrustPushing ==
    ASSUME NEW ids, NEW e, Trusting(e, ids), NEW input, Vouched(input, ids)
    PROVE  Trusting(Push_Bytes(e, input).e, ids)
  <1> DEFINE q == [e EXCEPT !.parser = [state |-> "READY", body |-> input]]
             d == [e EXCEPT !.parser = EmptyParser, !.errPending = TRUE]
             a == [e EXCEPT !.parser.state = "PARTIAL"]
             b == [e EXCEPT !.parser.state = "DISCARDING"]
  <1>1. Trusting(q, ids)
    BY DEF Trusting, Fields
  <1>2. Trusting(d, ids)
    BY DEF Trusting, Fields, EmptyParser, NoFrame, Vouched
  <1>3. Trusting(a, ids) /\ Trusting(b, ids)
    BY DEF Trusting, Fields
  <1> HIDE DEF q, d, a, b
  <1>4. \/ Push_Bytes(e, input).e = a \/ Push_Bytes(e, input).e = b \/ Push_Bytes(e, input).e = e
        \/ Push_Bytes(e, input) = Process_Retained_Body(q)
        \/ Push_Bytes(e, input) = Process_Pending_Error(d)
    BY DEF Push_Bytes, Result, q, d, a, b
  <1>5. Trusting(Process_Retained_Body(q).e, ids)
    BY <1>1, TrustBody
  <1>6. Trusting(Process_Pending_Error(d).e, ids)
    BY <1>2, TrustRejecting
  <1> QED BY <1>3, <1>4, <1>5, <1>6

\* One receive call: the host trusts more only if the input vouches for more.
LEMMA TrustReceiving ==
    ASSUME NEW ids, NEW e, Trusting(e, ids), NEW input, Vouched(input, ids)
    PROVE  Trusting(Receive_Bytes(e, input).e, ids)
  <1> DEFINE s == Receive_Start(e)
             p == Then_Push(s, input)
             r == After_Body(p, input)
  <1>1. Trusting(s.e, ids)
    BY TrustStarting
  <1> HIDE DEF s
  <1>2. Trusting(p.e, ids)
    <2>1. p = s \/ p = Push_Bytes(s.e, input)
      BY DEF Then_Push
    <2>2. Trusting(Push_Bytes(s.e, input).e, ids)
      BY <1>1, TrustPushing
    <2> QED BY <1>1, <2>1, <2>2
  <1> HIDE DEF p
  <1>3. Trusting(r.e, ids)
    <2>1. r = p \/ r = Try_Advance_Recovery(p.e)
      BY DEF After_Body, Then_Advance
    <2>2. Trusting(Try_Advance_Recovery(p.e).e, ids)
      BY <1>2, TrustAdvancing
    <2> QED BY <1>2, <2>1, <2>2
  <1> HIDE DEF r
  <1>4. Receive_Bytes(e, input).e = e \/ Receive_Bytes(e, input).e = Enter_Fault(e)
        \/ Receive_Bytes(e, input) = r
    BY DEF Receive_Bytes, Result, s, p, r
  <1>5. Trusting(Enter_Fault(e), ids)
    BY TrustFaulting
  <1> QED BY <1>3, <1>4, <1>5

\* Publishing a handshake frame moves the phase, not the session.
LEMMA TrustShaking ==
    ASSUME NEW ids, NEW e, Trusting(e, ids)
    PROVE  Trusting(Handshake_Process(e).e, ids)
  <1>1. ASSUME NEW type, NEW ack, NEW next
        PROVE  Trusting(Handshake_Publish_Reliable(e, type, ack, next).e, ids)
    <2> DEFINE frame == MakeFrame(type, e.id, e.out.nextTx, ack, NoMessage)
               q == [e EXCEPT !.out = Reliability_Publish(@, frame), !.phase = next]
    <2>1. Trusting(q, ids)
      BY DEF Trusting, Fields
    <2>2. \/ Handshake_Publish_Reliable(e, type, ack, next) = Result(q, "OK")
          \/ Handshake_Publish_Reliable(e, type, ack, next) = Result(e, "NOT_READY")
      BY DEF Handshake_Publish_Reliable
    <2> HIDE DEF q
    <2> QED BY <2>1, <2>2 DEF Result
  <1>2. \/ \E type, ack, next :
               Handshake_Process(e) = Handshake_Publish_Reliable(e, type, ack, next)
        \/ Handshake_Process(e) = Result(e, "OK")
    BY DEF Handshake_Process
  <1> QED BY <1>1, <1>2 DEF Result

\* Giving up on a frame ends the session it belongs to.
LEMMA TrustGivingUp ==
    ASSUME NEW ids, NEW e, Trusting(e, ids)
    PROVE  Trusting(Give_Up(e).e, ids)
  <1> DEFINE p == Events_Publish(e, "DELIVERY_FAILED")
             l == Begin_Local_Recovery(p)
             b == [e EXCEPT !.state = "FAULT"]
             r == Give_Up(e)
  <1>1. Trusting(l.e, ids) /\ Trusting(b, ids) /\ Trusting(Begin_Local_Recovery(e).e, ids)
    <2>1. Trusting(p, ids)
      BY TrustPublishing
    <2> HIDE DEF p
    <2> QED BY <2>1, TrustRecovery, TrustFaulting
  <1> HIDE DEF l, b
  <1>2. r.e = e \/ r.e = b \/ r = Delivery_Failed(l) \/ r = Begin_Local_Recovery(e)
    BY DEF Give_Up, Application_Handle_Retry_Exhaustion, Result, l, b
  <1>3. Delivery_Failed(l).e = l.e
    BY DEF Delivery_Failed, Result
  <1> QED BY <1>1, <1>2, <1>3

\* Timers and retransmissions.
LEMMA TrustRetrying ==
    ASSUME NEW ids, NEW e, Trusting(e, ids), NEW expired
    PROVE  Trusting(Process_Reliability(e, expired).e, ids)
  <1> DEFINE q == [e EXCEPT !.out = Reliability_Process_Pending(@, expired)]
             b == [e EXCEPT !.state = "FAULT"]
  <1>1. Trusting(q, ids) /\ Trusting(b, ids)
    BY TrustOutput, TrustFaulting
  <1>2. \/ Process_Reliability(e, expired) = Give_Up(q)
        \/ Process_Reliability(e, expired) = Result(b, "INTERNAL_ERROR")
    BY DEF Process_Reliability
  <1> HIDE DEF q, b
  <1>3. Trusting(Give_Up(q).e, ids)
    BY <1>1, TrustGivingUp
  <1> QED BY <1>1, <1>2, <1>3 DEF Result

\* One Process call: it may take up the body held, and takes in no other.
LEMMA TrustProcessing ==
    ASSUME NEW ids, NEW e, Trusting(e, ids), NEW expired
    PROVE  Trusting(Profile_Process(e, expired).e, ids)
  <1> DEFINE a == Process_Receive(e)
  <1>1. Trusting(a.e, ids)
    <2>1. Vouched(NoInput, ids)
      BY DEF NoInput, NoFrame, Vouched
    <2>2. Trusting(Receive_Bytes(e, NoInput).e, ids)
      BY <2>1, TrustReceiving
    <2>3. a = Receive_Bytes(e, NoInput) \/ a = Result(e, "OK")
      BY DEF Process_Receive
    <2> QED BY <2>2, <2>3 DEF Result
  <1> HIDE DEF a
  <1> DEFINE b == Process_Recovery(a.e)
             c == Then_Handshake(b)
             d == Then_Reliability(c, expired)
  <1>2. Trusting(b.e, ids)
    <2>1. b = Begin_Establishment(a.e) \/ b = Result(a.e, "OK")
      BY DEF Process_Recovery
    <2>2. Trusting(Begin_Establishment(a.e).e, ids)
      BY <1>1, TrustBegin
    <2> QED BY <1>1, <2>1, <2>2 DEF Result
  <1> HIDE DEF b
  <1>3. Trusting(c.e, ids)
    BY <1>2, TrustShaking DEF Then_Handshake
  <1> HIDE DEF c
  <1>4. Trusting(d.e, ids)
    BY <1>3, TrustRetrying DEF Then_Reliability
  <1> HIDE DEF d
  <1>5. Process_Session(a.e, expired) = Result(a.e, "OK") \/ Process_Session(a.e, expired) = d
    BY DEF Process_Session, b, c, d
  <1>6. Trusting(Process_Session(a.e, expired).e, ids)
    BY <1>1, <1>4, <1>5 DEF Result
  <1>7. \/ Profile_Process(e, expired).e = e
        \/ Profile_Process(e, expired) = a
        \/ Profile_Process(e, expired) = Process_Session(a.e, expired)
    BY DEF Profile_Process, Then_Session, Result, a
  <1> QED BY <1>1, <1>6, <1>7

\* An endpoint that is not established and holds nothing trusts nothing.
LEMMA TrustsNothing ==
    ASSUME NEW ids, NEW e \in Endpoint, e.state # "ESTABLISHED", e.parser = EmptyParser
    PROVE  Trusting(e, ids)
  BY DEF Trusting, Fields, Endpoint, EndpointRecord, EmptyParser, NoFrame, Vouched

\* Trust is about role, state, identifier and parser only.
LEMMA TrustsTheSame ==
    ASSUME NEW ids, NEW e, Trusting(e, ids), NEW q \in Endpoint,
           q.role = e.role, q.state = e.state, q.id = e.id, q.parser = e.parser
    PROVE  Trusting(q, ids)
  BY DEF Trusting, Fields, Endpoint, EndpointRecord

\* What vouches for a session once vouches for it ever after: the rig's sessions only grow.
LEMMA TrustGrows ==
    ASSUME NEW ids, NEW more, ids \subseteq more, NEW e, Trusting(e, ids)
    PROVE  Trusting(e, more)
  BY DEF Trusting, Vouched

-----------------------------------------------------------------------------
(* The wire *)

\* What a channel carries, and the part of it that names no session the rig was not in.
Carried == Bodies \cup {PartialInput}
VouchedBodies(ids) == {f \in Carried : Vouched(f, ids)}

\* What damage leaves of a body vouches for nothing, and is a body still.
LEMMA DamagedBodies ==
    ASSUME NEW ids
    PROVE  MalformedBody \in VouchedBodies(ids) /\ PartialInput \in VouchedBodies(ids)
  BY DEF VouchedBodies, Carried, Bodies, MalformedBody, PartialInput, NoFrame, Vouched

\* Losing, replacing or adding a body leaves a sequence of bodies.
LEMMA ChannelType ==
    ASSUME NEW S, NEW q \in Seq(S), NEW x \in S
    PROVE  /\ Append(q, x) \in Seq(S)
           /\ q # <<>> => Tail(q) \in Seq(S) /\ Head(q) \in S /\ [q EXCEPT ![1] = x] \in Seq(S)
           /\ <<>> \in Seq(S)
  <1>1. ASSUME q # <<>>
        PROVE  [q EXCEPT ![1] = x] \in Seq(S)
    <2>1. q \in [1 .. Len(q) -> S] /\ Len(q) \in Nat
      OBVIOUS
    <2>2. [q EXCEPT ![1] = x] \in [1 .. Len(q) -> S]
      BY <2>1
    <2> QED BY <2>1, <2>2
  <1> QED BY <1>1

\* What a sound endpoint offers to the wire is a frame; an ACK or a message it offers is of
\* the session it has established.
LEMMA Offering ==
    ASSUME NEW e, Sound(e), e.out.sel # "NONE"
    PROVE  LET f == Output_Bytes(e.out)
           IN  /\ f \in Bodies
               /\ f.type \in {"ACK", "APPLICATION"} => Is_Established(e) /\ f.id = e.id
  <1> DEFINE f == Output_Bytes(e.out)
  <1>1. /\ e \in Endpoint /\ e.out \in OutputRecord({0})
        /\ Output_Coherent(e.out, Recovering(e))
    BY DEF Sound, Endpoint, EndpointRecord
  <1>2. ASSUME e.phase = "ESTABLISHED"
        PROVE  Is_Established(e)
    BY <1>1, <1>2
    DEF Sound, LifeOK, PhasesOf, HostPhases, RigPhases, Is_Established, Endpoint,
        EndpointRecord, SessionStates
  <1>3. CASE e.out.sel = "CONTROL"
    <2>1. f = e.out.ctl.item
      BY <1>3 DEF Output_Bytes, Output_Choice
    <2>2. f \in ControlFrame
      BY <1>1, <1>3, <2>1
      DEF Output_Coherent, Control_Coherent, ControlPeeked, OutputRecord, ControlRecord
    <2>3. f.type = "ACK" => f.id = e.id /\ e.lastRx.type \in {"CONFIRM", "APPLICATION"}
      BY <2>1 DEF Sound, ControlOK
    <2>4. e.lastRx.type \in {"CONFIRM", "APPLICATION"} => e.phase = "ESTABLISHED"
      BY DEF Sound, WorkOK, BaselineTypes
    <2>5. f \in Bodies /\ f.type # "APPLICATION"
      BY <2>2 DEF ControlFrame, ControlTypes, Bodies
    <2> QED BY <1>2, <2>3, <2>4, <2>5
  <1>4. CASE e.out.sel = "RELIABLE"
    <2>1. f = e.out.rel.frame
      BY <1>4 DEF Output_Bytes, Output_Choice
    <2>2. e.out.rel.frame.type \in ReliableTypes
      BY <1>1, <1>4
      DEF Output_Coherent, Reliability_Coherent, ReliablePeeked
    <2>3. f \in ReliableFrame
      BY <2>1, <2>2, RetainedFrame
    <2>4. f.type = "APPLICATION" => e.phase = "ESTABLISHED" /\ f.id = e.id
      BY <2>1 DEF Sound, RetainedOK, RetainedTypes, NoFrame
    <2>5. f \in Bodies /\ f.type # "ACK"
      BY <2>3 DEF ReliableFrame, ReliableTypes, Bodies
    <2> QED BY <1>2, <2>4, <2>5
  <1> QED BY <1>1, <1>3, <1>4 DEF OutputRecord, Selections

-----------------------------------------------------------------------------
(* The invariant *)

\* Types of the variables that trust depends on.
PairTypes ==
    /\ node \in [Roles -> Endpoint]
    /\ chan \in [Roles -> Seq(Carried)]
    /\ scenario \in Scenarios
    /\ issued \in [Roles -> Nat]

\* Both ends are sound and keep their roles; what the host believes, holds or is about to
\* receive was vouched for; and the rig's own session is one it joined.
IInv ==
    /\ PairTypes
    /\ \A r \in Roles : Sound(node[r]) /\ HeldOK(node[r]) /\ node[r].role = r
    /\ Trusting(node["HOST"], joined)
    /\ chan["HOST"] \in Seq(VouchedBodies(joined))
    /\ Is_Established(node["RIG"]) => node["RIG"].id \in joined

\* Two new endpoints and an empty wire.
LEMMA InitKnown == Init => IInv
  <1> SUFFICES ASSUME Init PROVE IInv
    OBVIOUS
  <1> DEFINE E(r) == InitialEndpoint(r, IF r = "HOST" THEN 1 ELSE NoSession)
  <1>1. \A r \in Roles : Sound(E(r)) /\ HeldOK(E(r)) /\ E(r).role = r
                         /\ E(r).state = "DISCONNECTED" /\ E(r).parser = EmptyParser
    BY Created
  <1> HIDE DEF E
  <1>2. node = [r \in Roles |-> E(r)] /\ chan = [r \in Roles |-> <<>>]
        /\ issued = [r \in Roles |-> 0] /\ scenario \in Scenarios
    BY DEF Init, E
  <1>3. \A r \in Roles : Sound(node[r]) /\ HeldOK(node[r]) /\ node[r].role = r
                         /\ node[r].state = "DISCONNECTED" /\ node[r].parser = EmptyParser
    BY <1>1, <1>2
  <1>4. PairTypes
    BY <1>1, <1>2 DEF PairTypes, Sound
  <1>5. chan["HOST"] \in Seq(VouchedBodies(joined))
    BY <1>2 DEF Roles
  <1>6. Trusting(node["HOST"], joined) /\ ~ Is_Established(node["RIG"])
    BY <1>3, TrustsNothing DEF Roles, Sound, Is_Established
  <1> QED BY <1>3, <1>4, <1>5, <1>6 DEF IInv

\* What was vouched for stays vouched for.
LEMMA VouchedGrows ==
    ASSUME NEW ids, NEW more, ids \subseteq more
    PROVE  Seq(VouchedBodies(ids)) \subseteq Seq(VouchedBodies(more))
  <1>1. VouchedBodies(ids) \subseteq VouchedBodies(more)
    BY DEF VouchedBodies, Vouched
  <1> HIDE DEF VouchedBodies
  <1> QED BY <1>1

\* One endpoint takes a step and the wire stays in order: the invariant is kept.
LEMMA Moving ==
    ASSUME IInv, NEW r \in Roles, NEW e, Sound(e), HeldOK(e), e.role = r,
           r = "HOST" => Trusting(e, joined),
           node' = [node EXCEPT ![r] = e],
           joined \subseteq joined', r = "RIG" /\ Is_Established(e) => e.id \in joined',
           chan' \in [Roles -> Seq(Carried)], chan'["HOST"] \in Seq(VouchedBodies(joined')),
           scenario' = scenario, issued' \in [Roles -> Nat]
    PROVE  IInv'
  <1>1. node \in [Roles -> Endpoint] /\ e \in Endpoint
    BY DEF IInv, PairTypes, Sound
  <1>2. \A q \in Roles : node'[q] = IF q = r THEN e ELSE node[q]
    BY <1>1
  <1>3. \A q \in Roles : Sound(node'[q]) /\ HeldOK(node'[q]) /\ node'[q].role = q
    BY <1>2 DEF IInv
  <1>4. Trusting(node'["HOST"], joined')
    <2>1. Trusting(node'["HOST"], joined)
      BY <1>2 DEF IInv, Roles
    <2> QED BY <2>1, TrustGrows
  <1>5. Is_Established(node'["RIG"]) => node'["RIG"].id \in joined'
    BY <1>2 DEF IInv, Roles
  <1>6. PairTypes'
    BY <1>1 DEF IInv, PairTypes
  <1> QED BY <1>3, <1>4, <1>5, <1>6 DEF IInv

\* The same for a step recorded with Becomes that leaves the wire alone.
LEMMA Stepping ==
    ASSUME IInv, NEW r \in Roles, NEW e, Sound(e), HeldOK(e), e.role = r,
           r = "HOST" => Trusting(e, joined),
           Becomes(r, e), UNCHANGED chan, UNCHANGED scenario, issued' \in [Roles -> Nat]
    PROVE  IInv'
  <1>1. joined \subseteq joined' /\ (r = "RIG" /\ Is_Established(e) => e.id \in joined')
    BY DEF Becomes
  <1>2. chan'["HOST"] \in Seq(VouchedBodies(joined'))
    BY <1>1, VouchedGrows DEF IInv
  <1>3. chan' \in [Roles -> Seq(Carried)]
    BY DEF IInv, PairTypes
  <1>4. node' = [node EXCEPT ![r] = e]
    BY DEF Becomes
  <1> QED BY <1>1, <1>2, <1>3, <1>4, Moving

\* What every step starts from.
LEMMA Standing ==
    ASSUME IInv, NEW r \in Roles
    PROVE  /\ Sound(node[r]) /\ HeldOK(node[r]) /\ node[r].role = r /\ node[r] \in Endpoint
           /\ r = "HOST" => Trusting(node[r], joined)
           /\ chan \in [Roles -> Seq(Carried)] /\ chan["HOST"] \in Seq(VouchedBodies(joined))
           /\ issued \in [Roles -> Nat] /\ scenario \in Scenarios
  BY DEF IInv, PairTypes

-----------------------------------------------------------------------------
(* One lemma per group of actions *)

\* Links and explicit Resets: they bring the host into no session.
LEMMA LinkSteps ==
    ASSUME IInv, NEW r \in Roles, UNCHANGED scenario,
           Connect(r) \/ Disconnect(r) \/ ExplicitReset(r)
    PROVE  IInv'
  <1>0. /\ Sound(node[r]) /\ HeldOK(node[r]) /\ node[r].role = r /\ node[r] \in Endpoint
        /\ r = "HOST" => Trusting(node[r], joined)
        /\ chan \in [Roles -> Seq(Carried)] /\ chan["HOST"] \in Seq(VouchedBodies(joined))
        /\ issued \in [Roles -> Nat]
    BY Standing
  <1>1. ASSUME NEW link \in {"DISCONNECTED", "CONNECTED"}
        PROVE  LET e == Session_Notify_Link_State(node[r], link).e
               IN  /\ Sound(e) /\ HeldOK(e) /\ e.role = r
                   /\ r = "HOST" => Trusting(e, joined)
    <2> DEFINE e == Session_Notify_Link_State(node[r], link).e
    <2>1. Sound(e) /\ (e = node[r] \/ (Ends(node[r], e) /\ e.parser = EmptyParser))
      BY <1>0, Linking
    <2> HIDE DEF e
    <2>2. CASE e = node[r]
      BY <1>0, <2>2 DEF e
    <2>3. CASE Ends(node[r], e) /\ e.parser = EmptyParser
      <3>1. e \in Endpoint /\ e.role = r /\ e.state # "ESTABLISHED"
        BY <1>0, <2>1, <2>3 DEF Ends, Sound
      <3>2. Trusting(e, joined)
        BY <2>3, <3>1, TrustsNothing
      <3> QED BY <2>1, <2>3, <3>1, <3>2 DEF HeldOK, EmptyParser, e
    <2> QED BY <2>1, <2>2, <2>3
  <1>2. CASE Connect(r)
    BY <1>0, <1>1, <1>2, Stepping DEF Connect
  <1>3. CASE Disconnect(r)
    <2> DEFINE e == Session_Notify_Link_State(node[r], "DISCONNECTED").e
    <2>1. Sound(e) /\ HeldOK(e) /\ e.role = r /\ (r = "HOST" => Trusting(e, joined))
      BY <1>1
    <2>2. /\ Becomes(r, e) /\ issued' = issued
          /\ chan' = [chan EXCEPT ![r] = <<>>] \/ chan' = chan
      BY <1>3 DEF Disconnect
    <2> HIDE DEF e
    <2>3. /\ joined \subseteq joined' /\ (r = "RIG" /\ Is_Established(e) => e.id \in joined')
          /\ node' = [node EXCEPT ![r] = e]
      BY <2>2 DEF Becomes
    <2>4. chan' \in [Roles -> Seq(Carried)]
      <3>1. <<>> \in Seq(Carried)
        OBVIOUS
      <3> QED BY <1>0, <2>2, <3>1
    <2>5. chan'["HOST"] \in Seq(VouchedBodies(joined))
      <3>1. chan'["HOST"] = <<>> \/ chan'["HOST"] = chan["HOST"]
        BY <1>0, <2>2 DEF Roles
      <3>2. <<>> \in Seq(VouchedBodies(joined))
        OBVIOUS
      <3> QED BY <1>0, <3>1, <3>2
    <2>6. chan'["HOST"] \in Seq(VouchedBodies(joined'))
      BY <2>3, <2>5, VouchedGrows
    <2> QED BY <1>0, <2>1, <2>2, <2>3, <2>4, <2>6, Moving
  <1>4. CASE ExplicitReset(r)
    <2> DEFINE e == Profile_Reset(node[r])
    <2>1. Sound(e) /\ e.parser = EmptyParser /\ e.role = r /\ e.state # "ESTABLISHED"
      BY <1>0, Resetting
    <2>2. Becomes(r, e) /\ issued' = issued /\ chan' = chan
      BY <1>4 DEF ExplicitReset
    <2> HIDE DEF e
    <2>3. e \in Endpoint
      BY <2>1 DEF Sound
    <2>4. HeldOK(e) /\ Trusting(e, joined)
      BY <2>1, <2>3, TrustsNothing DEF HeldOK, EmptyParser
    <2> QED BY <1>0, <2>1, <2>2, <2>4, Stepping
  <1> QED BY <1>2, <1>3, <1>4

\* A hard recovery takes both links down; a session the rig is in then was not interrupted.
LEMMA RecoveryStep ==
    ASSUME IInv, HardRecovery, UNCHANGED scenario
    PROVE  IInv'
  <1> DEFINE E(r) == Session_Notify_Link_State(node[r], "DISCONNECTED").e
  <1>1. ASSUME NEW r \in Roles
        PROVE  /\ Sound(E(r)) /\ HeldOK(E(r)) /\ E(r).role = r
               /\ r = "HOST" => Trusting(E(r), joined)
               /\ Is_Established(E(r)) => Is_Established(node[r]) /\ E(r).id = node[r].id
    <2>0. Sound(node[r]) /\ HeldOK(node[r]) /\ node[r].role = r
          /\ (r = "HOST" => Trusting(node[r], joined))
      BY Standing
    <2>1. /\ Sound(E(r))
          /\ E(r) = node[r] \/ (Ends(node[r], E(r)) /\ E(r).parser = EmptyParser)
      BY <2>0, Linking
    <2> HIDE DEF E
    <2>2. CASE E(r) = node[r]
      BY <2>0, <2>2
    <2>3. CASE Ends(node[r], E(r)) /\ E(r).parser = EmptyParser
      <3>1. E(r) \in Endpoint /\ E(r).role = r /\ E(r).state # "ESTABLISHED"
        BY <2>0, <2>1, <2>3 DEF Ends, Sound
      <3>2. Trusting(E(r), joined)
        BY <2>3, <3>1, TrustsNothing
      <3> QED BY <2>1, <2>3, <3>1, <3>2 DEF HeldOK, EmptyParser, Is_Established
    <2> QED BY <2>1, <2>2, <2>3
  <1>2. /\ node' = [r \in Roles |-> E(r)] /\ chan' = [r \in Roles |-> <<>>]
        /\ issued' = issued /\ joined' = joined
    BY DEF HardRecovery, seen
  <1> HIDE DEF E
  <1>3. \A r \in Roles : Sound(node'[r]) /\ HeldOK(node'[r]) /\ node'[r].role = r
    BY <1>1, <1>2
  <1>4. PairTypes'
    BY <1>1, <1>2 DEF IInv, PairTypes, Sound
  <1>5. chan'["HOST"] \in Seq(VouchedBodies(joined'))
    BY <1>2 DEF Roles
  <1>6. Trusting(node'["HOST"], joined')
    BY <1>1, <1>2 DEF Roles
  <1>7. Is_Established(node'["RIG"]) => node'["RIG"].id \in joined'
    BY <1>1, <1>2 DEF Roles, IInv
  <1> QED BY <1>3, <1>4, <1>5, <1>6, <1>7 DEF IInv

\* What the applications and the timers do: the wire does not change.
LEMMA OwnSteps ==
    ASSUME IInv, NEW r \in Roles, UNCHANGED scenario,
           \/ Submit(r) \/ Read(r) \/ ReadEvents(r) \/ Peek(r)
           \/ Process(r) \/ Timeout(r) \/ EarlyTimeout(r)
    PROVE  IInv'
  <1>0. /\ Sound(node[r]) /\ HeldOK(node[r]) /\ node[r].role = r /\ node[r] \in Endpoint
        /\ r = "HOST" => Trusting(node[r], joined)
        /\ issued \in [Roles -> Nat] /\ scenario \in Scenarios
    BY Standing
  <1>1. CASE Submit(r)
    <2> DEFINE m == issued[r] + 1
               e == Application_Submit(node[r], m)
    <2>1. m \in Messages /\ m \in Nat
      <3>1. scenario.issues \in [Roles -> Nat] /\ 1 .. scenario.issues[r] \subseteq Messages
        BY <1>0, PairAssumption DEF PairAssumption
      <3>2. issued[r] < scenario.issues[r]
        BY <1>1 DEF Submit
      <3> QED BY <1>0, <3>1, <3>2
    <2>2. /\ Becomes(r, e) /\ chan' = chan /\ issued' = [issued EXCEPT ![r] = m]
          /\ Application_CanSubmit(node[r])
      BY <1>1 DEF Submit
    <2> HIDE DEF m
    <2>3. Sound(e) /\ e = [node[r] EXCEPT !.out = e.out, !.submitted = m]
      BY <1>0, <2>1, <2>2, Submitting
    <2> HIDE DEF e
    <2>4. /\ e.parser = node[r].parser /\ e.id = node[r].id /\ e.role = r
          /\ e.state = node[r].state /\ e \in Endpoint
      BY <1>0, <2>3 DEF Sound, Endpoint, EndpointRecord
    <2>5. r = "HOST" => Trusting(e, joined)
      BY <1>0, <2>4, TrustsTheSame
    <2>6. HeldOK(e)
      BY <1>0, <2>4 DEF HeldOK
    <2>7. issued' \in [Roles -> Nat]
      BY <1>0, <2>1, <2>2
    <2> QED BY <2>2, <2>3, <2>4, <2>5, <2>6, <2>7, Stepping
  <1>2. CASE Read(r)
    <2> DEFINE e == Application_Read(node[r])
    <2>1. Becomes(r, e) /\ chan' = chan /\ issued' = issued
      BY <1>2 DEF Read
    <2>2. Sound(e) /\ e = [node[r] EXCEPT !.received = NoMessage]
      BY <1>0, Reading DEF Application_Read
    <2> HIDE DEF e
    <2>3. /\ e.parser = node[r].parser /\ e.id = node[r].id /\ e.role = r
          /\ e.state = node[r].state /\ e \in Endpoint
      BY <1>0, <2>2 DEF Sound, Endpoint, EndpointRecord
    <2>4. r = "HOST" => Trusting(e, joined)
      BY <1>0, <2>3, TrustsTheSame
    <2>5. HeldOK(e)
      BY <1>0, <2>3 DEF HeldOK
    <2> QED BY <1>0, <2>1, <2>2, <2>3, <2>4, <2>5, Stepping
  <1>3. CASE ReadEvents(r)
    <2> DEFINE e == [node[r] EXCEPT !.events = <<>>]
    <2>1. /\ node' = [node EXCEPT ![r] = e] /\ chan' = chan /\ issued' = issued
          /\ joined' = joined
      BY <1>3 DEF ReadEvents, seen
    <2>2. Sound(e)
      BY <1>0, Reading
    <2>3. /\ e.parser = node[r].parser /\ e.id = node[r].id /\ e.role = r
          /\ e.state = node[r].state /\ e.phase = node[r].phase
      BY <1>0 DEF Endpoint, EndpointRecord
    <2>4. r = "HOST" => Trusting(e, joined)
      BY <1>0, TrustOutput
    <2> HIDE DEF e
    <2>5. HeldOK(e)
      BY <1>0, <2>3 DEF HeldOK
    <2>6. r = "RIG" /\ Is_Established(e) => e.id \in joined'
      BY <2>1, <2>3 DEF IInv, Is_Established
    <2>7. chan \in [Roles -> Seq(Carried)] /\ chan["HOST"] \in Seq(VouchedBodies(joined))
      BY Standing
    <2> QED BY <1>0, <2>1, <2>2, <2>3, <2>4, <2>5, <2>6, <2>7, Moving
  <1>4. CASE Peek(r)
    <2> DEFINE e == Profile_Peek_Output(node[r], TRUE)
    <2>1. Becomes(r, e) /\ chan' = chan /\ issued' = issued
      BY <1>4 DEF Peek
    <2>2. Sound(e) /\ e = [node[r] EXCEPT !.out = e.out]
      BY <1>0, Peeking
    <2> HIDE DEF e
    <2>3. /\ e.parser = node[r].parser /\ e.id = node[r].id /\ e.role = r
          /\ e.state = node[r].state /\ e \in Endpoint
      BY <1>0, <2>2 DEF Sound, Endpoint, EndpointRecord
    <2>4. r = "HOST" => Trusting(e, joined)
      BY <1>0, <2>3, TrustsTheSame
    <2>5. HeldOK(e)
      BY <1>0, <2>3 DEF HeldOK
    <2> QED BY <1>0, <2>1, <2>2, <2>3, <2>4, <2>5, Stepping
  <1>5. CASE Process(r) \/ Timeout(r) \/ EarlyTimeout(r)
    <2>1. PICK expired \in BOOLEAN :
              /\ Becomes(r, Profile_Process(node[r], expired).e)
              /\ chan' = chan /\ issued' = issued
      BY <1>5 DEF Process, Timeout, EarlyTimeout
    <2> DEFINE e == Profile_Process(node[r], expired).e
    <2>2. Sound(e) /\ HeldOK(e) /\ e.role = r
      BY <1>0, Processing DEF Follows
    <2>3. r = "HOST" => Trusting(e, joined)
      BY <1>0, TrustProcessing
    <2> HIDE DEF e
    <2> QED BY <1>0, <2>1, <2>2, <2>3, Stepping DEF e
  <1> QED BY <1>1, <1>2, <1>3, <1>4, <1>5

\* What the host takes from the wire was vouched for; what the rig puts there is.
LEMMA WireSteps ==
    ASSUME IInv, NEW r \in Roles, UNCHANGED scenario, Commit(r) \/ Deliver(r)
    PROVE  IInv'
  <1>0. /\ Sound(node[r]) /\ HeldOK(node[r]) /\ node[r].role = r /\ node[r] \in Endpoint
        /\ r = "HOST" => Trusting(node[r], joined)
        /\ chan \in [Roles -> Seq(Carried)] /\ chan["HOST"] \in Seq(VouchedBodies(joined))
        /\ issued \in [Roles -> Nat]
    BY Standing
  <1>1. CASE Commit(r)
    <2> DEFINE e == Profile_Commit_Output(node[r])
               f == Output_Bytes(node[r].out)
               q == Peer(r)
    <2>1. /\ Becomes(r, e) /\ chan' = [chan EXCEPT ![q] = Append(@, f)] /\ issued' = issued
          /\ node[r].out.sel # "NONE"
      BY <1>1 DEF Commit
    <2>2. Sound(e) /\ e = [node[r] EXCEPT !.out = e.out]
      BY <1>0, Committing
    <2>3. /\ f \in Bodies
          /\ f.type \in {"ACK", "APPLICATION"} => Is_Established(node[r]) /\ f.id = node[r].id
      BY <1>0, <2>1, Offering
    <2>4. q \in Roles /\ (q = "HOST" => r = "RIG")
      BY DEF Peer, Roles
    <2> HIDE DEF e, f, q
    <2>5. /\ e.parser = node[r].parser /\ e.id = node[r].id /\ e.role = r
          /\ e.state = node[r].state /\ e \in Endpoint
      BY <1>0, <2>2 DEF Sound, Endpoint, EndpointRecord
    <2>6. r = "HOST" => Trusting(e, joined)
      BY <1>0, <2>5, TrustsTheSame
    <2>7. HeldOK(e)
      BY <1>0, <2>5 DEF HeldOK
    <2>8. /\ joined \subseteq joined' /\ (r = "RIG" /\ Is_Established(e) => e.id \in joined')
          /\ node' = [node EXCEPT ![r] = e]
      BY <2>1 DEF Becomes
    <2>9. chan' \in [Roles -> Seq(Carried)]
      <3>1. f \in Carried
        BY <2>3 DEF Carried
      <3>2. Append(chan[q], f) \in Seq(Carried)
        BY <1>0, <2>4, <3>1, ChannelType
      <3> QED BY <1>0, <2>1, <3>2
    <2>10. chan'["HOST"] \in Seq(VouchedBodies(joined))
      <3>1. CASE q = "HOST"
        <4>1. Vouched(f, joined)
          BY <2>3, <2>4, <3>1 DEF Vouched, IInv
        <4>2. f \in VouchedBodies(joined)
          BY <2>3, <4>1 DEF VouchedBodies, Carried
        <4>3. Append(chan["HOST"], f) \in Seq(VouchedBodies(joined))
          BY <1>0, <4>2, ChannelType
        <4> QED BY <1>0, <2>1, <3>1, <4>3 DEF Roles
      <3>2. CASE q # "HOST"
        BY <1>0, <2>1, <3>2 DEF Roles
      <3> QED BY <3>1, <3>2
    <2>11. chan'["HOST"] \in Seq(VouchedBodies(joined'))
      BY <2>8, <2>10, VouchedGrows
    <2> QED BY <1>0, <2>1, <2>2, <2>5, <2>6, <2>7, <2>8, <2>9, <2>11, Moving
  <1>2. CASE Deliver(r)
    <2> DEFINE f == Arriving(r)
               e == Receive_Bytes(node[r], f).e
    <2>1. /\ Becomes(r, e) /\ issued' = issued /\ chan[r] # <<>>
          /\ chan' = [chan EXCEPT ![r] = Tail(@)] \/ chan' = chan
      BY <1>2 DEF Deliver
    <2>2. f \in Carried /\ (r = "HOST" => f \in VouchedBodies(joined))
      <3>1. f = MalformedBody \/ f = Head(chan[r])
        BY DEF Arriving
      <3>2. Head(chan[r]) \in Carried
        BY <1>0, <2>1, ChannelType, DamagedBodies DEF VouchedBodies
      <3>3. r = "HOST" => Head(chan[r]) \in VouchedBodies(joined)
        BY <1>0, <2>1, ChannelType, DamagedBodies
      <3> QED BY <3>1, <3>2, <3>3, DamagedBodies DEF VouchedBodies
    <2>3. f \in AnyInput
      BY <2>2 DEF AnyInput, Carried
    <2>4. Sound(e) /\ HeldOK(e) /\ e.role = r
      BY <1>0, <2>3, Receiving DEF Leads
    <2>5. r = "HOST" => Trusting(e, joined)
      <3>1. r = "HOST" => Vouched(f, joined)
        BY <2>2 DEF VouchedBodies
      <3> QED BY <1>0, <3>1, TrustReceiving
    <2> HIDE DEF e, f
    <2>6. /\ joined \subseteq joined' /\ (r = "RIG" /\ Is_Established(e) => e.id \in joined')
          /\ node' = [node EXCEPT ![r] = e]
      BY <2>1 DEF Becomes
    <2>7. chan' \in [Roles -> Seq(Carried)]
      <3>1. Tail(chan[r]) \in Seq(Carried)
        BY <1>0, <2>1, ChannelType, DamagedBodies DEF VouchedBodies
      <3> QED BY <1>0, <2>1, <3>1
    <2>8. chan'["HOST"] \in Seq(VouchedBodies(joined))
      <3>1. r = "HOST" => Tail(chan["HOST"]) \in Seq(VouchedBodies(joined))
        BY <1>0, <2>1, ChannelType, DamagedBodies
      <3> QED BY <1>0, <2>1, <3>1 DEF Roles
    <2>9. chan'["HOST"] \in Seq(VouchedBodies(joined'))
      BY <2>6, <2>8, VouchedGrows
    <2> QED BY <1>0, <2>1, <2>4, <2>5, <2>6, <2>7, <2>9, Moving
  <1> QED BY <1>1, <1>2

\* Losing or damaging a body adds none that vouches for a session.
LEMMA FaultSteps ==
    ASSUME IInv, NEW r \in Roles, UNCHANGED scenario, Lose(r) \/ Damage(r) \/ Truncate(r)
    PROVE  IInv'
  <1>0. chan \in [Roles -> Seq(Carried)] /\ chan["HOST"] \in Seq(VouchedBodies(joined))
    BY Standing
  <1>1. PICK x \in {MalformedBody, PartialInput} :
            \/ chan' = [chan EXCEPT ![r] = Tail(@)]
            \/ chan' = [chan EXCEPT ![r] = [@ EXCEPT ![1] = x]]
    BY DEF Lose, Damage, Truncate
  <1>2. chan[r] # <<>> /\ UNCHANGED <<node, joined, issued, scenario>>
    BY DEF Lose, Damage, Truncate, seen
  <1>3. x \in VouchedBodies(joined) /\ x \in Carried
    BY DamagedBodies DEF VouchedBodies
  <1>4. chan' \in [Roles -> Seq(Carried)]
    <2>1. Tail(chan[r]) \in Seq(Carried) /\ [chan[r] EXCEPT ![1] = x] \in Seq(Carried)
      BY <1>0, <1>2, <1>3, ChannelType
    <2> QED BY <1>0, <1>1, <2>1
  <1>5. chan'["HOST"] \in Seq(VouchedBodies(joined))
    <2>1. r = "HOST" => /\ Tail(chan["HOST"]) \in Seq(VouchedBodies(joined))
                        /\ [chan["HOST"] EXCEPT ![1] = x] \in Seq(VouchedBodies(joined))
      BY <1>0, <1>2, <1>3, ChannelType
    <2> QED BY <1>0, <1>1, <2>1 DEF Roles
  <1> QED BY <1>2, <1>4, <1>5 DEF IInv, PairTypes

\* Every step of the two ends and of the wire keeps the invariant.
LEMMA StepKnown == IInv /\ [Next]_vars => IInv'
  <1> SUFFICES ASSUME IInv, [Next]_vars PROVE IInv'
    OBVIOUS
  <1>1. CASE UNCHANGED vars
    BY <1>1 DEF vars, IInv, PairTypes
  <1>2. CASE Next
    <2>1. Step /\ UNCHANGED scenario
      BY <1>2 DEF Next
    <2> QED
      BY <2>1, LinkSteps, RecoveryStep, OwnSteps, WireSteps, FaultSteps DEF Step
  <1> QED BY <1>1, <1>2

-----------------------------------------------------------------------------
(* Theorems *)

\* The invariant holds in every reachable state.
THEOREM AlwaysKnown == Spec => []IInv
  BY InitKnown, StepKnown, PTL DEF Spec

\* The host believes in a session only if the rig established that session.
THEOREM HostSessionsWereJoined == Spec => []HostSessionWasJoined
  <1>1. IInv => HostSessionWasJoined
    <2> SUFFICES ASSUME IInv, Is_Established(node["HOST"])
                 PROVE  node["HOST"].id \in joined
      BY DEF HostSessionWasJoined
    <2> QED BY DEF IInv, Roles, Trusting, Is_Established
  <1> QED BY <1>1, AlwaysKnown, PTL

-----------------------------------------------------------------------------
(* What is under way: the invariant behind the message service *)

\* Which of the bodies under way, b held and q before it, comes before which.
Order(b, q) ==
    {p \in Coming(b, q) \X Coming(b, q) :
        \/ p[1] = b
        \/ \E i, j \in 1 .. Len(q) : i < j /\ p[1] = q[i] /\ p[2] = q[j]}

\* A handshake frame has the sequences of the first frames of a session.
Second == NextSequence(InitialSequence)
Opening(f) ==
    /\ f.type = "INITIATE" => f.seq = InitialSequence
    /\ f.type = "RESPONSE" => f.seq = InitialSequence /\ f.ack = InitialSequence
    /\ f.type = "CONFIRM" => f.seq = Second /\ f.ack = InitialSequence

\* And so has an endpoint on its way into a session.
OpeningEnd(e) ==
    /\ Opening(e.out.rel.frame)
    /\ e.phase \in RigPhases \cup {"INITIATE_PENDING", "WAITING_FOR_RESPONSE"} =>
            e.out.nextTx = InitialSequence
    /\ e.phase \in {"CONFIRM_PENDING", "WAITING_FOR_CONFIRM_ACK"} => e.out.nextTx = Second
    /\ e.lastRx.type \in {"INITIATE", "RESPONSE"} => e.lastRx.seq = InitialSequence
    /\ e.lastRx.type = "CONFIRM" => e.lastRx.seq = Second

\* An ACK or a message is evidence that its session was joined.  When there is evidence of
\* session x the rig g will not join it again.
Evidence == {"ACK", "APPLICATION"}
Decided(x, g, Ig) ==
    /\ \A f \in Ig : f.type = "INITIATE" => f.id # x
    /\ g.id = x => g.phase \notin {"RESPONSE_PENDING", "WAITING_FOR_CONFIRM"}

\* The host h, the rig g and the bodies on their way to either agree on how far the
\* handshake is.
Agreeing(h, g, Ih, Ig) ==
    /\ \A f \in Ih \cup Ig : f.type \in Evidence => Decided(f.id, g, Ig)
    /\ h.phase = "ESTABLISHED" => Decided(h.id, g, Ig)
    /\ g.phase = "ESTABLISHED" => Decided(g.id, g, Ig)
    /\ h.phase \in {"INITIATE_PENDING", "WAITING_FOR_RESPONSE", "CONFIRM_PENDING"} =>
          /\ \A f \in Ig : f.type \in Evidence \cup {"CONFIRM"} => f.id # h.id
          /\ \A f \in Ih : f.type \in Evidence => f.id # h.id
          /\ g.id = h.id => g.phase # "ESTABLISHED"
    /\ h.phase = "WAITING_FOR_CONFIRM_ACK" =>
          /\ \A f \in Ig : f.type \in Evidence => f.id # h.id
          /\ \A f \in Ih : f.type = "ACK" /\ f.id = h.id => f.ack = Second
          /\ g.id = h.id /\ g.phase = "ESTABLISHED" => g.lastRx.seq = Second

\* What may come before what: a session is never behind its own end, nor a message behind
\* a later one.
InOrder(f, g) ==
    /\ f.type = "CONFIRM" /\ g.type = "INITIATE" => f.id # g.id
    /\ f.type \in Evidence /\ g.type = "RESPONSE" => f.id # g.id
    /\ f.type = "APPLICATION" /\ g.type = "APPLICATION" =>
          f.msg <= g.msg /\ (f.msg = g.msg => f.id = g.id /\ f.seq = g.seq)

\* The messages b has of those sent to it.
Got(b, A) == A \cup ({b.received} \ {NoMessage})

\* b is in session x and has taken a frame of it.
Based(b, x) == b.id = x /\ b.lastRx.type # "INVALID"

\* What a sends, the bodies Ib and its retained frame, comes behind what b has got; the
\* message b got last is told from the next one by its sequence.
Sending(a, b, Ib, A, n) ==
    LET S == Ib \cup {a.out.rel.frame}
    IN  /\ \A g \in S : g.type = "APPLICATION" => g.msg \in 1 .. n
        /\ \A g \in Ib : InOrder(g, a.out.rel.frame)
        /\ Got(b, A) \subseteq 1 .. n
        /\ \A m \in Got(b, A), g \in S : g.type = "APPLICATION" =>
              /\ m <= g.msg
              /\ m = g.msg /\ Based(b, g.id) =>
                    b.phase = "ESTABLISHED" /\ b.lastRx.seq = g.seq

\* A frame of session x that advances the receiver, and one that says how far it is.
Forward(f, x) == f.type \in ReliableTypes /\ f.id = x
Backward(f, x) == f.type \in {"RESPONSE", "CONFIRM", "ACK"} /\ f.id = x

\* The loop of one session: what is on its way to b, what b took last and what is on its
\* way back all stand for the frame before the one a sends next, or for that one when it is
\* the message a retains, and then b has got it and no older frame is left before it.
Onward(a, Ib) == \A f \in Ib : Forward(f, a.id) => f.seq = a.out.nextTx
Looping(a, b, Ia, Ib, A) ==
    LET s == a.out.nextTx
        sent == a.out.rel.frame.type = "APPLICATION" /\ Onward(a, Ib)
    IN  /\ \A f \in Ib : Forward(f, a.id) => NextSequence(f.seq) = s \/ f = a.out.rel.frame
        /\ Based(b, a.id) =>
              \/ NextSequence(b.lastRx.seq) = s
              \/ sent /\ b.lastRx.seq = s /\ a.submitted \in Got(b, A)
        /\ \A f \in Ia : Backward(f, a.id) =>
              \/ NextSequence(f.ack) = s
              \/ /\ sent /\ f.ack = s /\ a.submitted \in A
                 /\ Based(b, a.id) => b.lastRx.seq = s

\* Neither a forward nor a backward frame overtakes one that is newer.
LoopOrder(a, Pa, Pb) ==
    LET s == a.out.nextTx
    IN  /\ \A f, g : <<f, g>> \in Pb /\ Forward(f, a.id) /\ Forward(g, a.id) /\ f.seq = s
                        => g.seq = s
        /\ \A f, g : <<f, g>> \in Pa /\ Backward(f, a.id) /\ Backward(g, a.id) /\ f.ack = s
                        => g.ack = s

\* One direction, from a to b: A is what b's application accepted of the n messages of a.
Lane(a, b, Ia, Ib, Pa, Pb, A, n) ==
    /\ \A f, g : <<f, g>> \in Pb => InOrder(f, g)
    /\ Sending(a, b, Ib, A, n)
    /\ a.phase = "ESTABLISHED" => Looping(a, b, Ia, Ib, A) /\ LoopOrder(a, Pa, Pb)

\* Both ends and both directions.
World(h, g, Ih, Ig, Ph, Pg, Ah, Ag, nh, ng) ==
    /\ OpeningEnd(h) /\ OpeningEnd(g)
    /\ \A f \in Ih : Opening(f) /\ f.type \notin {"INITIATE", "CONFIRM"}
    /\ \A f \in Ig : Opening(f) /\ f.type # "RESPONSE"
    /\ Agreeing(h, g, Ih, Ig)
    /\ Lane(h, g, Ih, Ig, Ph, Pg, Ag, nh)
    /\ Lane(g, h, Ig, Ih, Pg, Ph, Ah, ng)

\* What comes before what on the way to r, and what r's application was handed.
Ordering(r) == Order(Body(r), chan[r])
Accepted(r) == Elements(accepted[r])

\* What the applications recorded: a message that is still to be read was accepted.
Recorded ==
    /\ accepted \in [Roles -> Seq(Nat)] /\ confirmed \in [Roles -> SUBSET Nat]
    /\ \A r \in Roles : node[r].received \in Accepted(r) \cup {NoMessage}

\* What the two ends agree on, with what the applications recorded.
Agreed ==
    /\ Recorded
    /\ World(node["HOST"], node["RIG"], Toward("HOST"), Toward("RIG"), Ordering("HOST"),
             Ordering("RIG"), Accepted("HOST"), Accepted("RIG"), issued["HOST"], issued["RIG"])

-----------------------------------------------------------------------------
(* Lemmas about one direction *)

\* What Sound says of the parts the peer depends on.
Shaped(e) ==
    LET f == e.out.rel.frame
    IN  /\ e.out.nextTx \in Sequences16 /\ e.lastRx.seq \in Sequences16
        /\ e.phase \in HandshakePhases
        /\ e.phase \in HostPhases => e.role = "HOST"
        /\ e.phase \in RigPhases => e.role = "RIG"
        /\ e.id = NoSession <=> e.phase \in {"INACTIVE", "WAITING_FOR_INITIATE"}
        /\ f.type \in ReliableTypes \cup {"INVALID"}
        /\ f.type = "INITIATE" <=> e.phase = "WAITING_FOR_RESPONSE"
        /\ f.type = "RESPONSE" <=> e.phase = "WAITING_FOR_CONFIRM"
        /\ f.type = "CONFIRM" <=> e.phase = "WAITING_FOR_CONFIRM_ACK"
        /\ f.type = "APPLICATION" => e.phase = "ESTABLISHED"
        /\ f.type \in ReliableTypes => f.id = e.id /\ f.seq = e.out.nextTx
        /\ f.type = "APPLICATION" <=> e.submitted # NoMessage
        /\ f.msg = e.submitted
        /\ e.lastRx.type = "INVALID" <=>
              e.phase \in {"INACTIVE", "WAITING_FOR_INITIATE", "INITIATE_PENDING",
                           "WAITING_FOR_RESPONSE"}
        /\ e.lastRx.type = "INITIATE" <=> e.phase \in {"RESPONSE_PENDING", "WAITING_FOR_CONFIRM"}
        /\ e.phase \in {"CONFIRM_PENDING", "WAITING_FOR_CONFIRM_ACK"} => e.lastRx.type = "RESPONSE"
        /\ e.lastRx.type \in {"CONFIRM", "APPLICATION"} => e.phase = "ESTABLISHED"
        /\ e.received # NoMessage => e.phase = "ESTABLISHED"

\* A sound endpoint is shaped like that.
LEMMA Shape ==
    ASSUME NEW e, Sound(e)
    PROVE  Shaped(e)
  <1> DEFINE f == e.out.rel.frame
  <1>1. /\ e \in Endpoint /\ e.phase \in PhasesOf(e.state) /\ e.lastRx \in BaselineRecord
        /\ e.phase \in HandshakePhases /\ e.role \in Roles /\ e.state \in SessionStates
        /\ e.out \in OutputRecord({0})
    BY DEF Sound, LifeOK, Endpoint, EndpointRecord
  <1>2. e.out.nextTx \in Sequences16 /\ e.lastRx.seq \in Sequences16
    BY <1>1, SequenceAssumption
    DEF OutputRecord, BaselineRecord, NoBaseline, Sequences16, SequenceAssumption
  <1>3. f \in ReliableFrame \cup {NoFrame}
    BY <1>1 DEF OutputRecord, ReliableRecord
  <1>4. /\ f.type \in ReliableTypes \cup {"INVALID"}
        /\ f.type = "APPLICATION" <=> f.msg # NoMessage
    BY <1>3 DEF ReliableFrame, ValidFrame, NoFrame, ReliableTypes
  <1>5. f.type \in RetainedTypes(e.phase) /\ f.msg = e.submitted
        /\ (f # NoFrame => f.id = e.id)
    BY DEF Sound, RetainedOK
  <1>6. f.type \in ReliableTypes => f # NoFrame /\ f.seq = e.out.nextTx
    BY DEF Sound, Output_Coherent, Reliability_Coherent, IdleReliable, NoFrame, ReliableTypes
  <1>7. /\ e.phase \in HostPhases => e.role = "HOST"
        /\ e.phase \in RigPhases => e.role = "RIG"
        /\ e.id = NoSession <=> e.phase \in {"INACTIVE", "WAITING_FOR_INITIATE"}
        /\ e.lastRx.type \in BaselineTypes(e)
    BY DEF Sound, LifeOK, WorkOK
  <1>8. e.received # NoMessage => e.phase = "ESTABLISHED"
    BY <1>1 DEF Sound, WorkOK, PhasesOf
  <1>9. /\ f.type = "INITIATE" <=> e.phase = "WAITING_FOR_RESPONSE"
        /\ f.type = "RESPONSE" <=> e.phase = "WAITING_FOR_CONFIRM"
        /\ f.type = "CONFIRM" <=> e.phase = "WAITING_FOR_CONFIRM_ACK"
        /\ f.type = "APPLICATION" => e.phase = "ESTABLISHED"
    BY <1>1, <1>5 DEF RetainedTypes, HandshakePhases
  <1>10. /\ e.lastRx.type = "INVALID" <=>
              e.phase \in {"INACTIVE", "WAITING_FOR_INITIATE", "INITIATE_PENDING",
                           "WAITING_FOR_RESPONSE"}
         /\ e.lastRx.type = "INITIATE" <=> e.phase \in {"RESPONSE_PENDING", "WAITING_FOR_CONFIRM"}
         /\ e.phase \in {"CONFIRM_PENDING", "WAITING_FOR_CONFIRM_ACK"} => e.lastRx.type = "RESPONSE"
         /\ e.lastRx.type \in {"CONFIRM", "APPLICATION"} => e.phase = "ESTABLISHED"
    BY <1>1, <1>7 DEF BaselineTypes, HandshakePhases, Roles
  <1> HIDE DEF f
  <1> QED BY <1>1, <1>2, <1>4, <1>5, <1>6, <1>7, <1>8, <1>9, <1>10 DEF Shaped, f

\* Sequences wrap, and the next one is another.
LEMMA Succeeding ==
    ASSUME NEW s \in Sequences16
    PROVE  NextSequence(s) \in Sequences16 /\ NextSequence(s) # s
  BY SequenceAssumption DEF NextSequence, Sequences16, SequenceAssumption

\* A sender that is in no session has nothing to loop.
LEMMA SenderOpens ==
    ASSUME NEW a, NEW a2, NEW b, NEW Ia, NEW Ib, NEW Pa, NEW Pb, NEW A, NEW n,
           Lane(a, b, Ia, Ib, Pa, Pb, A, n),
           a2.phase # "ESTABLISHED", a2.out.rel.frame.type # "APPLICATION",
           \A g \in Ib : InOrder(g, a2.out.rel.frame)
    PROVE  Lane(a2, b, Ia, Ib, Pa, Pb, A, n)
  BY DEF Lane, Sending

\* A sender starts behind all that is under way in its session.
LEMMA SenderSettles ==
    ASSUME NEW a, NEW a2, NEW b, NEW Ia, NEW Ib, NEW Pa, NEW Pb, NEW A, NEW n,
           Lane(a, b, Ia, Ib, Pa, Pb, A, n),
           a2.out.rel.frame = NoFrame, a2.out.nextTx \in Sequences16,
           \A f \in Ib : Forward(f, a2.id) => NextSequence(f.seq) = a2.out.nextTx,
           Based(b, a2.id) => NextSequence(b.lastRx.seq) = a2.out.nextTx,
           \A f \in Ia : Backward(f, a2.id) => NextSequence(f.ack) = a2.out.nextTx,
           \A f, g : <<f, g>> \in Pb => f \in Ib, \A f, g : <<f, g>> \in Pa => f \in Ia
    PROVE  Lane(a2, b, Ia, Ib, Pa, Pb, A, n)
  <1>1. NextSequence(a2.out.nextTx) # a2.out.nextTx
    BY Succeeding
  <1>2. NoFrame.type = "INVALID"
    BY DEF NoFrame
  <1>3. Sending(a2, b, Ib, A, n)
    BY <1>2 DEF Lane, Sending, InOrder
  <1>4. Looping(a2, b, Ia, Ib, A)
    BY DEF Looping
  <1>5. LoopOrder(a2, Pa, Pb)
    BY <1>1 DEF LoopOrder
  <1> QED BY <1>3, <1>4, <1>5 DEF Lane

\* A sender that sends nothing else.
LEMMA SenderStays ==
    ASSUME NEW a, NEW a2, NEW b, NEW Ia, NEW Ib, NEW Pa, NEW Pb, NEW A, NEW n,
           Lane(a, b, Ia, Ib, Pa, Pb, A, n),
           a2.id = a.id, a2.phase = a.phase, Outgoing(a2) = Outgoing(a)
    PROVE  Lane(a2, b, Ia, Ib, Pa, Pb, A, n)
  <1>1. /\ a2.out.nextTx = a.out.nextTx /\ a2.out.rel.frame = a.out.rel.frame
        /\ a2.submitted = a.submitted
    BY DEF Outgoing
  <1>2. Sending(a2, b, Ib, A, n)
    BY <1>1 DEF Lane, Sending
  <1>3. Looping(a, b, Ia, Ib, A) => Looping(a2, b, Ia, Ib, A)
    BY <1>1 DEF Looping, Onward
  <1>4. LoopOrder(a, Pa, Pb) => LoopOrder(a2, Pa, Pb)
    BY <1>1 DEF LoopOrder
  <1> QED BY <1>2, <1>3, <1>4 DEF Lane

\* A receiver that has taken nothing of its session.
LEMMA ReceiverClears ==
    ASSUME NEW a, NEW b, NEW b2, NEW Ia, NEW Ib, NEW Pa, NEW Pb, NEW A, NEW n,
           Lane(a, b, Ia, Ib, Pa, Pb, A, n),
           b2.lastRx.type = "INVALID", b2.received = NoMessage
    PROVE  Lane(a, b2, Ia, Ib, Pa, Pb, A, n)
  <1>1. Got(b2, A) = A /\ A \subseteq Got(b, A) /\ (\A x : ~ Based(b2, x))
    BY DEF Got, Based
  <1>2. Sending(a, b2, Ib, A, n)
    BY <1>1 DEF Lane, Sending
  <1>3. Looping(a, b, Ia, Ib, A) => Looping(a, b2, Ia, Ib, A)
    BY <1>1 DEF Looping
  <1> QED BY <1>2, <1>3 DEF Lane

\* A receiver that took nothing new.
LEMMA ReceiverStays ==
    ASSUME NEW a, NEW b, NEW b2, NEW Ia, NEW Ib, NEW Pa, NEW Pb, NEW A, NEW n,
           Lane(a, b, Ia, Ib, Pa, Pb, A, n),
           b2.id = b.id, Incoming(b2) = Incoming(b),
           b.phase = "ESTABLISHED" => b2.phase = "ESTABLISHED"
    PROVE  Lane(a, b2, Ia, Ib, Pa, Pb, A, n)
  <1>1. /\ Got(b2, A) = Got(b, A) /\ b2.lastRx = b.lastRx
        /\ \A x : Based(b2, x) <=> Based(b, x)
    BY DEF Got, Based, Incoming
  <1>2. Sending(a, b2, Ib, A, n)
    BY <1>1 DEF Lane, Sending
  <1>3. Looping(a, b, Ia, Ib, A) => Looping(a, b2, Ia, Ib, A)
    BY <1>1 DEF Looping
  <1> QED BY <1>2, <1>3 DEF Lane

\* A receiver that comes into a session its peer is not in, and of which no message is
\* under way.
LEMMA ReceiverOpens ==
    ASSUME NEW a, NEW b, NEW b2, NEW Ia, NEW Ib, NEW Pa, NEW Pb, NEW A, NEW n,
           Lane(a, b, Ia, Ib, Pa, Pb, A, n),
           b2.received = b.received,
           a.phase = "ESTABLISHED" => a.id # b2.id,
           \A f \in Ib \cup {a.out.rel.frame} : f.type = "APPLICATION" => f.id # b2.id
    PROVE  Lane(a, b2, Ia, Ib, Pa, Pb, A, n)
  <1>1. Got(b2, A) = Got(b, A) /\ (\A x : Based(b2, x) => b2.id = x)
    BY DEF Got, Based
  <1>2. Sending(a, b2, Ib, A, n)
    BY <1>1 DEF Lane, Sending
  <1>3. a.phase = "ESTABLISHED" /\ Looping(a, b, Ia, Ib, A) => Looping(a, b2, Ia, Ib, A)
    BY <1>1 DEF Looping
  <1> QED BY <1>2, <1>3 DEF Lane

\* The body that arrived first.
First(f, I, P) ==
    /\ f \in I
    /\ \A g \in I : g = f \/ <<f, g>> \in P

\* A receiver that takes the message f: it is new, and behind all it has got.
LEMMA ReceiverTakes ==
    ASSUME NEW a, Shaped(a), NEW b, Shaped(b), NEW b2, NEW Ia, NEW Ib, NEW Pa, NEW Pb,
           NEW A, NEW n \in Nat, NoMessage = 0, NEW f,
           Lane(a, b, Ia, Ib, Pa, Pb, A, n), First(f, Ib, Pb), Takes(b, b2, f)
    PROVE  /\ Lane(a, b2, Ia, Ib, Pa, Pb, A, n)
           /\ f.msg \in 1 .. n /\ \A m \in A : m < f.msg
  <1> DEFINE x == a.out.rel.frame
             s == a.out.nextTx
  <1>1. /\ b2.id = b.id /\ b2.phase = "ESTABLISHED" /\ b.phase = "ESTABLISHED"
        /\ b2.lastRx.seq = f.seq
        /\ b2.lastRx.type = "APPLICATION" /\ b.lastRx.type # "INVALID"
        /\ b2.received = f.msg /\ b.received = NoMessage
        /\ f.type = "APPLICATION" /\ f.id = b.id /\ f.seq = NextSequence(b.lastRx.seq)
    BY DEF Takes, Session, Incoming, Baseline, Shaped
  <1>2. f.seq # b.lastRx.seq /\ NextSequence(s) # s
    BY <1>1, Succeeding DEF Shaped
  <1>3. f \in Ib /\ \A g \in Ib : g = f \/ <<f, g>> \in Pb
    BY DEF First
  <1>4. f.msg \in 1 .. n
    BY <1>1, <1>3 DEF Lane, Sending
  <1>5. Got(b, A) = A /\ Got(b2, A) = A \cup {f.msg} /\ A \subseteq 1 .. n
    BY <1>1, <1>4 DEF Got, Lane, Sending
  <1>6. ASSUME NEW m \in A
        PROVE  m < f.msg
    <2>1. m <= f.msg /\ (m = f.msg /\ Based(b, f.id) => b.lastRx.seq = f.seq)
      BY <1>1, <1>3, <1>5 DEF Lane, Sending
    <2>2. m # f.msg
      BY <1>1, <1>2, <2>1 DEF Based
    <2> QED BY <1>4, <1>5, <2>1, <2>2
  <1>7. ASSUME NEW g \in Ib \cup {x}, g.type = "APPLICATION"
        PROVE  /\ g.msg \in 1 .. n /\ f.msg <= g.msg
               /\ f.msg = g.msg => g.id = f.id /\ g.seq = f.seq
    <2>1. g.msg \in 1 .. n
      BY <1>7 DEF Lane, Sending
    <2>2. g = f \/ InOrder(f, g)
      BY <1>3 DEF Lane, Sending
    <2> QED BY <1>1, <1>4, <1>7, <2>1, <2>2 DEF InOrder
  <1> HIDE DEF x, s
  <1>8. Sending(a, b2, Ib, A, n)
    <2>1. \A m \in Got(b2, A), g \in Ib \cup {x} : g.type = "APPLICATION" =>
              /\ m <= g.msg
              /\ m = g.msg /\ Based(b2, g.id) => b2.phase = "ESTABLISHED" /\ b2.lastRx.seq = g.seq
      <3> SUFFICES ASSUME NEW m \in Got(b2, A), NEW g \in Ib \cup {x}, g.type = "APPLICATION"
                   PROVE  /\ m <= g.msg
                          /\ m = g.msg => b2.lastRx.seq = g.seq
        BY <1>1
      <3>1. CASE m = f.msg
        BY <1>1, <1>7, <3>1
      <3>2. CASE m \in A
        <4>1. m < f.msg /\ m \in Int /\ f.msg \in Int /\ g.msg \in Int /\ f.msg <= g.msg
          BY <1>4, <1>5, <1>6, <1>7, <3>2
        <4> QED BY <4>1
      <3> QED BY <1>5, <3>1, <3>2
    <2>2. Got(b2, A) \subseteq 1 .. n
      BY <1>4, <1>5
    <2> QED BY <2>1, <2>2 DEF Lane, Sending, x
  <1>9. ASSUME a.phase = "ESTABLISHED"
        PROVE  Looping(a, b2, Ia, Ib, A)
    <2>0. Looping(a, b, Ia, Ib, A) /\ LoopOrder(a, Pa, Pb)
      BY <1>9 DEF Lane
    <2>1. CASE a.id # b.id
      BY <1>1, <2>0, <2>1 DEF Looping, Based
    <2>2. CASE a.id = b.id
      <3>1. Forward(f, a.id) /\ Based(b, a.id)
        BY <1>1, <2>2 DEF Forward, Based, ReliableTypes
      <3>2. ASSUME b.lastRx.seq = s, Onward(a, Ib)
            PROVE  FALSE
        BY <1>1, <1>2, <1>3, <3>1, <3>2 DEF Onward, s
      <3>9. \/ NextSequence(b.lastRx.seq) = s
            \/ Onward(a, Ib) /\ b.lastRx.seq = s
        BY <2>0, <3>1 DEF Looping, s
      <3>3. f.seq = s /\ b.lastRx.seq # s
        BY <1>1, <1>2, <3>2, <3>9
      <3>4. f = x /\ x.type = "APPLICATION"
        BY <1>1, <1>2, <1>3, <2>0, <3>1, <3>3 DEF Looping, s, x
      <3>5. a.submitted = f.msg
        BY <3>4 DEF Shaped, x
      <3>6. Onward(a, Ib)
        BY <1>3, <2>0, <3>1, <3>3 DEF Onward, LoopOrder, s
      <3>7. a.submitted \in Got(b2, A)
        BY <1>5, <3>5
      <3>8. \A g \in Ia : Backward(g, a.id) => NextSequence(g.ack) = s
        BY <2>0, <3>1, <3>3 DEF Looping, s
      <3> QED BY <1>1, <2>0, <3>3, <3>4, <3>6, <3>7, <3>8 DEF Looping, s, x
    <2> QED BY <2>1, <2>2
  <1> QED BY <1>4, <1>6, <1>8, <1>9 DEF Lane

\* Bodies may be lost or damaged, or leave the wire for the parser: no new frame is under
\* way, and none before another that was not.
Shrinks(I, P, I2, P2) ==
    /\ \A f \in I2 : f \in I \/ f.type \notin FrameTypes
    /\ \A f, g : <<f, g>> \in P2 =>
          /\ f \in I2 /\ g \in I2
          /\ <<f, g>> \in P \/ f = g \/ f.type \notin FrameTypes \/ g.type \notin FrameTypes

\* A direction stands when bodies are lost, damaged or taken.
LEMMA LaneShrinks ==
    ASSUME NEW a, NEW b, NEW Ia, NEW Ib, NEW Pa, NEW Pb, NEW A, NEW n \in Nat,
           NEW Ia2, NEW Ib2, NEW Pa2, NEW Pb2,
           Lane(a, b, Ia, Ib, Pa, Pb, A, n),
           Shrinks(Ia, Pa, Ia2, Pa2), Shrinks(Ib, Pb, Ib2, Pb2)
    PROVE  Lane(a, b, Ia2, Ib2, Pa2, Pb2, A, n)
  <1>1. /\ \A f \in Ib2 : f.type \in FrameTypes => f \in Ib
        /\ \A f \in Ia2 : f.type \in FrameTypes => f \in Ia
    BY DEF Shrinks
  <1>2. /\ "INITIATE" \in FrameTypes /\ "RESPONSE" \in FrameTypes /\ "CONFIRM" \in FrameTypes
        /\ "APPLICATION" \in FrameTypes /\ "ACK" \in FrameTypes
        /\ Evidence \subseteq FrameTypes /\ ReliableTypes \subseteq FrameTypes
    BY DEF FrameTypes, ReliableTypes, ControlTypes, Evidence
  <1>3. \A f, g : InOrder(f, g) \/ (f.type \in FrameTypes /\ g.type \in FrameTypes)
    BY <1>2 DEF InOrder
  <1>4. Sending(a, b, Ib2, A, n)
    <2>1. \A g \in Ib2 : g.type = "APPLICATION" => g \in Ib
      BY <1>1, <1>2
    <2>2. \A g \in Ib2 : InOrder(g, a.out.rel.frame)
      BY <1>1, <1>3 DEF Lane, Sending
    <2> QED BY <2>1, <2>2 DEF Lane, Sending
  <1>5. ASSUME NEW f, NEW g, <<f, g>> \in Pb2
        PROVE  InOrder(f, g)
    <2>1. CASE f.type \notin FrameTypes \/ g.type \notin FrameTypes
      BY <1>3, <2>1
    <2>2. CASE <<f, g>> \in Pb
      BY <2>2 DEF Lane
    <2>3. CASE f = g /\ f.type \in FrameTypes
      <3>1. f \in Ib
        BY <1>1, <1>5, <2>3 DEF Shrinks
      <3>2. f.type = "APPLICATION" => f.msg <= f.msg
        BY <3>1 DEF Lane, Sending
      <3> QED BY <2>3, <3>2 DEF InOrder, Evidence
    <2> QED BY <1>5, <2>1, <2>2, <2>3 DEF Shrinks
  <1>6. ASSUME a.phase = "ESTABLISHED"
        PROVE  Looping(a, b, Ia2, Ib2, A) /\ LoopOrder(a, Pa2, Pb2)
    <2>0. Looping(a, b, Ia, Ib, A) /\ LoopOrder(a, Pa, Pb)
      BY <1>6 DEF Lane
    <2>1. \A f \in Ib2 : Forward(f, a.id) => f \in Ib
      BY <1>1, <1>2 DEF Forward
    <2>2. \A f \in Ia2 : Backward(f, a.id) => f \in Ia
      BY <1>1, <1>2 DEF Backward
    <2>3. Onward(a, Ib) => Onward(a, Ib2)
      BY <2>1 DEF Onward
    <2>4. Looping(a, b, Ia2, Ib2, A)
      BY <2>0, <2>1, <2>2, <2>3 DEF Looping
    <2>5. \A f, g : <<f, g>> \in Pb2 /\ Forward(f, a.id) /\ Forward(g, a.id) =>
              <<f, g>> \in Pb \/ f = g
      BY <1>2 DEF Shrinks, Forward
    <2>6. \A f, g : <<f, g>> \in Pa2 /\ Backward(f, a.id) /\ Backward(g, a.id) =>
              <<f, g>> \in Pa \/ f = g
      BY <1>2 DEF Shrinks, Backward
    <2>7. LoopOrder(a, Pa2, Pb2)
      BY <2>0, <2>5, <2>6 DEF LoopOrder
    <2> QED BY <2>4, <2>7
  <1> QED BY <1>4, <1>5, <1>6 DEF Lane

\* And so do both.
LEMMA WorldShrinks ==
    ASSUME NEW h, NEW g, NEW Ih, NEW Ig, NEW Ph, NEW Pg, NEW Ah, NEW Ag,
           NEW nh \in Nat, NEW ng \in Nat, NEW Ih2, NEW Ig2, NEW Ph2, NEW Pg2,
           World(h, g, Ih, Ig, Ph, Pg, Ah, Ag, nh, ng),
           Shrinks(Ih, Ph, Ih2, Ph2), Shrinks(Ig, Pg, Ig2, Pg2)
    PROVE  World(h, g, Ih2, Ig2, Ph2, Pg2, Ah, Ag, nh, ng)
  <1>1. /\ \A f \in Ih2 : f.type \in FrameTypes => f \in Ih
        /\ \A f \in Ig2 : f.type \in FrameTypes => f \in Ig
    BY DEF Shrinks
  <1>2. /\ "INITIATE" \in FrameTypes /\ "RESPONSE" \in FrameTypes /\ "CONFIRM" \in FrameTypes
        /\ "ACK" \in FrameTypes /\ Evidence \subseteq FrameTypes
    BY DEF FrameTypes, ReliableTypes, ControlTypes, Evidence
  <1>3. Lane(h, g, Ih2, Ig2, Ph2, Pg2, Ag, nh) /\ Lane(g, h, Ig2, Ih2, Pg2, Ph2, Ah, ng)
    BY LaneShrinks DEF World
  <1>4. /\ \A f \in Ih2 : Opening(f) /\ f.type \notin {"INITIATE", "CONFIRM"}
        /\ \A f \in Ig2 : Opening(f) /\ f.type # "RESPONSE"
    BY <1>1, <1>2 DEF World, Opening
  <1>5. \A x : Decided(x, g, Ig) => Decided(x, g, Ig2)
    BY <1>1, <1>2 DEF Decided
  <1>6. /\ \A f \in Ih2 : f.type \in Evidence => f \in Ih
        /\ \A f \in Ig2 : f.type \in Evidence \cup {"CONFIRM"} => f \in Ig
    BY <1>1, <1>2
  <1>7. Agreeing(h, g, Ih2, Ig2)
    BY <1>5, <1>6 DEF World, Agreeing, Evidence
  <1> QED BY <1>3, <1>4, <1>7 DEF World

-----------------------------------------------------------------------------
(* Every move keeps the world *)

\* A move by a frame that fits the opening of a session leaves an end that does.
LEMMA OpensOn ==
    ASSUME NEW e, Shaped(e), NEW e2, Shaped(e2), OpeningEnd(e), NEW f, Opening(f),
           Moved(e, e2, f)
    PROVE  OpeningEnd(e2)
  <1> USE DEF Session, Outgoing, Incoming
  <1>0. /\ NoFrame.type = "INVALID" /\ NoBaseline.type = "INVALID"
        /\ Baseline(f).type = f.type /\ Baseline(f).seq = f.seq
    BY DEF NoFrame, NoBaseline, Baseline
  <1>1. CASE Keeps(e, e2) \/ Takes(e, e2, f) \/ Finishes(e, e2, f)
    <2>1. \/ e2.out.rel.frame = e.out.rel.frame /\ e2.out.nextTx = e.out.nextTx
          \/ e2.out.rel.frame = NoFrame /\ e.phase = "ESTABLISHED"
      BY <1>1 DEF Keeps, Takes, Finishes
    <2>2. \/ e2.lastRx = e.lastRx
          \/ e2.lastRx.type = "APPLICATION" /\ e.phase = "ESTABLISHED"
      BY <1>0, <1>1 DEF Keeps, Takes, Finishes
    <2>3. e2.phase = e.phase
      BY <1>1 DEF Keeps, Takes, Finishes
    <2> QED BY <1>0, <2>1, <2>2, <2>3 DEF OpeningEnd, Opening, RigPhases
  <1>2. CASE Leaves(e, e2, f) \/ Begins(e, e2)
    <2>1. /\ e2.out.rel.frame = NoFrame /\ e2.out.nextTx = InitialSequence
          /\ e2.lastRx = NoBaseline
          /\ e2.phase \in {"INACTIVE", "INITIATE_PENDING", "WAITING_FOR_INITIATE"}
      BY <1>2 DEF Leaves, Clears, Begins
    <2> QED BY <1>0, <2>1 DEF OpeningEnd, Opening, RigPhases
  <1>3. CASE Publishes(e, e2)
    <2>1. PICK x \in Handshakes :
              LET ack == IF x[2] = "INITIATE" THEN 0 ELSE e.lastRx.seq
              IN  /\ e.phase = x[1] /\ e2.phase = x[3] /\ e2.out.nextTx = e.out.nextTx
                  /\ e2.out.rel.frame = MakeFrame(x[2], e.id, e.out.nextTx, ack, NoMessage)
                  /\ e2.lastRx = e.lastRx
      BY <1>3 DEF Publishes
    <2>2. \/ e.phase = "INITIATE_PENDING" /\ x[2] = "INITIATE" /\ x[3] = "WAITING_FOR_RESPONSE"
          \/ e.phase = "RESPONSE_PENDING" /\ x[2] = "RESPONSE" /\ x[3] = "WAITING_FOR_CONFIRM"
          \/ /\ e.phase = "CONFIRM_PENDING" /\ x[2] = "CONFIRM"
             /\ x[3] = "WAITING_FOR_CONFIRM_ACK"
      BY <2>1 DEF Handshakes
    <2>3. x[2] # "INITIATE" => e2.out.rel.frame.ack = e.lastRx.seq
      BY <2>1 DEF MakeFrame
    <2>4. e2.out.rel.frame.type = x[2] /\ e2.out.rel.frame.seq = e.out.nextTx
      BY <2>1 DEF MakeFrame
    <2> QED BY <2>1, <2>2, <2>3, <2>4 DEF OpeningEnd, Opening, RigPhases, Shaped
  <1>4. CASE Replies(e, e2, f)
    BY <1>0, <1>4 DEF Replies, OpeningEnd, Opening, RigPhases, Second
  <1>5. CASE Completes(e, e2, f)
    BY <1>0, <1>5 DEF Completes, OpeningEnd, Opening, RigPhases
  <1>6. CASE Adopts(e, e2, f)
    BY <1>0, <1>6 DEF Adopts, OpeningEnd, Opening, RigPhases
  <1>7. CASE Joins(e, e2, f)
    BY <1>0, <1>7 DEF Joins, OpeningEnd, Opening, RigPhases
  <1> QED BY <1>1, <1>2, <1>3, <1>4, <1>5, <1>6, <1>7 DEF Moved

\* The moves of the host, as to the handshake.  It begins under an identifier nobody knows.
LEMMA HostAgrees ==
    ASSUME NEW h, Shaped(h), NEW h2, Shaped(h2), h.role = "HOST", NEW g, Shaped(g),
           NEW Ih, NEW Ig, NEW Ph, NEW f, First(f, Ih, Ph), Agreeing(h, g, Ih, Ig),
           Moved(h, h2, f),
           h.id = NoSession /\ h.out.resetId = NoSession =>
              /\ g.id # h.nextId
              /\ \A x \in Ih \cup Ig : x.id # h.nextId
    PROVE  Agreeing(h2, g, Ih, Ig)
  <1> USE DEF Session, Outgoing, Incoming
  <1>1. CASE Keeps(h, h2) \/ Takes(h, h2, f) \/ Finishes(h, h2, f)
    <2>1. h2.phase = h.phase /\ h2.id = h.id
      BY <1>1 DEF Keeps, Takes, Finishes
    <2> QED BY <2>1 DEF Agreeing
  <1>2. CASE Leaves(h, h2, f)
    BY <1>2 DEF Leaves, Clears, Agreeing
  <1>3. CASE Begins(h, h2)
    <2>1. h2.phase = "INITIATE_PENDING" /\ h2.id = h.nextId
          /\ h.id = NoSession /\ h.out.resetId = NoSession
      BY <1>3 DEF Begins
    <2> QED BY <2>1 DEF Agreeing
  <1>4. CASE Publishes(h, h2)
    <2>1. /\ h2.id = h.id
          /\ \/ h.phase = "INITIATE_PENDING" /\ h2.phase = "WAITING_FOR_RESPONSE"
             \/ h.phase = "CONFIRM_PENDING" /\ h2.phase = "WAITING_FOR_CONFIRM_ACK"
             \/ h.phase = "RESPONSE_PENDING"
      BY <1>4 DEF Publishes, Handshakes
    <2>2. h.phase # "RESPONSE_PENDING"
      BY DEF Shaped, RigPhases
    <2> QED BY <2>1, <2>2 DEF Agreeing, Evidence
  <1>5. CASE Replies(h, h2, f)
    BY <1>5 DEF Replies, Agreeing
  <1>6. CASE Completes(h, h2, f)
    <2>1. Decided(h.id, g, Ig)
      BY <1>6 DEF Completes, Agreeing, First, Evidence
    <2> QED BY <1>6, <2>1 DEF Completes, Agreeing
  <1>7. CASE Adopts(h, h2, f) \/ Joins(h, h2, f)
    BY <1>7 DEF Adopts, Joins
  <1> QED BY <1>1, <1>2, <1>3, <1>4, <1>5, <1>6, <1>7 DEF Moved

\* The moves of the rig, as to the handshake.
LEMMA RigAgrees ==
    ASSUME NEW h, Shaped(h), NEW g, Shaped(g), NEW g2, Shaped(g2), g.role = "RIG",
           NEW Ih, NEW Ig, NEW Pg, NEW f, First(f, Ig, Pg), Agreeing(h, g, Ih, Ig),
           \A x, y : <<x, y>> \in Pg => InOrder(x, y),
           Opening(f), Moved(g, g2, f)
    PROVE  Agreeing(h, g2, Ih, Ig)
  <1> USE DEF Session, Outgoing, Incoming
  <1>0. Baseline(f).seq = f.seq
    BY DEF Baseline
  <1>1. CASE Keeps(g, g2) \/ Finishes(g, g2, f)
    <2>1. g2.phase = g.phase /\ g2.id = g.id /\ g2.lastRx = g.lastRx
      BY <1>1 DEF Keeps, Finishes
    <2> QED BY <2>1 DEF Agreeing, Decided
  <1>2. CASE Leaves(g, g2, f) \/ Begins(g, g2)
    <2>1. g2.phase \in {"INACTIVE", "WAITING_FOR_INITIATE"}
      BY <1>2 DEF Leaves, Clears, Begins
    <2> QED BY <2>1 DEF Agreeing, Decided
  <1>3. CASE Publishes(g, g2)
    <2>1. g2.id = g.id /\ g.phase = "RESPONSE_PENDING" /\ g2.phase = "WAITING_FOR_CONFIRM"
      <3>1. PICK x \in Handshakes : g.phase = x[1] /\ g2.phase = x[3] /\ g2.id = g.id
        BY <1>3 DEF Publishes
      <3>2. x[1] = "RESPONSE_PENDING" => x[3] = "WAITING_FOR_CONFIRM"
        BY DEF Handshakes
      <3>3. g.phase \notin {"INITIATE_PENDING", "CONFIRM_PENDING"}
        BY DEF Shaped, HostPhases
      <3> QED BY <3>1, <3>2, <3>3 DEF Handshakes
    <2> QED BY <2>1 DEF Agreeing, Decided
  <1>4. CASE Replies(g, g2, f) \/ Completes(g, g2, f)
    BY <1>4 DEF Replies, Completes
  <1>5. CASE Adopts(g, g2, f)
    <2>1. f \in Ig /\ f.type = "INITIATE" /\ g2.id = f.id /\ g2.phase = "RESPONSE_PENDING"
      BY <1>5 DEF Adopts, First
    <2>2. \A x : Decided(x, g, Ig) => Decided(x, g2, Ig)
      BY <2>1 DEF Decided
    <2> QED BY <2>1, <2>2 DEF Agreeing
  <1>6. CASE Joins(g, g2, f)
    <2>1. /\ f \in Ig /\ f.type = "CONFIRM" /\ f.id = g.id /\ g2.id = g.id
          /\ g2.phase = "ESTABLISHED" /\ g2.lastRx.seq = Second
      BY <1>0, <1>6 DEF Joins, First, Opening
    <2>2. \A x \in Ig : x.type = "INITIATE" => x.id # g.id
      BY <2>1 DEF First, InOrder
    <2>3. Decided(g2.id, g2, Ig)
      BY <2>1, <2>2 DEF Decided
    <2>4. \A x : Decided(x, g, Ig) => Decided(x, g2, Ig)
      BY <2>1 DEF Decided
    <2> QED BY <2>1, <2>3, <2>4 DEF Agreeing
  <1>7. CASE Takes(g, g2, f)
    <2>1. /\ f \in Ig /\ f.type = "APPLICATION" /\ f.id = g.id /\ g2.id = g.id
          /\ g2.phase = g.phase
      BY <1>7 DEF Takes, First
    <2>2. h.phase = "WAITING_FOR_CONFIRM_ACK" => g2.id # h.id
      BY <2>1 DEF Agreeing, Evidence
    <2> QED BY <2>1, <2>2 DEF Agreeing, Decided
  <1> QED BY <1>1, <1>2, <1>3, <1>4, <1>5, <1>6, <1>7 DEF Moved

\* The order of bodies is about the bodies under way.
Within(I, P) == \A f, g : <<f, g>> \in P => f \in I /\ g \in I

\* A confirmed message was accepted, and everything else under way stands for it.
LEMMA SenderFinishes ==
    ASSUME NEW a, Shaped(a), NEW a2, Shaped(a2), NEW b, NEW Ia, NEW Ib, NEW Pa, NEW Pb,
           NEW A, NEW n, NEW f,
           Lane(a, b, Ia, Ib, Pa, Pb, A, n), First(f, Ia, Pa), Finishes(a, a2, f),
           Within(Ia, Pa), Within(Ib, Pb)
    PROVE  Lane(a2, b, Ia, Ib, Pa, Pb, A, n) /\ a.submitted \in A
  <1> DEFINE s == a.out.nextTx
  <1>1. /\ f \in Ia /\ Backward(f, a.id) /\ f.ack = s /\ a.phase = "ESTABLISHED"
        /\ a2.out.rel.frame = NoFrame /\ a2.out.nextTx = NextSequence(s) /\ a2.id = a.id
    BY DEF Finishes, First, Backward, Outgoing, Session
  <1>2. Looping(a, b, Ia, Ib, A) /\ LoopOrder(a, Pa, Pb)
    BY <1>1 DEF Lane
  <1>3. NextSequence(s) # s
    BY Succeeding DEF Shaped
  <1>4. /\ Onward(a, Ib) /\ a.submitted \in A
        /\ Based(b, a.id) => b.lastRx.seq = s
    BY <1>1, <1>2, <1>3 DEF Looping
  <1>5. \A x \in Ib : Forward(x, a2.id) => NextSequence(x.seq) = a2.out.nextTx
    BY <1>1, <1>4 DEF Onward
  <1>6. \A x \in Ia : Backward(x, a2.id) => NextSequence(x.ack) = a2.out.nextTx
    <2>1. \A x \in Ia : Backward(x, a.id) => x.ack = s
      BY <1>1, <1>2 DEF First, LoopOrder
    <2> QED BY <1>1, <2>1
  <1>7. a2.out.nextTx \in Sequences16
    BY DEF Shaped
  <1>8. Based(b, a2.id) => NextSequence(b.lastRx.seq) = a2.out.nextTx
    BY <1>1, <1>4
  <1> HIDE DEF s
  <1> QED BY <1>1, <1>4, <1>5, <1>6, <1>7, <1>8, SenderSettles DEF Within

\* The host as a sender.
LEMMA HostSends ==
    ASSUME NEW h, Shaped(h), NEW h2, Shaped(h2), h.role = "HOST",
           NEW g, Shaped(g), g.role = "RIG",
           NEW Ih, NEW Ig, NEW Ph, NEW Pg, NEW Ah, NEW Ag, NEW nh, NEW ng,
           World(h, g, Ih, Ig, Ph, Pg, Ah, Ag, nh, ng), Within(Ih, Ph), Within(Ig, Pg),
           NEW f, First(f, Ih, Ph), Moved(h, h2, f)
    PROVE  Lane(h2, g, Ih, Ig, Ph, Pg, Ag, nh)
  <1> USE DEF Session, Outgoing
  <1>0. /\ Lane(h, g, Ih, Ig, Ph, Pg, Ag, nh) /\ Agreeing(h, g, Ih, Ig) /\ NoFrame.type = "INVALID"
        /\ f \in Ih
    BY DEF World, NoFrame, First
  <1>1. CASE Keeps(h, h2) \/ Takes(h, h2, f)
    <2>1. h2.phase = h.phase /\ h2.id = h.id /\ Outgoing(h2) = Outgoing(h)
      BY <1>1 DEF Keeps, Takes
    <2> QED BY <1>0, <2>1, SenderStays
  <1>2. CASE Leaves(h, h2, f) \/ Begins(h, h2) \/ Replies(h, h2, f)
    <2>1. h2.out.rel.frame = NoFrame /\ h2.phase # "ESTABLISHED"
      BY <1>2 DEF Leaves, Clears, Begins, Replies
    <2>2. \A x \in Ig : InOrder(x, h2.out.rel.frame)
      BY <1>0, <2>1 DEF InOrder
    <2> QED BY <1>0, <2>1, <2>2, SenderOpens
  <1>3. CASE Publishes(h, h2)
    <2>1. PICK x \in Handshakes :
              /\ h.phase = x[1] /\ h2.phase = x[3] /\ h2.out.rel.frame.type = x[2]
              /\ h2.out.rel.frame.id = h.id
      <3>1. PICK x \in Handshakes :
              LET ack == IF x[2] = "INITIATE" THEN 0 ELSE h.lastRx.seq
              IN  /\ h.phase = x[1] /\ h2.phase = x[3]
                  /\ h2.out.rel.frame = MakeFrame(x[2], h.id, h.out.nextTx, ack, NoMessage)
        BY <1>3 DEF Publishes
      <3> QED BY <3>1 DEF MakeFrame
    <2>2. /\ h2.phase # "ESTABLISHED" /\ h2.out.rel.frame.type \in {"INITIATE", "CONFIRM"}
          /\ h2.out.rel.frame.type = "INITIATE" => h.phase = "INITIATE_PENDING"
      BY <2>1 DEF Handshakes, Shaped, RigPhases
    <2>3. \A y \in Ig : InOrder(y, h2.out.rel.frame)
      BY <1>0, <2>1, <2>2 DEF InOrder, Agreeing
    <2> QED BY <1>0, <2>2, <2>3, SenderOpens
  <1>4. CASE Completes(h, h2, f)
    <2>1. /\ f.type \in Evidence /\ f.id = h.id /\ h.phase = "WAITING_FOR_CONFIRM_ACK"
          /\ h2.id = h.id /\ h2.out.rel.frame = NoFrame
          /\ h2.out.nextTx = NextSequence(h.out.nextTx) /\ h.out.nextTx = Second
      BY <1>4 DEF Completes, Evidence, World, OpeningEnd
    <2>2. Decided(h.id, g, Ig)
      BY <1>0, <2>1 DEF Agreeing
    <2>3. \A x \in Ig : Forward(x, h2.id) => NextSequence(x.seq) = h2.out.nextTx
      <3> SUFFICES ASSUME NEW x \in Ig, x.type \in ReliableTypes, x.id = h.id
                   PROVE  x.seq = Second
        BY <2>1 DEF Forward
      <3>1. x.type # "INITIATE"
        BY <2>2 DEF Decided
      <3>2. x.type # "RESPONSE" /\ Opening(x)
        BY DEF World
      <3>3. x.type # "APPLICATION"
        BY <1>0, <2>1 DEF Agreeing, Evidence
      <3> QED BY <3>1, <3>2, <3>3 DEF Opening, ReliableTypes
    <2>4. Based(g, h2.id) => NextSequence(g.lastRx.seq) = h2.out.nextTx
      <3> SUFFICES ASSUME g.id = h.id, g.lastRx.type # "INVALID"
                   PROVE  g.lastRx.seq = Second
        BY <2>1 DEF Based
      <3>1. g.phase = "ESTABLISHED"
        BY <2>2 DEF Decided, Shaped, HandshakePhases, HostPhases
      <3> QED BY <1>0, <2>1, <3>1 DEF Agreeing
    <2>5. \A x \in Ih : Backward(x, h2.id) => NextSequence(x.ack) = h2.out.nextTx
      <3> SUFFICES ASSUME NEW x \in Ih, x.type \in {"RESPONSE", "CONFIRM", "ACK"}, x.id = h.id
                   PROVE  x.ack = Second
        BY <2>1 DEF Backward
      <3>1. x.type # "CONFIRM"
        BY DEF World
      <3>2. x.type # "RESPONSE"
        <4>1. x = f \/ InOrder(f, x)
          BY DEF First, World, Lane
        <4> QED BY <2>1, <4>1 DEF InOrder, Evidence
      <3> QED BY <1>0, <2>1, <3>1, <3>2 DEF Agreeing
    <2>6. h2.out.nextTx \in Sequences16
      BY DEF Shaped
    <2> QED BY <1>0, <2>1, <2>3, <2>4, <2>5, <2>6, SenderSettles DEF Within
  <1>5. CASE Finishes(h, h2, f)
    BY <1>0, <1>5, SenderFinishes
  <1>6. CASE Adopts(h, h2, f) \/ Joins(h, h2, f)
    BY <1>6 DEF Adopts, Joins
  <1> QED BY <1>1, <1>2, <1>3, <1>4, <1>5, <1>6 DEF Moved

\* The rig as a sender.
LEMMA RigSends ==
    ASSUME NEW h, Shaped(h), h.role = "HOST",
           NEW g, Shaped(g), NEW g2, Shaped(g2), g.role = "RIG",
           NEW Ih, NEW Ig, NEW Ph, NEW Pg, NEW Ah, NEW Ag, NEW nh, NEW ng,
           World(h, g, Ih, Ig, Ph, Pg, Ah, Ag, nh, ng), Within(Ih, Ph), Within(Ig, Pg),
           NEW f, First(f, Ig, Pg), Moved(g, g2, f)
    PROVE  Lane(g2, h, Ig, Ih, Pg, Ph, Ah, ng)
  <1> USE DEF Session, Outgoing
  <1>0. /\ Lane(g, h, Ig, Ih, Pg, Ph, Ah, ng) /\ Agreeing(h, g, Ih, Ig) /\ NoFrame.type = "INVALID"
        /\ f \in Ig
    BY DEF World, NoFrame, First
  <1>1. CASE Keeps(g, g2) \/ Takes(g, g2, f)
    <2>1. g2.phase = g.phase /\ g2.id = g.id /\ Outgoing(g2) = Outgoing(g)
      BY <1>1 DEF Keeps, Takes
    <2> QED BY <1>0, <2>1, SenderStays
  <1>2. CASE Leaves(g, g2, f) \/ Begins(g, g2) \/ Adopts(g, g2, f)
    <2>1. g2.out.rel.frame.type = "INVALID" /\ g2.phase # "ESTABLISHED"
      BY <1>0, <1>2 DEF Leaves, Clears, Begins, Adopts, Shaped, ReliableTypes
    <2>2. \A x \in Ih : InOrder(x, g2.out.rel.frame)
      BY <2>1 DEF InOrder
    <2> QED BY <1>0, <2>1, <2>2, SenderOpens
  <1>3. CASE Publishes(g, g2)
    <2>1. PICK x \in Handshakes :
              /\ g.phase = x[1] /\ g2.phase = x[3] /\ g2.out.rel.frame.type = x[2]
              /\ g2.out.rel.frame.id = g.id
      <3>1. PICK x \in Handshakes :
              LET ack == IF x[2] = "INITIATE" THEN 0 ELSE g.lastRx.seq
              IN  /\ g.phase = x[1] /\ g2.phase = x[3]
                  /\ g2.out.rel.frame = MakeFrame(x[2], g.id, g.out.nextTx, ack, NoMessage)
        BY <1>3 DEF Publishes
      <3> QED BY <3>1 DEF MakeFrame
    <2>2. /\ g2.phase # "ESTABLISHED" /\ g2.out.rel.frame.type = "RESPONSE"
          /\ g.phase = "RESPONSE_PENDING"
      BY <2>1 DEF Handshakes, Shaped, HostPhases
    <2>3. \A y \in Ih : InOrder(y, g2.out.rel.frame)
      BY <1>0, <2>1, <2>2 DEF InOrder, Agreeing, Decided
    <2> QED BY <1>0, <2>2, <2>3, SenderOpens
  <1>4. CASE Joins(g, g2, f)
    <2>1. /\ f.type = "CONFIRM" /\ f.id = g.id /\ g.phase = "WAITING_FOR_CONFIRM"
          /\ g2.id = g.id /\ g2.out.rel.frame = NoFrame
          /\ g2.out.nextTx = Second
      BY <1>4 DEF Joins, Evidence, World, OpeningEnd, RigPhases, Second
    <2>2. \A x \in Ih \cup Ig : x.type \in Evidence => x.id # g.id
      BY <1>0, <2>1 DEF Agreeing, Decided
    <2>3. \A x \in Ih : Forward(x, g2.id) => NextSequence(x.seq) = g2.out.nextTx
      <3> SUFFICES ASSUME NEW x \in Ih, x.type \in ReliableTypes, x.id = g.id
                   PROVE  x.seq = InitialSequence
        BY <2>1 DEF Forward, Second
      <3> QED BY <2>2 DEF Opening, ReliableTypes, World, Evidence
    <2>4. Based(h, g2.id) => NextSequence(h.lastRx.seq) = g2.out.nextTx
      <3> SUFFICES ASSUME h.id = g.id, h.lastRx.type # "INVALID"
                   PROVE  h.lastRx.seq = InitialSequence
        BY <2>1 DEF Based, Second
      <3>1. h.phase # "ESTABLISHED"
        BY <1>0, <2>1 DEF Agreeing, Decided
      <3>2. h.lastRx.type = "RESPONSE"
        BY <3>1 DEF Shaped, HandshakePhases, RigPhases
      <3> QED BY <3>2 DEF World, OpeningEnd
    <2>5. \A x \in Ig : Backward(x, g2.id) => NextSequence(x.ack) = g2.out.nextTx
      <3> SUFFICES ASSUME NEW x \in Ig, x.type \in {"RESPONSE", "CONFIRM", "ACK"}, x.id = g.id
                   PROVE  x.ack = InitialSequence
        BY <2>1 DEF Backward, Second
      <3> QED BY <2>2 DEF World, Opening, Evidence
    <2>6. g2.out.nextTx \in Sequences16
      BY DEF Shaped
    <2> QED BY <1>0, <2>1, <2>3, <2>4, <2>5, <2>6, SenderSettles DEF Within
  <1>5. CASE Finishes(g, g2, f)
    BY <1>0, <1>5, SenderFinishes
  <1>6. CASE Replies(g, g2, f) \/ Completes(g, g2, f)
    BY <1>6 DEF Replies, Completes
  <1> QED BY <1>1, <1>2, <1>3, <1>4, <1>5, <1>6 DEF Moved

\* What an endpoint has to read is what it had, or a message of the n sent to it that is
\* behind all its application accepted.
Newer(e, e2, A, n) ==
    \/ e2.received \in {e.received, NoMessage}
    \/ e2.received \in 1 .. n /\ \A m \in A : m < e2.received

\* The host as a receiver.
LEMMA HostReceives ==
    ASSUME NEW h, Shaped(h), NEW h2, Shaped(h2), h.role = "HOST",
           NEW g, Shaped(g), g.role = "RIG",
           NEW Ih, NEW Ig, NEW Ph, NEW Pg, NEW Ah, NEW Ag, NEW nh, NEW ng \in Nat,
           World(h, g, Ih, Ig, Ph, Pg, Ah, Ag, nh, ng), NoMessage = 0,
           NEW f, First(f, Ih, Ph), Moved(h, h2, f)
    PROVE  Lane(g, h2, Ig, Ih, Pg, Ph, Ah, ng) /\ Newer(h, h2, Ah, ng)
  <1> USE DEF Session, Incoming
  <1>0. /\ Lane(g, h, Ig, Ih, Pg, Ph, Ah, ng) /\ Agreeing(h, g, Ih, Ig)
        /\ f \in Ih
    BY DEF World, First
  <1>1. CASE Keeps(h, h2) \/ Finishes(h, h2, f) \/ Completes(h, h2, f) \/ Publishes(h, h2)
    <2>1. h2.id = h.id /\ Incoming(h2) = Incoming(h)
      BY <1>1 DEF Keeps, Finishes, Completes, Publishes
    <2>2. h.phase = "ESTABLISHED" => h2.phase = "ESTABLISHED"
      <3>1. \A x \in Handshakes : x[1] # "ESTABLISHED"
        BY DEF Handshakes
      <3> QED BY <1>1, <3>1 DEF Keeps, Finishes, Completes, Publishes
    <2> QED BY <1>0, <2>1, <2>2, ReceiverStays DEF Newer
  <1>2. CASE Leaves(h, h2, f) \/ Begins(h, h2)
    <2>1. h2.lastRx.type = "INVALID" /\ h2.received = NoMessage
      BY <1>2 DEF Leaves, Clears, Begins, NoBaseline
    <2> QED BY <1>0, <2>1, ReceiverClears DEF Newer
  <1>3. CASE Replies(h, h2, f)
    <2>1. h2.received = h.received /\ h2.id = h.id /\ h.phase = "WAITING_FOR_RESPONSE"
      BY <1>3 DEF Replies
    <2>2. g.phase = "ESTABLISHED" => g.id # h2.id
      BY <1>0, <2>1 DEF Agreeing
    <2>3. \A x \in Ih \cup {g.out.rel.frame} : x.type = "APPLICATION" => x.id # h2.id
      BY <1>0, <2>1, <2>2 DEF Agreeing, Evidence, Shaped, ReliableTypes
    <2> QED BY <1>0, <2>1, <2>2, <2>3, ReceiverOpens DEF Newer
  <1>4. CASE Takes(h, h2, f)
    <2>1. h2.received = f.msg
      BY <1>4 DEF Takes
    <2> QED BY <1>0, <1>4, <2>1, ReceiverTakes DEF Newer
  <1>5. CASE Adopts(h, h2, f) \/ Joins(h, h2, f)
    BY <1>5 DEF Adopts, Joins
  <1> QED BY <1>1, <1>2, <1>3, <1>4, <1>5 DEF Moved

\* The rig as a receiver.
LEMMA RigReceives ==
    ASSUME NEW h, Shaped(h), h.role = "HOST",
           NEW g, Shaped(g), NEW g2, Shaped(g2), g.role = "RIG",
           NEW Ih, NEW Ig, NEW Ph, NEW Pg, NEW Ah, NEW Ag, NEW nh \in Nat, NEW ng,
           World(h, g, Ih, Ig, Ph, Pg, Ah, Ag, nh, ng), NoMessage = 0,
           NEW f, First(f, Ig, Pg), Moved(g, g2, f)
    PROVE  Lane(h, g2, Ih, Ig, Ph, Pg, Ag, nh) /\ Newer(g, g2, Ag, nh)
  <1> USE DEF Session, Incoming
  <1>0. /\ Lane(h, g, Ih, Ig, Ph, Pg, Ag, nh) /\ Agreeing(h, g, Ih, Ig)
        /\ f \in Ig
    BY DEF World, First
  <1>1. CASE Keeps(g, g2) \/ Finishes(g, g2, f) \/ Publishes(g, g2)
    <2>1. g2.id = g.id /\ Incoming(g2) = Incoming(g)
      BY <1>1 DEF Keeps, Finishes, Publishes
    <2>2. g.phase = "ESTABLISHED" => g2.phase = "ESTABLISHED"
      <3>1. \A x \in Handshakes : x[1] # "ESTABLISHED"
        BY DEF Handshakes
      <3> QED BY <1>1, <3>1 DEF Keeps, Finishes, Publishes
    <2> QED BY <1>0, <2>1, <2>2, ReceiverStays DEF Newer
  <1>2. CASE Leaves(g, g2, f) \/ Begins(g, g2)
    <2>1. g2.lastRx.type = "INVALID" /\ g2.received = NoMessage
      BY <1>2 DEF Leaves, Clears, Begins, NoBaseline
    <2> QED BY <1>0, <2>1, ReceiverClears DEF Newer
  <1>3. CASE Adopts(g, g2, f)
    <2>1. g2.received = g.received /\ g2.id = f.id /\ f.type = "INITIATE"
      BY <1>3 DEF Adopts
    <2>2. h.phase = "ESTABLISHED" => h.id # g2.id
      BY <1>0, <2>1 DEF Agreeing, Decided
    <2>3. \A x \in Ig \cup {h.out.rel.frame} : x.type = "APPLICATION" => x.id # g2.id
      BY <1>0, <2>1, <2>2 DEF Agreeing, Decided, Evidence, Shaped, ReliableTypes
    <2> QED BY <1>0, <2>1, <2>2, <2>3, ReceiverOpens DEF Newer
  <1>4. CASE Joins(g, g2, f)
    <2>1. g2.received = g.received /\ g2.id = g.id /\ g.phase = "WAITING_FOR_CONFIRM"
      BY <1>4 DEF Joins
    <2>2. h.phase = "ESTABLISHED" => h.id # g2.id
      BY <1>0, <2>1 DEF Agreeing, Decided
    <2>3. \A x \in Ig \cup {h.out.rel.frame} : x.type = "APPLICATION" => x.id # g2.id
      BY <1>0, <2>1, <2>2 DEF Agreeing, Decided, Evidence, Shaped, ReliableTypes
    <2> QED BY <1>0, <2>1, <2>2, <2>3, ReceiverOpens DEF Newer
  <1>5. CASE Takes(g, g2, f)
    <2>1. g2.received = f.msg
      BY <1>5 DEF Takes
    <2> QED BY <1>0, <1>5, <2>1, ReceiverTakes DEF Newer
  <1>6. CASE Replies(g, g2, f) \/ Completes(g, g2, f)
    BY <1>6 DEF Replies, Completes
  <1> QED BY <1>1, <1>2, <1>3, <1>4, <1>5, <1>6 DEF Moved

\* A move of the host.
LEMMA HostMoves ==
    ASSUME NEW h, Shaped(h), NEW h2, Shaped(h2), h.role = "HOST",
           NEW g, Shaped(g), g.role = "RIG",
           NEW Ih, NEW Ig, NEW Ph, NEW Pg, NEW Ah, NEW Ag, NEW nh, NEW ng \in Nat,
           World(h, g, Ih, Ig, Ph, Pg, Ah, Ag, nh, ng), Within(Ih, Ph), Within(Ig, Pg),
           NoMessage = 0,
           h.id = NoSession /\ h.out.resetId = NoSession =>
              /\ g.id # h.nextId
              /\ \A x \in Ih \cup Ig : x.id # h.nextId,
           NEW f, First(f, Ih, Ph), Moved(h, h2, f)
    PROVE  /\ World(h2, g, Ih, Ig, Ph, Pg, Ah, Ag, nh, ng) /\ Newer(h, h2, Ah, ng)
           /\ Finishes(h, h2, f) => h.submitted \in Ag
  <1>1. OpeningEnd(h2)
    BY OpensOn DEF World, First
  <1>2. Agreeing(h2, g, Ih, Ig)
    BY HostAgrees DEF World
  <1>3. Lane(h2, g, Ih, Ig, Ph, Pg, Ag, nh)
    BY HostSends
  <1>4. Lane(g, h2, Ig, Ih, Pg, Ph, Ah, ng) /\ Newer(h, h2, Ah, ng)
    BY HostReceives
  <1>5. Finishes(h, h2, f) => h.submitted \in Ag
    BY SenderFinishes DEF World
  <1> QED BY <1>1, <1>2, <1>3, <1>4, <1>5 DEF World

\* A move of the rig.
LEMMA RigMoves ==
    ASSUME NEW h, Shaped(h), h.role = "HOST",
           NEW g, Shaped(g), NEW g2, Shaped(g2), g.role = "RIG",
           NEW Ih, NEW Ig, NEW Ph, NEW Pg, NEW Ah, NEW Ag, NEW nh \in Nat, NEW ng,
           World(h, g, Ih, Ig, Ph, Pg, Ah, Ag, nh, ng), Within(Ih, Ph), Within(Ig, Pg),
           NoMessage = 0,
           NEW f, First(f, Ig, Pg), Moved(g, g2, f)
    PROVE  /\ World(h, g2, Ih, Ig, Ph, Pg, Ah, Ag, nh, ng) /\ Newer(g, g2, Ag, nh)
           /\ Finishes(g, g2, f) => g.submitted \in Ah
  <1>1. OpeningEnd(g2)
    BY OpensOn DEF World, First
  <1>2. Agreeing(h, g2, Ih, Ig)
    BY RigAgrees DEF World, Lane, First
  <1>3. Lane(g2, h, Ig, Ih, Pg, Ph, Ah, ng)
    BY RigSends
  <1>4. Lane(h, g2, Ih, Ig, Ph, Pg, Ag, nh) /\ Newer(g, g2, Ag, nh)
    BY RigReceives
  <1>5. Finishes(g, g2, f) => g.submitted \in Ah
    BY SenderFinishes DEF World
  <1> QED BY <1>1, <1>2, <1>3, <1>4, <1>5 DEF World

-----------------------------------------------------------------------------
(* The order of the bodies under way *)

\* The body an endpoint holds arrived before all that is on its way to it.
LEMMA HeldFirst ==
    ASSUME NEW b, NEW q
    PROVE  First(b, Coming(b, q), Order(b, q)) /\ Within(Coming(b, q), Order(b, q))
  BY DEF First, Within, Coming, Order

\* What is no frame is known to no rule about frames.
Inert(f) == f.type \notin FrameTypes

\* The next body is held already, or another that is no frame.
LEMMA HeldChanges ==
    ASSUME NEW T, NEW b, NEW q \in Seq(T), NEW b2,
           b2 = b \/ Inert(b2) \/ (q # <<>> /\ b2 = Head(q))
    PROVE  Shrinks(Coming(b, q), Order(b, q), Coming(b2, q), Order(b2, q))
  <1>1. CASE b2 = b
    BY <1>1 DEF Shrinks, Coming, Order
  <1>2. CASE Inert(b2)
    BY <1>2 DEF Shrinks, Coming, Order, Inert
  <1>3. CASE q # <<>> /\ b2 = Head(q)
    <2>1. Len(q) \in Nat /\ Len(q) >= 1 /\ b2 = q[1]
      BY <1>3
    <2>2. b2 \in Elements(q)
      BY <2>1 DEF Elements
    <2>3. \A x \in Coming(b2, q) : x = b2 \/ <<b2, x>> \in Order(b, q)
      <3>1. SUFFICES ASSUME NEW x \in Elements(q), x # b2
                     PROVE  <<b2, x>> \in Order(b, q)
        BY DEF Coming
      <3>2. PICK j \in 1 .. Len(q) : x = q[j]
        BY <3>1 DEF Elements
      <3>3. 1 < j /\ 1 \in 1 .. Len(q)
        BY <2>1, <3>1, <3>2
      <3>4. b2 \in Coming(b, q) /\ x \in Coming(b, q)
        BY <2>2, <3>1 DEF Coming
      <3> QED BY <2>1, <3>2, <3>3, <3>4 DEF Order
    <2>4. Coming(b2, q) \subseteq Coming(b, q)
      BY <2>2 DEF Coming
    <2>5. ASSUME NEW f, NEW g, <<f, g>> \in Order(b2, q)
          PROVE  f \in Coming(b2, q) /\ g \in Coming(b2, q) /\ (<<f, g>> \in Order(b, q) \/ f = g)
      <3>1. f \in Coming(b2, q) /\ g \in Coming(b2, q)
        BY <2>5 DEF Order
      <3>2. f = b2 \/ \E i, j \in 1 .. Len(q) : i < j /\ f = q[i] /\ g = q[j]
        BY <2>5 DEF Order
      <3>3. CASE f = b2
        BY <2>3, <3>1, <3>3
      <3>4. CASE \E i, j \in 1 .. Len(q) : i < j /\ f = q[i] /\ g = q[j]
        BY <2>4, <3>1, <3>4 DEF Order
      <3> QED BY <3>1, <3>2, <3>3, <3>4
    <2> QED BY <2>4, <2>5 DEF Shrinks
  <1> QED BY <1>1, <1>2, <1>3

\* The queue moved on, was lost, or its first body was damaged.
LEMMA QueueChanges ==
    ASSUME NEW T, NEW b, NEW q \in Seq(T), NEW q2,
           \/ q2 = q \/ q2 = <<>>
           \/ q # <<>> /\ q2 = Tail(q)
           \/ q # <<>> /\ \E x : Inert(x) /\ q2 = [q EXCEPT ![1] = x]
    PROVE  Shrinks(Coming(b, q), Order(b, q), Coming(b, q2), Order(b, q2))
  <1>1. CASE q2 = q
    BY <1>1 DEF Shrinks, Order
  <1>2. CASE q2 = <<>>
    <2>1. Coming(b, q2) = {b} /\ b \in Coming(b, q)
      BY <1>2 DEF Coming, Elements
    <2>2. \A f, g : <<f, g>> \in Order(b, q2) => f = b /\ g = b
      BY <2>1 DEF Order
    <2> QED BY <2>1, <2>2 DEF Shrinks
  <1>3. CASE q # <<>> /\ q2 = Tail(q)
    <2>1. /\ Len(q) \in Nat /\ Len(q2) = Len(q) - 1 /\ Len(q2) \in Nat
          /\ \A i \in 1 .. Len(q2) : i + 1 \in 1 .. Len(q) /\ q2[i] = q[i + 1]
      BY <1>3
    <2>2. Coming(b, q2) \subseteq Coming(b, q)
      BY <2>1 DEF Coming, Elements
    <2>3. ASSUME NEW f, NEW g, <<f, g>> \in Order(b, q2)
          PROVE  f \in Coming(b, q2) /\ g \in Coming(b, q2) /\ <<f, g>> \in Order(b, q)
      <3>1. f \in Coming(b, q2) /\ g \in Coming(b, q2)
        BY <2>3 DEF Order
      <3>2. f = b \/ \E i, j \in 1 .. Len(q2) : i < j /\ f = q2[i] /\ g = q2[j]
        BY <2>3 DEF Order
      <3>3. CASE \E i, j \in 1 .. Len(q2) : i < j /\ f = q2[i] /\ g = q2[j]
        <4>1. PICK i \in 1 .. Len(q2), j \in 1 .. Len(q2) : i < j /\ f = q2[i] /\ g = q2[j]
          BY <3>3
        <4>2. /\ i + 1 \in 1 .. Len(q) /\ j + 1 \in 1 .. Len(q) /\ i + 1 < j + 1
              /\ f = q[i + 1] /\ g = q[j + 1]
          BY <2>1, <4>1
        <4> QED BY <2>2, <3>1, <4>2 DEF Order
      <3>4. CASE f = b
        BY <2>2, <3>1, <3>4 DEF Order
      <3> QED BY <3>1, <3>2, <3>3, <3>4
    <2> QED BY <2>2, <2>3 DEF Shrinks
  <1>4. CASE q # <<>> /\ \E x : Inert(x) /\ q2 = [q EXCEPT ![1] = x]
    <2>1. PICK x : Inert(x) /\ q2 = [q EXCEPT ![1] = x]
      BY <1>4
    <2>2. /\ Len(q) \in Nat /\ Len(q2) = Len(q) /\ Len(q) >= 1
          /\ \A i \in 1 .. Len(q) : q2[i] = IF i = 1 THEN x ELSE q[i]
      BY <1>4, <2>1
    <2>3. \A f \in Coming(b, q2) : f \in Coming(b, q) \/ f = x
      BY <2>2 DEF Coming, Elements
    <2>4. ASSUME NEW f, NEW g, <<f, g>> \in Order(b, q2)
          PROVE  /\ f \in Coming(b, q2) /\ g \in Coming(b, q2)
                 /\ <<f, g>> \in Order(b, q) \/ f = x \/ g = x
      <3>1. f \in Coming(b, q2) /\ g \in Coming(b, q2)
        BY <2>4 DEF Order
      <3>2. f = b \/ \E i, j \in 1 .. Len(q2) : i < j /\ f = q2[i] /\ g = q2[j]
        BY <2>4 DEF Order
      <3>3. CASE f = b
        BY <2>3, <3>1, <3>3 DEF Order
      <3>4. CASE f # x /\ \E i, j \in 1 .. Len(q2) : i < j /\ f = q2[i] /\ g = q2[j]
        <4>1. PICK i \in 1 .. Len(q), j \in 1 .. Len(q) : i < j /\ f = q2[i] /\ g = q2[j]
          BY <2>2, <3>4
        <4>2. f = q[i] /\ g = q[j]
          BY <2>2, <3>4, <4>1
        <4>3. f \in Coming(b, q) /\ g \in Coming(b, q)
          BY <4>1, <4>2 DEF Coming, Elements
        <4> QED BY <3>1, <4>1, <4>2, <4>3 DEF Order
      <3> QED BY <3>1, <3>2, <3>3, <3>4
    <2> QED BY <2>1, <2>3, <2>4 DEF Shrinks, Inert
  <1> QED BY <1>1, <1>2, <1>3, <1>4

\* One body more is behind all that were under way.
Grows(I, P, f, I2, P2) ==
    /\ I2 = I \cup {f}
    /\ \A x, y : <<x, y>> \in P2 => <<x, y>> \in P \/ (x \in I /\ y = f)

\* A sequence one longer has one element more.
LEMMA ElementsGrow ==
    ASSUME NEW T, NEW q \in Seq(T), NEW f
    PROVE  Elements(Append(q, f)) = Elements(q) \cup {f}
  <1> DEFINE q2 == Append(q, f)
  <1>1. /\ Len(q) \in Nat /\ Len(q2) = Len(q) + 1
        /\ \A i \in 1 .. Len(q2) : q2[i] = IF i = Len(q) + 1 THEN f ELSE q[i]
    OBVIOUS
  <1> HIDE DEF q2
  <1>2. Elements(q2) \subseteq Elements(q) \cup {f}
    BY <1>1 DEF Elements
  <1>3. f \in Elements(q2)
    <2>1. Len(q2) \in 1 .. Len(q2) /\ q2[Len(q2)] = f
      BY <1>1
    <2> QED BY <2>1 DEF Elements
  <1>4. Elements(q) \subseteq Elements(q2)
    <2>1. \A i \in 1 .. Len(q) : i \in 1 .. Len(q2) /\ q2[i] = q[i]
      BY <1>1
    <2> QED BY <2>1 DEF Elements
  <1> QED BY <1>2, <1>3, <1>4 DEF q2

\* A body appended to a queue comes behind all that is under way.
LEMMA QueueGrows ==
    ASSUME NEW T, NEW b, NEW q \in Seq(T), NEW f \in T
    PROVE  Grows(Coming(b, q), Order(b, q), f, Coming(b, Append(q, f)), Order(b, Append(q, f)))
  <1> DEFINE q2 == Append(q, f)
  <1>1. /\ Len(q) \in Nat /\ Len(q2) = Len(q) + 1
        /\ \A i \in 1 .. Len(q2) : q2[i] = IF i = Len(q) + 1 THEN f ELSE q[i]
    OBVIOUS
  <1> HIDE DEF q2
  <1>2. Elements(q2) = Elements(q) \cup {f}
    BY ElementsGrow DEF q2
  <1>3. Coming(b, q2) = Coming(b, q) \cup {f}
    BY <1>2 DEF Coming
  <1>4. ASSUME NEW x, NEW y, <<x, y>> \in Order(b, q2)
        PROVE  <<x, y>> \in Order(b, q) \/ (x \in Coming(b, q) /\ y = f)
    <2>1. x \in Coming(b, q2) /\ y \in Coming(b, q2)
      BY <1>4 DEF Order
    <2>2. x = b \/ \E i, j \in 1 .. Len(q2) : i < j /\ x = q2[i] /\ y = q2[j]
      BY <1>4 DEF Order
    <2>3. CASE x = b
      BY <1>3, <2>1, <2>3 DEF Order, Coming
    <2>4. CASE \E i, j \in 1 .. Len(q2) : i < j /\ x = q2[i] /\ y = q2[j]
      <3>1. PICK i \in 1 .. Len(q2), j \in 1 .. Len(q2) : i < j /\ x = q2[i] /\ y = q2[j]
        BY <2>4
      <3>2. i \in 1 .. Len(q) /\ x = q[i]
        BY <1>1, <3>1
      <3>3. x \in Coming(b, q)
        BY <3>2 DEF Coming, Elements
      <3>4. CASE j = Len(q) + 1
        BY <1>1, <3>1, <3>3, <3>4
      <3>5. CASE j # Len(q) + 1
        <4>1. j \in 1 .. Len(q) /\ y = q[j]
          BY <1>1, <3>1, <3>5
        <4>2. y \in Coming(b, q)
          BY <4>1 DEF Coming, Elements
        <4> QED BY <3>1, <3>2, <3>3, <4>1, <4>2 DEF Order
      <3> QED BY <3>4, <3>5
    <2> QED BY <2>2, <2>3, <2>4
  <1> QED BY <1>3, <1>4 DEF Grows, q2

-----------------------------------------------------------------------------
(* The world, seen from either end *)

\* An endpoint e of the role r, and its peer.
Joint(r, e, p, Ie, Ip, Pe, Pp, Ae, Ap, ne, np) ==
    IF r = "HOST" THEN World(e, p, Ie, Ip, Pe, Pp, Ae, Ap, ne, np)
                  ELSE World(p, e, Ip, Ie, Pp, Pe, Ap, Ae, np, ne)

\* The identifier of the host's next session is nobody's.
Unused(r, e, p, Ie, Ip) ==
    r = "HOST" /\ e.id = NoSession /\ e.out.resetId = NoSession =>
        /\ p.id # e.nextId
        /\ \A x \in Ie \cup Ip : x.id # e.nextId

\* No move of either side disturbs what the two ends agree on: what it takes is new, and what
\* it finishes was accepted.
LEMMA JointMoves ==
    ASSUME NEW r \in Roles, NEW e, Shaped(e), NEW e2, Shaped(e2), e.role = r,
           NEW p, Shaped(p), p.role = Peer(r),
           NEW Ie, NEW Ip, NEW Pe, NEW Pp, NEW Ae, NEW Ap, NEW ne \in Nat, NEW np \in Nat,
           Joint(r, e, p, Ie, Ip, Pe, Pp, Ae, Ap, ne, np), Within(Ie, Pe), Within(Ip, Pp),
           NoMessage = 0, Unused(r, e, p, Ie, Ip),
           NEW f, First(f, Ie, Pe), Moved(e, e2, f)
    PROVE  /\ Joint(r, e2, p, Ie, Ip, Pe, Pp, Ae, Ap, ne, np) /\ Newer(e, e2, Ae, np)
           /\ Finishes(e, e2, f) => e.submitted \in Ap
  <1>1. CASE r = "HOST"
    <2>1. World(e, p, Ie, Ip, Pe, Pp, Ae, Ap, ne, np) /\ p.role = "RIG" /\ e.role = "HOST"
      BY <1>1 DEF Joint, Peer
    <2>2. e.id = NoSession /\ e.out.resetId = NoSession =>
              p.id # e.nextId /\ \A x \in Ie \cup Ip : x.id # e.nextId
      BY <1>1 DEF Unused
    <2>3. /\ World(e2, p, Ie, Ip, Pe, Pp, Ae, Ap, ne, np) /\ Newer(e, e2, Ae, np)
          /\ Finishes(e, e2, f) => e.submitted \in Ap
      BY <2>1, <2>2, HostMoves
    <2> QED BY <1>1, <2>3 DEF Joint
  <1>2. CASE r # "HOST"
    <2>1. World(p, e, Ip, Ie, Pp, Pe, Ap, Ae, np, ne) /\ p.role = "HOST" /\ e.role = "RIG"
      BY <1>2 DEF Joint, Peer, Roles
    <2>2. /\ World(p, e2, Ip, Ie, Pp, Pe, Ap, Ae, np, ne) /\ Newer(e, e2, Ae, np)
          /\ Finishes(e, e2, f) => e.submitted \in Ap
      BY <2>1, RigMoves
    <2> QED BY <1>2, <2>2 DEF Joint
  <1> QED BY <1>1, <1>2

\* Nor does the loss of bodies.
LEMMA JointShrinks ==
    ASSUME NEW r, NEW e, NEW p, NEW Ie, NEW Ip, NEW Pe, NEW Pp, NEW Ae, NEW Ap,
           NEW ne \in Nat, NEW np \in Nat, NEW Ie2, NEW Ip2, NEW Pe2, NEW Pp2,
           Joint(r, e, p, Ie, Ip, Pe, Pp, Ae, Ap, ne, np),
           Shrinks(Ie, Pe, Ie2, Pe2), Shrinks(Ip, Pp, Ip2, Pp2)
    PROVE  Joint(r, e, p, Ie2, Ip2, Pe2, Pp2, Ae, Ap, ne, np)
  BY WorldShrinks DEF Joint

\* The parts the world is about.
Aspect(e) == <<e.id, e.phase, Outgoing(e), Incoming(e)>>

\* A direction does not depend on the other parts.
LEMMA LaneAlike ==
    ASSUME NEW a, NEW a2, Aspect(a2) = Aspect(a), NEW b, NEW b2, Aspect(b2) = Aspect(b),
           NEW Ia, NEW Ib, NEW Pa, NEW Pb, NEW A, NEW n,
           Lane(a, b, Ia, Ib, Pa, Pb, A, n)
    PROVE  Lane(a2, b2, Ia, Ib, Pa, Pb, A, n)
  <1>1. a2.id = a.id /\ a2.phase = a.phase /\ Outgoing(a2) = Outgoing(a)
    BY DEF Aspect
  <1>2. b2.id = b.id /\ b2.phase = b.phase /\ Incoming(b2) = Incoming(b)
    BY DEF Aspect
  <1>3. Lane(a2, b, Ia, Ib, Pa, Pb, A, n)
    BY <1>1, SenderStays
  <1> QED BY <1>2, <1>3, ReceiverStays

\* Nor does the world.
LEMMA JointAlike ==
    ASSUME NEW r, NEW e, NEW e2, Aspect(e2) = Aspect(e), NEW p,
           NEW Ie, NEW Ip, NEW Pe, NEW Pp, NEW Ae, NEW Ap, NEW ne, NEW np,
           Joint(r, e, p, Ie, Ip, Pe, Pp, Ae, Ap, ne, np)
    PROVE  Joint(r, e2, p, Ie, Ip, Pe, Pp, Ae, Ap, ne, np)
  <1>1. /\ e2.id = e.id /\ e2.phase = e.phase /\ e2.lastRx = e.lastRx
        /\ e2.out.nextTx = e.out.nextTx /\ e2.out.rel.frame = e.out.rel.frame
    BY DEF Aspect, Outgoing, Incoming
  <1>2. OpeningEnd(e) <=> OpeningEnd(e2)
    BY <1>1 DEF OpeningEnd
  <1>3. Agreeing(e, p, Ie, Ip) => Agreeing(e2, p, Ie, Ip)
    BY <1>1 DEF Agreeing
  <1>4. Agreeing(p, e, Ip, Ie) => Agreeing(p, e2, Ip, Ie)
    BY <1>1 DEF Agreeing, Decided
  <1>5. /\ Lane(e, p, Ie, Ip, Pe, Pp, Ap, ne) => Lane(e2, p, Ie, Ip, Pe, Pp, Ap, ne)
        /\ Lane(p, e, Ip, Ie, Pp, Pe, Ae, np) => Lane(p, e2, Ip, Ie, Pp, Pe, Ae, np)
    BY LaneAlike
  <1> QED BY <1>2, <1>3, <1>4, <1>5 DEF Joint, World

\* A session that is gone, RESET or not, binds nobody.
LEMMA JointClears ==
    ASSUME NEW r, NEW e, NEW e2, Clears(e, e2), NEW p,
           NEW Ie, NEW Ip, NEW Pe, NEW Pp, NEW Ae, NEW Ap, NEW ne, NEW np,
           Joint(r, e, p, Ie, Ip, Pe, Pp, Ae, Ap, ne, np)
    PROVE  Joint(r, e2, p, Ie, Ip, Pe, Pp, Ae, Ap, ne, np)
  <1>1. /\ e2.id = NoSession /\ e2.phase = "INACTIVE" /\ e2.out.rel.frame = NoFrame
        /\ e2.out.nextTx = InitialSequence /\ e2.lastRx = NoBaseline /\ e2.received = NoMessage
    BY DEF Clears, Outgoing, Incoming
  <1>2. e2.out.rel.frame.type = "INVALID" /\ e2.lastRx.type = "INVALID"
    BY <1>1 DEF NoFrame, NoBaseline
  <1>3. OpeningEnd(e2)
    BY <1>1, <1>2 DEF OpeningEnd, Opening, RigPhases
  <1>4. Agreeing(e, p, Ie, Ip) => Agreeing(e2, p, Ie, Ip)
    BY <1>1 DEF Agreeing
  <1>5. Agreeing(p, e, Ip, Ie) => Agreeing(p, e2, Ip, Ie)
    BY <1>1 DEF Agreeing, Decided
  <1>6. Lane(e, p, Ie, Ip, Pe, Pp, Ap, ne) => Lane(e2, p, Ie, Ip, Pe, Pp, Ap, ne)
    <2>1. \A g \in Ip : InOrder(g, e2.out.rel.frame)
      BY <1>2 DEF InOrder
    <2> QED BY <1>1, <1>2, <2>1, SenderOpens
  <1>7. Lane(p, e, Ip, Ie, Pp, Pe, Ae, np) => Lane(p, e2, Ip, Ie, Pp, Pe, Ae, np)
    BY <1>1, <1>2, ReceiverClears
  <1> QED BY <1>3, <1>4, <1>5, <1>6, <1>7 DEF Joint, World

\* A message is recorded as accepted, or a recorded one is read.
LEMMA JointRecords ==
    ASSUME NEW r, NEW e, NEW e2, NEW p, e2.id = e.id, e2.phase = e.phase, e2.lastRx = e.lastRx,
           Outgoing(e2) = Outgoing(e),
           NEW Ie, NEW Ip, NEW Pe, NEW Pp, NEW Ae, NEW Ap, NEW ne, NEW np,
           NEW Ae2, Ae \subseteq Ae2, Got(e2, Ae2) = Got(e, Ae),
           Joint(r, e, p, Ie, Ip, Pe, Pp, Ae, Ap, ne, np)
    PROVE  Joint(r, e2, p, Ie, Ip, Pe, Pp, Ae2, Ap, ne, np)
  <1>1. /\ e2.out.nextTx = e.out.nextTx /\ e2.out.rel.frame = e.out.rel.frame
    BY DEF Outgoing
  <1>2. OpeningEnd(e) <=> OpeningEnd(e2)
    BY <1>1 DEF OpeningEnd
  <1>3. Agreeing(e, p, Ie, Ip) => Agreeing(e2, p, Ie, Ip)
    BY <1>1 DEF Agreeing
  <1>4. Agreeing(p, e, Ip, Ie) => Agreeing(p, e2, Ip, Ie)
    BY <1>1 DEF Agreeing, Decided
  <1>5. Lane(e, p, Ie, Ip, Pe, Pp, Ap, ne) => Lane(e2, p, Ie, Ip, Pe, Pp, Ap, ne)
    BY SenderStays
  <1>6. ASSUME Lane(p, e, Ip, Ie, Pp, Pe, Ae, np)
        PROVE  Lane(p, e2, Ip, Ie, Pp, Pe, Ae2, np)
    <2>1. \A x : Based(e2, x) <=> Based(e, x)
      BY DEF Based
    <2>2. Sending(p, e2, Ie, Ae2, np)
      BY <1>6, <2>1 DEF Lane, Sending
    <2>3. p.phase = "ESTABLISHED" => Looping(p, e2, Ip, Ie, Ae2)
      BY <1>6, <2>1 DEF Lane, Looping
    <2> QED BY <1>6, <2>2, <2>3 DEF Lane
  <1> QED BY <1>2, <1>3, <1>4, <1>5, <1>6 DEF Joint, World

-----------------------------------------------------------------------------
(* A frame is put on the wire *)

\* What an endpoint commits: its retained frame, the ACK of what it took last, or a RESET.
Emits(e, f) ==
    \/ f = e.out.rel.frame /\ f.type \in ReliableTypes
    \/ f.type = "ACK" /\ e.phase = "ESTABLISHED" /\ f.id = e.id /\ f.ack = e.lastRx.seq
    \/ f.type = "RESET"

\* What a sound endpoint has pinned is one of these.
LEMMA Emitting ==
    ASSUME NEW e, Sound(e), e.out.sel # "NONE"
    PROVE  Emits(e, Output_Bytes(e.out))
  <1> DEFINE f == Output_Bytes(e.out)
  <1>1. /\ e.out \in OutputRecord({0}) /\ Output_Coherent(e.out, Recovering(e))
    BY DEF Sound, Endpoint, EndpointRecord
  <1>2. CASE e.out.sel = "CONTROL"
    <2>1. f = e.out.ctl.item
      BY <1>2 DEF Output_Bytes, Output_Choice
    <2>2. f \in ControlFrame
      BY <1>1, <1>2, <2>1
      DEF Output_Coherent, Control_Coherent, ControlPeeked, OutputRecord, ControlRecord
    <2>3. f.type = "ACK" => /\ f.id = e.id /\ f.ack = e.lastRx.seq
                            /\ e.lastRx.type \in {"CONFIRM", "APPLICATION"}
      BY <2>1 DEF Sound, ControlOK
    <2>4. e.lastRx.type \in {"CONFIRM", "APPLICATION"} => e.phase = "ESTABLISHED"
      BY DEF Sound, WorkOK, BaselineTypes
    <2>5. f.type \in {"ACK", "RESET"}
      BY <2>2 DEF ControlFrame, ControlTypes
    <2> QED BY <2>3, <2>4, <2>5 DEF Emits
  <1>3. CASE e.out.sel = "RELIABLE"
    <2>1. f = e.out.rel.frame
      BY <1>3 DEF Output_Bytes, Output_Choice
    <2>2. e.out.rel.frame.type \in ReliableTypes
      BY <1>1, <1>3 DEF Output_Coherent, Reliability_Coherent, ReliablePeeked
    <2> QED BY <2>1, <2>2 DEF Emits
  <1> QED BY <1>1, <1>2, <1>3 DEF OutputRecord, Selections

\* What the sender puts there comes behind all it has sent.
LEMMA SenderEmits ==
    ASSUME NEW a, Shaped(a), NEW b, NEW Ia, NEW Ib, NEW Pa, NEW Pb, NEW A, NEW n \in Nat,
           NEW f, NEW Ib2, NEW Pb2,
           Lane(a, b, Ia, Ib, Pa, Pb, A, n), Emits(a, f), Grows(Ib, Pb, f, Ib2, Pb2)
    PROVE  Lane(a, b, Ia, Ib2, Pa, Pb2, A, n)
  <1> DEFINE frame == a.out.rel.frame
  <1>1. /\ Ib2 = Ib \cup {f}
        /\ \A x, y : <<x, y>> \in Pb2 => <<x, y>> \in Pb \/ (x \in Ib /\ y = f)
        /\ \A x, y : <<x, y>> \in Pb => InOrder(x, y)
        /\ Sending(a, b, Ib, A, n)
    BY DEF Grows, Lane
  <1>2. CASE f = frame /\ f.type \in ReliableTypes
    <2>1. f.seq = a.out.nextTx /\ f.id = a.id
      BY <1>2 DEF Shaped
    <2>2. InOrder(f, f)
      <3>1. f.type = "APPLICATION" => f.msg \in 1 .. n
        BY <1>1, <1>2 DEF Sending
      <3> QED BY <3>1 DEF InOrder, Evidence
    <2>3. \A x \in Ib : InOrder(x, f)
      BY <1>1, <1>2 DEF Sending
    <2>4. Sending(a, b, Ib2, A, n)
      <3>1. Ib2 \cup {frame} = Ib \cup {frame}
        BY <1>1, <1>2
      <3>2. \A x \in Ib2 : InOrder(x, frame)
        BY <1>1, <1>2, <2>2, <2>3
      <3> HIDE DEF frame
      <3> QED BY <1>1, <3>1, <3>2 DEF Sending, frame
    <2>5. \A x, y : <<x, y>> \in Pb2 => InOrder(x, y)
      BY <1>1, <2>3
    <2>6. ASSUME a.phase = "ESTABLISHED"
          PROVE  Looping(a, b, Ia, Ib2, A) /\ LoopOrder(a, Pa, Pb2)
      <3>1. Looping(a, b, Ia, Ib, A) /\ LoopOrder(a, Pa, Pb)
        BY <2>6 DEF Lane
      <3>2. Onward(a, Ib) => Onward(a, Ib2)
        BY <1>1, <2>1 DEF Onward
      <3>3. Looping(a, b, Ia, Ib2, A)
        BY <1>1, <1>2, <3>1, <3>2 DEF Looping
      <3>4. LoopOrder(a, Pa, Pb2)
        BY <1>1, <2>1, <3>1 DEF LoopOrder
      <3> QED BY <3>3, <3>4
    <2> QED BY <2>4, <2>5, <2>6 DEF Lane
  <1>3. CASE f.type \in {"ACK", "RESET"}
    <2>1. \A x : InOrder(x, f)
      BY <1>3 DEF InOrder, Evidence
    <2>2. ~ Forward(f, a.id) /\ f.type # "APPLICATION"
      BY <1>3 DEF Forward, ReliableTypes
    <2>3. InOrder(f, frame)
      <3>1. f.type = "ACK" => a.phase = "ESTABLISHED"
        BY <1>3 DEF Emits, Shaped, ReliableTypes
      <3>2. a.phase = "ESTABLISHED" => frame.type # "RESPONSE"
        BY DEF Shaped
      <3> QED BY <1>3, <3>1, <3>2 DEF InOrder, Evidence
    <2>4. Sending(a, b, Ib2, A, n)
      BY <1>1, <2>2, <2>3 DEF Sending
    <2>5. \A x, y : <<x, y>> \in Pb2 => InOrder(x, y)
      BY <1>1, <2>1
    <2>6. ASSUME a.phase = "ESTABLISHED"
          PROVE  Looping(a, b, Ia, Ib2, A) /\ LoopOrder(a, Pa, Pb2)
      <3>1. Looping(a, b, Ia, Ib, A) /\ LoopOrder(a, Pa, Pb)
        BY <2>6 DEF Lane
      <3>2. Onward(a, Ib) => Onward(a, Ib2)
        BY <1>1, <2>2 DEF Onward
      <3>3. Looping(a, b, Ia, Ib2, A)
        BY <1>1, <2>2, <3>1, <3>2 DEF Looping
      <3>4. LoopOrder(a, Pa, Pb2)
        BY <1>1, <2>2, <3>1 DEF LoopOrder
      <3> QED BY <3>3, <3>4
    <2> QED BY <2>4, <2>5, <2>6 DEF Lane
  <1> QED BY <1>2, <1>3 DEF Emits

\* What the receiver puts there says how far it is: it has recorded all it has got.
LEMMA ReceiverEmits ==
    ASSUME NEW a, Shaped(a), NEW b, Shaped(b), NEW Ia, NEW Ib, NEW Pa, NEW Pb, NEW A, NEW n,
           NEW f, NEW Ia2, NEW Pa2,
           Lane(a, b, Ia, Ib, Pa, Pb, A, n), Emits(b, f), Grows(Ia, Pa, f, Ia2, Pa2),
           b.received \in A \cup {NoMessage},
           \* what the handshake says of a RESPONSE and of a CONFIRM
           a.phase = "ESTABLISHED" /\ Backward(f, a.id) =>
              f.type # "RESPONSE" /\ f.ack = b.lastRx.seq
    PROVE  Lane(a, b, Ia2, Ib, Pa2, Pb, A, n)
  <1>1. /\ Ia2 = Ia \cup {f}
        /\ \A x, y : <<x, y>> \in Pa2 => <<x, y>> \in Pa \/ (x \in Ia /\ y = f)
    BY DEF Grows
  <1>2. ASSUME a.phase = "ESTABLISHED"
        PROVE  Looping(a, b, Ia2, Ib, A) /\ LoopOrder(a, Pa2, Pb)
    <2>1. Looping(a, b, Ia, Ib, A) /\ LoopOrder(a, Pa, Pb)
      BY <1>2 DEF Lane
    <2>2. CASE ~ Backward(f, a.id)
      <3>1. Looping(a, b, Ia2, Ib, A)
        BY <1>1, <2>1, <2>2 DEF Looping
      <3>2. LoopOrder(a, Pa2, Pb)
        BY <1>1, <2>1, <2>2 DEF LoopOrder
      <3> QED BY <3>1, <3>2
    <2>3. CASE Backward(f, a.id)
      <3>1. f.type \in {"CONFIRM", "ACK"} /\ f.id = a.id /\ f.ack = b.lastRx.seq
        BY <1>2, <2>3 DEF Backward
      <3>2. b.id = a.id /\ b.lastRx.type # "INVALID"
        <4>1. CASE f = b.out.rel.frame /\ f.type = "CONFIRM"
          BY <3>1, <4>1 DEF Shaped, ReliableTypes
        <4>2. CASE b.phase = "ESTABLISHED" /\ f.id = b.id
          BY <3>1, <4>2 DEF Shaped
        <4> QED BY <3>1, <4>1, <4>2 DEF Emits, ReliableTypes
      <3>3. Based(b, a.id)
        BY <3>2 DEF Based
      <3>4. Got(b, A) = A
        BY DEF Got
      <3> DEFINE s == a.out.nextTx
                 sent == a.out.rel.frame.type = "APPLICATION" /\ Onward(a, Ib)
      <3>5. \/ NextSequence(b.lastRx.seq) = s
            \/ sent /\ b.lastRx.seq = s /\ a.submitted \in A
        BY <2>1, <3>3, <3>4 DEF Looping
      <3>6. Looping(a, b, Ia2, Ib, A)
        <4>1. \A g \in Ia2 : Backward(g, a.id) =>
                \/ NextSequence(g.ack) = s
                \/ /\ sent /\ g.ack = s /\ a.submitted \in A
                   /\ Based(b, a.id) => b.lastRx.seq = s
          <5> SUFFICES ASSUME NEW g \in Ia2, Backward(g, a.id)
                       PROVE  \/ NextSequence(g.ack) = s
                              \/ /\ sent /\ g.ack = s /\ a.submitted \in A
                                 /\ Based(b, a.id) => b.lastRx.seq = s
            OBVIOUS
          <5>1. CASE g = f
            BY <3>1, <3>5, <5>1
          <5>2. CASE g \in Ia
            BY <2>1, <5>2 DEF Looping
          <5> QED BY <1>1, <5>1, <5>2
        <4> QED BY <2>1, <4>1 DEF Looping
      <3>7. ASSUME NEW x \in Ia, Backward(x, a.id), x.ack = s
            PROVE  f.ack = s
        <4>1. NextSequence(s) # s
          BY Succeeding DEF Shaped
        <4>2. b.lastRx.seq = s
          BY <2>1, <3>3, <3>7, <4>1 DEF Looping
        <4> QED BY <3>1, <4>2
      <3>8. LoopOrder(a, Pa2, Pb)
        BY <1>1, <2>1, <3>7 DEF LoopOrder
      <3> QED BY <3>6, <3>8
    <2> QED BY <2>2, <2>3
  <1> QED BY <1>2 DEF Lane

\* The world after the host committed a frame.
LEMMA HostEmits ==
    ASSUME NEW h, Shaped(h), h.role = "HOST", NEW g, Shaped(g), g.role = "RIG",
           NEW Ih, NEW Ig, NEW Ph, NEW Pg, NEW Ah, NEW Ag, NEW nh \in Nat, NEW ng,
           NEW f, NEW Ig2, NEW Pg2,
           World(h, g, Ih, Ig, Ph, Pg, Ah, Ag, nh, ng), Emits(h, f), Grows(Ig, Pg, f, Ig2, Pg2),
           h.received \in Ah \cup {NoMessage}
    PROVE  World(h, g, Ih, Ig2, Ph, Pg2, Ah, Ag, nh, ng)
  <1>1. Ig2 = Ig \cup {f}
    BY DEF Grows
  <1>2. /\ OpeningEnd(h) /\ OpeningEnd(g) /\ Agreeing(h, g, Ih, Ig)
        /\ Lane(h, g, Ih, Ig, Ph, Pg, Ag, nh) /\ Lane(g, h, Ig, Ih, Pg, Ph, Ah, ng)
        /\ \A x \in Ig : Opening(x) /\ x.type # "RESPONSE"
    BY DEF World
  <1>3. /\ f.type \in {"ACK", "APPLICATION"} => h.phase = "ESTABLISHED" /\ f.id = h.id
        /\ f.type = "INITIATE" => h.phase = "WAITING_FOR_RESPONSE" /\ f.id = h.id
        /\ f.type = "CONFIRM" => /\ h.phase = "WAITING_FOR_CONFIRM_ACK" /\ f.id = h.id
                                 /\ f.ack = InitialSequence
        /\ f.type # "RESPONSE" /\ Opening(f)
    <2>1. CASE f = h.out.rel.frame /\ f.type \in ReliableTypes
      <3>1. Opening(f)
        BY <1>2, <2>1 DEF OpeningEnd
      <3>2. f.type # "RESPONSE"
        <4>1. ~ h.phase \in RigPhases
          BY DEF Shaped
        <4> QED BY <2>1, <4>1 DEF Shaped, RigPhases
      <3>3. f.id = h.id
        BY <2>1 DEF Shaped
      <3>4. /\ f.type = "APPLICATION" => h.phase = "ESTABLISHED"
            /\ f.type = "INITIATE" => h.phase = "WAITING_FOR_RESPONSE"
            /\ f.type = "CONFIRM" => h.phase = "WAITING_FOR_CONFIRM_ACK"
            /\ f.type # "ACK"
        BY <2>1 DEF Shaped, ReliableTypes
      <3> QED BY <3>1, <3>2, <3>3, <3>4 DEF Opening
    <2>2. CASE f.type = "ACK" /\ h.phase = "ESTABLISHED" /\ f.id = h.id /\ f.ack = h.lastRx.seq
      BY <2>2 DEF Opening
    <2>3. CASE f.type = "RESET"
      BY <2>3 DEF Opening
    <2> QED BY <2>1, <2>2, <2>3 DEF Emits
  <1>4. ASSUME NEW x, Decided(x, g, Ig), f.type = "INITIATE" => f.id # x
        PROVE  Decided(x, g, Ig2)
    BY <1>1, <1>4 DEF Decided
  <1>5. f.type = "INITIATE" =>
          /\ \A x \in Ih \cup Ig : x.type \in Evidence => x.id # f.id
          /\ g.phase = "ESTABLISHED" => g.id # f.id
    BY <1>2, <1>3 DEF Agreeing, Evidence
  <1>6. Agreeing(h, g, Ih, Ig2)
    <2>1. ASSUME NEW x \in Ih \cup Ig2, x.type \in Evidence
          PROVE  Decided(x.id, g, Ig2)
      <3>1. CASE x \in Ih \cup Ig
        <4>1. Decided(x.id, g, Ig)
          BY <1>2, <2>1, <3>1 DEF Agreeing
        <4> QED BY <1>4, <1>5, <2>1, <3>1, <4>1
      <3>2. CASE x = f
        <4>1. h.phase = "ESTABLISHED" /\ f.id = h.id /\ f.type # "INITIATE"
          BY <1>3, <2>1, <3>2 DEF Evidence
        <4>2. Decided(f.id, g, Ig)
          BY <1>2, <4>1 DEF Agreeing
        <4> QED BY <1>4, <3>2, <4>1, <4>2
      <3> QED BY <1>1, <2>1, <3>1, <3>2
    <2>2. h.phase = "ESTABLISHED" => Decided(h.id, g, Ig2)
      <3>1. h.phase = "ESTABLISHED" => Decided(h.id, g, Ig) /\ f.type # "INITIATE"
        BY <1>2, <1>3 DEF Agreeing
      <3> QED BY <1>4, <3>1
    <2>3. g.phase = "ESTABLISHED" => Decided(g.id, g, Ig2)
      <3>1. g.phase = "ESTABLISHED" => Decided(g.id, g, Ig)
        BY <1>2 DEF Agreeing
      <3> QED BY <1>4, <1>5, <3>1
    <2>4. h.phase \in {"INITIATE_PENDING", "WAITING_FOR_RESPONSE", "CONFIRM_PENDING"} =>
              f.type \notin Evidence \cup {"CONFIRM"}
      BY <1>3 DEF Evidence
    <2>5. h.phase = "WAITING_FOR_CONFIRM_ACK" => f.type \notin Evidence
      BY <1>3 DEF Evidence
    <2> QED BY <1>1, <1>2, <2>1, <2>2, <2>3, <2>4, <2>5 DEF Agreeing
  <1>7. Lane(h, g, Ih, Ig2, Ph, Pg2, Ag, nh)
    BY <1>2, SenderEmits
  <1>8. Lane(g, h, Ig2, Ih, Pg2, Ph, Ah, ng)
    <2>1. Backward(f, g.id) => f.type # "RESPONSE" /\ f.ack = h.lastRx.seq
      <3>1. ASSUME f.type = "CONFIRM"
            PROVE  f.ack = h.lastRx.seq
        <4>1. h.lastRx.type = "RESPONSE"
          BY <1>3, <3>1 DEF Shaped
        <4> QED BY <1>2, <1>3, <3>1, <4>1 DEF OpeningEnd
      <3>2. ASSUME f.type = "ACK"
            PROVE  f.ack = h.lastRx.seq
        <4>1. f # h.out.rel.frame \/ f.type \notin ReliableTypes
          BY <3>2 DEF ReliableTypes
        <4> QED BY <3>2, <4>1 DEF Emits
      <3> QED BY <1>3, <3>1, <3>2 DEF Backward
    <2> QED BY <1>2, <2>1, ReceiverEmits
  <1> QED BY <1>1, <1>2, <1>3, <1>6, <1>7, <1>8 DEF World

\* The world after the rig committed a frame.
LEMMA RigEmits ==
    ASSUME NEW h, Shaped(h), h.role = "HOST", NEW g, Shaped(g), g.role = "RIG",
           NEW Ih, NEW Ig, NEW Ph, NEW Pg, NEW Ah, NEW Ag, NEW nh, NEW ng \in Nat,
           NEW f, NEW Ih2, NEW Ph2,
           World(h, g, Ih, Ig, Ph, Pg, Ah, Ag, nh, ng), Emits(g, f), Grows(Ih, Ph, f, Ih2, Ph2),
           g.received \in Ag \cup {NoMessage}
    PROVE  World(h, g, Ih2, Ig, Ph2, Pg, Ah, Ag, nh, ng)
  <1>1. Ih2 = Ih \cup {f}
    BY DEF Grows
  <1>2. /\ OpeningEnd(h) /\ OpeningEnd(g) /\ Agreeing(h, g, Ih, Ig)
        /\ Lane(h, g, Ih, Ig, Ph, Pg, Ag, nh) /\ Lane(g, h, Ig, Ih, Pg, Ph, Ah, ng)
        /\ \A x \in Ih : Opening(x) /\ x.type \notin {"INITIATE", "CONFIRM"}
    BY DEF World
  <1>3. /\ f.type \in {"ACK", "APPLICATION"} => g.phase = "ESTABLISHED" /\ f.id = g.id
        /\ f.type = "ACK" => f.ack = g.lastRx.seq
        /\ f.type = "RESPONSE" => g.phase = "WAITING_FOR_CONFIRM" /\ f.id = g.id
        /\ f.type \notin {"INITIATE", "CONFIRM"} /\ Opening(f)
    <2>1. CASE f = g.out.rel.frame /\ f.type \in ReliableTypes
      <3>1. Opening(f)
        BY <1>2, <2>1 DEF OpeningEnd
      <3>2. f.type \notin {"INITIATE", "CONFIRM"}
        <4>1. ~ g.phase \in HostPhases
          BY DEF Shaped
        <4> QED BY <2>1, <4>1 DEF Shaped, HostPhases
      <3>3. f.id = g.id
        BY <2>1 DEF Shaped
      <3>4. /\ f.type = "APPLICATION" => g.phase = "ESTABLISHED"
            /\ f.type = "RESPONSE" => g.phase = "WAITING_FOR_CONFIRM"
            /\ f.type # "ACK"
        BY <2>1 DEF Shaped, ReliableTypes
      <3> QED BY <3>1, <3>2, <3>3, <3>4
    <2>2. CASE f.type = "ACK" /\ g.phase = "ESTABLISHED" /\ f.id = g.id /\ f.ack = g.lastRx.seq
      BY <2>2 DEF Opening
    <2>3. CASE f.type = "RESET"
      BY <2>3 DEF Opening
    <2> QED BY <2>1, <2>2, <2>3 DEF Emits
  <1>4. Agreeing(h, g, Ih2, Ig)
    <2>1. ASSUME NEW x \in Ih2 \cup Ig, x.type \in Evidence
          PROVE  Decided(x.id, g, Ig)
      <3>1. CASE x \in Ih \cup Ig
        BY <1>2, <2>1, <3>1 DEF Agreeing
      <3>2. CASE x = f
        <4>1. g.phase = "ESTABLISHED" /\ f.id = g.id
          BY <1>3, <2>1, <3>2 DEF Evidence
        <4> QED BY <1>2, <3>2, <4>1 DEF Agreeing
      <3> QED BY <1>1, <2>1, <3>1, <3>2
    <2>2. h.phase \in {"INITIATE_PENDING", "WAITING_FOR_RESPONSE", "CONFIRM_PENDING"} =>
              (f.type \in Evidence => f.id # h.id)
      BY <1>2, <1>3 DEF Agreeing, Evidence
    <2>3. h.phase = "WAITING_FOR_CONFIRM_ACK" =>
              (f.type = "ACK" /\ f.id = h.id => f.ack = Second)
      BY <1>2, <1>3 DEF Agreeing
    <2> QED BY <1>1, <1>2, <2>1, <2>2, <2>3 DEF Agreeing
  <1>5. Lane(g, h, Ig, Ih2, Pg, Ph2, Ah, ng)
    BY <1>2, SenderEmits
  <1>6. Lane(h, g, Ih2, Ig, Ph2, Pg, Ag, nh)
    <2>1. ASSUME h.phase = "ESTABLISHED", Backward(f, h.id)
          PROVE  f.type # "RESPONSE" /\ f.ack = g.lastRx.seq
      <3>1. Decided(h.id, g, Ig)
        BY <1>2, <2>1 DEF Agreeing
      <3>2. f.type # "RESPONSE"
        BY <1>3, <2>1, <3>1 DEF Decided, Backward
      <3> QED BY <1>3, <2>1, <3>2 DEF Backward
    <2> QED BY <1>2, <2>1, ReceiverEmits
  <1> QED BY <1>1, <1>2, <1>3, <1>4, <1>5, <1>6 DEF World

\* From either side.
LEMMA JointEmits ==
    ASSUME NEW r \in Roles, NEW e, Shaped(e), e.role = r, NEW p, Shaped(p), p.role = Peer(r),
           NEW Ie, NEW Ip, NEW Pe, NEW Pp, NEW Ae, NEW Ap, NEW ne \in Nat, NEW np \in Nat,
           NEW f, NEW Ip2, NEW Pp2,
           Joint(r, e, p, Ie, Ip, Pe, Pp, Ae, Ap, ne, np),
           Emits(e, f), Grows(Ip, Pp, f, Ip2, Pp2), e.received \in Ae \cup {NoMessage}
    PROVE  Joint(r, e, p, Ie, Ip2, Pe, Pp2, Ae, Ap, ne, np)
  <1>1. CASE r = "HOST"
    <2>1. World(e, p, Ie, Ip, Pe, Pp, Ae, Ap, ne, np) /\ p.role = "RIG" /\ e.role = "HOST"
      BY <1>1 DEF Joint, Peer
    <2>2. World(e, p, Ie, Ip2, Pe, Pp2, Ae, Ap, ne, np)
      BY <2>1, HostEmits
    <2> QED BY <1>1, <2>2 DEF Joint
  <1>2. CASE r # "HOST"
    <2>1. World(p, e, Ip, Ie, Pp, Pe, Ap, Ae, np, ne) /\ p.role = "HOST" /\ e.role = "RIG"
      BY <1>2 DEF Joint, Peer, Roles
    <2>2. World(p, e, Ip2, Ie, Pp2, Pe, Ap, Ae, np, ne)
      BY <2>1, RigEmits
    <2> QED BY <1>2, <2>2 DEF Joint
  <1> QED BY <1>1, <1>2

-----------------------------------------------------------------------------
(* A message is submitted *)

\* The next message is retained behind everything its sender sent.
Submits(e, e2, n) ==
    /\ e.phase = "ESTABLISHED" /\ e.out.rel.frame = NoFrame
    /\ e2.id = e.id /\ e2.phase = e.phase /\ Incoming(e2) = Incoming(e)
    /\ e2.out.nextTx = e.out.nextTx
    /\ e2.submitted = n + 1 /\ e2.out.rel.frame.msg = n + 1
    /\ e2.out.rel.frame.type = "APPLICATION"

\* Its message is behind all that came before it.
LEMMA SenderSubmits ==
    ASSUME NEW a, NEW a2, NEW b, NEW Ia, NEW Ib, NEW Pa, NEW Pb, NEW A, NEW n \in Nat,
           Lane(a, b, Ia, Ib, Pa, Pb, A, n), Submits(a, a2, n)
    PROVE  Lane(a2, b, Ia, Ib, Pa, Pb, A, n + 1)
  <1> DEFINE frame == a2.out.rel.frame
  <1>1. /\ a.out.rel.frame = NoFrame /\ NoFrame.type = "INVALID"
        /\ frame.type = "APPLICATION" /\ frame.msg = n + 1
    BY DEF Submits, NoFrame
  <1>2. /\ \A g \in Ib : g.type = "APPLICATION" => g.msg \in 1 .. n
        /\ Got(b, A) \subseteq 1 .. n
        /\ \A m \in Got(b, A), g \in Ib : g.type = "APPLICATION" =>
              /\ m <= g.msg
              /\ m = g.msg /\ Based(b, g.id) =>
                    b.phase = "ESTABLISHED" /\ b.lastRx.seq = g.seq
    BY DEF Lane, Sending
  <1>3. \A k \in 1 .. n : k \in 1 .. n + 1 /\ k <= n + 1 /\ k # n + 1
    OBVIOUS
  <1>4. n + 1 \in 1 .. n + 1
    OBVIOUS
  <1> HIDE DEF frame
  <1>5. \A g \in Ib : InOrder(g, frame)
    BY <1>1, <1>2, <1>3 DEF InOrder, Evidence
  <1>6. Sending(a2, b, Ib, A, n + 1)
    <2>1. \A g \in Ib \cup {frame} : g.type = "APPLICATION" => g.msg \in 1 .. n + 1
      BY <1>1, <1>2, <1>3, <1>4
    <2>2. Got(b, A) \subseteq 1 .. n + 1
      BY <1>2, <1>3
    <2>3. \A m \in Got(b, A) : m <= frame.msg /\ m # frame.msg
      BY <1>1, <1>2, <1>3
    <2> QED BY <1>2, <1>5, <2>1, <2>2, <2>3 DEF Sending, frame
  <1>7. ASSUME a2.phase = "ESTABLISHED"
        PROVE  Looping(a2, b, Ia, Ib, A) /\ LoopOrder(a2, Pa, Pb)
    <2>1. /\ Looping(a, b, Ia, Ib, A) /\ LoopOrder(a, Pa, Pb)
          /\ a2.id = a.id /\ a2.out.nextTx = a.out.nextTx
      BY <1>7 DEF Lane, Submits
    <2>2. LoopOrder(a2, Pa, Pb)
      BY <2>1 DEF LoopOrder
    <2>3. \A f \in Ib : Forward(f, a.id) => NextSequence(f.seq) = a.out.nextTx
      BY <1>1, <2>1 DEF Looping, Forward, ReliableTypes
    <2>4. /\ Based(b, a.id) => NextSequence(b.lastRx.seq) = a.out.nextTx
          /\ \A f \in Ia : Backward(f, a.id) => NextSequence(f.ack) = a.out.nextTx
      BY <1>1, <2>1 DEF Looping
    <2>5. Looping(a2, b, Ia, Ib, A)
      BY <2>1, <2>3, <2>4 DEF Looping
    <2> QED BY <2>2, <2>5
  <1> QED BY <1>6, <1>7 DEF Lane

\* And the other direction does not depend on it.
LEMMA JointSubmits ==
    ASSUME NEW r, NEW e, NEW e2, NEW p,
           NEW Ie, NEW Ip, NEW Pe, NEW Pp, NEW Ae, NEW Ap, NEW ne \in Nat, NEW np,
           Joint(r, e, p, Ie, Ip, Pe, Pp, Ae, Ap, ne, np), Submits(e, e2, ne)
    PROVE  Joint(r, e2, p, Ie, Ip, Pe, Pp, Ae, Ap, ne + 1, np)
  <1>1. /\ e2.id = e.id /\ e2.phase = e.phase /\ e2.lastRx = e.lastRx
        /\ e2.out.nextTx = e.out.nextTx /\ e2.out.rel.frame.type = "APPLICATION"
    BY DEF Submits, Incoming
  <1>2. OpeningEnd(e) => OpeningEnd(e2)
    BY <1>1 DEF OpeningEnd, Opening
  <1>3. Agreeing(e, p, Ie, Ip) => Agreeing(e2, p, Ie, Ip)
    BY <1>1 DEF Agreeing
  <1>4. Agreeing(p, e, Ip, Ie) => Agreeing(p, e2, Ip, Ie)
    BY <1>1 DEF Agreeing, Decided
  <1>5. Lane(e, p, Ie, Ip, Pe, Pp, Ap, ne) => Lane(e2, p, Ie, Ip, Pe, Pp, Ap, ne + 1)
    BY SenderSubmits
  <1>6. Lane(p, e, Ip, Ie, Pp, Pe, Ae, np) => Lane(p, e2, Ip, Ie, Pp, Pe, Ae, np)
    BY <1>1, ReceiverStays DEF Submits
  <1> QED BY <1>2, <1>3, <1>4, <1>5, <1>6 DEF Joint, World

-----------------------------------------------------------------------------
(* A call *)

\* The states a call may bring the endpoint e0 to, one move after another, while its peer p
\* and the queue q stand still: what it reported as delivered was accepted, what it took is
\* new, and the session of a host is none that anybody knew before the call.
Calling(r, e0, p, q, Ip, Pp, Ae, Ap, ne, np) ==
    {e \in Endpoint :
        /\ Sound(e) /\ e.role = r
        /\ Extends(e0.events, e.events)
        /\ Reported(e0, e, "DELIVERY_CONFIRMED") => e0.submitted \in Ap
        /\ e.submitted \in {e0.submitted, NoMessage}
        /\ Newer(e0, e, Ae, np)
        /\ r = "HOST" =>
              /\ e.nextId = e0.nextId \/ e.id = e0.nextId \/ e.out.resetId # NoSession
              /\ e.parser.body.id # e0.nextId
        /\ Joint(r, e, p, Coming(e.parser.body, q), Ip, Order(e.parser.body, q), Pp,
                 Ae, Ap, ne, np)}

\* What a move does to the identifiers of a host that began from x, unknown to the frame f.
LEMMA MovesIdentifier ==
    ASSUME NEW e, Sound(e), NEW e2, NEW f, Moved(e, e2, f), e.role = "HOST",
           NEW x, x # NoSession, f.id # x,
           e.nextId = x \/ e.id = x \/ e.out.resetId # NoSession
    PROVE  e2.nextId = x \/ e2.id = x \/ e2.out.resetId # NoSession
  <1>1. e.out.resetId # NoSession => e.id = NoSession
    BY SessionScope
  <1>2. CASE Session(e2) = <<e.id, e.nextId, e2.phase, e.out.resetId>>
    BY <1>2 DEF Session
  <1>3. CASE Leaves(e, e2, f)
    <2>1. e2.nextId = e.nextId
      BY <1>3 DEF Leaves, Clears
    <2>2. \/ e.id = NoSession /\ e.out.resetId = NoSession
          \/ e2.out.resetId # NoSession
          \/ e.id # NoSession /\ f.id = e.id
      BY <1>3 DEF Leaves
    <2> QED BY <1>1, <2>1, <2>2
  <1>4. CASE Begins(e, e2)
    <2>1. e.id = NoSession /\ e.out.resetId = NoSession /\ e2.id = e.nextId
      BY <1>4 DEF Begins
    <2> QED BY <2>1
  <1>5. \/ Leaves(e, e2, f) \/ Begins(e, e2)
        \/ Session(e2) = <<e.id, e.nextId, e2.phase, e.out.resetId>>
    <2>1. ~ Adopts(e, e2, f) /\ ~ Joins(e, e2, f)
      BY DEF Adopts, Joins
    <2>2. Session(e2) = <<e2.id, e2.nextId, e2.phase, e2.out.resetId>>
      BY DEF Session
    <2>3. Publishes(e, e2) => Session(e2) = <<e.id, e.nextId, e2.phase, e.out.resetId>>
      BY DEF Publishes, Session
    <2>4. Replies(e, e2, f) \/ Completes(e, e2, f) =>
              Session(e2) = <<e.id, e.nextId, e2.phase, e.out.resetId>>
      BY DEF Replies, Completes, Session
    <2>5. Keeps(e, e2) \/ Takes(e, e2, f) \/ Finishes(e, e2, f) =>
              Session(e2) = <<e.id, e.nextId, e2.phase, e.out.resetId>>
      BY DEF Keeps, Takes, Finishes, Session
    <2> QED BY <2>1, <2>3, <2>4, <2>5 DEF Moved
  <1> QED BY <1>2, <1>3, <1>4, <1>5

\* A move keeps what was submitted or drops it.
LEMMA MovesSubmitted ==
    ASSUME NEW e, NEW e2, NEW f, Moved(e, e2, f)
    PROVE  e2.submitted \in {e.submitted, NoMessage}
  <1>1. Keeps(e, e2) \/ Publishes(e, e2) \/ Adopts(e, e2, f) => e2.submitted = e.submitted
    BY DEF Keeps, Publishes, Adopts, Outgoing
  <1>2. Replies(e, e2, f) \/ Completes(e, e2, f) \/ Joins(e, e2, f) \/ Takes(e, e2, f) =>
            e2.submitted = e.submitted
    BY DEF Replies, Completes, Joins, Takes, Outgoing
  <1>3. Leaves(e, e2, f) \/ Begins(e, e2) \/ Finishes(e, e2, f) => e2.submitted = NoMessage
    BY DEF Leaves, Clears, Begins, Finishes, Outgoing
  <1> QED BY <1>1, <1>2, <1>3 DEF Moved

\* No move leads out of these states, as long as the identifier of the next session is unused.
LEMMA CallingCloses ==
    ASSUME NEW r \in Roles, NEW e0, Sound(e0), e0.role = r,
           NEW p, Shaped(p), p.role = Peer(r), NEW T, NEW q \in Seq(T),
           NEW Ip, NEW Pp, Within(Ip, Pp), NEW Ae, NEW Ap, NEW ne \in Nat, NEW np \in Nat,
           NoMessage = 0, NEW input, Inert(input) \/ (q # <<>> /\ input = Head(q)),
           r = "HOST" =>
              /\ p.id # e0.nextId /\ input.id # e0.nextId
              /\ \A x \in Elements(q) \cup Ip : x.id # e0.nextId
    PROVE  Closed(Calling(r, e0, p, q, Ip, Pp, Ae, Ap, ne, np), input)
  <1> DEFINE S == Calling(r, e0, p, q, Ip, Pp, Ae, Ap, ne, np)
  <1> SUFFICES ASSUME NEW e \in S, NEW e2, Sound(e2), Moves(e, e2, input)
               PROVE  e2 \in S
    BY DEF Closed, Calling
  <1> DEFINE f == e.parser.body
             I == Coming(f, q)
             P == Order(f, q)
  <1>1. /\ e \in Endpoint /\ Sound(e) /\ e.role = r /\ Extends(e0.events, e.events)
        /\ Reported(e0, e, "DELIVERY_CONFIRMED") => e0.submitted \in Ap
        /\ e.submitted \in {e0.submitted, NoMessage} /\ Newer(e0, e, Ae, np)
        /\ r = "HOST" =>
              /\ e.nextId = e0.nextId \/ e.id = e0.nextId \/ e.out.resetId # NoSession
              /\ f.id # e0.nextId
        /\ Joint(r, e, p, I, Ip, P, Pp, Ae, Ap, ne, np)
    BY DEF Calling
  <1>2. /\ e2.role = e.role /\ e2.parser.body \in {f, NoFrame, input}
        /\ Extends(e.events, e2.events)
        /\ Reported(e, e2, "DELIVERY_CONFIRMED") => Finishes(e, e2, f)
        /\ Moved(e, e2, f)
    BY DEF Moves
  <1>3. /\ Shaped(e) /\ Shaped(e2) /\ e2 \in Endpoint /\ e0 \in Endpoint
    BY <1>1, Shape DEF Sound
  <1>4. First(f, I, P) /\ Within(I, P)
    BY HeldFirst
  <1>5. r = "HOST" => e0.nextId # NoSession
    BY DEF Sound, IdentityOK, CursorValid, SessionIds, NoSession
  <1>6. Unused(r, e, p, I, Ip)
    BY <1>1, <1>5 DEF Unused, Coming
  <1> HIDE DEF S, f, I, P
  <1>7. /\ Joint(r, e2, p, I, Ip, P, Pp, Ae, Ap, ne, np) /\ Newer(e, e2, Ae, np)
        /\ Finishes(e, e2, f) => e.submitted \in Ap
    BY <1>1, <1>2, <1>3, <1>4, <1>6, JointMoves
  <1>8. Inert(NoFrame)
    BY DEF Inert, NoFrame, FrameTypes, ReliableTypes, ControlTypes
  <1>9. Joint(r, e2, p, Coming(e2.parser.body, q), Ip, Order(e2.parser.body, q), Pp,
              Ae, Ap, ne, np)
    <2>1. Shrinks(I, P, Coming(e2.parser.body, q), Order(e2.parser.body, q))
      BY <1>2, <1>8, HeldChanges DEF I, P
    <2>2. Shrinks(Ip, Pp, Ip, Pp)
      BY DEF Shrinks, Within
    <2> QED BY <1>7, <2>1, <2>2, JointShrinks
  <1>10. Newer(e0, e2, Ae, np)
    BY <1>1, <1>7 DEF Newer
  <1>11. Extends(e0.events, e2.events)
    BY <1>1, <1>2, <1>3, ExtendsTransitive DEF Endpoint, EndpointRecord
  <1>12. Reported(e0, e2, "DELIVERY_CONFIRMED") => e0.submitted \in Ap
    <2>1. Reported(e0, e2, "DELIVERY_CONFIRMED") <=>
              \/ Reported(e0, e, "DELIVERY_CONFIRMED") \/ Reported(e, e2, "DELIVERY_CONFIRMED")
      BY <1>1, <1>2, <1>3, ReportedTwice
    <2>2. Finishes(e, e2, f) => e.submitted = e0.submitted
      <3>1. Finishes(e, e2, f) => e.submitted # NoMessage
        BY <1>3 DEF Finishes, Shaped
      <3> QED BY <1>1, <3>1
    <2> QED BY <1>1, <1>2, <1>7, <2>1, <2>2
  <1>13. e2.submitted \in {e0.submitted, NoMessage}
    BY <1>1, <1>2, MovesSubmitted
  <1>14. r = "HOST" =>
            /\ e2.nextId = e0.nextId \/ e2.id = e0.nextId \/ e2.out.resetId # NoSession
            /\ e2.parser.body.id # e0.nextId
    <2> SUFFICES ASSUME r = "HOST"
                 PROVE  /\ e2.nextId = e0.nextId \/ e2.id = e0.nextId
                              \/ e2.out.resetId # NoSession
                        /\ e2.parser.body.id # e0.nextId
      OBVIOUS
    <2>1. e2.nextId = e0.nextId \/ e2.id = e0.nextId \/ e2.out.resetId # NoSession
      <3> DEFINE x == e0.nextId
      <3>1. /\ Sound(e) /\ e.role = "HOST" /\ Moved(e, e2, f) /\ x # NoSession /\ f.id # x
            /\ e.nextId = x \/ e.id = x \/ e.out.resetId # NoSession
        BY <1>1, <1>2, <1>5
      <3> HIDE DEF x
      <3>2. e2.nextId = x \/ e2.id = x \/ e2.out.resetId # NoSession
        BY <3>1, MovesIdentifier
      <3> QED BY <3>2 DEF x
    <2>2. NoFrame.id = NoSession
      BY DEF NoFrame
    <2> QED BY <1>1, <1>2, <1>5, <2>1, <2>2
  <1> QED
    BY <1>1, <1>2, <1>3, <1>9, <1>10, <1>11, <1>12, <1>13, <1>14 DEF S, Calling

-----------------------------------------------------------------------------
(* One step of the system *)

\* The world as the role r sees it.
AgreedAt(r) ==
    Joint(r, node[r], node[Peer(r)], Toward(r), Toward(Peer(r)), Ordering(r), Ordering(Peer(r)),
          Accepted(r), Accepted(Peer(r)), issued[r], issued[Peer(r)])

\* What the two ends agree on can be read from either side.
LEMMA EitherSide ==
    ASSUME NEW r \in Roles
    PROVE  /\ Agreed <=> Recorded /\ AgreedAt(r)
           /\ Peer(r) \in Roles /\ Peer(r) # r /\ Peer(Peer(r)) = r
           /\ \A s \in Roles : s = r \/ s = Peer(r)
  BY DEF Agreed, AgreedAt, Joint, Peer, Roles

\* What stands for the two ends in every state.
LEMMA Knowing ==
    ASSUME IInv, Agreed, NEW r \in Roles
    PROVE  /\ Sound(node[r]) /\ HeldOK(node[r]) /\ node[r].role = r /\ Shaped(node[r])
           /\ node[r] \in Endpoint /\ chan[r] \in Seq(Carried) /\ issued[r] \in Nat
           /\ accepted[r] \in Seq(Nat) /\ AgreedAt(r) /\ NoMessage = 0
           /\ node[r].received \in Accepted(r) \cup {NoMessage}
           /\ node \in [Roles -> Endpoint] /\ chan \in [Roles -> Seq(Carried)]
           /\ issued \in [Roles -> Nat] /\ accepted \in [Roles -> Seq(Nat)]
           /\ confirmed \in [Roles -> SUBSET Nat]
  <1>1. NoMessage = 0
    BY PairAssumption DEF PairAssumption
  <1>2. Sound(node[r]) /\ HeldOK(node[r]) /\ node[r].role = r
    BY DEF IInv
  <1>3. Recorded /\ AgreedAt(r)
    BY EitherSide
  <1> QED BY <1>1, <1>2, <1>3, Shape DEF IInv, PairTypes, Recorded

\* A step of the service of the messages from s: they are submitted, accepted at the other
\* end, confirmed or abandoned, or nothing happens to them.
Serves(s) ==
    LET old == node[s].submitted
        new == node'[s].submitted
    IN  \/ /\ old = NoMessage /\ new = issued[s] + 1 /\ issued'[s] = new
           /\ accepted'[Peer(s)] = accepted[Peer(s)] /\ confirmed'[s] = confirmed[s]
        \/ /\ \E m \in 1 .. issued[s] :
                 /\ \A x \in Accepted(Peer(s)) : x < m
                 /\ accepted'[Peer(s)] = Append(accepted[Peer(s)], m)
           /\ new = old /\ issued'[s] = issued[s] /\ confirmed'[s] = confirmed[s]
        \/ /\ old # NoMessage /\ new = NoMessage /\ issued'[s] = issued[s]
           /\ accepted'[Peer(s)] = accepted[Peer(s)]
           /\ \/ confirmed'[s] = confirmed[s]
              \/ old \in Accepted(Peer(s)) /\ confirmed'[s] = confirmed[s] \cup {old}
        \/ /\ new = old /\ issued'[s] = issued[s]
           /\ accepted'[Peer(s)] = accepted[Peer(s)] /\ confirmed'[s] = confirmed[s]

\* What becomes of r's submission when r becomes e: it is kept, or dropped and at best
\* confirmed, or it is the next one.
Answers(r, e) ==
    \/ /\ issued'[r] = issued[r] /\ e.submitted \in {node[r].submitted, NoMessage}
       /\ Confirms(r, e) => /\ node[r].submitted # NoMessage /\ e.submitted = NoMessage
                            /\ node[r].submitted \in Accepted(Peer(r))
    \/ /\ node[r].submitted = NoMessage /\ e.submitted = issued[r] + 1
       /\ issued'[r] = issued[r] + 1 /\ ~ Confirms(r, e)

\* A step of one endpoint, with what it does to the wire.
LEMMA Becoming ==
    ASSUME IInv, Agreed, NEW r \in Roles, NEW e, Becomes(r, e),
           issued' \in [Roles -> Nat], issued'[Peer(r)] = issued[Peer(r)],
           Joint(r, e, node[Peer(r)],
                 Coming(e.parser.body, chan'[r]), Coming(Body(Peer(r)), chan'[Peer(r)]),
                 Order(e.parser.body, chan'[r]), Order(Body(Peer(r)), chan'[Peer(r)]),
                 Accepted(r), Accepted(Peer(r)), issued'[r], issued[Peer(r)]),
           Newer(node[r], e, Accepted(r), issued[Peer(r)]),
           node[r].received # NoMessage => e.received \in {node[r].received, NoMessage},
           Answers(r, e)
    PROVE  Agreed' /\ \A s \in Roles : Serves(s)
  <1> DEFINE p == Peer(r)
  <1>1. /\ p \in Roles /\ p # r /\ Peer(p) = r /\ (\A s \in Roles : s = r \/ s = p)
    BY EitherSide
  <1>2. /\ node \in [Roles -> Endpoint] /\ issued \in [Roles -> Nat]
        /\ accepted \in [Roles -> Seq(Nat)] /\ confirmed \in [Roles -> SUBSET Nat]
        /\ accepted[r] \in Seq(Nat) /\ accepted[p] \in Seq(Nat) /\ NoMessage = 0
        /\ node[r].received \in Accepted(r) \cup {NoMessage}
        /\ node[p].received \in Accepted(p) \cup {NoMessage}
    BY <1>1, Knowing
  <1>3. /\ node' = [node EXCEPT ![r] = e]
        /\ accepted' = IF Accepts(r, e) THEN [accepted EXCEPT ![r] = Append(@, e.received)]
                                        ELSE accepted
        /\ confirmed' = IF Confirms(r, e)
                        THEN [confirmed EXCEPT ![r] = @ \cup {node[r].submitted}]
                        ELSE confirmed
    BY DEF Becomes
  <1>4. node'[r] = e /\ node'[p] = node[p]
    BY <1>1, <1>2, <1>3
  <1>5. /\ accepted'[p] = accepted[p]
        /\ accepted'[r] = IF Accepts(r, e) THEN Append(accepted[r], e.received) ELSE accepted[r]
        /\ confirmed'[p] = confirmed[p]
        /\ confirmed'[r] = IF Confirms(r, e) THEN confirmed[r] \cup {node[r].submitted}
                                             ELSE confirmed[r]
    BY <1>1, <1>2, <1>3
  <1>6. Accepts(r, e) => /\ e.received \in 1 .. issued[p] /\ (\A x \in Accepted(r) : x < e.received)
                         /\ e.received \in Nat
    <2>1. Accepts(r, e) => e.received \in 1 .. issued[p] /\ (\A x \in Accepted(r) : x < e.received)
      BY DEF Accepts, Newer
    <2>2. issued[p] \in Nat
      BY <1>1, <1>2
    <2> QED BY <2>1, <2>2
  <1> DEFINE A2 == IF Accepts(r, e) THEN Accepted(r) \cup {e.received} ELSE Accepted(r)
  <1>7. Accepted(r)' = A2 /\ Accepted(p)' = Accepted(p)
    <2>1. Elements(Append(accepted[r], e.received)) = Elements(accepted[r]) \cup {e.received}
      BY <1>2, ElementsGrow
    <2> QED BY <1>5, <2>1 DEF Accepted
  <1>8. e.received \in A2 \cup {NoMessage}
    BY <1>2 DEF Accepts
  <1>9. Recorded'
    <2>1. accepted' \in [Roles -> Seq(Nat)]
      <3>1. Accepts(r, e) => Append(accepted[r], e.received) \in Seq(Nat)
        BY <1>2, <1>6
      <3> QED BY <1>2, <1>3, <3>1
    <2>2. confirmed' \in [Roles -> SUBSET Nat]
      <3>1. \A x \in Accepted(p) : x \in Nat
        <4>1. accepted[p] \in Seq(Nat)
          BY <1>2
        <4>2. \A i \in 1 .. Len(accepted[p]) : accepted[p][i] \in Nat
          BY <4>1
        <4> QED BY <4>2 DEF Accepted, Elements
      <3>2. Confirms(r, e) => node[r].submitted \in Nat
        BY <3>1 DEF Answers
      <3> QED BY <1>2, <1>3, <3>2
    <2>3. \A s \in Roles : node'[s].received \in Accepted(s)' \cup {NoMessage}
      BY <1>1, <1>2, <1>4, <1>7, <1>8
    <2> QED BY <2>1, <2>2, <2>3 DEF Recorded
  <1>10. AgreedAt(r)'
    <2>1. Accepted(r) \subseteq A2 /\ Got(e, A2) = Got(e, Accepted(r))
      BY DEF Got, Accepts
    <2> HIDE DEF A2
    <2>2. Joint(r, e, node[p],
                Coming(e.parser.body, chan'[r]), Coming(Body(p), chan'[p]),
                Order(e.parser.body, chan'[r]), Order(Body(p), chan'[p]),
                A2, Accepted(p), issued'[r], issued[p])
      BY <2>1, JointRecords
    <2>3. /\ Toward(r)' = Coming(e.parser.body, chan'[r])
          /\ Toward(p)' = Coming(Body(p), chan'[p])
          /\ Ordering(r)' = Order(e.parser.body, chan'[r])
          /\ Ordering(p)' = Order(Body(p), chan'[p])
      BY <1>4 DEF Toward, Ordering, Body
    <2> QED BY <1>4, <1>7, <2>2, <2>3 DEF AgreedAt
  <1>11. Agreed'
    BY <1>9, <1>10 DEF Agreed, AgreedAt, Joint, Peer, Roles
  <1>12. Serves(r)
    BY <1>1, <1>2, <1>4, <1>5 DEF Answers, Serves
  <1>13. Serves(p)
    <2>1. CASE Accepts(r, e)
      BY <1>1, <1>4, <1>5, <1>6, <2>1 DEF Serves
    <2>2. CASE ~ Accepts(r, e)
      BY <1>1, <1>4, <1>5, <2>2 DEF Serves
    <2> QED BY <2>1, <2>2
  <1> QED BY <1>1, <1>11, <1>12, <1>13

-----------------------------------------------------------------------------
(* Calls that take or handle a body *)

\* What the application reads as a confirmation is a new event of the queue.
LEMMA Confirming ==
    ASSUME NEW r \in Roles, NEW e \in Endpoint, node[r] \in Endpoint, Confirms(r, e)
    PROVE  Reported(node[r], e, "DELIVERY_CONFIRMED")
  <1> DEFINE n == Len(node[r].events) + 1
             m == Len(e.events)
             s == SubSeq(e.events, n, m)
  <1>1. /\ node[r].events \in Seq(EventTypes) /\ e.events \in Seq(EventTypes)
        /\ n \in Nat \ {0} /\ m \in Nat
    BY DEF Endpoint, EndpointRecord
  <1>2. PICK i \in 1 .. Len(s) : s[i] = "DELIVERY_CONFIRMED"
    BY DEF Confirms, NewEvents
  <1>3. Len(s) = IF n <= m THEN m - n + 1 ELSE 0
    <2>1. CASE n <= m
      <3> HIDE DEF n
      <3> QED BY <1>1, <2>1
    <2>2. CASE ~ n <= m
      <3> HIDE DEF n, m
      <3> QED BY <1>1, <2>2
    <2> QED BY <2>1, <2>2
  <1>4. n <= m /\ i \in 1 .. m - n + 1
    BY <1>1, <1>2, <1>3
  <1>5. s[i] = e.events[n + i - 1]
    BY <1>1, <1>4
  <1>6. n + i - 1 \in n .. m
    BY <1>1, <1>4
  <1> QED BY <1>2, <1>5, <1>6 DEF Reported

\* The endpoints a call of r may lead through.
CallingFrom(r) ==
    Calling(r, node[r], node[Peer(r)], chan[r], Toward(Peer(r)), Ordering(Peer(r)),
            Accepted(r), Accepted(Peer(r)), issued[r], issued[Peer(r)])

\* A call of r starts among them and, whatever moves it makes, stays among them.
LEMMA Calls ==
    ASSUME IInv, Agreed, Fresh, NEW r \in Roles, NEW input,
           \/ Inert(input) /\ input.id = NoSession
           \/ chan[r] # <<>> /\ input = Head(chan[r])
    PROVE  node[r] \in CallingFrom(r) /\ Closed(CallingFrom(r), input)
  <1> DEFINE p == Peer(r)
  <1>1. p \in Roles /\ p # r
    BY EitherSide
  <1>2. /\ Sound(node[r]) /\ node[r].role = r /\ node[r] \in Endpoint /\ AgreedAt(r)
        /\ chan[r] \in Seq(Carried) /\ issued[r] \in Nat /\ NoMessage = 0
    BY Knowing
  <1>3. Shaped(node[p]) /\ node[p].role = p /\ issued[p] \in Nat /\ chan[p] \in Seq(Carried)
    BY <1>1, Knowing
  <1>4. Within(Toward(p), Ordering(p))
    BY HeldFirst DEF Toward, Ordering
  <1>5. r = "HOST" => node[r].nextId # NoSession
    BY <1>2 DEF Sound, IdentityOK, CursorValid, SessionIds, NoSession
  <1>6. chan[r] # <<>> => Head(chan[r]) \in Elements(chan[r])
    <2>1. chan[r] # <<>> => Len(chan[r]) \in Nat /\ Len(chan[r]) >= 1
      BY <1>2
    <2> QED BY <2>1 DEF Elements
  <1>7. r = "HOST" =>
            /\ node[p].id # node[r].nextId /\ input.id # node[r].nextId
            /\ Body(r).id # node[r].nextId
            /\ \A x \in Elements(chan[r]) \cup Toward(p) : x.id # node[r].nextId
    BY <1>1, <1>5, <1>6 DEF Fresh, Toward, Coming, Peer, Roles
  <1>8. node[r] \in CallingFrom(r)
    <2>1. /\ Extends(node[r].events, node[r].events)
          /\ ~ Reported(node[r], node[r], "DELIVERY_CONFIRMED")
      <3>1. Len(node[r].events) \in Nat
        BY <1>2 DEF Endpoint, EndpointRecord
      <3> QED BY <3>1 DEF Extends, Reported
    <2>2. Newer(node[r], node[r], Accepted(r), issued[p])
      BY DEF Newer
    <2>3. Joint(r, node[r], node[p], Coming(node[r].parser.body, chan[r]), Toward(p),
                Order(node[r].parser.body, chan[r]), Ordering(p),
                Accepted(r), Accepted(p), issued[r], issued[p])
      BY <1>2 DEF AgreedAt, Toward, Ordering, Body
    <2> QED BY <1>2, <1>7, <2>1, <2>2, <2>3 DEF CallingFrom, Calling, Body
  <1> HIDE DEF p
  <1>9. Closed(Calling(r, node[r], node[p], chan[r], Toward(p), Ordering(p),
                       Accepted(r), Accepted(p), issued[r], issued[p]), input)
    BY <1>1, <1>2, <1>3, <1>4, <1>7, CallingCloses DEF p
  <1> QED BY <1>8, <1>9 DEF CallingFrom, p

\* A call that ends among them is a step of the service, and the two ends still agree.
LEMMA Called ==
    ASSUME IInv, Agreed, NEW r \in Roles, NEW e \in CallingFrom(r), Leads(node[r], e),
           Becomes(r, e), issued' = issued,
           chan' = chan \/ (chan[r] # <<>> /\ chan' = [chan EXCEPT ![r] = Tail(@)])
    PROVE  Agreed' /\ \A s \in Roles : Serves(s)
  <1> DEFINE p == Peer(r)
  <1>1. p \in Roles /\ p # r
    BY EitherSide
  <1>2. /\ node[r] \in Endpoint /\ chan \in [Roles -> Seq(Carried)] /\ chan[r] \in Seq(Carried)
        /\ issued \in [Roles -> Nat] /\ issued[r] \in Nat /\ issued[p] \in Nat
    BY <1>1, Knowing
  <1>3. /\ e \in Endpoint
        /\ Reported(node[r], e, "DELIVERY_CONFIRMED") => node[r].submitted \in Accepted(p)
        /\ e.submitted \in {node[r].submitted, NoMessage}
        /\ Newer(node[r], e, Accepted(r), issued[p])
        /\ Joint(r, e, node[p], Coming(e.parser.body, chan[r]), Toward(p),
                 Order(e.parser.body, chan[r]), Ordering(p),
                 Accepted(r), Accepted(p), issued[r], issued[p])
    BY DEF CallingFrom, Calling
  <1> HIDE DEF p
  <1>4. chan'[p] = chan[p] /\ (chan'[r] = chan[r] \/ (chan[r] # <<>> /\ chan'[r] = Tail(chan[r])))
    BY <1>1, <1>2
  <1>5. Shrinks(Coming(e.parser.body, chan[r]), Order(e.parser.body, chan[r]),
                Coming(e.parser.body, chan'[r]), Order(e.parser.body, chan'[r]))
    BY <1>2, <1>4, QueueChanges
  <1>6. Shrinks(Toward(p), Ordering(p), Toward(p), Ordering(p))
    <2>1. Within(Toward(p), Ordering(p))
      BY HeldFirst DEF Toward, Ordering
    <2> QED BY <2>1 DEF Shrinks, Within
  <1>7. Joint(r, e, node[p], Coming(e.parser.body, chan'[r]), Toward(p),
              Order(e.parser.body, chan'[r]), Ordering(p),
              Accepted(r), Accepted(p), issued[r], issued[p])
    BY <1>2, <1>3, <1>5, <1>6, JointShrinks
  <1>8. Joint(r, e, node[p], Coming(e.parser.body, chan'[r]), Coming(Body(p), chan'[p]),
              Order(e.parser.body, chan'[r]), Order(Body(p), chan'[p]),
              Accepted(r), Accepted(p), issued'[r], issued[p])
    BY <1>4, <1>7 DEF Toward, Ordering
  <1>9. node[r].received # NoMessage => e.received \in {node[r].received, NoMessage}
    BY DEF Leads
  <1>10. Answers(r, e)
    BY <1>2, <1>3, Confirming DEF Answers, Leads, p
  <1>11. issued' \in [Roles -> Nat] /\ issued'[p] = issued[p]
    BY <1>2
  <1> QED BY <1>3, <1>8, <1>9, <1>10, <1>11, Becoming DEF p

\* The arrival of bytes.
LEMMA DeliverServes ==
    ASSUME IInv, Agreed, Fresh, NEW r \in Roles, Deliver(r)
    PROVE  Agreed' /\ \A s \in Roles : Serves(s)
  <1> DEFINE f == Arriving(r)
             e == Receive_Bytes(node[r], f).e
  <1>1. /\ Becomes(r, e) /\ issued' = issued /\ chan[r] # <<>>
        /\ chan' = [chan EXCEPT ![r] = Tail(@)] \/ chan' = chan
    BY DEF Deliver
  <1>2. Sound(node[r]) /\ HeldOK(node[r]) /\ chan[r] \in Seq(Carried)
    BY Knowing
  <1>3. f = MalformedBody \/ f = Head(chan[r])
    BY DEF Arriving
  <1>4. f \in AnyInput
    <2>1. MalformedBody \in Carried
      BY DamagedBodies DEF VouchedBodies
    <2>2. Head(chan[r]) \in Carried
      BY <1>1, <1>2, <2>1, ChannelType
    <2> QED BY <1>3, <2>1, <2>2 DEF AnyInput, Carried
  <1>5. Inert(MalformedBody) /\ MalformedBody.id = NoSession
    BY DEF Inert, MalformedBody, NoFrame, FrameTypes, ReliableTypes, ControlTypes
  <1>6. node[r] \in CallingFrom(r) /\ Closed(CallingFrom(r), f)
    BY <1>1, <1>3, <1>5, Calls
  <1> HIDE DEF f
  <1>7. e \in CallingFrom(r)
    BY <1>2, <1>4, <1>6, MovingReceive
  <1>8. Leads(node[r], e)
    BY <1>2, <1>4, Receiving
  <1> HIDE DEF e
  <1> QED BY <1>1, <1>7, <1>8, Called

\* A call of Process, with or without a timer that ran out.
LEMMA ProcessServes ==
    ASSUME IInv, Agreed, Fresh, NEW r \in Roles, Process(r) \/ Timeout(r) \/ EarlyTimeout(r)
    PROVE  Agreed' /\ \A s \in Roles : Serves(s)
  <1>1. PICK expired \in BOOLEAN :
            /\ Becomes(r, Profile_Process(node[r], expired).e)
            /\ chan' = chan /\ issued' = issued
    BY DEF Process, Timeout, EarlyTimeout
  <1> DEFINE e == Profile_Process(node[r], expired).e
  <1>2. Sound(node[r]) /\ HeldOK(node[r])
    BY Knowing
  <1>3. Inert(NoInput) /\ NoInput.id = NoSession
    BY DEF Inert, NoInput, NoFrame, FrameTypes, ReliableTypes, ControlTypes
  <1>4. node[r] \in CallingFrom(r) /\ Closed(CallingFrom(r), NoInput)
    BY <1>3, Calls
  <1>5. e \in CallingFrom(r)
    BY <1>2, <1>4, MovingProcess
  <1>6. Leads(node[r], e)
    BY <1>2, Processing, FollowingLeads
  <1>7. Becomes(r, e) /\ chan' = chan /\ issued' = issued
    BY <1>1
  <1> HIDE DEF e
  <1> QED BY <1>5, <1>6, <1>7, Called

-----------------------------------------------------------------------------
(* Links and resets *)

\* The bodies of a parser that is left alone or emptied, and of a wire that is too.
LEMMA BodiesDrain ==
    ASSUME NEW T, NEW b, NEW q \in Seq(T), NEW b2, b2 = b \/ Inert(b2), NEW q2, q2 = q \/ q2 = <<>>
    PROVE  Shrinks(Coming(b, q), Order(b, q), Coming(b2, q2), Order(b2, q2))
  <1>1. Shrinks(Coming(b, q), Order(b, q), Coming(b2, q), Order(b2, q))
    BY HeldChanges
  <1>2. Shrinks(Coming(b2, q), Order(b2, q), Coming(b2, q2), Order(b2, q2))
    <2>1. CASE q2 = q
      <3>1. Within(Coming(b2, q), Order(b2, q))
        BY HeldFirst
      <3> QED BY <2>1, <3>1 DEF Shrinks, Within
    <2>2. CASE q2 = <<>>
      BY <2>2, QueueChanges
    <2> QED BY <2>1, <2>2
  <1> QED BY <1>1, <1>2 DEF Shrinks

\* How a session is interrupted: it is kept, or dropped with its work, or the next begins.
Interrupted(e, e2) == Keeps(e, e2) \/ Clears(e, e2) \/ Begins(e, e2)

\* An interruption submits and takes nothing.
LEMMA InterruptedWork ==
    ASSUME NEW e, NEW e2, Interrupted(e, e2)
    PROVE  /\ e2.submitted \in {e.submitted, NoMessage}
           /\ e2.received \in {e.received, NoMessage}
  BY DEF Interrupted, Keeps, Clears, Begins, Outgoing, Incoming

\* None of these disturbs what the two ends agree on.
LEMMA JointInterrupted ==
    ASSUME NEW r \in Roles, NEW e, Shaped(e), NEW e2, Shaped(e2), e.role = r,
           NEW p, Shaped(p), p.role = Peer(r),
           NEW Ie, NEW Ip, NEW Pe, NEW Pp, NEW Ae, NEW Ap, NEW ne \in Nat, NEW np \in Nat,
           Joint(r, e, p, Ie, Ip, Pe, Pp, Ae, Ap, ne, np), Within(Ie, Pe), Within(Ip, Pp),
           NoMessage = 0, Unused(r, e, p, Ie, Ip),
           NEW f, First(f, Ie, Pe), Interrupted(e, e2)
    PROVE  Joint(r, e2, p, Ie, Ip, Pe, Pp, Ae, Ap, ne, np)
  <1>1. CASE Clears(e, e2)
    BY <1>1, JointClears
  <1>2. CASE Keeps(e, e2) \/ Begins(e, e2)
    <2>1. Moved(e, e2, f)
      BY <1>2 DEF Moved
    <2> QED BY <2>1, JointMoves
  <1> QED BY <1>1, <1>2 DEF Interrupted

\* A link that is reported, and what it interrupts.
LEMMA LinkInterrupts ==
    ASSUME NEW r \in Roles, NEW link \in {"DISCONNECTED", "CONNECTED"}, IInv
    PROVE  LET e == Session_Notify_Link_State(node[r], link).e
           IN  /\ Sound(e) /\ e.role = r /\ Interrupted(node[r], e)
               /\ e.parser.body \in {node[r].parser.body, NoFrame}
               /\ ~ Reported(node[r], e, "DELIVERY_CONFIRMED")
  <1> DEFINE e == Session_Notify_Link_State(node[r], link).e
  <1>1. Sound(node[r]) /\ node[r].role = r /\ Len(node[r].events) \in Nat
    BY DEF IInv, Sound, Endpoint, EndpointRecord
  <1>2. /\ e = node[r] \/ (Ends(node[r], e) /\ e.parser = EmptyParser)
        /\ Keeps(node[r], e) \/ Clears(node[r], e) \/ Begins(node[r], e)
    BY <1>1, Linking
  <1>3. Sound(e)
    BY <1>1, Linking
  <1> HIDE DEF e
  <1>4. CASE e = node[r]
    BY <1>1, <1>2, <1>3, <1>4 DEF Interrupted, Reported, e
  <1>5. CASE Ends(node[r], e) /\ e.parser = EmptyParser
    BY <1>1, <1>2, <1>3, <1>5 DEF Interrupted, Ends, EmptyParser, e
  <1> QED BY <1>2, <1>4, <1>5

\* The identifier of the host's next session is unused.
LEMMA FreshUnused ==
    ASSUME Fresh, NEW r \in Roles
    PROVE  Unused(r, node[r], node[Peer(r)], Toward(r), Toward(Peer(r)))
  BY DEF Fresh, Unused, Peer, Roles

\* An interruption is a step of the service, and the two ends still agree.
LEMMA Interrupting ==
    ASSUME IInv, Agreed, Fresh, NEW r \in Roles, NEW e, Sound(e), e.role = r,
           Interrupted(node[r], e), e.parser.body \in {node[r].parser.body, NoFrame},
           ~ Reported(node[r], e, "DELIVERY_CONFIRMED"),
           Becomes(r, e), issued' = issued, chan' = chan \/ chan' = [chan EXCEPT ![r] = <<>>]
    PROVE  Agreed' /\ \A s \in Roles : Serves(s)
  <1> DEFINE p == Peer(r)
  <1>1. p \in Roles /\ p # r
    BY EitherSide
  <1>2. /\ node[r] \in Endpoint /\ chan \in [Roles -> Seq(Carried)] /\ chan[r] \in Seq(Carried)
        /\ issued \in [Roles -> Nat] /\ issued[r] \in Nat /\ issued[p] \in Nat
        /\ AgreedAt(r) /\ Shaped(node[r]) /\ node[r].role = r /\ Shaped(node[p])
        /\ node[p].role = p /\ NoMessage = 0
    BY <1>1, Knowing
  <1>3. Shaped(e) /\ e \in Endpoint
    BY Shape DEF Sound
  <1>4. Unused(r, node[r], node[p], Toward(r), Toward(p))
    BY FreshUnused
  <1> HIDE DEF p
  <1>5. /\ First(Body(r), Toward(r), Ordering(r)) /\ Within(Toward(r), Ordering(r))
        /\ Within(Toward(p), Ordering(p))
    BY HeldFirst DEF Toward, Ordering
  <1>6. Joint(r, node[r], node[p], Toward(r), Toward(p), Ordering(r), Ordering(p),
              Accepted(r), Accepted(p), issued[r], issued[p])
    BY <1>2 DEF AgreedAt, p
  <1>7. Joint(r, e, node[p], Toward(r), Toward(p), Ordering(r), Ordering(p),
              Accepted(r), Accepted(p), issued[r], issued[p])
    BY <1>2, <1>3, <1>4, <1>5, <1>6, JointInterrupted DEF p
  <1>8. chan'[p] = chan[p] /\ chan'[r] \in {chan[r], <<>>}
    BY <1>1, <1>2
  <1>9. Shrinks(Toward(r), Ordering(r),
                Coming(e.parser.body, chan'[r]), Order(e.parser.body, chan'[r]))
    <2>1. e.parser.body = Body(r) \/ Inert(e.parser.body)
      BY DEF Body, Inert, NoFrame, FrameTypes, ReliableTypes, ControlTypes
    <2> DEFINE b == Body(r)
               b2 == e.parser.body
               q == chan[r]
               q2 == chan'[r]
    <2>2. (b2 = b \/ Inert(b2)) /\ (q2 = q \/ q2 = <<>>) /\ q \in Seq(Carried)
      BY <1>2, <1>8, <2>1
    <2> HIDE DEF b, b2, q, q2
    <2>3. Shrinks(Coming(b, q), Order(b, q), Coming(b2, q2), Order(b2, q2))
      BY <2>2, BodiesDrain
    <2> QED BY <2>3 DEF Toward, Ordering, b, b2, q, q2
  <1>10. Shrinks(Toward(p), Ordering(p), Toward(p), Ordering(p))
    BY <1>5 DEF Shrinks, Within
  <1>11. Joint(r, e, node[p], Coming(e.parser.body, chan'[r]), Toward(p),
               Order(e.parser.body, chan'[r]), Ordering(p),
               Accepted(r), Accepted(p), issued[r], issued[p])
    BY <1>2, <1>7, <1>9, <1>10, JointShrinks
  <1>12. Joint(r, e, node[p], Coming(e.parser.body, chan'[r]), Coming(Body(p), chan'[p]),
               Order(e.parser.body, chan'[r]), Order(Body(p), chan'[p]),
               Accepted(r), Accepted(p), issued'[r], issued[p])
    BY <1>8, <1>11 DEF Toward, Ordering
  <1>13. /\ Newer(node[r], e, Accepted(r), issued[p])
         /\ node[r].received # NoMessage => e.received \in {node[r].received, NoMessage}
         /\ Answers(r, e)
    BY <1>2, <1>3, InterruptedWork, Confirming DEF Newer, Answers
  <1>14. issued' \in [Roles -> Nat] /\ issued'[p] = issued[p]
    BY <1>2
  <1> QED BY <1>12, <1>13, <1>14, Becoming DEF p

\* A link that goes up or down, an application that resets.
LEMMA LinkServes ==
    ASSUME IInv, Agreed, Fresh, NEW r \in Roles, Connect(r) \/ Disconnect(r) \/ ExplicitReset(r)
    PROVE  Agreed' /\ \A s \in Roles : Serves(s)
  <1>1. CASE Connect(r) \/ Disconnect(r)
    <2>1. PICK link \in {"DISCONNECTED", "CONNECTED"} :
              /\ Becomes(r, Session_Notify_Link_State(node[r], link).e)
              /\ issued' = issued /\ (chan' = chan \/ chan' = [chan EXCEPT ![r] = <<>>])
      BY <1>1 DEF Connect, Disconnect
    <2> DEFINE e == Session_Notify_Link_State(node[r], link).e
    <2>2. /\ Sound(e) /\ e.role = r /\ Interrupted(node[r], e)
          /\ e.parser.body \in {node[r].parser.body, NoFrame}
          /\ ~ Reported(node[r], e, "DELIVERY_CONFIRMED")
      BY LinkInterrupts
    <2>3. Becomes(r, e) /\ issued' = issued /\ (chan' = chan \/ chan' = [chan EXCEPT ![r] = <<>>])
      BY <2>1
    <2> HIDE DEF e
    <2> QED BY <2>2, <2>3, Interrupting
  <1>2. CASE ExplicitReset(r)
    <2> DEFINE e == Profile_Reset(node[r])
    <2>1. Sound(node[r]) /\ node[r].role = r /\ node[r] \in Endpoint
      BY Knowing
    <2>2. /\ Sound(e) /\ e.parser = EmptyParser /\ e.role = r /\ Clears(node[r], e)
          /\ e.events = <<>>
      BY <2>1, Resetting
    <2>3. Becomes(r, e) /\ issued' = issued /\ chan' = chan
      BY <1>2 DEF ExplicitReset
    <2> HIDE DEF e
    <2>4. ~ Reported(node[r], e, "DELIVERY_CONFIRMED")
      <3>1. Len(node[r].events) \in Nat /\ Len(e.events) = 0
        BY <2>1, <2>2 DEF Endpoint, EndpointRecord
      <3> QED BY <3>1 DEF Reported
    <2>5. Interrupted(node[r], e) /\ e.parser.body = NoFrame
      BY <2>2 DEF Interrupted, EmptyParser
    <2> QED BY <2>2, <2>3, <2>4, <2>5, Interrupting
  <1> QED BY <1>1, <1>2

\* A hard recovery interrupts first the host and then the rig, and empties the wire.
LEMMA RecoveryServes ==
    ASSUME IInv, Agreed, Fresh, HardRecovery
    PROVE  Agreed' /\ \A s \in Roles : Serves(s)
  <1> DEFINE E(r) == Session_Notify_Link_State(node[r], "DISCONNECTED").e
  <1>1. \A r \in Roles : /\ Sound(E(r)) /\ E(r).role = r /\ Interrupted(node[r], E(r))
                         /\ E(r).parser.body \in {Body(r), NoFrame}
    BY LinkInterrupts DEF Body
  <1>2. /\ node' = [r \in Roles |-> E(r)] /\ chan' = [r \in Roles |-> <<>>]
        /\ issued' = issued /\ accepted' = accepted /\ confirmed' = confirmed
    BY DEF HardRecovery, seen
  <1> HIDE DEF E
  <1> DEFINE h == node["HOST"]
             g == node["RIG"]
             h2 == E("HOST")
             g2 == E("RIG")
             Ih == Toward("HOST")
             Ig == Toward("RIG")
             Ph == Ordering("HOST")
             Pg == Ordering("RIG")
             Ah == Accepted("HOST")
             Ag == Accepted("RIG")
             nh == issued["HOST"]
             ng == issued["RIG"]
  <1>3. "HOST" \in Roles /\ "RIG" \in Roles /\ Peer("HOST") = "RIG" /\ Peer("RIG") = "HOST"
    BY DEF Roles, Peer
  <1>4. /\ Shaped(h) /\ h.role = "HOST" /\ nh \in Nat /\ NoMessage = 0
        /\ AgreedAt("HOST") /\ chan["HOST"] \in Seq(Carried)
    BY <1>3, Knowing
  <1>5. Shaped(g) /\ g.role = "RIG" /\ ng \in Nat /\ chan["RIG"] \in Seq(Carried)
    BY <1>3, Knowing
  <1>6. /\ Shaped(h2) /\ h2.role = "HOST" /\ Interrupted(h, h2)
        /\ Shaped(g2) /\ g2.role = "RIG" /\ Interrupted(g, g2)
    BY <1>1, <1>3, Shape
  <1>7. /\ First(Body("HOST"), Ih, Ph) /\ Within(Ih, Ph)
        /\ First(Body("RIG"), Ig, Pg) /\ Within(Ig, Pg)
    BY HeldFirst DEF Toward, Ordering
  <1>8. Unused("HOST", h, g, Ih, Ig) /\ Unused("RIG", g, h2, Ig, Ih)
    BY <1>3, FreshUnused DEF Unused
  <1>9. Joint("HOST", h, g, Ih, Ig, Ph, Pg, Ah, Ag, nh, ng)
    BY <1>3, <1>4 DEF AgreedAt
  <1>10. Shrinks(Ih, Ph, Toward("HOST")', Ordering("HOST")')
         /\ Shrinks(Ig, Pg, Toward("RIG")', Ordering("RIG")')
    <2>1. \A r \in Roles : Body(r)' = Body(r) \/ Inert(Body(r)')
      BY <1>1, <1>2 DEF Body, Inert, NoFrame, FrameTypes, ReliableTypes, ControlTypes
    <2>2. \A r \in Roles : chan'[r] = <<>> /\ chan[r] \in Seq(Carried)
      BY <1>2, <1>4, <1>5 DEF Roles
    <2>3. ASSUME NEW r \in Roles
          PROVE  Shrinks(Toward(r), Ordering(r), Toward(r)', Ordering(r)')
      <3> DEFINE b == Body(r)
                 b2 == Body(r)'
                 q == chan[r]
                 q2 == chan'[r]
      <3>1. (b2 = b \/ Inert(b2)) /\ q2 = <<>> /\ q \in Seq(Carried)
        BY <2>1, <2>2
      <3> HIDE DEF b, b2, q, q2
      <3>2. Shrinks(Coming(b, q), Order(b, q), Coming(b2, q2), Order(b2, q2))
        BY <3>1, BodiesDrain
      <3> QED BY <3>2 DEF Toward, Ordering, b, b2, q, q2
    <2> QED BY <1>3, <2>3
  <1> HIDE DEF h, g, h2, g2, Ih, Ig, Ph, Pg, Ah, Ag, nh, ng
  <1>11. Joint("HOST", h2, g, Ih, Ig, Ph, Pg, Ah, Ag, nh, ng)
    BY <1>3, <1>4, <1>5, <1>6, <1>7, <1>8, <1>9, JointInterrupted
  <1>12. Joint("RIG", g, h2, Ig, Ih, Pg, Ph, Ag, Ah, ng, nh)
    BY <1>11 DEF Joint
  <1>13. Joint("RIG", g2, h2, Ig, Ih, Pg, Ph, Ag, Ah, ng, nh)
    BY <1>3, <1>4, <1>5, <1>6, <1>7, <1>8, <1>12, JointInterrupted
  <1>14. Joint("RIG", g2, h2, Toward("RIG")', Toward("HOST")', Ordering("RIG")', Ordering("HOST")',
               Ag, Ah, ng, nh)
    BY <1>4, <1>5, <1>10, <1>13, JointShrinks
  <1>15. World(h2, g2, Toward("HOST")', Toward("RIG")', Ordering("HOST")', Ordering("RIG")',
               Ah, Ag, nh, ng)
    BY <1>14 DEF Joint
  <1>16. Recorded'
    <2>1. Recorded
      BY DEF Agreed
    <2>2. \A r \in Roles : node'[r].received \in {node[r].received, NoMessage}
      BY <1>1, <1>2, InterruptedWork
    <2>3. \A r \in Roles : Accepted(r)' = Accepted(r)
      BY <1>2 DEF Accepted
    <2> QED BY <1>2, <2>1, <2>2, <2>3 DEF Recorded
  <1>17. Agreed'
    <2>1. World(node["HOST"], node["RIG"], Toward("HOST"), Toward("RIG"), Ordering("HOST"),
                Ordering("RIG"), Accepted("HOST"), Accepted("RIG"), issued["HOST"], issued["RIG"])'
      BY <1>2, <1>3, <1>15 DEF h2, g2, Ah, Ag, nh, ng, Accepted
    <2> QED BY <1>16, <2>1 DEF Agreed
  <1>18. ASSUME NEW s \in Roles PROVE Serves(s)
    <2>1. node'[s].submitted \in {node[s].submitted, NoMessage}
      BY <1>1, <1>2, InterruptedWork
    <2> QED BY <1>2, <2>1 DEF Serves
  <1> QED BY <1>17, <1>18

-----------------------------------------------------------------------------
(* Sending, submitting, reading *)

\* Nothing the peer depends on: what was pinned or released is the output's own affair.
LEMMA OutputAlike ==
    ASSUME NEW e, Sound(e), NEW q,
           q = Profile_Peek_Output(e, TRUE) \/ q = Profile_Commit_Output(e)
    PROVE  /\ Sound(q) /\ Aspect(q) = Aspect(e) /\ q.parser = e.parser /\ q.events = e.events
           /\ q.submitted = e.submitted /\ q.received = e.received /\ q.role = e.role
  <1>1. /\ e \in Endpoint /\ e.out \in OutputRecord({0}) /\ e.state # "FAULT"
        /\ Output_Coherent(e.out, Recovering(e))
    BY SessionScope DEF Sound, Endpoint, EndpointRecord
  <1>2. Sound(q) /\ q = [e EXCEPT !.out = q.out]
    BY Peeking, Committing
  <1>3. q.out.nextTx = e.out.nextTx /\ q.out.rel.frame = e.out.rel.frame
    <2>1. CASE q = Profile_Peek_Output(e, TRUE)
      <3>1. q = [e EXCEPT !.out = Output_Peek(e.out, TRUE)]
        BY <1>1, <2>1 DEF Profile_Peek_Output
      <3>2. q.out = Output_Peek(e.out, TRUE)
        BY <1>1, <3>1 DEF Endpoint, EndpointRecord
      <3>3. Output_Peek(e.out, TRUE).rel.frame = e.out.rel.frame
        BY <1>1, PeekCoherent
      <3>4. Output_Peek(e.out, TRUE).nextTx = e.out.nextTx
        BY <1>1 DEF Output_Peek, Reliability_Peek, OutputRecord
      <3> QED BY <3>2, <3>3, <3>4
    <2>2. CASE q = Profile_Commit_Output(e)
      <3>1. q = [e EXCEPT !.out = Output_Commit(e.out, 0)]
        BY <1>1, <2>2 DEF Profile_Commit_Output
      <3>2. q.out = Output_Commit(e.out, 0)
        BY <1>1, <3>1 DEF Endpoint, EndpointRecord
      <3>3. /\ Output_Commit(e.out, 0).rel.frame = e.out.rel.frame
            /\ Output_Commit(e.out, 0).nextTx = e.out.nextTx
        BY <1>1 DEF Output_Commit, Reliability_Commit, OutputRecord
      <3> QED BY <3>2, <3>3
    <2> QED BY <2>1, <2>2
  <1>4. /\ q.id = e.id /\ q.phase = e.phase /\ q.lastRx = e.lastRx /\ q.parser = e.parser
        /\ q.events = e.events /\ q.submitted = e.submitted /\ q.received = e.received
        /\ q.role = e.role
    BY <1>1, <1>2 DEF Endpoint, EndpointRecord
  <1> QED BY <1>2, <1>3, <1>4 DEF Aspect, Outgoing, Incoming

\* A step of r that reports nothing, submits nothing and accepts nothing.
LEMMA Acting ==
    ASSUME IInv, Agreed, NEW r \in Roles, NEW e, Sound(e), Becomes(r, e), issued' = issued,
           e.events = node[r].events, e.submitted = node[r].submitted,
           e.received \in {node[r].received, NoMessage},
           Joint(r, e, node[Peer(r)],
                 Coming(e.parser.body, chan'[r]), Coming(Body(Peer(r)), chan'[Peer(r)]),
                 Order(e.parser.body, chan'[r]), Order(Body(Peer(r)), chan'[Peer(r)]),
                 Accepted(r), Accepted(Peer(r)), issued[r], issued[Peer(r)])
    PROVE  Agreed' /\ \A s \in Roles : Serves(s)
  <1>1. /\ node[r] \in Endpoint /\ issued \in [Roles -> Nat] /\ e \in Endpoint
        /\ Peer(r) \in Roles
    BY Knowing, EitherSide DEF Sound
  <1>2. ~ Confirms(r, e)
    <2>1. ~ Reported(node[r], e, "DELIVERY_CONFIRMED")
      <3>1. Len(node[r].events) \in Nat
        BY <1>1 DEF Endpoint, EndpointRecord
      <3> QED BY <3>1 DEF Reported
    <2> QED BY <1>1, <2>1, Confirming
  <1>3. Newer(node[r], e, Accepted(r), issued[Peer(r)])
    BY DEF Newer
  <1>4. Answers(r, e)
    BY <1>2 DEF Answers
  <1>5. issued' \in [Roles -> Nat] /\ issued'[Peer(r)] = issued[Peer(r)] /\ issued'[r] = issued[r]
    BY <1>1
  <1> QED BY <1>3, <1>4, <1>5, Becoming

\* What is offered is pinned.
LEMMA PeekServes ==
    ASSUME IInv, Agreed, NEW r \in Roles, Peek(r)
    PROVE  Agreed' /\ \A s \in Roles : Serves(s)
  <1> DEFINE p == Peer(r)
             e == Profile_Peek_Output(node[r], TRUE)
  <1>1. Becomes(r, e) /\ chan' = chan /\ issued' = issued
    BY DEF Peek
  <1>2. Sound(node[r]) /\ AgreedAt(r)
    BY Knowing
  <1>3. /\ Sound(e) /\ Aspect(e) = Aspect(node[r]) /\ e.parser = node[r].parser
        /\ e.events = node[r].events /\ e.submitted = node[r].submitted
        /\ e.received = node[r].received
    BY <1>2, OutputAlike
  <1> HIDE DEF e
  <1>4. Joint(r, e, node[p], Toward(r), Toward(p), Ordering(r), Ordering(p),
              Accepted(r), Accepted(p), issued[r], issued[p])
    BY <1>2, <1>3, JointAlike DEF AgreedAt
  <1>5. Joint(r, e, node[p], Coming(e.parser.body, chan'[r]), Coming(Body(p), chan'[p]),
              Order(e.parser.body, chan'[r]), Order(Body(p), chan'[p]),
              Accepted(r), Accepted(p), issued[r], issued[p])
    BY <1>1, <1>3, <1>4 DEF Toward, Ordering, Body
  <1> QED BY <1>1, <1>3, <1>5, Acting

\* What was pinned is put on the wire.
LEMMA CommitServes ==
    ASSUME IInv, Agreed, NEW r \in Roles, Commit(r)
    PROVE  Agreed' /\ \A s \in Roles : Serves(s)
  <1> DEFINE p == Peer(r)
             e == Profile_Commit_Output(node[r])
             f == Output_Bytes(node[r].out)
  <1>1. /\ Becomes(r, e) /\ chan' = [chan EXCEPT ![p] = Append(@, f)] /\ issued' = issued
        /\ node[r].out.sel # "NONE"
    BY DEF Commit
  <1>2. /\ Sound(node[r]) /\ AgreedAt(r) /\ Shaped(node[r]) /\ node[r].role = r
        /\ issued[r] \in Nat /\ node[r].received \in Accepted(r) \cup {NoMessage}
        /\ chan \in [Roles -> Seq(Carried)] /\ NoMessage = 0
    BY Knowing
  <1>3. p \in Roles /\ p # r
    BY EitherSide
  <1>4. /\ Shaped(node[p]) /\ node[p].role = p /\ issued[p] \in Nat
        /\ chan[p] \in Seq(Carried)
    BY <1>3, Knowing
  <1>5. /\ Sound(e) /\ Aspect(e) = Aspect(node[r]) /\ e.parser = node[r].parser
        /\ e.events = node[r].events /\ e.submitted = node[r].submitted
        /\ e.received = node[r].received
    BY <1>2, OutputAlike
  <1>6. Emits(node[r], f) /\ f \in Carried
    BY <1>1, <1>2, Emitting, Offering DEF Carried
  <1> HIDE DEF e, f, p
  <1>7. chan'[p] = Append(chan[p], f) /\ chan'[r] = chan[r]
    BY <1>1, <1>2, <1>3
  <1> DEFINE Ip2 == Coming(Body(p), chan'[p])
             Pp2 == Order(Body(p), chan'[p])
  <1>8. Grows(Toward(p), Ordering(p), f, Ip2, Pp2)
    BY <1>4, <1>6, <1>7, QueueGrows DEF Toward, Ordering
  <1> HIDE DEF Ip2, Pp2
  <1>9. Joint(r, node[r], node[p], Toward(r), Ip2, Ordering(r), Pp2,
              Accepted(r), Accepted(p), issued[r], issued[p])
    BY <1>2, <1>4, <1>6, <1>8, JointEmits DEF AgreedAt, p
  <1>10. Joint(r, e, node[p], Toward(r), Ip2, Ordering(r), Pp2,
               Accepted(r), Accepted(p), issued[r], issued[p])
    BY <1>5, <1>9, JointAlike
  <1>11. Joint(r, e, node[p], Coming(e.parser.body, chan'[r]), Ip2,
               Order(e.parser.body, chan'[r]), Pp2,
               Accepted(r), Accepted(p), issued[r], issued[p])
    BY <1>5, <1>7, <1>10 DEF Toward, Ordering, Body
  <1> QED BY <1>1, <1>5, <1>11, Acting DEF Ip2, Pp2, p

\* The next message is submitted.
LEMMA SubmitServes ==
    ASSUME IInv, Agreed, NEW r \in Roles, Submit(r)
    PROVE  Agreed' /\ \A s \in Roles : Serves(s)
  <1> DEFINE p == Peer(r)
             m == issued[r] + 1
             e == Application_Submit(node[r], m)
  <1>1. /\ Becomes(r, e) /\ chan' = chan /\ issued' = [issued EXCEPT ![r] = m]
        /\ Application_CanSubmit(node[r]) /\ issued[r] < scenario.issues[r]
    BY DEF Submit
  <1>2. /\ Sound(node[r]) /\ AgreedAt(r) /\ node[r] \in Endpoint /\ issued \in [Roles -> Nat]
        /\ issued[r] \in Nat
    BY Knowing
  <1>3. p \in Roles /\ p # r
    BY EitherSide
  <1>4. m \in Messages
    <2>1. scenario.issues \in [Roles -> Nat] /\ 1 .. scenario.issues[r] \subseteq Messages
      BY Standing, PairAssumption DEF PairAssumption
    <2> QED BY <1>1, <1>2, <2>1
  <1>5. /\ Sound(e) /\ e = [node[r] EXCEPT !.out = e.out, !.submitted = m]
    BY <1>1, <1>2, <1>4, Submitting
  <1>6. /\ e.out.nextTx = node[r].out.nextTx /\ e.out.rel.frame.msg = m
        /\ e.out.rel.frame.type = "APPLICATION"
    <2> DEFINE frame == MakeFrame("APPLICATION", node[r].id, node[r].out.nextTx, 0, m)
    <2>1. e.out = Reliability_Publish(node[r].out, frame)
      BY <1>2 DEF Application_Submit, Endpoint, EndpointRecord
    <2>2. frame.msg = m /\ frame.type = "APPLICATION"
      BY DEF MakeFrame
    <2> HIDE DEF frame, e
    <2>3. node[r].out \in OutputRecord({0})
      BY <1>2 DEF Endpoint, EndpointRecord
    <2> QED BY <2>1, <2>2, <2>3 DEF Reliability_Publish, OutputRecord
  <1> HIDE DEF e
  <1>7. /\ e.id = node[r].id /\ e.phase = node[r].phase /\ e.lastRx = node[r].lastRx
        /\ e.received = node[r].received /\ e.events = node[r].events
        /\ e.parser = node[r].parser /\ e.submitted = m
    BY <1>2, <1>5 DEF Endpoint, EndpointRecord
  <1>8. /\ node[r].phase = "ESTABLISHED" /\ node[r].out.rel.frame = NoFrame
        /\ node[r].submitted = NoMessage
    BY <1>1, <1>2
    DEF Application_CanSubmit, Is_Established, Sound, Output_Coherent, Reliability_Coherent,
        IdleReliable
  <1>9. Submits(node[r], e, issued[r])
    BY <1>6, <1>7, <1>8 DEF Submits, Incoming
  <1>10. Joint(r, e, node[p], Toward(r), Toward(p), Ordering(r), Ordering(p),
               Accepted(r), Accepted(p), issued[r] + 1, issued[p])
    BY <1>2, <1>9, JointSubmits DEF AgreedAt
  <1>11. /\ issued' \in [Roles -> Nat] /\ issued'[p] = issued[p] /\ issued'[r] = issued[r] + 1
    BY <1>1, <1>2, <1>3
  <1>12. Joint(r, e, node[p], Coming(e.parser.body, chan'[r]), Coming(Body(p), chan'[p]),
               Order(e.parser.body, chan'[r]), Order(Body(p), chan'[p]),
               Accepted(r), Accepted(p), issued'[r], issued[p])
    BY <1>1, <1>7, <1>10, <1>11 DEF Toward, Ordering, Body
  <1>13. ~ Confirms(r, e)
    <2>1. ~ Reported(node[r], e, "DELIVERY_CONFIRMED")
      <3>1. Len(node[r].events) \in Nat
        BY <1>2 DEF Endpoint, EndpointRecord
      <3> QED BY <1>7, <3>1 DEF Reported
    <2> QED BY <1>2, <1>5, <2>1, Confirming DEF Sound
  <1>14. Newer(node[r], e, Accepted(r), issued[p]) /\ Answers(r, e)
    BY <1>7, <1>8, <1>11, <1>13 DEF Newer, Answers
  <1> HIDE DEF m
  <1> QED BY <1>1, <1>7, <1>11, <1>12, <1>14, Becoming

\* The message is taken: it was accepted before.
LEMMA ReadServes ==
    ASSUME IInv, Agreed, NEW r \in Roles, Read(r)
    PROVE  Agreed' /\ \A s \in Roles : Serves(s)
  <1> DEFINE p == Peer(r)
             e == Application_Read(node[r])
  <1>1. Becomes(r, e) /\ chan' = chan /\ issued' = issued
    BY DEF Read
  <1>2. /\ Sound(node[r]) /\ AgreedAt(r) /\ node[r] \in Endpoint
        /\ node[r].received \in Accepted(r) \cup {NoMessage}
    BY Knowing
  <1>3. Sound(e) /\ e = [node[r] EXCEPT !.received = NoMessage]
    BY <1>2, Reading DEF Application_Read
  <1> HIDE DEF e
  <1>4. /\ e.id = node[r].id /\ e.phase = node[r].phase /\ e.lastRx = node[r].lastRx
        /\ e.received = NoMessage /\ e.events = node[r].events /\ e.out = node[r].out
        /\ e.parser = node[r].parser /\ e.submitted = node[r].submitted
    BY <1>2, <1>3 DEF Endpoint, EndpointRecord
  <1>5. Outgoing(e) = Outgoing(node[r]) /\ Got(e, Accepted(r)) = Got(node[r], Accepted(r))
    BY <1>2, <1>4 DEF Outgoing, Got
  <1>6. Joint(r, e, node[p], Toward(r), Toward(p), Ordering(r), Ordering(p),
              Accepted(r), Accepted(p), issued[r], issued[p])
    <2>1. Accepted(r) \subseteq Accepted(r)
      OBVIOUS
    <2> QED BY <1>2, <1>4, <1>5, <2>1, JointRecords DEF AgreedAt
  <1>7. Joint(r, e, node[p], Coming(e.parser.body, chan'[r]), Coming(Body(p), chan'[p]),
              Order(e.parser.body, chan'[r]), Order(Body(p), chan'[p]),
              Accepted(r), Accepted(p), issued[r], issued[p])
    BY <1>1, <1>4, <1>6 DEF Toward, Ordering, Body
  <1> QED BY <1>1, <1>3, <1>4, <1>7, Acting

-----------------------------------------------------------------------------
(* What the application drains, and the wire's faults *)

\* A step in which r at most drains its events, and bodies are lost or damaged.
LEMMA Draining ==
    ASSUME IInv, Agreed, NEW r \in Roles,
           node' = node \/ node' = [node EXCEPT ![r].events = <<>>],
           issued' = issued, accepted' = accepted, confirmed' = confirmed,
           \A s \in Roles : Shrinks(Toward(s), Ordering(s), Coming(Body(s), chan'[s]),
                                    Order(Body(s), chan'[s]))
    PROVE  Agreed' /\ \A s \in Roles : Serves(s)
  <1>1. node \in [Roles -> Endpoint] /\ issued \in [Roles -> Nat]
    BY Knowing
  <1>2. \A s \in Roles :
            /\ Aspect(node'[s]) = Aspect(node[s]) /\ Body(s)' = Body(s)
            /\ node'[s].submitted = node[s].submitted /\ node'[s].received = node[s].received
    <2> SUFFICES ASSUME NEW s \in Roles
                 PROVE  /\ Aspect(node'[s]) = Aspect(node[s]) /\ Body(s)' = Body(s)
                        /\ node'[s].submitted = node[s].submitted
                        /\ node'[s].received = node[s].received
      OBVIOUS
    <2> DEFINE e == node[s]
    <2>1. e \in Endpoint
      BY <1>1
    <2>2. node'[s] = e \/ node'[s] = [e EXCEPT !.events = <<>>]
      BY <1>1
    <2> HIDE DEF e
    <2>3. /\ node'[s].id = e.id /\ node'[s].phase = e.phase /\ node'[s].out = e.out
          /\ node'[s].lastRx = e.lastRx /\ node'[s].received = e.received
          /\ node'[s].submitted = e.submitted /\ node'[s].parser = e.parser
      BY <2>1, <2>2 DEF Endpoint, EndpointRecord
    <2> QED BY <2>3 DEF Aspect, Outgoing, Incoming, Body, e
  <1> DEFINE p == Peer(r)
  <1>3. p \in Roles /\ p # r
    BY EitherSide
  <1>4. AgreedAt(r)'
    <2>1. Joint(r, node[r], node[p], Toward(r), Toward(p), Ordering(r), Ordering(p),
                Accepted(r), Accepted(p), issued[r], issued[p])
      BY Knowing DEF AgreedAt
    <2>2. /\ Toward(r)' = Coming(Body(r), chan'[r]) /\ Ordering(r)' = Order(Body(r), chan'[r])
          /\ Toward(p)' = Coming(Body(p), chan'[p]) /\ Ordering(p)' = Order(Body(p), chan'[p])
      BY <1>2, <1>3 DEF Toward, Ordering
    <2>3. /\ Shrinks(Toward(r), Ordering(r), Toward(r)', Ordering(r)')
          /\ Shrinks(Toward(p), Ordering(p), Toward(p)', Ordering(p)')
      BY <1>3, <2>2
    <2>4. Joint(r, node[r], node[p], Toward(r)', Toward(p)', Ordering(r)', Ordering(p)',
                Accepted(r), Accepted(p), issued[r], issued[p])
      BY <1>1, <1>3, <2>1, <2>3, JointShrinks
    <2>5. Joint(r, node'[r], node[p], Toward(r)', Toward(p)', Ordering(r)', Ordering(p)',
                Accepted(r), Accepted(p), issued[r], issued[p])
      BY <1>2, <2>4, JointAlike
    <2>6. node'[p] = node[p] /\ Accepted(r)' = Accepted(r) /\ Accepted(p)' = Accepted(p)
      BY <1>1, <1>3 DEF Accepted
    <2> QED BY <2>5, <2>6 DEF AgreedAt
  <1>5. Recorded'
    <2>1. Recorded
      BY DEF Agreed
    <2>2. \A s \in Roles : Accepted(s)' = Accepted(s)
      BY DEF Accepted
    <2> QED BY <1>2, <2>1, <2>2 DEF Recorded
  <1>6. Agreed'
    BY <1>4, <1>5 DEF Agreed, AgreedAt, Joint, Peer, Roles
  <1>7. \A s \in Roles : Serves(s)
    BY <1>2 DEF Serves
  <1> QED BY <1>6, <1>7

\* Events are drained; a body is lost, damaged or cut short.
LEMMA DrainServes ==
    ASSUME IInv, Agreed, NEW r \in Roles, ReadEvents(r) \/ Lose(r) \/ Damage(r) \/ Truncate(r)
    PROVE  Agreed' /\ \A s \in Roles : Serves(s)
  <1>1. /\ node' = node \/ node' = [node EXCEPT ![r].events = <<>>]
        /\ issued' = issued /\ accepted' = accepted /\ confirmed' = confirmed
    BY DEF ReadEvents, Lose, Damage, Truncate, seen
  <1>2. ASSUME NEW s \in Roles
        PROVE  Shrinks(Toward(s), Ordering(s), Coming(Body(s), chan'[s]), Order(Body(s), chan'[s]))
    <2> DEFINE q == chan[s]
               q2 == chan'[s]
    <2>1. chan \in [Roles -> Seq(Carried)] /\ q \in Seq(Carried)
      BY Knowing
    <2>2. Inert(MalformedBody) /\ Inert(PartialInput)
      BY DEF Inert, MalformedBody, PartialInput, NoFrame, FrameTypes, ReliableTypes, ControlTypes
    <2>3. \/ q2 = q \/ q2 = <<>>
          \/ q # <<>> /\ q2 = Tail(q)
          \/ q # <<>> /\ \E x : Inert(x) /\ q2 = [q EXCEPT ![1] = x]
      BY <2>1, <2>2 DEF ReadEvents, Lose, Damage, Truncate
    <2> HIDE DEF q, q2
    <2>4. Shrinks(Coming(Body(s), q), Order(Body(s), q), Coming(Body(s), q2), Order(Body(s), q2))
      BY <2>1, <2>3, QueueChanges
    <2> QED BY <2>4 DEF Toward, Ordering, q, q2
  <1> QED BY <1>1, <1>2, Draining

-----------------------------------------------------------------------------
(* The message service *)

\* In the beginning nothing is under way.
LEMMA AgreedAtFirst == Init => Agreed
  <1> SUFFICES ASSUME Init PROVE Agreed
    OBVIOUS
  <1> DEFINE E(r) == InitialEndpoint(r, IF r = "HOST" THEN 1 ELSE NoSession)
             h == node["HOST"]
             g == node["RIG"]
  <1>1. node = [r \in Roles |-> E(r)] /\ chan = [r \in Roles |-> <<>>]
        /\ issued = [r \in Roles |-> 0] /\ accepted = [r \in Roles |-> <<>>]
        /\ confirmed = [r \in Roles |-> {}]
    BY DEF Init
  <1>2. \A r \in Roles :
            /\ node[r].phase = "INACTIVE" /\ node[r].received = NoMessage
            /\ node[r].lastRx = NoBaseline /\ node[r].parser.body = NoFrame
            /\ node[r].out.rel.frame = NoFrame /\ node[r].out.nextTx = InitialSequence
    BY <1>1 DEF InitialEndpoint, InitialOutput, IdleReliable, EmptyParser
  <1>3. \A r \in Roles : Accepted(r) = {} /\ Toward(r) = {NoFrame} /\ issued[r] = 0
    <2>1. Elements(<<>>) = {}
      BY DEF Elements
    <2> QED BY <1>1, <1>2, <2>1 DEF Accepted, Toward, Coming, Body
  <1>4. Recorded
    <2>1. accepted \in [Roles -> Seq(Nat)]
      BY <1>1
    <2> QED BY <1>1, <1>2, <2>1 DEF Recorded
  <1>5. NoFrame.type = "INVALID" /\ NoBaseline.type = "INVALID"
    BY DEF NoFrame, NoBaseline
  <1>6. \A r \in Roles : OpeningEnd(node[r])
    BY <1>2, <1>5 DEF OpeningEnd, Opening
  <1>7. ASSUME NEW r \in Roles
        PROVE  Lane(node[r], node[Peer(r)], Toward(r), Toward(Peer(r)), Ordering(r),
                    Ordering(Peer(r)), Accepted(Peer(r)), issued[r])
    <2> DEFINE p == Peer(r)
    <2>1. p \in Roles
      BY EitherSide
    <2>2. \A f, k : <<f, k>> \in Ordering(p) => InOrder(f, k)
      <3>1. \A f, k : <<f, k>> \in Ordering(p) => f = NoFrame /\ k = NoFrame
        BY <1>3, <2>1, HeldFirst DEF Ordering, Toward, Within
      <3> QED BY <1>5, <3>1 DEF InOrder, Evidence
    <2> HIDE DEF p
    <2>3. Sending(node[r], node[p], Toward(p), Accepted(p), issued[r])
      BY <1>2, <1>3, <1>5, <2>1 DEF Sending, Got, InOrder, Evidence
    <2> QED BY <1>2, <2>2, <2>3 DEF Lane, p
  <1>8. Agreeing(h, g, Toward("HOST"), Toward("RIG"))
    BY <1>2, <1>3, <1>5 DEF Agreeing, Evidence, Roles
  <1>9. "HOST" \in Roles /\ "RIG" \in Roles /\ Peer("HOST") = "RIG" /\ Peer("RIG") = "HOST"
    BY DEF Roles, Peer
  <1>10. World(h, g, Toward("HOST"), Toward("RIG"), Ordering("HOST"), Ordering("RIG"),
               Accepted("HOST"), Accepted("RIG"), issued["HOST"], issued["RIG"])
    <2>1. /\ Lane(h, g, Toward("HOST"), Toward("RIG"), Ordering("HOST"), Ordering("RIG"),
                  Accepted("RIG"), issued["HOST"])
          /\ Lane(g, h, Toward("RIG"), Toward("HOST"), Ordering("RIG"), Ordering("HOST"),
                  Accepted("HOST"), issued["RIG"])
      BY <1>7, <1>9
    <2>2. \A f \in Toward("HOST") \cup Toward("RIG") : f.type = "INVALID"
      BY <1>3, <1>5, <1>9
    <2> QED BY <1>6, <1>8, <1>9, <2>1, <2>2 DEF World, Opening
  <1> QED BY <1>4, <1>10 DEF Agreed

\* Every step is one of the service in either direction, and the two ends still agree.
LEMMA EveryStepServes ==
    ASSUME IInv, Agreed, Fresh, [Next]_vars
    PROVE  Agreed' /\ \A s \in Roles : Serves(s)
  <1>1. CASE UNCHANGED vars
    <2>1. /\ node' = node /\ issued' = issued /\ chan' = chan
          /\ accepted' = accepted /\ confirmed' = confirmed
      BY <1>1 DEF vars
    <2>2. Agreed'
      BY <2>1 DEF Agreed, Recorded, Toward, Ordering, Accepted, Body
    <2>3. \A s \in Roles : Serves(s)
      BY <2>1 DEF Serves
    <2> QED BY <2>2, <2>3
  <1>2. CASE Next
    <2>1. Step
      BY <1>2 DEF Next
    <2>2. CASE HardRecovery
      BY <2>2, RecoveryServes
    <2>3. CASE ~ HardRecovery
      <3>1. PICK r \in Roles :
                \/ Connect(r) \/ Disconnect(r) \/ ExplicitReset(r)
                \/ Submit(r) \/ Read(r) \/ ReadEvents(r)
                \/ Peek(r) \/ Commit(r) \/ Deliver(r)
                \/ Process(r) \/ Timeout(r) \/ EarlyTimeout(r)
                \/ Lose(r) \/ Damage(r) \/ Truncate(r)
        BY <2>1, <2>3 DEF Step
      <3>2. CASE Connect(r) \/ Disconnect(r) \/ ExplicitReset(r)
        BY <3>2, LinkServes
      <3>3. CASE Submit(r)
        BY <3>3, SubmitServes
      <3>4. CASE Read(r)
        BY <3>4, ReadServes
      <3>5. CASE Peek(r)
        BY <3>5, PeekServes
      <3>6. CASE Commit(r)
        BY <3>6, CommitServes
      <3>7. CASE Deliver(r)
        BY <3>7, DeliverServes
      <3>8. CASE Process(r) \/ Timeout(r) \/ EarlyTimeout(r)
        BY <3>8, ProcessServes
      <3>9. CASE ReadEvents(r) \/ Lose(r) \/ Damage(r) \/ Truncate(r)
        BY <3>9, DrainServes
      <3> QED BY <3>1, <3>2, <3>3, <3>4, <3>5, <3>6, <3>7, <3>8, <3>9
    <2> QED BY <2>2, <2>3
  <1> QED BY <1>1, <1>2

\* In the words of MessageService.
LEMMA HostToRigStep ==
    ASSUME NoMessage = 0, Serves("HOST")
    PROVE  [HostToRig!Next]_HostToRig!vars
  <1> DEFINE old == node["HOST"].submitted
             new == node'["HOST"].submitted
  <1>1. Peer("HOST") = "RIG"
    BY DEF Peer
  <1>2. Accepted("RIG") = {accepted["RIG"][i] : i \in 1 .. Len(accepted["RIG"])}
    BY DEF Accepted, Elements
  <1>3. \/ HostToRig!Submit \/ HostToRig!Accept \/ HostToRig!Confirm \/ HostToRig!Abandon
        \/ UNCHANGED HostToRig!vars
    BY <1>1, <1>2 DEF Serves, HostToRig!Submit, HostToRig!Accept, HostToRig!Confirm,
                      HostToRig!Abandon, HostToRig!vars
  <1> QED BY <1>3 DEF HostToRig!Next

\* In the other direction.
LEMMA RigToHostStep ==
    ASSUME NoMessage = 0, Serves("RIG")
    PROVE  [RigToHost!Next]_RigToHost!vars
  <1>1. Peer("RIG") = "HOST"
    BY DEF Peer
  <1>2. Accepted("HOST") = {accepted["HOST"][i] : i \in 1 .. Len(accepted["HOST"])}
    BY DEF Accepted, Elements
  <1>3. \/ RigToHost!Submit \/ RigToHost!Accept \/ RigToHost!Confirm \/ RigToHost!Abandon
        \/ UNCHANGED RigToHost!vars
    BY <1>1, <1>2 DEF Serves, RigToHost!Submit, RigToHost!Accept, RigToHost!Confirm,
                      RigToHost!Abandon, RigToHost!vars
  <1> QED BY <1>3 DEF RigToHost!Next

\* The service begins with nothing submitted and nothing accepted.
LEMMA ServiceBegins == NoMessage = 0 /\ Init => HostToRig!Init /\ RigToHost!Init
  <1> SUFFICES ASSUME NoMessage = 0, Init PROVE HostToRig!Init /\ RigToHost!Init
    OBVIOUS
  <1>1. \A r \in Roles : node[r].submitted = NoMessage
    BY DEF Init, InitialEndpoint
  <1> QED BY <1>1 DEF Init, Roles, HostToRig!Init, RigToHost!Init

\* As long as no identifier comes back while an old body or the rig still names it, the
\* two ends agree on what the service needs.
THEOREM AlwaysAgreed == Spec /\ []Fresh => []Agreed
  <1>1. IInv /\ Agreed /\ Fresh /\ [Next]_vars => Agreed'
    BY EveryStepServes
  <1> QED BY <1>1, AgreedAtFirst, AlwaysKnown, PTL DEF Spec

\* The transport from host to rig implements the message service: no message is accepted
\* twice or behind a later one, and none is confirmed before the rig accepted it.
THEOREM HostToRigImplemented == Spec /\ []Fresh => HostToRigService
  <1>1. NoMessage = 0
    BY PairAssumption DEF PairAssumption
  <1>2. Init => HostToRig!Init
    BY <1>1, ServiceBegins
  <1>3. IInv /\ Agreed /\ Fresh /\ [Next]_vars => [HostToRig!Next]_HostToRig!vars
    BY <1>1, EveryStepServes, HostToRigStep DEF Roles
  <1> QED BY <1>2, <1>3, AlwaysKnown, AlwaysAgreed, PTL DEF Spec, HostToRigService, HostToRig!Spec

\* And so does the transport from rig to host.
THEOREM RigToHostImplemented == Spec /\ []Fresh => RigToHostService
  <1>1. NoMessage = 0
    BY PairAssumption DEF PairAssumption
  <1>2. Init => RigToHost!Init
    BY <1>1, ServiceBegins
  <1>3. IInv /\ Agreed /\ Fresh /\ [Next]_vars => [RigToHost!Next]_RigToHost!vars
    BY <1>1, EveryStepServes, RigToHostStep DEF Roles
  <1> QED BY <1>2, <1>3, AlwaysKnown, AlwaysAgreed, PTL DEF Spec, RigToHostService, RigToHost!Spec

-----------------------------------------------------------------------------
(* Identifiers that do not wrap *)

\* The identifiers before the host's next one.
Past(x) == 0 .. x - 1

\* The endpoint e of side r names no session from x on, or, when it is the host and has just
\* begun one, none but x; and so does the body it holds.
Dated(r, x, e) ==
    /\ e.parser.body.id \in Past(x)
    /\ \/ {e.id, e.out.resetId} \subseteq Past(x) /\ (r = "HOST" => e.nextId = x)
       \/ /\ r = "HOST" /\ e.nextId = NextSessionId(x)
          /\ {e.id, e.out.resetId} \subseteq 0 .. x
          /\ e.id = x \/ e.out.resetId # NoSession

\* Nothing names a session the host has not begun.
Prior ==
    /\ \A r \in Roles : Dated(r, node["HOST"].nextId, node[r])
    /\ \A r \in Roles : \A f \in Elements(chan[r]) : f.id \in Past(node["HOST"].nextId)

\* The endpoints of side r that a call may lead through while x is the next identifier.
DatedEnds(r, x) == {e \in Endpoint : Sound(e) /\ e.role = r /\ Dated(r, x, e)}

\* The host has a next identifier.
LEMMA NextIdentifier ==
    ASSUME IInv
    PROVE  node["HOST"].nextId \in SessionIds
  <1>1. Sound(node["HOST"]) /\ node["HOST"].role = "HOST"
    BY DEF IInv, Roles
  <1> QED BY <1>1 DEF Sound, IdentityOK, CursorValid

\* An interruption names no later session.
LEMMA InterruptedDated ==
    ASSUME NEW r \in Roles, NEW x \in SessionIds, NEW e \in DatedEnds(r, x),
           r = "HOST" => e.nextId = x, NEW e2, Interrupted(e, e2),
           e2.parser.body \in {e.parser.body, NoFrame}
    PROVE  Dated(r, x, e2)
  <1>1. x \in Nat /\ x >= 1 /\ NoSession = 0 /\ NoFrame.id = 0
    BY IdentifierAssumption DEF SessionIds, IdentifierAssumption, NoSession, NoFrame
  <1>2. /\ Sound(e) /\ e.role = r /\ Dated(r, x, e)
        /\ e.out.resetId # NoSession => e.id = NoSession
    BY SessionScope DEF DatedEnds
  <1>3. e2.parser.body.id \in Past(x)
    BY <1>1, <1>2 DEF Dated, Past
  <1>4. {e.id, e.out.resetId} \subseteq Past(x)
    <2>1. NextSessionId(x) # x
      BY <1>1, IdentifierAssumption
      DEF NextSessionId, ReservedSession, IdentifierAssumption
    <2> QED BY <1>2, <2>1 DEF Dated
  <1>5. CASE Keeps(e, e2)
    <2>1. e2.id = e.id /\ e2.nextId = e.nextId /\ e2.out.resetId = e.out.resetId
      BY <1>5 DEF Keeps, Session
    <2> QED BY <1>2, <1>3, <2>1 DEF Dated
  <1>6. CASE Clears(e, e2)
    <2>1. /\ e2.id = 0 /\ e2.nextId = e.nextId
          /\ e2.out.resetId \in {e.out.resetId, e.id, 0}
      BY <1>1, <1>6 DEF Clears
    <2> QED BY <1>1, <1>3, <1>4, <2>1 DEF Dated, Past
  <1>7. CASE Begins(e, e2)
    <2>1. /\ e.id = 0 /\ e.out.resetId = 0 /\ e2.out.resetId = 0
          /\ IF r = "HOST" THEN e2.id = e.nextId /\ e2.nextId = NextSessionId(e.nextId)
                           ELSE e2.id = 0
      BY <1>1, <1>2, <1>7 DEF Begins
    <2>2. r = "HOST" => e.nextId = x
      BY <1>1, <1>2, <2>1 DEF Dated
    <2> QED BY <1>1, <1>3, <2>1, <2>2 DEF Dated, Past
  <1> QED BY <1>5, <1>6, <1>7 DEF Interrupted

\* A call names no later session than the one it may begin.
LEMMA DatedCloses ==
    ASSUME NEW r \in Roles, NEW x \in SessionIds, NEW input, input.id \in Past(x)
    PROVE  Closed(DatedEnds(r, x), input)
  <1> DEFINE S == DatedEnds(r, x)
  <1> SUFFICES ASSUME NEW e \in S, NEW e2, Sound(e2), Moves(e, e2, input)
               PROVE  e2 \in S
    BY DEF Closed, DatedEnds
  <1> DEFINE f == e.parser.body
  <1>1. x \in Nat /\ x >= 1 /\ NoSession = 0 /\ NoFrame.id = 0
    BY IdentifierAssumption DEF SessionIds, IdentifierAssumption, NoSession, NoFrame
  <1>2. /\ Sound(e) /\ e.role = r /\ Dated(r, x, e) /\ f.id \in Past(x)
        /\ e.out.resetId # NoSession => e.id = NoSession
    BY SessionScope DEF DatedEnds, Dated
  <1>3. e2.role = r /\ e2.parser.body \in {f, NoFrame, input} /\ Moved(e, e2, f)
    BY <1>2 DEF Moves
  <1> HIDE DEF f, S
  <1>4. e2.parser.body.id \in Past(x)
    BY <1>1, <1>2, <1>3 DEF Past
  <1>5. ASSUME e2.id = e.id /\ e2.nextId = e.nextId /\ e2.out.resetId = e.out.resetId
        PROVE  Dated(r, x, e2)
    BY <1>2, <1>4, <1>5 DEF Dated
  <1>6. ASSUME Leaves(e, e2, f)
        PROVE  Dated(r, x, e2)
    <2>1. /\ e2.id = 0 /\ e2.nextId = e.nextId
          /\ e2.out.resetId \in {e.out.resetId, e.id, 0}
      BY <1>1, <1>6 DEF Leaves, Clears
    <2>2. CASE {e.id, e.out.resetId} \subseteq Past(x) /\ (r = "HOST" => e.nextId = x)
      BY <1>1, <1>4, <2>1, <2>2 DEF Dated, Past
    <2>3. CASE /\ r = "HOST" /\ e.nextId = NextSessionId(x)
               /\ {e.id, e.out.resetId} \subseteq 0 .. x
               /\ e.id = x \/ e.out.resetId # NoSession
      <3>1. \/ e.id = 0 /\ e.out.resetId = 0
            \/ e2.out.resetId # 0
            \/ e.id # 0 /\ f.id = e.id
        BY <1>1, <1>6 DEF Leaves
      <3>2. e2.out.resetId # 0
        BY <1>1, <1>2, <2>3, <3>1 DEF Past
      <3>3. {e2.id, e2.out.resetId} \subseteq 0 .. x
        BY <1>1, <2>1, <2>3
      <3> QED BY <1>1, <1>4, <2>1, <2>3, <3>2, <3>3 DEF Dated
    <2> QED BY <1>2, <2>2, <2>3 DEF Dated
  <1>7. ASSUME Begins(e, e2)
        PROVE  Dated(r, x, e2)
    <2>1. /\ e.id = 0 /\ e.out.resetId = 0 /\ e2.out.resetId = 0
          /\ IF r = "HOST" THEN e2.id = e.nextId /\ e2.nextId = NextSessionId(e.nextId)
                           ELSE e2.id = 0
      BY <1>1, <1>2, <1>7 DEF Begins
    <2>2. r = "HOST" => e.nextId = x
      BY <1>1, <1>2, <2>1 DEF Dated
    <2> QED BY <1>1, <1>4, <2>1, <2>2 DEF Dated, Past
  <1>8. ASSUME Adopts(e, e2, f)
        PROVE  Dated(r, x, e2)
    <2>1. e2.id = f.id /\ e2.out.resetId = e.out.resetId /\ r = "RIG"
      BY <1>2, <1>8 DEF Adopts, Session
    <2> QED BY <1>2, <1>4, <2>1 DEF Dated
  <1>9. \/ Leaves(e, e2, f) \/ Begins(e, e2) \/ Adopts(e, e2, f)
        \/ e2.id = e.id /\ e2.nextId = e.nextId /\ e2.out.resetId = e.out.resetId
    <2>1. Publishes(e, e2) \/ Keeps(e, e2) =>
              e2.id = e.id /\ e2.nextId = e.nextId /\ e2.out.resetId = e.out.resetId
      BY DEF Publishes, Keeps, Session
    <2>2. Replies(e, e2, f) \/ Completes(e, e2, f) \/ Joins(e, e2, f) =>
              e2.id = e.id /\ e2.nextId = e.nextId /\ e2.out.resetId = e.out.resetId
      BY DEF Replies, Completes, Joins, Session
    <2>3. Takes(e, e2, f) \/ Finishes(e, e2, f) =>
              e2.id = e.id /\ e2.nextId = e.nextId /\ e2.out.resetId = e.out.resetId
      BY DEF Takes, Finishes, Session
    <2> QED BY <1>3, <2>1, <2>2, <2>3 DEF Moved
  <1>10. Dated(r, x, e2)
    BY <1>5, <1>6, <1>7, <1>8, <1>9
  <1> QED BY <1>3, <1>10 DEF Sound, S, DatedEnds

\* What is emitted names the session or the one that is being left.
LEMMA EmittedIdentifier ==
    ASSUME NEW e, Sound(e), e.out.sel # "NONE"
    PROVE  Output_Bytes(e.out).id \in {e.id, e.out.resetId}
  <1> DEFINE f == Output_Bytes(e.out)
  <1>1. /\ e.out \in OutputRecord({0}) /\ Output_Coherent(e.out, Recovering(e))
    BY DEF Sound, Endpoint, EndpointRecord
  <1>2. CASE e.out.sel = "CONTROL"
    <2>1. f = e.out.ctl.item
      BY <1>2 DEF Output_Bytes, Output_Choice
    <2>2. f.type \in {"ACK", "RESET"}
      BY <1>1, <1>2, <2>1
      DEF Output_Coherent, Control_Coherent, ControlPeeked, OutputRecord, ControlRecord,
          ControlFrame, ControlTypes
    <2>3. f.type = "ACK" => f.id = e.id
      BY <2>1 DEF Sound, ControlOK
    <2>4. f.type = "RESET" => f = ResetFrame(e.out.resetId)
      BY <2>1 DEF Sound, ControlOK
    <2> QED BY <2>2, <2>3, <2>4 DEF ResetFrame, MakeFrame
  <1>3. CASE e.out.sel = "RELIABLE"
    <2>1. f = e.out.rel.frame
      BY <1>3 DEF Output_Bytes, Output_Choice
    <2>2. f.type \in ReliableTypes
      BY <1>1, <1>3, <2>1 DEF Output_Coherent, Reliability_Coherent, ReliablePeeked
    <2> QED BY <2>1, <2>2, Shape DEF Shaped
  <1>4. e.out.sel \in Selections
    BY <1>1 DEF OutputRecord
  <1> QED BY <1>2, <1>3, <1>4 DEF Selections

\* The bodies of a queue after one is taken, added or replaced.
LEMMA QueueElements ==
    ASSUME NEW T, NEW q \in Seq(T), NEW x \in T
    PROVE  /\ Elements(<<>>) = {}
           /\ Elements(Append(q, x)) \subseteq Elements(q) \cup {x}
           /\ q # <<>> => /\ Elements(Tail(q)) \subseteq Elements(q)
                          /\ Elements([q EXCEPT ![1] = x]) \subseteq Elements(q) \cup {x}
                          /\ Head(q) \in Elements(q)
  <1>1. Elements(<<>>) = {}
    BY DEF Elements
  <1>2. Elements(Append(q, x)) \subseteq Elements(q) \cup {x}
    BY DEF Elements
  <1>3. ASSUME q # <<>>
        PROVE  /\ Elements(Tail(q)) \subseteq Elements(q)
               /\ Elements([q EXCEPT ![1] = x]) \subseteq Elements(q) \cup {x}
               /\ Head(q) \in Elements(q)
    <2>1. Len(q) \in Nat /\ Len(q) >= 1
      BY <1>3
    <2>2. Elements(Tail(q)) \subseteq Elements(q)
      <3> SUFFICES ASSUME NEW i \in 1 .. Len(Tail(q))
                   PROVE  Tail(q)[i] \in Elements(q)
        BY DEF Elements
      <3>1. Tail(q)[i] = q[i + 1] /\ i + 1 \in 1 .. Len(q)
        BY <1>3, <2>1
      <3> QED BY <3>1 DEF Elements
    <2>3. Elements([q EXCEPT ![1] = x]) \subseteq Elements(q) \cup {x}
      <3>1. /\ Len([q EXCEPT ![1] = x]) = Len(q)
            /\ \A i \in 1 .. Len(q) : [q EXCEPT ![1] = x][i] \in {q[i], x}
        BY <2>1
      <3> QED BY <3>1 DEF Elements
    <2> QED BY <2>1, <2>2, <2>3 DEF Elements
  <1> QED BY <1>1, <1>2, <1>3

\* Every step names at most the session that may begin in it.
DatedStep(x) ==
    /\ \A r \in Roles : Dated(r, x, node'[r])
    /\ \A r \in Roles : \A f \in Elements(chan'[r]) : f.id \in Past(x)

\* A step of r that leaves the peer alone and adds no body but an old, a damaged or a current one.
LEMMA DatedStepOf ==
    ASSUME Prior, NEW r \in Roles, NEW e, Dated(r, node["HOST"].nextId, e),
           \A s \in Roles : node'[s] = IF s = r THEN e ELSE node[s],
           \A s \in Roles : \A f \in Elements(chan'[s]) :
                f \in Elements(chan[s]) \/ f.id \in Past(node["HOST"].nextId)
    PROVE  DatedStep(node["HOST"].nextId)
  BY DEF Prior, DatedStep

\* After such a step nothing names a session the host has not begun, unless the identifiers
\* have started over.
LEMMA PriorKept ==
    ASSUME IInv, NEW x, x = node["HOST"].nextId, DatedStep(x), x <= node'["HOST"].nextId
    PROVE  Prior'
  <1> DEFINE y == node'["HOST"].nextId
  <1>1. x \in SessionIds /\ x \in Nat /\ x >= 1
    BY NextIdentifier, IdentifierAssumption DEF SessionIds, IdentifierAssumption
  <1>2. Dated("HOST", x, node'["HOST"]) /\ Dated("RIG", x, node'["RIG"])
    BY DEF DatedStep, Roles
  <1>3. y = x \/ y = NextSessionId(x)
    BY <1>2 DEF Dated
  <1>4. NextSessionId(x) # x /\ (y = NextSessionId(x) => y = x + 1)
    BY <1>1, <1>3, IdentifierAssumption
    DEF NextSessionId, ReservedSession, SessionIds, IdentifierAssumption
  <1>5. Past(x) \subseteq Past(y) /\ (y = x + 1 => Past(y) = 0 .. x) /\ y \in Nat
    BY <1>1, <1>3, <1>4 DEF Past
  <1> HIDE DEF y
  <1>6. Dated("RIG", y, node'["RIG"])
    BY <1>2, <1>5 DEF Dated
  <1>7. Dated("HOST", y, node'["HOST"])
    <2>1. node'["HOST"].nextId = y
      BY DEF y
    <2>2. CASE y = x
      BY <1>2, <2>2
    <2>3. CASE y = x + 1 /\ y # x
      <3>1. {node'["HOST"].id, node'["HOST"].out.resetId} \subseteq Past(y)
        BY <1>2, <1>5, <2>1, <2>3 DEF Dated
      <3> QED BY <1>2, <1>5, <2>1, <3>1 DEF Dated
    <2> QED BY <1>3, <1>4, <1>1, <2>2, <2>3
  <1>8. \A r \in Roles : Dated(r, y, node'[r])
    BY <1>6, <1>7 DEF Roles
  <1>9. \A r \in Roles : \A f \in Elements(chan'[r]) : f.id \in Past(y)
    BY <1>5 DEF DatedStep
  <1> QED BY <1>8, <1>9 DEF Prior, y

\* Where a call starts: among the endpoints that name no later session.
LEMMA DatedAtFirst ==
    ASSUME IInv, Prior, NEW r \in Roles
    PROVE  /\ node["HOST"].nextId \in SessionIds
           /\ node[r] \in DatedEnds(r, node["HOST"].nextId)
           /\ Sound(node[r]) /\ HeldOK(node[r]) /\ node[r].role = r /\ node[r] \in Endpoint
           /\ node \in [Roles -> Endpoint] /\ chan \in [Roles -> Seq(Carried)]
           /\ {node[r].id, node[r].out.resetId} \subseteq Past(node["HOST"].nextId)
           /\ r = "HOST" => node[r].nextId = node["HOST"].nextId
           /\ NoSession \in Past(node["HOST"].nextId)
           /\ MalformedBody.id = NoSession /\ PartialInput.id = NoSession
           /\ MalformedBody \in Carried /\ PartialInput \in Carried
  <1> DEFINE x == node["HOST"].nextId
  <1>1. x \in SessionIds
    BY NextIdentifier
  <1>2. Sound(node[r]) /\ HeldOK(node[r]) /\ node[r].role = r /\ node[r] \in Endpoint
    BY DEF IInv, Sound
  <1>3. /\ node \in [Roles -> Endpoint] /\ chan \in [Roles -> Seq(Carried)]
        /\ MalformedBody \in Carried /\ PartialInput \in Carried
    BY DamagedBodies DEF IInv, PairTypes, Carried, VouchedBodies
  <1>4. Dated(r, x, node[r])
    BY DEF Prior
  <1>5. NextSessionId(x) # x /\ NoSession \in Past(x)
    BY <1>1, IdentifierAssumption
    DEF NextSessionId, ReservedSession, SessionIds, IdentifierAssumption, Past, NoSession
  <1>6. {node[r].id, node[r].out.resetId} \subseteq Past(x)
    BY <1>4, <1>5 DEF Dated
  <1>7. MalformedBody.id = NoSession /\ PartialInput.id = NoSession
    BY DEF MalformedBody, PartialInput, NoFrame
  <1> QED BY <1>1, <1>2, <1>3, <1>4, <1>5, <1>6, <1>7 DEF DatedEnds

\* The arrival of bytes.
LEMMA DeliverDated ==
    ASSUME IInv, Prior, NEW r \in Roles, Deliver(r)
    PROVE  DatedStep(node["HOST"].nextId)
  <1> DEFINE x == node["HOST"].nextId
             f == Arriving(r)
             e == Receive_Bytes(node[r], f).e
  <1>1. /\ \A s \in Roles : node'[s] = IF s = r THEN e ELSE node[s]
        /\ chan[r] # <<>> /\ (chan' = [chan EXCEPT ![r] = Tail(@)] \/ chan' = chan)
    BY DatedAtFirst DEF Deliver, Becomes
  <1>2. chan \in [Roles -> Seq(Carried)] /\ MalformedBody \in Carried
    BY DatedAtFirst
  <1>3. Elements(Tail(chan[r])) \subseteq Elements(chan[r]) /\ Head(chan[r]) \in Elements(chan[r])
    BY <1>1, <1>2, QueueElements
  <1>4. f \in AnyInput /\ f.id \in Past(x)
    <2>1. f = MalformedBody \/ f = Head(chan[r])
      BY DEF Arriving
    <2>2. Head(chan[r]) \in Carried
      BY <1>1, <1>2, ChannelType
    <2>3. f.id \in Past(x)
      BY <1>3, <2>1, DatedAtFirst DEF Prior
    <2> QED BY <1>2, <2>1, <2>2, <2>3 DEF AnyInput, Carried
  <1> HIDE DEF f
  <1>5. e \in DatedEnds(r, x)
    <2>1. Closed(DatedEnds(r, x), f)
      BY <1>4, DatedAtFirst, DatedCloses
    <2> QED BY <1>4, <2>1, DatedAtFirst, MovingReceive
  <1>6. Dated(r, x, e)
    BY <1>5 DEF DatedEnds
  <1>7. \A s \in Roles : \A b \in Elements(chan'[s]) : b \in Elements(chan[s])
    BY <1>1, <1>2, <1>3
  <1> HIDE DEF e
  <1> QED BY <1>1, <1>6, <1>7, DatedStepOf

\* A call of Process, with or without a timer that ran out.
LEMMA ProcessDated ==
    ASSUME IInv, Prior, NEW r \in Roles, Process(r) \/ Timeout(r) \/ EarlyTimeout(r)
    PROVE  DatedStep(node["HOST"].nextId)
  <1> DEFINE x == node["HOST"].nextId
  <1>1. PICK expired \in BOOLEAN :
            node' = [node EXCEPT ![r] = Profile_Process(node[r], expired).e] /\ chan' = chan
    BY DEF Process, Timeout, EarlyTimeout, Becomes
  <1> DEFINE e == Profile_Process(node[r], expired).e
  <1>2. NoInput.id \in Past(x)
    BY DatedAtFirst DEF NoInput, NoFrame
  <1>3. e \in DatedEnds(r, x)
    <2>1. Closed(DatedEnds(r, x), NoInput)
      BY <1>2, DatedAtFirst, DatedCloses
    <2> QED BY <2>1, DatedAtFirst, MovingProcess
  <1>4. Dated(r, x, e)
    BY <1>3 DEF DatedEnds
  <1>5. \A s \in Roles : node'[s] = IF s = r THEN e ELSE node[s]
    BY <1>1, DatedAtFirst
  <1> HIDE DEF e
  <1> QED BY <1>1, <1>4, <1>5, DatedStepOf

\* A link that goes up or down, an application that resets.
LEMMA LinkDated ==
    ASSUME IInv, Prior, NEW r \in Roles, Connect(r) \/ Disconnect(r) \/ ExplicitReset(r)
    PROVE  DatedStep(node["HOST"].nextId)
  <1> DEFINE x == node["HOST"].nextId
  <1>1. PICK e : /\ Interrupted(node[r], e) /\ e.parser.body \in {node[r].parser.body, NoFrame}
                 /\ node' = [node EXCEPT ![r] = e]
    <2>1. CASE Connect(r) \/ Disconnect(r)
      BY <2>1, LinkInterrupts DEF Connect, Disconnect, Becomes
    <2>2. CASE ExplicitReset(r)
      <3> DEFINE q == Profile_Reset(node[r])
      <3>1. q.parser = EmptyParser /\ Clears(node[r], q)
        BY DatedAtFirst, Resetting
      <3>2. node' = [node EXCEPT ![r] = q]
        BY <2>2 DEF ExplicitReset, Becomes
      <3> HIDE DEF q
      <3>3. Interrupted(node[r], q) /\ q.parser.body = NoFrame
        BY <3>1 DEF Interrupted, EmptyParser
      <3> QED BY <3>2, <3>3
    <2> QED BY <2>1, <2>2
  <1>2. Dated(r, x, e)
    BY <1>1, DatedAtFirst, InterruptedDated
  <1>3. \A s \in Roles : node'[s] = IF s = r THEN e ELSE node[s]
    BY <1>1, DatedAtFirst
  <1>4. \A s \in Roles : chan'[s] = chan[s] \/ chan'[s] = <<>>
    BY DatedAtFirst DEF Connect, Disconnect, ExplicitReset
  <1>5. \A s \in Roles : \A b \in Elements(chan'[s]) : b \in Elements(chan[s])
    BY <1>4 DEF Elements
  <1> QED BY <1>2, <1>3, <1>5, DatedStepOf

\* A hard recovery.
LEMMA RecoveryDated ==
    ASSUME IInv, Prior, HardRecovery
    PROVE  DatedStep(node["HOST"].nextId)
  <1> DEFINE x == node["HOST"].nextId
  <1>1. ASSUME NEW r \in Roles
        PROVE  Dated(r, x, node'[r]) /\ chan'[r] = <<>>
    <2>1. /\ Interrupted(node[r], node'[r])
          /\ node'[r].parser.body \in {node[r].parser.body, NoFrame}
          /\ chan'[r] = <<>>
      BY LinkInterrupts DEF HardRecovery
    <2> QED BY <2>1, DatedAtFirst, InterruptedDated
  <1>2. Elements(<<>>) = {}
    BY DEF Elements
  <1> QED BY <1>1, <1>2 DEF DatedStep

\* An endpoint of the same session holds to the same identifiers.
LEMMA DatedAlike ==
    ASSUME IInv, Prior, NEW r \in Roles, NEW e,
           e.id = node[r].id, e.nextId = node[r].nextId,
           e.out.resetId \in {node[r].out.resetId, NoSession},
           e.parser.body = node[r].parser.body
    PROVE  Dated(r, node["HOST"].nextId, e)
  <1>1. Dated(r, node["HOST"].nextId, node[r])
    BY DEF Prior
  <1> QED BY <1>1, DatedAtFirst DEF Dated

\* Output that is offered or sent.
LEMMA OutputDated ==
    ASSUME IInv, Prior, NEW r \in Roles, Peek(r) \/ Commit(r)
    PROVE  DatedStep(node["HOST"].nextId)
  <1> DEFINE x == node["HOST"].nextId
             o == node[r].out
  <1>1. PICK e : /\ e = Profile_Peek_Output(node[r], TRUE) \/ e = Profile_Commit_Output(node[r])
                 /\ node' = [node EXCEPT ![r] = e]
    BY DEF Peek, Commit, Becomes
  <1>2. /\ Sound(node[r]) /\ node[r] \in Endpoint /\ o \in OutputRecord({0})
        /\ node[r].state # "FAULT" /\ chan \in [Roles -> Seq(Carried)]
    BY DatedAtFirst, SessionScope DEF Endpoint, EndpointRecord
  <1>3. /\ e = [node[r] EXCEPT !.out = e.out]
        /\ e.out = Output_Peek(o, TRUE) \/ e.out = Output_Commit(o, 0)
    <2>1. PICK q : /\ e = [node[r] EXCEPT !.out = q]
                   /\ q = Output_Peek(o, TRUE) \/ q = Output_Commit(o, 0)
      BY <1>1, <1>2 DEF Profile_Peek_Output, Profile_Commit_Output, Sound
    <2>2. e.out = q
      BY <1>2, <2>1 DEF Endpoint, EndpointRecord
    <2> QED BY <2>1, <2>2
  <1>4. e.out.resetId \in {o.resetId, NoSession}
    <2>1. Output_Peek(o, TRUE).resetId = o.resetId
      BY <1>2 DEF Output_Peek, Reliability_Peek, OutputRecord
    <2>2. Output_Commit(o, 0).resetId \in {o.resetId, NoSession}
      BY <1>2 DEF Output_Commit, Reliability_Commit, OutputRecord
    <2> QED BY <1>3, <2>1, <2>2
  <1>5. /\ e.id = node[r].id /\ e.nextId = node[r].nextId
        /\ e.parser.body = node[r].parser.body
    BY <1>2, <1>3 DEF Endpoint, EndpointRecord
  <1>6. Dated(r, x, e)
    BY <1>4, <1>5, DatedAlike
  <1>7. \A s \in Roles : node'[s] = IF s = r THEN e ELSE node[s]
    BY <1>1, DatedAtFirst
  <1>8. \A s \in Roles : \A b \in Elements(chan'[s]) : b \in Elements(chan[s]) \/ b.id \in Past(x)
    <2>1. CASE Peek(r)
      BY <2>1 DEF Peek
    <2>2. CASE Commit(r)
      <3> DEFINE p == Peer(r)
                 f == Output_Bytes(o)
      <3>1. chan' = [chan EXCEPT ![p] = Append(@, f)] /\ o.sel # "NONE" /\ p \in Roles
        BY <2>2, EitherSide DEF Commit
      <3>2. f.id \in {node[r].id, o.resetId} /\ f \in Carried
        BY <1>2, <3>1, EmittedIdentifier, Offering DEF Carried
      <3>3. f.id \in Past(x)
        BY <3>2, DatedAtFirst
      <3> HIDE DEF f, p
      <3>4. Elements(Append(chan[p], f)) \subseteq Elements(chan[p]) \cup {f}
        BY <1>2, <3>1, <3>2, QueueElements
      <3> QED BY <1>2, <3>1, <3>3, <3>4
    <2> QED BY <2>1, <2>2
  <1> QED BY <1>6, <1>7, <1>8, DatedStepOf

\* What the application submits, reads or drains.
LEMMA ApplicationDated ==
    ASSUME IInv, Prior, NEW r \in Roles, Submit(r) \/ Read(r) \/ ReadEvents(r)
    PROVE  DatedStep(node["HOST"].nextId)
  <1> DEFINE x == node["HOST"].nextId
  <1>1. node[r] \in Endpoint /\ node \in [Roles -> Endpoint] /\ node[r].out \in OutputRecord({0})
    BY DatedAtFirst DEF Endpoint, EndpointRecord
  <1>2. PICK e : /\ node' = [node EXCEPT ![r] = e]
                 /\ e.id = node[r].id /\ e.nextId = node[r].nextId
                 /\ e.out.resetId = node[r].out.resetId
                 /\ e.parser.body = node[r].parser.body
    <2>1. CASE Submit(r)
      <3> DEFINE m == issued[r] + 1
                 e == Application_Submit(node[r], m)
                 frame == MakeFrame("APPLICATION", node[r].id, node[r].out.nextTx, 0, m)
      <3>1. node' = [node EXCEPT ![r] = e]
        BY <2>1 DEF Submit, Becomes
      <3>2. e = [node[r] EXCEPT !.out = Reliability_Publish(@, frame), !.submitted = m]
        BY DEF Application_Submit
      <3>3. Reliability_Publish(node[r].out, frame).resetId = node[r].out.resetId
        BY <1>1 DEF Reliability_Publish, OutputRecord
      <3> HIDE DEF m, frame
      <3>4. /\ e.id = node[r].id /\ e.nextId = node[r].nextId
            /\ e.out = Reliability_Publish(node[r].out, frame)
            /\ e.parser.body = node[r].parser.body
        BY <1>1, <3>2 DEF Endpoint, EndpointRecord
      <3> HIDE DEF e
      <3> QED BY <3>1, <3>3, <3>4
    <2>2. CASE Read(r)
      <3> DEFINE e == Application_Read(node[r])
      <3>1. node' = [node EXCEPT ![r] = e]
        BY <2>2 DEF Read, Becomes
      <3>2. /\ e.id = node[r].id /\ e.nextId = node[r].nextId /\ e.out = node[r].out
            /\ e.parser.body = node[r].parser.body
        BY <1>1 DEF Application_Read, Endpoint, EndpointRecord
      <3> HIDE DEF e
      <3> QED BY <3>1, <3>2
    <2>3. CASE ReadEvents(r)
      <3> DEFINE e == [node[r] EXCEPT !.events = <<>>]
      <3>1. node' = [node EXCEPT ![r] = e]
        BY <1>1, <2>3 DEF ReadEvents
      <3>2. /\ e.id = node[r].id /\ e.nextId = node[r].nextId /\ e.out = node[r].out
            /\ e.parser.body = node[r].parser.body
        BY <1>1 DEF Endpoint, EndpointRecord
      <3> HIDE DEF e
      <3> QED BY <3>1, <3>2
    <2> QED BY <2>1, <2>2, <2>3
  <1>3. Dated(r, x, e)
    BY <1>2, DatedAlike
  <1>4. \A s \in Roles : node'[s] = IF s = r THEN e ELSE node[s]
    BY <1>1, <1>2
  <1>5. chan' = chan
    BY DEF Submit, Read, ReadEvents
  <1> QED BY <1>3, <1>4, <1>5, DatedStepOf

\* A body that is lost, damaged or cut short.
LEMMA WireDated ==
    ASSUME IInv, Prior, NEW r \in Roles, Lose(r) \/ Damage(r) \/ Truncate(r)
    PROVE  DatedStep(node["HOST"].nextId)
  <1> DEFINE x == node["HOST"].nextId
  <1>1. chan \in [Roles -> Seq(Carried)] /\ chan[r] # <<>> /\ node' = node
    BY DatedAtFirst DEF Lose, Damage, Truncate
  <1>2. PICK q : /\ chan' = [chan EXCEPT ![r] = q]
                 /\ \/ q = Tail(chan[r])
                    \/ q = [chan[r] EXCEPT ![1] = MalformedBody]
                    \/ q = [chan[r] EXCEPT ![1] = PartialInput]
    BY <1>1 DEF Lose, Damage, Truncate
  <1>3. Elements(q) \subseteq Elements(chan[r]) \cup {MalformedBody, PartialInput}
    <2>1. chan[r] \in Seq(Carried) /\ MalformedBody \in Carried /\ PartialInput \in Carried
      BY <1>1, DatedAtFirst
    <2>2. /\ Elements(Tail(chan[r])) \subseteq Elements(chan[r])
          /\ Elements([chan[r] EXCEPT ![1] = MalformedBody])
                \subseteq Elements(chan[r]) \cup {MalformedBody}
      BY <1>1, <2>1, QueueElements
    <2>3. Elements([chan[r] EXCEPT ![1] = PartialInput])
                \subseteq Elements(chan[r]) \cup {PartialInput}
      BY <1>1, <2>1, QueueElements
    <2> QED BY <1>2, <2>2, <2>3
  <1>4. \A s \in Roles : \A b \in Elements(chan'[s]) : b \in Elements(chan[s]) \/ b.id \in Past(x)
    BY <1>1, <1>2, <1>3, DatedAtFirst
  <1>5. Dated(r, x, node[r])
    BY DEF Prior
  <1>6. \A s \in Roles : node'[s] = IF s = r THEN node[r] ELSE node[s]
    BY <1>1
  <1> QED BY <1>4, <1>5, <1>6, DatedStepOf

\* Every step.
LEMMA EveryStepDated ==
    ASSUME IInv, Prior, [Next]_vars
    PROVE  DatedStep(node["HOST"].nextId)
  <1>1. CASE UNCHANGED vars
    BY <1>1 DEF vars, Prior, DatedStep
  <1>2. CASE Next
    <2>1. CASE HardRecovery
      BY <2>1, RecoveryDated
    <2>2. CASE ~ HardRecovery
      <3>1. PICK r \in Roles :
                \/ Connect(r) \/ Disconnect(r) \/ ExplicitReset(r)
                \/ Submit(r) \/ Read(r) \/ ReadEvents(r)
                \/ Peek(r) \/ Commit(r) \/ Deliver(r)
                \/ Process(r) \/ Timeout(r) \/ EarlyTimeout(r)
                \/ Lose(r) \/ Damage(r) \/ Truncate(r)
        BY <1>2, <2>2 DEF Next, Step
      <3> QED BY <3>1, LinkDated, ApplicationDated, OutputDated, DeliverDated, ProcessDated,
                 WireDated
    <2> QED BY <2>1, <2>2
  <1> QED BY <1>1, <1>2

\* In the beginning no session is named at all.
LEMMA PriorAtFirst == Init => Prior
  <1> SUFFICES ASSUME Init PROVE Prior
    OBVIOUS
  <1>1. \A r \in Roles : /\ node[r].id = NoSession /\ node[r].out.resetId = NoSession
                         /\ node[r].parser.body.id = NoSession /\ chan[r] = <<>>
    BY DEF Init, InitialEndpoint, InitialOutput, EmptyParser, NoFrame
  <1>2. node["HOST"].nextId = 1
    BY DEF Init, InitialEndpoint, Roles
  <1>3. NoSession \in Past(1) /\ Elements(<<>>) = {}
    BY DEF NoSession, Past, Elements
  <1> QED BY <1>1, <1>2, <1>3 DEF Prior, Dated

\* What is named nowhere is fresh.
LEMMA PriorIsFresh == IInv /\ Prior => Fresh
  <1> SUFFICES ASSUME IInv, Prior PROVE Fresh
    OBVIOUS
  <1> DEFINE x == node["HOST"].nextId
  <1>1. x \in Nat /\ x \notin Past(x)
    BY NextIdentifier, IdentifierAssumption DEF Past, SessionIds, IdentifierAssumption
  <1>2. \A r \in Roles : /\ node[r].id \in Past(x) /\ Body(r).id \in Past(x)
                         /\ \A f \in Elements(chan[r]) : f.id \in Past(x)
    BY DatedAtFirst DEF Prior, Dated, Body
  <1>3. \A r \in Roles : \A f \in Toward(r) : f.id \in Past(x)
    BY <1>2 DEF Toward, Coming
  <1>4. "RIG" \in Roles
    BY DEF Roles
  <1> HIDE DEF x
  <1>5. node["RIG"].id # x /\ \A r \in Roles : \A f \in Toward(r) : f.id # x
    BY <1>1, <1>2, <1>3, <1>4
  <1> QED BY <1>5 DEF Fresh, x

\* As long as they do not, the identifier the host will use next is in no body and not the
\* rig's.
THEOREM AlwaysFresh == Spec /\ IdentifiersLast => []Fresh
  <1>1. IInv /\ Prior /\ [Next]_vars /\ [node["HOST"].nextId <= node'["HOST"].nextId]_vars
            => Prior'
    <2> SUFFICES ASSUME IInv, Prior, [Next]_vars,
                        [node["HOST"].nextId <= node'["HOST"].nextId]_vars
                 PROVE  Prior'
      OBVIOUS
    <2>1. CASE UNCHANGED vars
      BY <2>1 DEF vars, Prior
    <2>2. CASE node["HOST"].nextId <= node'["HOST"].nextId
      <3> DEFINE x == node["HOST"].nextId
      <3>1. DatedStep(x)
        BY EveryStepDated
      <3>2. x = node["HOST"].nextId /\ x <= node'["HOST"].nextId
        BY <2>2
      <3> HIDE DEF x
      <3> QED BY <3>1, <3>2, PriorKept
    <2> QED BY <2>1, <2>2
  <1> QED BY <1>1, PriorAtFirst, PriorIsFresh, AlwaysKnown, PTL DEF Spec, IdentifiersLast

\* Until the identifiers start over, the transport is the message service in either direction.
THEOREM ServiceImplemented == Spec /\ IdentifiersLast => ServesBothWays
  BY AlwaysFresh, HostToRigImplemented, RigToHostImplemented, PTL DEF ServesBothWays

-----------------------------------------------------------------------------
(* What the applications may rely on *)

HostToRigProofs ==
    INSTANCE MessageService_proofs WITH
        issued <- issued["HOST"], pending <- node["HOST"].submitted,
        accepted <- accepted["RIG"], confirmed <- confirmed["HOST"]
RigToHostProofs ==
    INSTANCE MessageService_proofs WITH
        issued <- issued["RIG"], pending <- node["RIG"].submitted,
        accepted <- accepted["HOST"], confirmed <- confirmed["RIG"]

\* Until the identifiers start over each application is handed the messages of the other in
\* the order of their submission, none twice and none that was not submitted, and every
\* message reported as delivered was.
THEOREM MessagesArriveOnce ==
    Spec /\ IdentifiersLast =>
        [](/\ HostToRig!InOrderOnce /\ HostToRig!NothingInvented /\ HostToRig!ConfirmedArrived
           /\ RigToHost!InOrderOnce /\ RigToHost!NothingInvented /\ RigToHost!ConfirmedArrived)
  <1>1. HostToRigService => [](/\ HostToRig!InOrderOnce /\ HostToRig!NothingInvented
                               /\ HostToRig!ConfirmedArrived)
    <2>1. HostToRig!Init => HostToRigProofs!Init
      BY DEF HostToRig!Init, HostToRigProofs!Init
    <2>2. [HostToRig!Next]_HostToRig!vars => [HostToRigProofs!Next]_HostToRigProofs!vars
      BY DEF HostToRig!vars, HostToRigProofs!vars, HostToRig!Next, HostToRigProofs!Next,
             HostToRig!Submit, HostToRigProofs!Submit, HostToRig!Accept, HostToRigProofs!Accept,
             HostToRig!Confirm, HostToRigProofs!Confirm, HostToRig!Abandon, HostToRigProofs!Abandon
    <2>3. HostToRigProofs!InOrderOnce /\ HostToRigProofs!NothingInvented
            /\ HostToRigProofs!ConfirmedArrived
            => HostToRig!InOrderOnce /\ HostToRig!NothingInvented /\ HostToRig!ConfirmedArrived
      BY DEF HostToRig!InOrderOnce, HostToRigProofs!InOrderOnce,
             HostToRig!NothingInvented, HostToRigProofs!NothingInvented,
             HostToRig!ConfirmedArrived, HostToRigProofs!ConfirmedArrived,
             HostToRig!Delivered, HostToRigProofs!Delivered
    <2> QED BY <2>1, <2>2, <2>3, HostToRigProofs!Guarantees, PTL
            DEF HostToRigService, HostToRig!Spec, HostToRigProofs!Spec
  <1>2. RigToHostService => [](/\ RigToHost!InOrderOnce /\ RigToHost!NothingInvented
                               /\ RigToHost!ConfirmedArrived)
    <2>1. RigToHost!Init => RigToHostProofs!Init
      BY DEF RigToHost!Init, RigToHostProofs!Init
    <2>2. [RigToHost!Next]_RigToHost!vars => [RigToHostProofs!Next]_RigToHostProofs!vars
      BY DEF RigToHost!vars, RigToHostProofs!vars, RigToHost!Next, RigToHostProofs!Next,
             RigToHost!Submit, RigToHostProofs!Submit, RigToHost!Accept, RigToHostProofs!Accept,
             RigToHost!Confirm, RigToHostProofs!Confirm, RigToHost!Abandon, RigToHostProofs!Abandon
    <2>3. RigToHostProofs!InOrderOnce /\ RigToHostProofs!NothingInvented
            /\ RigToHostProofs!ConfirmedArrived
            => RigToHost!InOrderOnce /\ RigToHost!NothingInvented /\ RigToHost!ConfirmedArrived
      BY DEF RigToHost!InOrderOnce, RigToHostProofs!InOrderOnce,
             RigToHost!NothingInvented, RigToHostProofs!NothingInvented,
             RigToHost!ConfirmedArrived, RigToHostProofs!ConfirmedArrived,
             RigToHost!Delivered, RigToHostProofs!Delivered
    <2> QED BY <2>1, <2>2, <2>3, RigToHostProofs!Guarantees, PTL
            DEF RigToHostService, RigToHost!Spec, RigToHostProofs!Spec
  <1> QED BY <1>1, <1>2, ServiceImplemented, PTL DEF ServesBothWays

=============================================================================
