------------------------ MODULE TransportEndpoint_proofs ------------------------
(***************************************************************************)
(* Safety of one endpoint for every sequence width, identifier range,      *)
(* retry bound, event capacity, set of messages and set of bodies on the   *)
(* wire.  The inductive invariant is Sound and HeldOK                      *)
(* (TransportProfile_proofs); what one call leads to gives the action      *)
(* properties.                                                             *)
(***************************************************************************)
EXTENDS TransportEndpoint, TransportProfile_proofs

IInv == Sound(endpoint) /\ HeldOK(endpoint)

-----------------------------------------------------------------------------
(* The invariant *)

\* A new context is sound.
LEMMA InitSound == Init => IInv
  BY Created DEF Init, IInv

\* Every call of the public API keeps it, whatever the wire delivers.
LEMMA StepSound == IInv /\ [Next]_endpoint => IInv'
  <1> SUFFICES ASSUME Sound(endpoint), HeldOK(endpoint), [Next]_endpoint
               PROVE  Sound(endpoint') /\ HeldOK(endpoint')
    BY DEF IInv
  <1>0. endpoint \in Endpoint
    BY DEF Sound
  <1>1. ASSUME NEW link \in {"DISCONNECTED", "CONNECTED"}, Notify_Link_State(link)
        PROVE  Sound(endpoint') /\ HeldOK(endpoint')
    <2>1. /\ Sound(endpoint')
          /\ endpoint' = endpoint \/ endpoint'.parser = EmptyParser
      BY <1>1, Linking DEF Notify_Link_State
    <2>2. CASE endpoint' = endpoint
      BY <2>1, <2>2
    <2>3. CASE endpoint'.parser = EmptyParser
      BY <2>1, <2>3 DEF HeldOK, EmptyParser
    <2> QED BY <2>1, <2>2, <2>3
  <1>2. ASSUME NEW m \in Messages, Submit_Application_Data(m)
        PROVE  Sound(endpoint') /\ HeldOK(endpoint')
    <2>1. Sound(endpoint') /\ endpoint' = [endpoint EXCEPT !.out = endpoint'.out, !.submitted = m]
      BY <1>2, Submitting DEF Submit_Application_Data
    <2>2. endpoint'.parser = endpoint.parser /\ endpoint'.id = endpoint.id
      BY <1>0, <2>1 DEF Endpoint, EndpointRecord
    <2> QED BY <2>1, <2>2 DEF HeldOK
  <1>3. ASSUME NEW input \in Inputs \cup {PartialInput, OverflowInput, NoInput}, Receive(input)
        PROVE  Sound(endpoint') /\ HeldOK(endpoint')
    <2>1. input \in AnyInput
      BY <1>3, InputAssumption DEF AnyInput, InputAssumption
    <2> QED BY <1>3, <2>1, Receiving DEF Receive
  <1>4. ASSUME NEW expired \in BOOLEAN, Process(expired)
        PROVE  Sound(endpoint') /\ HeldOK(endpoint')
    BY <1>4, Processing DEF Process
  <1>5. ASSUME NEW fits \in BOOLEAN, Peek_Output(fits)
        PROVE  Sound(endpoint') /\ HeldOK(endpoint')
    <2>1. Sound(endpoint') /\ endpoint' = [endpoint EXCEPT !.out = endpoint'.out]
      BY <1>5, Peeking DEF Peek_Output
    <2>2. endpoint'.parser = endpoint.parser /\ endpoint'.id = endpoint.id
      BY <1>0, <2>1 DEF Endpoint, EndpointRecord
    <2> QED BY <2>1, <2>2 DEF HeldOK
  <1>6. CASE Commit_Output
    <2>1. Sound(endpoint') /\ endpoint' = [endpoint EXCEPT !.out = endpoint'.out]
      BY <1>6, Committing DEF Commit_Output
    <2>2. endpoint'.parser = endpoint.parser /\ endpoint'.id = endpoint.id
      BY <1>0, <2>1 DEF Endpoint, EndpointRecord
    <2> QED BY <2>1, <2>2 DEF HeldOK
  <1>7. CASE Read_Application_Data
    <2>1. endpoint' = [endpoint EXCEPT !.received = NoMessage] /\ Sound(endpoint')
      BY <1>7, Reading DEF Read_Application_Data, Application_Read
    <2>2. endpoint'.parser = endpoint.parser /\ endpoint'.id = endpoint.id
      BY <1>0, <2>1 DEF Endpoint, EndpointRecord
    <2> QED BY <2>1, <2>2 DEF HeldOK
  <1>8. CASE Read_Event
    <2>1. endpoint' = [endpoint EXCEPT !.events = Tail(@)] /\ Sound(endpoint')
      BY <1>8, Reading DEF Read_Event
    <2>2. endpoint'.parser = endpoint.parser /\ endpoint'.id = endpoint.id
      BY <1>0, <2>1 DEF Endpoint, EndpointRecord
    <2> QED BY <2>1, <2>2 DEF HeldOK
  <1>9. CASE Reset
    BY <1>9, Resetting DEF Reset, HeldOK, EmptyParser
  <1>10. CASE Get_Status
    <2>1. endpoint' = endpoint
      BY <1>10, SessionScope DEF Get_Status, Profile_Get_Status, Sound
    <2> QED BY <2>1
  <1>11. CASE UNCHANGED endpoint
    BY <1>11
  <1> QED BY <1>1, <1>2, <1>3, <1>4, <1>5, <1>6, <1>7, <1>8, <1>9, <1>10, <1>11 DEF Next

\* The invariant holds in every reachable state.
THEOREM AlwaysSound == Spec => []IInv
  BY InitSound, StepSound, PTL DEF Spec

-----------------------------------------------------------------------------
(* Invariants *)

\* Every field of the context holds a value of its type: queue, parser, output slots,
\* identifiers and sequences never leave their ranges.
THEOREM EndpointTypes == Spec => []TypeOK
  <1>1. IInv => TypeOK
    BY DEF IInv, Sound, TypeOK, Endpoint
  <1> QED BY <1>1, AlwaysSound, PTL

\* No order of legal calls and no peer input makes one of the code's own consistency checks
\* fail: HIL_TRANSPORT_SESSION_FAULT is unreachable.
THEOREM EndpointNeverFaults == Spec => []NeverFaults
  <1>1. IInv => NeverFaults
    BY SessionScope DEF IInv, NeverFaults
  <1> QED BY <1>1, AlwaysSound, PTL

\* The retained frame is the one the handshake phase waits on, it bears the current session,
\* and it carries exactly the message the endpoint owns.
THEOREM RetainedFrameMatches == Spec => []RetainedMatchesPhase
  <1>1. IInv => RetainedMatchesPhase
    BY DEF IInv, Sound, RetainedOK, RetainedTypes, RetainedMatchesPhase, PhaseFrame
  <1> QED BY <1>1, AlwaysSound, PTL

\* An ACK on offer acknowledges the last frame accepted in the current session.
THEOREM OnlyAcceptedIsAcknowledged == Spec => []AcknowledgedIsAccepted
  <1>1. IInv => AcknowledgedIsAccepted
    BY DEF IInv, Sound, ControlOK, AcknowledgedIsAccepted
  <1> QED BY <1>1, AlwaysSound, PTL

\* The identifier whose frames are discarded as stale is never that of the current session.
THEOREM StaleIsNotCurrent == Spec => []AbandonedIsNotCurrent
  <1>1. IInv => AbandonedIsNotCurrent
    <2> SUFFICES ASSUME Sound(endpoint), endpoint.abandoned # NoSession
                 PROVE  endpoint.abandoned # endpoint.id
      BY DEF IInv, AbandonedIsNotCurrent
    <2>1. endpoint \in Endpoint /\ IdentityOK(endpoint)
      BY DEF Sound
    <2>2. CASE endpoint.role = "HOST" /\ endpoint.id # NoSession
      <3>1. endpoint.id = NextSessionId(endpoint.abandoned)
        BY <2>1, <2>2 DEF IdentityOK
      <3>2. endpoint.abandoned \in SessionIds
        BY <2>1 DEF Endpoint, EndpointRecord, SessionIdsOrNone, SessionIds, NoSession
      <3> QED BY <3>1, <3>2, NextSessionIdType
    <2>3. CASE endpoint.role = "RIG"
      BY <2>1, <2>3 DEF IdentityOK
    <2>4. CASE endpoint.id = NoSession
      BY <2>4
    <2> QED BY <2>1, <2>2, <2>3, <2>4 DEF Endpoint, EndpointRecord, Roles
  <1> QED BY <1>1, AlwaysSound, PTL

-----------------------------------------------------------------------------
(* Action properties *)

\* What each call of the public API does, as seen by the caller.
LEMMA Calls ==
    ASSUME Sound(endpoint), HeldOK(endpoint), [Next]_endpoint
    PROVE  \/ Leads(endpoint, endpoint')
           \/ Ends(endpoint, endpoint') /\ Extends(endpoint.events, endpoint'.events)
           \/ \E m \in Messages :
                 /\ Submit_Application_Data(m)
                 /\ endpoint' = [endpoint EXCEPT !.out = endpoint'.out, !.submitted = m]
                 /\ endpoint'.out.resetId = endpoint.out.resetId
           \/ Commit_Output /\ endpoint' = [endpoint EXCEPT !.out = endpoint'.out]
           \/ Read_Application_Data
           \/ Read_Event
           \/ Reset
  <1>0. endpoint \in Endpoint /\ Leads(endpoint, endpoint)
    <2>1. Follows(endpoint, endpoint)
      BY QuietStepFollows DEF Sound
    <2> QED BY <2>1, FollowingLeads DEF Sound
  <1>1. ASSUME NEW link \in {"DISCONNECTED", "CONNECTED"}, Notify_Link_State(link)
        PROVE  \/ Leads(endpoint, endpoint')
               \/ Ends(endpoint, endpoint') /\ Extends(endpoint.events, endpoint'.events)
    <2>1. /\ Extends(endpoint.events, endpoint'.events)
          /\ endpoint' = endpoint \/ Ends(endpoint, endpoint')
      BY <1>1, Linking DEF Notify_Link_State
    <2> QED BY <1>0, <2>1
  <1>2. ASSUME NEW m \in Messages, Submit_Application_Data(m)
        PROVE  /\ endpoint' = [endpoint EXCEPT !.out = endpoint'.out, !.submitted = m]
               /\ endpoint'.out.resetId = endpoint.out.resetId
    BY <1>2, Submitting DEF Submit_Application_Data
  <1>3. ASSUME NEW input \in Inputs \cup {PartialInput, OverflowInput, NoInput}, Receive(input)
        PROVE  Leads(endpoint, endpoint')
    <2>1. input \in AnyInput
      BY <1>3, InputAssumption DEF AnyInput, InputAssumption
    <2> QED BY <1>3, <2>1, Receiving DEF Receive
  <1>4. ASSUME NEW expired \in BOOLEAN, Process(expired)
        PROVE  Leads(endpoint, endpoint')
    <2>1. Sound(endpoint') /\ Follows(endpoint, endpoint')
      BY <1>4, Processing DEF Process
    <2> QED BY <2>1, FollowingLeads
  <1>5. ASSUME NEW fits \in BOOLEAN, Peek_Output(fits)
        PROVE  Leads(endpoint, endpoint')
    <2>1. Sound(endpoint') /\ Follows(endpoint, endpoint')
      BY <1>5, Peeking DEF Peek_Output
    <2> QED BY <2>1, FollowingLeads
  <1>6. CASE Commit_Output
    BY <1>6, Committing DEF Commit_Output
  <1>7. CASE Get_Status
    <2>1. endpoint' = endpoint
      BY <1>7, SessionScope DEF Get_Status, Profile_Get_Status, Sound
    <2> QED BY <1>0, <2>1
  <1>8. CASE UNCHANGED endpoint
    BY <1>0, <1>8
  <1> QED BY <1>1, <1>2, <1>3, <1>4, <1>5, <1>6, <1>7, <1>8 DEF Next

\* An accepted message waits for its reader: while its session lives only a read takes it.
THEOREM AcceptedMessagesAreKept == Spec => AcceptedMessageIsKept
  <1>1. IInv /\ [Next]_endpoint =>
          [(/\ endpoint.received # NoMessage
            /\ endpoint'.received # endpoint.received
            /\ SameSession)
           => Read_Application_Data]_endpoint
    <2> SUFFICES ASSUME Sound(endpoint), HeldOK(endpoint), [Next]_endpoint,
                        endpoint.received # NoMessage,
                        endpoint'.received # endpoint.received, SameSession
                 PROVE  Read_Application_Data
      BY DEF IInv
    <2>1. endpoint \in Endpoint /\ endpoint.id # NoSession /\ endpoint'.id = endpoint.id
      BY SessionScope DEF SameSession
    <2>2. ~ Leads(endpoint, endpoint') /\ ~ Ends(endpoint, endpoint')
      BY <2>1 DEF Leads, Ends
    <2>3. ~ Reset
      BY <2>1, Resetting DEF Reset
    <2>4. ASSUME NEW s, NEW o, endpoint' = [endpoint EXCEPT !.out = o, !.submitted = s]
                            \/ endpoint' = [endpoint EXCEPT !.out = o]
          PROVE  FALSE
      BY <2>1, <2>4 DEF Endpoint, EndpointRecord
    <2>5. ~ Read_Event
      BY <2>1 DEF Read_Event, Endpoint, EndpointRecord
    <2> QED BY <2>2, <2>3, <2>4, <2>5, Calls
  <1> QED BY <1>1, AlwaysSound, PTL DEF Spec, AcceptedMessageIsKept

\* A RESET owed to the peer is withdrawn only by transmitting it or by losing the link.
THEOREM OwedResetsAreSent == Spec => OwedResetIsSent
  <1>1. IInv /\ [Next]_endpoint =>
          [(endpoint.out.resetId # NoSession /\ endpoint'.out.resetId # endpoint.out.resetId)
           => Commit_Output \/ ~ Connected(endpoint')]_endpoint
    <2> SUFFICES ASSUME Sound(endpoint), HeldOK(endpoint), [Next]_endpoint,
                        endpoint.out.resetId # NoSession,
                        endpoint'.out.resetId # endpoint.out.resetId
                 PROVE  Commit_Output \/ ~ Connected(endpoint')
      BY DEF IInv
    <2>1. endpoint \in Endpoint
      BY DEF Sound
    <2>2. ~ Leads(endpoint, endpoint')
      BY DEF Leads
    <2>3. ~ Reset
      BY Resetting DEF Reset
    <2>4. ~ Read_Event /\ ~ Read_Application_Data
      BY <2>1 DEF Read_Event, Read_Application_Data, Application_Read, Endpoint, EndpointRecord
    <2>5. Ends(endpoint, endpoint') => ~ Connected(endpoint')
      BY DEF Ends
    <2> QED BY <2>2, <2>3, <2>4, <2>5, Calls
  <1> QED BY <1>1, AlwaysSound, PTL DEF Spec, OwedResetIsSent

\* A message leaves the sender's ownership within its session only together with the event
\* that confirms it, nothing else is confirmed, and establishing is always reported.
THEOREM OutcomesAlwaysReported == Spec => OutcomesAreReported
  <1> DEFINE ReportedOutcome ==
        /\ (endpoint.submitted # NoMessage /\ endpoint'.submitted = NoMessage /\ SameSession)
             => Reports("DELIVERY_CONFIRMED")
        /\ Reports("DELIVERY_CONFIRMED")
             => endpoint.submitted # NoMessage /\ endpoint'.submitted = NoMessage
        /\ (endpoint.state # "ESTABLISHED" /\ endpoint'.state = "ESTABLISHED")
             => Reports("SESSION_ESTABLISHED")
  <1>1. IInv /\ [Next]_endpoint => [ReportedOutcome]_endpoint
    <2> SUFFICES ASSUME Sound(endpoint), HeldOK(endpoint), [Next]_endpoint
                 PROVE  ReportedOutcome
      BY DEF IInv
    <2>1. endpoint \in Endpoint /\ (endpoint.submitted # NoMessage => endpoint.id # NoSession)
      BY SessionScope
    <2>2. endpoint.events \in Seq(EventTypes) /\ Len(endpoint.events) \in Nat
      BY <2>1 DEF Endpoint, EndpointRecord
    <2>3. \A t : Reports(t) <=> Reported(endpoint, endpoint', t)
      BY DEF Reports, Reported
    <2>4. CASE Leads(endpoint, endpoint')
      BY <2>3, <2>4 DEF Leads, SameSession
    <2>5. CASE Ends(endpoint, endpoint')
      BY <2>1, <2>3, <2>5 DEF Ends, SameSession
    <2> DEFINE NothingNew ==
          \/ endpoint'.events = endpoint.events
          \/ endpoint.events # <<>> /\ endpoint'.events = Tail(endpoint.events)
    <2>6. ASSUME NothingNew
          PROVE  \A t : ~ Reports(t)
      <3>1. CASE endpoint'.events = endpoint.events
        BY <2>2, <3>1 DEF Reports
      <3>2. CASE endpoint.events # <<>> /\ endpoint'.events = Tail(endpoint.events)
        <4>1. Len(endpoint'.events) = Len(endpoint.events) - 1
          BY <2>2, <3>2
        <4> QED BY <2>2, <4>1 DEF Reports
      <3> QED BY <2>6, <3>1, <3>2
    <2>7. ASSUME NEW m \in Messages, endpoint' = [endpoint EXCEPT !.out = endpoint'.out,
                                                                  !.submitted = m]
          PROVE  ReportedOutcome
      <3>1. endpoint'.events = endpoint.events /\ endpoint'.submitted # NoMessage
            /\ endpoint'.state = endpoint.state
        BY <2>1, <2>7, MessageAssumption DEF MessageAssumption, Endpoint, EndpointRecord
      <3> QED BY <2>6, <3>1
    <2>8. ASSUME NothingNew, endpoint'.submitted = endpoint.submitted, endpoint'.state = endpoint.state
          PROVE  ReportedOutcome
      BY <2>6, <2>8
    <2>9. CASE Commit_Output /\ endpoint' = [endpoint EXCEPT !.out = endpoint'.out]
      <3>1. endpoint'.events = endpoint.events /\ endpoint'.submitted = endpoint.submitted
            /\ endpoint'.state = endpoint.state
        BY <2>1, <2>9 DEF Endpoint, EndpointRecord
      <3> QED BY <2>8, <3>1
    <2>10. CASE Read_Application_Data
      <3>1. endpoint'.events = endpoint.events /\ endpoint'.submitted = endpoint.submitted
            /\ endpoint'.state = endpoint.state
        BY <2>1, <2>10 DEF Read_Application_Data, Application_Read, Endpoint, EndpointRecord
      <3> QED BY <2>8, <3>1
    <2>11. CASE Read_Event
      <3>1. endpoint'.events = Tail(endpoint.events) /\ endpoint.events # <<>>
            /\ endpoint'.submitted = endpoint.submitted /\ endpoint'.state = endpoint.state
        BY <2>1, <2>11 DEF Read_Event, Endpoint, EndpointRecord
      <3> QED BY <2>8, <3>1
    <2>12. CASE Reset
      <3>1. endpoint'.events = <<>> /\ endpoint'.state # "ESTABLISHED"
            /\ endpoint'.id = NoSession
        BY <2>12, Resetting DEF Reset
      <3>2. \A t : ~ Reports(t)
        BY <2>2, <3>1 DEF Reports
      <3> QED BY <2>1, <3>1, <3>2 DEF SameSession
    <2> HIDE DEF ReportedOutcome
    <2> QED BY <2>4, <2>5, <2>7, <2>9, <2>10, <2>11, <2>12, Calls
  <1> QED BY <1>1, AlwaysSound, PTL DEF Spec, OutcomesAreReported

\* Extending a queue leaves it as a prefix.
LEMMA ExtendsIsPrefix ==
    ASSUME NEW s \in Seq(EventTypes), NEW t \in Seq(EventTypes), Extends(s, t)
    PROVE  IsPrefix(s, t)
  <1>1. Len(s) \in Nat /\ Len(t) \in Nat /\ Len(s) <= Len(t)
    BY DEF Extends
  <1>2. SubSeq(t, 1, Len(s)) = s
    BY <1>1 DEF Extends
  <1> QED BY <1>1, <1>2 DEF IsPrefix

\* The event queue is a FIFO that never drops an unread event, short of an explicit Reset.
THEOREM EventsAreKept == Spec => EventsAreNotLost
  <1> DEFINE Kept == \/ IsPrefix(endpoint.events, endpoint'.events)
                     \/ endpoint.events # <<>> /\ endpoint'.events = Tail(endpoint.events)
                     \/ Reset
  <1>1. IInv /\ [Next]_endpoint => [Kept]_endpoint
    <2> SUFFICES ASSUME Sound(endpoint), HeldOK(endpoint), [Next]_endpoint
                 PROVE  Kept
      BY DEF IInv
    <2>1. endpoint \in Endpoint /\ endpoint.events \in Seq(EventTypes)
      BY DEF Sound, Endpoint, EndpointRecord
    <2>2. endpoint'.events \in Seq(EventTypes)
      BY StepSound DEF IInv, Sound, Endpoint, EndpointRecord
    <2>3. ASSUME Extends(endpoint.events, endpoint'.events)
          PROVE  Kept
      BY <2>1, <2>2, <2>3, ExtendsIsPrefix
    <2>4. ASSUME endpoint'.events = endpoint.events
          PROVE  Kept
      <3>1. Extends(endpoint.events, endpoint'.events)
        BY <2>1, <2>4 DEF Extends
      <3> QED BY <2>3, <3>1
    <2>5. CASE Leads(endpoint, endpoint')
      BY <2>3, <2>5 DEF Leads
    <2>6. ASSUME NEW o, NEW m, endpoint' = [endpoint EXCEPT !.out = o, !.submitted = m]
                               \/ endpoint' = [endpoint EXCEPT !.out = o]
          PROVE  Kept
      <3>1. endpoint'.events = endpoint.events
        BY <2>1, <2>6 DEF Endpoint, EndpointRecord
      <3> QED BY <2>4, <3>1
    <2>7. CASE Read_Application_Data
      <3>1. endpoint'.events = endpoint.events
        BY <2>1, <2>7 DEF Read_Application_Data, Application_Read, Endpoint, EndpointRecord
      <3> QED BY <2>4, <3>1
    <2>8. CASE Read_Event
      BY <2>1, <2>8 DEF Read_Event, Endpoint, EndpointRecord
    <2>9. CASE Reset
      BY <2>9
    <2> HIDE DEF Kept
    <2> QED BY <2>3, <2>5, <2>6, <2>7, <2>8, <2>9, Calls
  <1> QED BY <1>1, AlwaysSound, PTL DEF Spec, EventsAreNotLost

\* A refused body kept for another try has had no effect on what the endpoint accepted, can
\* read or acknowledges: only the caller's own calls change any of these meanwhile.
THEOREM RefusedBodiesHaveNoEffect == Spec => RefusedBodyHasNoEffect
  <1> DEFINE Harmless ==
        (/\ endpoint.parser.state = "READY"
         /\ endpoint'.parser = endpoint.parser
         /\ \/ endpoint'.lastRx # endpoint.lastRx
            \/ endpoint'.received # endpoint.received
            \/ endpoint'.submitted # endpoint.submitted
            \/ endpoint'.out.ctl # endpoint.out.ctl
         /\ ~ Receive_Consumes(endpoint))
        => \/ \E m \in Messages : Submit_Application_Data(m)
           \/ Read_Application_Data
           \/ Commit_Output
           \/ \E fits \in BOOLEAN : Peek_Output(fits)
  <1>1. IInv /\ [Next]_endpoint => [Harmless]_endpoint
    <2> SUFFICES ASSUME Sound(endpoint), HeldOK(endpoint), [Next]_endpoint,
                        endpoint.parser.state = "READY", endpoint'.parser = endpoint.parser,
                        ~ Receive_Consumes(endpoint)
                 PROVE  \/ SameWork(endpoint, endpoint')
                        \/ \E m \in Messages : Submit_Application_Data(m)
                        \/ Read_Application_Data
                        \/ Commit_Output
                        \/ \E fits \in BOOLEAN : Peek_Output(fits)
      BY DEF IInv, SameWork
    <2>1. endpoint \in Endpoint /\ endpoint'.parser # EmptyParser
      BY DEF Sound, EmptyParser
    <2>2. ASSUME endpoint' = endpoint
          PROVE  SameWork(endpoint, endpoint')
      BY <2>2 DEF SameWork
    <2>3. ASSUME NEW link \in {"DISCONNECTED", "CONNECTED"}, Notify_Link_State(link)
          PROVE  SameWork(endpoint, endpoint')
      BY <2>1, <2>2, <2>3, Linking DEF Notify_Link_State
    <2>4. ASSUME NEW input \in Inputs \cup {PartialInput, OverflowInput, NoInput},
                 Receive(input)
          PROVE  SameWork(endpoint, endpoint')
      <3>1. input \in AnyInput
        BY <2>4, InputAssumption DEF AnyInput, InputAssumption
      <3> QED BY <2>1, <2>4, <3>1, Receiving DEF Receive
    <2>5. ASSUME NEW expired \in BOOLEAN, Process(expired)
          PROVE  SameWork(endpoint, endpoint')
      BY <2>1, <2>5, Processing DEF Process
    <2>6. ~ Reset
      BY <2>1, Resetting DEF Reset
    <2>7. ASSUME Read_Event
          PROVE  SameWork(endpoint, endpoint')
      BY <2>1, <2>7 DEF Read_Event, SameWork, Endpoint, EndpointRecord
    <2>8. ASSUME Get_Status
          PROVE  SameWork(endpoint, endpoint')
      <3>1. endpoint' = endpoint
        BY <2>8, SessionScope DEF Get_Status, Profile_Get_Status, Sound
      <3> QED BY <2>2, <3>1
    <2> QED BY <2>2, <2>3, <2>4, <2>5, <2>6, <2>7, <2>8 DEF Next
  <1> QED BY <1>1, AlwaysSound, PTL DEF Spec, RefusedBodyHasNoEffect

=============================================================================
