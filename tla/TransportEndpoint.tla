------------------------- MODULE TransportEndpoint -------------------------
(***************************************************************************)
(* One whole endpoint under every order of public API calls, against a     *)
(* wire that may deliver anything: frames of this session, of an older     *)
(* one or of none, repeated, late or damaged, whole or in pieces.          *)
(***************************************************************************)
EXTENDS TransportProfile

CONSTANT Inputs   \* the complete bodies the wire may deliver

ASSUME InputAssumption == Inputs \subseteq Bodies

VARIABLE endpoint

\* A host is seeded with its first session identifier, a rig with none.
Init ==
    \E role \in Roles :
        endpoint = InitialEndpoint(role, IF role = "HOST" THEN 1 ELSE NoSession)

Notify_Link_State(link) ==
    endpoint' = Session_Notify_Link_State(endpoint, link).e

Submit_Application_Data(m) ==
    /\ Application_CanSubmit(endpoint)
    /\ endpoint' = Application_Submit(endpoint, m)

Receive(input) == endpoint' = Receive_Bytes(endpoint, input).e

\* expired: the retransmission timer of the retained frame has run out.
Process(expired) == endpoint' = Profile_Process(endpoint, expired).e

Peek_Output(fits) ==
    /\ Output_Choice(endpoint.out) # "NONE"
    /\ endpoint' = Profile_Peek_Output(endpoint, fits)

Commit_Output ==
    /\ endpoint.out.sel # "NONE"
    /\ endpoint' = Profile_Commit_Output(endpoint)

Read_Application_Data ==
    /\ Application_CanRead(endpoint)
    /\ endpoint' = Application_Read(endpoint)

Read_Event ==
    /\ endpoint.events # <<>>
    /\ endpoint' = [endpoint EXCEPT !.events = Tail(@)]

Reset == endpoint' = Profile_Reset(endpoint)

Get_Status == endpoint' = Profile_Get_Status(endpoint)

Next ==
    \/ \E link \in {"DISCONNECTED", "CONNECTED"} : Notify_Link_State(link)
    \/ \E m \in Messages : Submit_Application_Data(m)
    \/ \E input \in Inputs \cup {PartialInput, OverflowInput, NoInput} : Receive(input)
    \/ \E expired \in BOOLEAN : Process(expired)
    \/ \E fits \in BOOLEAN : Peek_Output(fits)
    \/ Commit_Output
    \/ Read_Application_Data
    \/ Read_Event
    \/ Reset
    \/ Get_Status

Spec == Init /\ [][Next]_endpoint

-----------------------------------------------------------------------------
(* Invariants *)

\* Every field holds a value of its type.
TypeOK == endpoint \in EndpointRecord({0})

\* No order of legal calls and no peer input makes one of the code's own consistency
\* checks fail: an endpoint never puts itself in FAULT.
NeverFaults == endpoint.state # "FAULT"

\* The reliable frame each phase waits on.
PhaseFrame(phase) ==
    CASE phase = "WAITING_FOR_RESPONSE"    -> {"INITIATE"}
      [] phase = "WAITING_FOR_CONFIRM"     -> {"RESPONSE"}
      [] phase = "WAITING_FOR_CONFIRM_ACK" -> {"CONFIRM"}
      [] phase = "ESTABLISHED"             -> {"APPLICATION", "INVALID"}
      [] OTHER                             -> {"INVALID"}

\* What an endpoint retransmits belongs to the phase it is in and to its current session,
\* and it owns a submitted message exactly while that message is the retained frame.
RetainedMatchesPhase ==
    LET f == endpoint.out.rel.frame
    IN  /\ f.type \in PhaseFrame(endpoint.phase)
        /\ f # NoFrame => f.id = endpoint.id
        /\ f.msg = endpoint.submitted

\* An ACK on offer acknowledges, in the current session, the last frame this endpoint
\* accepted: nothing is acknowledged that was refused for lack of room.
AcknowledgedIsAccepted ==
    LET item == endpoint.out.ctl.item
    IN  item.type = "ACK" =>
            /\ item.id = endpoint.id
            /\ item.ack = endpoint.lastRx.seq
            /\ endpoint.lastRx.type \in {"CONFIRM", "APPLICATION"}

\* No session runs under the identifier whose frames are being discarded as stale.
AbandonedIsNotCurrent == endpoint.abandoned # NoSession => endpoint.abandoned # endpoint.id

-----------------------------------------------------------------------------
(* Action properties *)

SameSession == endpoint'.id = endpoint.id /\ endpoint'.state # "FAULT"

\* A refused body kept for another try has had no effect on what the endpoint accepted, can read,
\* or acknowledges, so that trying it again cannot count it twice: only the caller's own
\* submission, read and output calls change any of these meanwhile.
RefusedBodyHasNoEffect ==
    [][(/\ endpoint.parser.state = "READY"
        /\ endpoint'.parser = endpoint.parser
        /\ \/ endpoint'.lastRx # endpoint.lastRx
           \/ endpoint'.received # endpoint.received
           \/ endpoint'.submitted # endpoint.submitted
           \/ endpoint'.out.ctl # endpoint.out.ctl
        /\ ~ Receive_Consumes(endpoint))
       => \/ \E m \in Messages : Submit_Application_Data(m)
          \/ Read_Application_Data
          \/ Commit_Output
          \/ \E fits \in BOOLEAN : Peek_Output(fits)]_endpoint

\* An accepted message waits for its reader: while its session lives only a read takes it.
AcceptedMessageIsKept ==
    [][(/\ endpoint.received # NoMessage
        /\ endpoint'.received # endpoint.received
        /\ SameSession)
       => Read_Application_Data]_endpoint

\* One call may report several events: it can finish a held body and take another.
Reports(type) ==
    \E i \in Len(endpoint.events) + 1 .. Len(endpoint'.events) : endpoint'.events[i] = type

\* A message leaves the sender's ownership within its session only together with the
\* event that confirms it, nothing else is ever confirmed, and a session is established
\* only together with its event.
OutcomesAreReported ==
    [][/\ (endpoint.submitted # NoMessage /\ endpoint'.submitted = NoMessage /\ SameSession)
            => Reports("DELIVERY_CONFIRMED")
       /\ Reports("DELIVERY_CONFIRMED")
            => endpoint.submitted # NoMessage /\ endpoint'.submitted = NoMessage
       /\ (endpoint.state # "ESTABLISHED" /\ endpoint'.state = "ESTABLISHED")
            => Reports("SESSION_ESTABLISHED")]_endpoint

IsPrefix(s, t) == Len(s) <= Len(t) /\ SubSeq(t, 1, Len(s)) = s

\* The event queue is a FIFO that never drops an unread event, short of an explicit Reset.
EventsAreNotLost ==
    [][\/ IsPrefix(endpoint.events, endpoint'.events)
       \/ endpoint.events # <<>> /\ endpoint'.events = Tail(endpoint.events)
       \/ Reset]_endpoint

\* A RESET owed to the peer is withdrawn only by transmitting it or by losing the link:
\* neither further bad traffic nor a second explicit Reset forgets it.
OwedResetIsSent ==
    [][(endpoint.out.resetId # NoSession /\ endpoint'.out.resetId # endpoint.out.resetId)
       => Commit_Output \/ ~ Connected(endpoint')]_endpoint

\* What the comment in Receive_Dispatch_Frame says: decoding has already rejected reserved
\* identities, so that such a frame is no more than a malformed body.  The code does not
\* do that (see the finding in PROJECT.json).
ReservedIdentityIsMalformed ==
    [][\A f \in Inputs :
          f.id = ReservedSession /\ Receive(f) => Receive(MalformedBody)]_endpoint

=============================================================================
