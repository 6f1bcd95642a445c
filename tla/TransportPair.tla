---------------------------- MODULE TransportPair ----------------------------
(***************************************************************************)
(* A host and a rig connected by two byte streams that keep their order    *)
(* but may lose or damage a body.  Each side's application submits and     *)
(* reads messages, drains its events and may reset; each side's link may   *)
(* go down and come back without the other side noticing.                  *)
(***************************************************************************)
EXTENDS TransportProfile

CONSTANTS
    ChannelCapacity,   \* bodies in flight in one direction
    Scenarios          \* the budgets a behaviour may have:
                       \*   faults      bodies lost, damaged or cut short
                       \*   breaks      link losses and explicit Resets
                       \*   early       timers that run out before the answer is late
                       \*   recoveries  hard recoveries, the documented last resort
                       \*   issues      how many messages each side submits

ASSUME PairAssumption ==
    /\ ChannelCapacity \in Nat \ {0}
    /\ \A s \in Scenarios :
           /\ s.faults \in Nat /\ s.breaks \in Nat /\ s.early \in Nat
           /\ s.recoveries \in {0, 1}
           /\ s.issues \in [Roles -> Nat]
           /\ \A r \in Roles : 1 .. s.issues[r] \subseteq Messages
    /\ NoMessage = 0

VARIABLES
    node,        \* the two endpoints
    chan,        \* chan[r]: the bodies on their way to r
    scenario,    \* the budgets of this behaviour
    faults, breaks, early,     \* what is left of them
    issued, accepted, confirmed,   \* what the applications saw, see MessageService
    joined,      \* the sessions the rig established
    recovered    \* a hard recovery was done, after the last fault

vars == <<node, chan, scenario, faults, breaks, early, issued, accepted, confirmed, joined, recovered>>
budgets == <<faults, breaks, early, recovered>>
seen == <<issued, accepted, confirmed, joined>>

Peer(r) == IF r = "HOST" THEN "RIG" ELSE "HOST"

Init ==
    /\ node = [r \in Roles |-> InitialEndpoint(r, IF r = "HOST" THEN 1 ELSE NoSession)]
    /\ chan = [r \in Roles |-> <<>>]
    /\ scenario \in Scenarios
    /\ faults = scenario.faults
    /\ breaks = scenario.breaks
    /\ early = scenario.early
    /\ issued = [r \in Roles |-> 0]
    /\ accepted = [r \in Roles |-> <<>>]
    /\ confirmed = [r \in Roles |-> {}]
    /\ joined = {}
    /\ recovered = FALSE

\* The endpoint r becomes e; what its application can tell from that is recorded.
NewEvents(r, e) == SubSeq(e.events, Len(node[r].events) + 1, Len(e.events))
Confirms(r, e) == \E i \in 1 .. Len(NewEvents(r, e)) : NewEvents(r, e)[i] = "DELIVERY_CONFIRMED"
Accepts(r, e) == node[r].received = NoMessage /\ e.received # NoMessage

Becomes(r, e) ==
    /\ node' = [node EXCEPT ![r] = e]
    /\ accepted' = IF Accepts(r, e) THEN [accepted EXCEPT ![r] = Append(@, e.received)]
                                    ELSE accepted
    /\ confirmed' = IF Confirms(r, e)
                    THEN [confirmed EXCEPT ![r] = @ \cup {node[r].submitted}]
                    ELSE confirmed
    /\ joined' = IF r = "RIG" /\ Is_Established(e) THEN joined \cup {e.id} ELSE joined

-----------------------------------------------------------------------------
(* Applications and links *)

Connect(r) ==
    /\ ~ Connected(node[r])
    /\ Becomes(r, Session_Notify_Link_State(node[r], "CONNECTED").e)
    /\ UNCHANGED <<chan, budgets, issued>>

\* The bodies on their way to r are lost with its link or delivered after it is back.
Disconnect(r) ==
    /\ breaks > 0
    /\ Connected(node[r])
    /\ breaks' = breaks - 1
    /\ Becomes(r, Session_Notify_Link_State(node[r], "DISCONNECTED").e)
    /\ \/ chan' = [chan EXCEPT ![r] = <<>>]
       \/ UNCHANGED chan
    /\ UNCHANGED <<faults, early, recovered, issued>>

ExplicitReset(r) ==
    /\ breaks > 0
    /\ Connected(node[r])
    /\ breaks' = breaks - 1
    /\ Becomes(r, Profile_Reset(node[r]))
    /\ UNCHANGED <<chan, faults, early, recovered, issued>>

\* Both applications stop forwarding old bytes and report the link lost; Connect follows.
HardRecovery ==
    /\ scenario.recoveries = 1
    /\ ~ recovered
    /\ recovered' = TRUE
    /\ faults' = 0 /\ breaks' = 0 /\ early' = 0
    /\ node' = [r \in Roles |-> Session_Notify_Link_State(node[r], "DISCONNECTED").e]
    /\ chan' = [r \in Roles |-> <<>>]
    /\ UNCHANGED seen

Submit(r) ==
    /\ issued[r] < scenario.issues[r]
    /\ Application_CanSubmit(node[r])
    /\ issued' = [issued EXCEPT ![r] = @ + 1]
    /\ Becomes(r, Application_Submit(node[r], issued[r] + 1))
    /\ UNCHANGED <<chan, budgets>>

Read(r) ==
    /\ Application_CanRead(node[r])
    /\ Becomes(r, Application_Read(node[r]))
    /\ UNCHANGED <<chan, budgets, issued>>

\* Read_Event until it returns NOT_READY.
ReadEvents(r) ==
    /\ node[r].events # <<>>
    /\ node' = [node EXCEPT ![r].events = <<>>]
    /\ UNCHANGED <<chan, budgets, seen>>

-----------------------------------------------------------------------------
(* The I/O loop *)

Peek(r) ==
    /\ Output_Choice(node[r].out) # "NONE"
    /\ Becomes(r, Profile_Peek_Output(node[r], TRUE))
    /\ UNCHANGED <<chan, budgets, issued>>

\* What was peeked is on the wire, then it is committed.
Commit(r) ==
    /\ node[r].out.sel # "NONE"
    /\ Len(chan[Peer(r)]) < ChannelCapacity
    /\ Becomes(r, Profile_Commit_Output(node[r]))
    /\ chan' = [chan EXCEPT ![Peer(r)] = Append(@, Output_Bytes(node[r].out))]
    /\ UNCHANGED <<budgets, issued>>

\* A body that follows one without an end runs into it: together they decode to nothing.
Arriving(r) ==
    IF node[r].parser.state = "PARTIAL" /\ Head(chan[r]) # PartialInput
    THEN MalformedBody ELSE Head(chan[r])

Deliver(r) ==
    /\ chan[r] # <<>>
    /\ Connected(node[r])
    /\ Becomes(r, Receive_Bytes(node[r], Arriving(r)).e)
    /\ chan' = IF Receive_Consumes(node[r]) THEN [chan EXCEPT ![r] = Tail(@)] ELSE chan
    /\ UNCHANGED <<budgets, issued>>

\* Nothing that could still answer r's retained frame is anywhere.
Quiet ==
    \A r \in Roles :
        /\ chan[r] = <<>>
        /\ Output_Choice(node[r].out) = "NONE"
        /\ node[r].parser.state # "READY"
        /\ node[r].phase \notin {"INITIATE_PENDING", "RESPONSE_PENDING", "CONFIRM_PENDING"}

Process(r) ==
    /\ Becomes(r, Profile_Process(node[r], FALSE).e)
    /\ UNCHANGED <<chan, budgets, issued>>

\* The timer of r's frame runs out: after the answer is lost for good ...
Timeout(r) ==
    /\ Quiet
    /\ node[r].out.rel.state = "AWAITING_ACK"
    /\ Becomes(r, Profile_Process(node[r], TRUE).e)
    /\ UNCHANGED <<chan, budgets, issued>>

\* ... or while the frame or its answer is still on its way.
EarlyTimeout(r) ==
    /\ early > 0
    /\ ~ Quiet
    /\ node[r].out.rel.state = "AWAITING_ACK"
    /\ early' = early - 1
    /\ Becomes(r, Profile_Process(node[r], TRUE).e)
    /\ UNCHANGED <<chan, faults, breaks, recovered, issued>>

-----------------------------------------------------------------------------
(* The wire *)

Lose(r) ==
    /\ faults > 0
    /\ chan[r] # <<>>
    /\ faults' = faults - 1
    /\ chan' = [chan EXCEPT ![r] = Tail(@)]
    /\ UNCHANGED <<node, breaks, early, recovered, seen>>

Damage(r) ==
    /\ faults > 0
    /\ chan[r] # <<>>
    /\ Head(chan[r]) # MalformedBody
    /\ faults' = faults - 1
    /\ chan' = [chan EXCEPT ![r][1] = MalformedBody]
    /\ UNCHANGED <<node, breaks, early, recovered, seen>>

\* The end of a body is lost with its delimiter.
Truncate(r) ==
    /\ faults > 0
    /\ chan[r] # <<>>
    /\ Head(chan[r]) # PartialInput
    /\ faults' = faults - 1
    /\ chan' = [chan EXCEPT ![r][1] = PartialInput]
    /\ UNCHANGED <<node, breaks, early, recovered, seen>>

Step ==
    \/ HardRecovery
    \/ \E r \in Roles :
           \/ Connect(r) \/ Disconnect(r) \/ ExplicitReset(r)
           \/ Submit(r) \/ Read(r) \/ ReadEvents(r)
           \/ Peek(r) \/ Commit(r) \/ Deliver(r)
           \/ Process(r) \/ Timeout(r) \/ EarlyTimeout(r)
           \/ Lose(r) \/ Damage(r) \/ Truncate(r)

Next == Step /\ UNCHANGED scenario

Spec == Init /\ [][Next]_vars

\* Each application keeps running its I/O loop: as long as there is something to do it
\* reports the link, moves bytes, calls Process, drains events and messages.  Nothing is
\* assumed about the order.
IOLoop(r) ==
    \/ Connect(r) \/ Peek(r) \/ Commit(r) \/ Deliver(r)
    \/ Process(r) \/ Timeout(r) \/ Read(r) \/ ReadEvents(r)

CanStep(r) ==
    LET e == node[r]
    IN  \/ ~ Connected(e)
        \/ Output_Choice(e.out) # "NONE" /\ Profile_Peek_Output(e, TRUE) # e
        \/ e.out.sel # "NONE" /\ Len(chan[Peer(r)]) < ChannelCapacity
        \/ chan[r] # <<>> /\ (Receive_Consumes(e) \/ Receive_Bytes(e, Arriving(r)).e # e)
        \/ Profile_Process(e, FALSE).e # e
        \/ Quiet /\ e.out.rel.state = "AWAITING_ACK" /\ Profile_Process(e, TRUE).e # e
        \/ Application_CanRead(e)
        \/ e.events # <<>>

\* WF_vars(IOLoop(r)), written out: CanStep(r) is ENABLED <<IOLoop(r)>>_vars, in a form
\* that is cheap to evaluate.
Fairness == \A r \in Roles : <>[]CanStep(r) => []<><<IOLoop(r)>>_vars

LiveSpec == Spec /\ Fairness

-----------------------------------------------------------------------------
(* Properties *)

\* The host believes in a session only if the rig established that session: a stale or
\* repeated answer of an older session never completes the handshake.
HostSessionWasJoined == Is_Established(node["HOST"]) => node["HOST"].id \in joined

\* The bodies under way to r: the one it holds and those on the wire.
Elements(q) == {q[i] : i \in 1 .. Len(q)}
Coming(b, q) == {b} \cup Elements(q)
Body(r) == node[r].parser.body
Toward(r) == Coming(Body(r), chan[r])

\* The identifier the host will use next is in no body under way and is not the one its rig
\* is in: nothing of an old session, however late, can be taken for the next one.
Fresh ==
    /\ node["RIG"].id # node["HOST"].nextId
    /\ \A r \in Roles : \A f \in Toward(r) : f.id # node["HOST"].nextId

\* The host's identifiers do not start over.  The cursor of Session_Begin_Establishment goes
\* back to 1 after MaxSessionId (2^64 - 2 in the code); from then on Fresh depends on how long
\* a body can stay under way.
IdentifiersLast == [][node["HOST"].nextId <= node'["HOST"].nextId]_vars

\* Each direction implements the message service: no message is accepted twice or behind
\* a later one, and none is confirmed before the other side accepted it.
HostToRig ==
    INSTANCE MessageService WITH
        issued <- issued["HOST"], pending <- node["HOST"].submitted,
        accepted <- accepted["RIG"], confirmed <- confirmed["HOST"]
RigToHost ==
    INSTANCE MessageService WITH
        issued <- issued["RIG"], pending <- node["RIG"].submitted,
        accepted <- accepted["HOST"], confirmed <- confirmed["RIG"]

HostToRigService == HostToRig!Spec
RigToHostService == RigToHost!Spec

\* Both at once: a message of the rig may also complete the handshake the host's messages
\* wait for.
ServesBothWays == HostToRigService /\ RigToHostService

\* Two ends that both run a session and owe each other nothing run the same one.
InSession == \A r \in Roles : Is_Established(node[r]) /\ node[r].id = node["HOST"].id

Pending(r) == node[r].submitted # NoMessage

\* A host that noticed nothing and has nothing to send cannot know that the rig's link
\* was down: the rig waits, unbound, for an INITIATE.
HalfOpen ==
    /\ Is_Established(node["HOST"]) /\ ~ Pending("HOST")
    /\ node["RIG"].phase = "WAITING_FOR_INITIATE"
    /\ \A r \in Roles : chan[r] = <<>> /\ Output_Choice(node[r].out) = "NONE"

\* When the wire and the links have behaved badly for the last time, the two sides end up
\* in one common session and stay there, or a link broke and the host cannot have noticed.
LinkBroke == breaks < scenario.breaks
ConvergesUnlessUnnoticed == <>[]InSession \/ <>[](HalfOpen /\ LinkBroke)

\* Whatever happened before, the documented hard recovery leads to a common session.
ConvergesAfterHardRecovery == <>[](recovered => InSession)

\* What the comment in HIL_TRANSPORT_PROFILE_Process says of a partial body that keeps an
\* endpoint from its next attempt: the receive path will finish or discard it.  Then, while
\* one does, either service loop has something left to do.  The code has no way to discard
\* it when no more bytes come (see the finding in PROJECT.json).
Blocked(r) == node[r].state = "RECOVERING" /\ node[r].parser.state = "PARTIAL"
PartialBodyIsResolved == \A r \in Roles : Blocked(r) => \E q \in Roles : CanStep(q)

\* Every message a side submitted is in the end confirmed or given up.
OutcomeIsDecided == \A r \in Roles : Pending(r) ~> ~ Pending(r)

=============================================================================
