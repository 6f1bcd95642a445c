-------------------------- MODULE TransportProfile --------------------------
(***************************************************************************)
(* The private profile behind the public transport API                     *)
(* (transport_profile_mvp.c, transport.c): the operations of one context   *)
(* that no other coordinator implements whole.  All of them are calls of   *)
(* the one thread that owns the context, so each is atomic.                *)
(***************************************************************************)
EXTENDS TransportReceive

Recovering(e) == e.state = "RECOVERING" /\ Connected(e)

-----------------------------------------------------------------------------
(* Reset *)

HasPendingReset(e) ==
    /\ e.out.resetId # NoSession /\ Recovering(e)
    /\ e.id = NoSession /\ e.phase = "INACTIVE" /\ e.out.rel = IdleReliable
    /\ \/ e.out.ctl.state = "READY" /\ e.out.sel = "NONE"
       \/ e.out.ctl.state = "PEEKED" /\ e.out.sel = "CONTROL"

HasActiveSession(e) ==
    /\ Connected(e) /\ Completed_Confirm_Valid(e) /\ e.id # NoSession
    /\ \/ e.state = "ESTABLISHED" /\ e.phase = "ESTABLISHED"
       \/ /\ e.state = "CONNECTING"
          /\ e.phase \notin {"INACTIVE", "WAITING_FOR_INITIATE", "ESTABLISHED"}

\* The session the peer must be told about: one already owed a RESET, else the active one.
ResetTarget(e) ==
    IF HasPendingReset(e) THEN e.out.resetId
    ELSE IF HasActiveSession(e) THEN e.id
    ELSE NoSession

\* Broken variant: a second Reset forgets the RESET that the first one still owes.
ResetForgetsPending(e) ==
    LET cleared == Explicit_Reset(e)
    IN  IF cleared.state = "FAULT" \/ ~ HasActiveSession(e) THEN cleared
        ELSE Publish_Recovery_Reset([cleared EXCEPT !.abandoned = e.id], e.id)

Profile_Reset(e) ==
    LET cleared == Explicit_Reset(e)
        target == ResetTarget(e)
    IN  IF cleared.state = "FAULT" \/ target = NoSession THEN cleared
        ELSE Publish_Recovery_Reset([cleared EXCEPT !.abandoned = target], target)

-----------------------------------------------------------------------------
(* Process *)

\* Broken variant: only an application message is given up, never a handshake frame.
GiveUpApplicationOnly(e) ==
    IF e.out.rel.state # "EXHAUSTED" \/ e.out.rel.frame.type # "APPLICATION"
    THEN Result(e, "OK") ELSE Application_Handle_Retry_Exhaustion(e)

\* The retained frame is given up: what it was decides how the failure is reported.
Give_Up(e) ==
    IF e.out.rel.state # "EXHAUSTED" THEN Result(e, "OK")
    ELSE IF e.out.rel.frame.type = "APPLICATION" THEN Application_Handle_Retry_Exhaustion(e)
    ELSE Begin_Local_Recovery(e)

Process_Reliability(e, expired) ==
    IF Reliability_Coherent(e.out)
    THEN Give_Up([e EXCEPT !.out = Reliability_Process_Pending(@, expired)])
    ELSE Result([e EXCEPT !.state = "FAULT"], "INTERNAL_ERROR")

\* Receive work of the old session is resolved before the recovery boundary is crossed.
Process_Receive(e) ==
    IF e.errPending \/ e.parser.state = "READY" THEN Receive_Bytes(e, NoInput)
    ELSE Result(e, "OK")

StillRecovering(e) ==
    e.state = "RECOVERING" /\ (ControlPending(e.out) \/ e.parser.state # "EMPTY")

Process_Recovery(e) ==
    IF e.state = "RECOVERING" THEN Begin_Establishment(e) ELSE Result(e, "OK")

\* The stages of one call: each runs only after the one before it ended OK.
Then_Handshake(r) == IF r.s = "OK" THEN Handshake_Process(r.e) ELSE r
Then_Reliability(r, expired) == IF r.s = "OK" THEN Process_Reliability(r.e, expired) ELSE r

Process_Session(e, expired) ==
    IF StillRecovering(e) THEN Result(e, "OK")
    ELSE Then_Reliability(Then_Handshake(Process_Recovery(e)), expired)

Then_Session(r, expired) == IF r.s = "OK" THEN Process_Session(r.e, expired) ELSE r

Profile_Process(e, expired) ==
    IF e.state = "FAULT" THEN Result(e, "INTERNAL_ERROR")
    ELSE IF ~ Connected(e) THEN Result(e, "OK")
    ELSE Then_Session(Process_Receive(e), expired)

-----------------------------------------------------------------------------
(* Peek and Commit *)

\* Both refuse and fault on metadata the output validation rejects.
Profile_Peek_Output(e, fits) ==
    IF e.state = "FAULT" THEN e
    ELSE IF Output_Coherent(e.out, Recovering(e)) THEN [e EXCEPT !.out = Output_Peek(@, fits)]
    ELSE [e EXCEPT !.state = "FAULT"]

\* The clock is left to the ReliableOutput module: here a commit stamps no time.
Profile_Commit_Output(e) ==
    IF e.state = "FAULT" THEN e
    ELSE IF Output_Coherent(e.out, Recovering(e)) THEN [e EXCEPT !.out = Output_Commit(@, 0)]
    ELSE [e EXCEPT !.state = "FAULT"]

-----------------------------------------------------------------------------
(* The status snapshot: asking for it changes nothing, unless the metadata it reads is *)
(* inconsistent.                                                                       *)

Profile_Get_Status(e) ==
    IF Completed_Confirm_Valid(e) /\ Output_Coherent(e.out, Recovering(e)) THEN e
    ELSE Enter_Fault(e)

=============================================================================
