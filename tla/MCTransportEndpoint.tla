------------------------- MODULE MCTransportEndpoint -------------------------
(***************************************************************************)
(* A small instance of TransportEndpoint.  The wire delivers frames of two *)
(* sessions and of the reserved identifier, in and out of sequence, and    *)
(* everything that decodes to no frame.                                    *)
(***************************************************************************)
EXTENDS TransportEndpoint

CONSTANTS
    m1, m2,
    Ids,                              \* the session identifiers on the wire
    OpeningSeqs,                      \* sequences of INITIATE and RESPONSE
    ConfirmSeqs, ApplicationSeqs,     \* sequences of CONFIRM and APPLICATION
    Acks                              \* acknowledged sequences

MCMessages == {m1, m2}

\* Neighbouring messages differ, so that replacing one by the next shows.
Payload(seq) == IF seq % 2 = 0 THEN m1 ELSE m2

\* Every sequence in a frame of an identity an endpoint can have; one of each type under
\* the reserved identity, which no session bears.
Openings == (Ids \X OpeningSeqs) \cup {<<ReservedSession, InitialSequence>>}
Confirms == (Ids \X ConfirmSeqs) \cup {<<ReservedSession, 0>>}
Deliveries == (Ids \X ApplicationSeqs) \cup {<<ReservedSession, 0>>}
Answers == (Ids \X Acks) \cup {<<ReservedSession, 0>>}

MCInputs ==
    {MakeFrame("INITIATE", o[1], o[2], 0, NoMessage) : o \in Openings}
        \cup {MakeFrame("RESPONSE", o[1], o[2], a, NoMessage) : o \in Openings, a \in Acks}
        \cup {MakeFrame("CONFIRM", c[1], c[2], a, NoMessage) : c \in Confirms, a \in Acks}
        \cup {MakeFrame("APPLICATION", d[1], d[2], 0, Payload(d[2])) : d \in Deliveries}
        \cup {MakeFrame("ACK", a[1], 0, a[2], NoMessage) : a \in Answers}
        \cup {MakeFrame("RESET", i, 0, 0, NoMessage) : i \in Ids \cup {ReservedSession}}
        \cup {MalformedBody, OtherVersionBody}

=============================================================================
