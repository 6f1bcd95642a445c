--------------------------- MODULE MCTransportPair ---------------------------
(* Small instances of TransportPair. *)
EXTENDS TransportPair

MCMessages == 1 .. 2

Budget(f, b, e, rec, host, rig) ==
    [faults |-> f, breaks |-> b, early |-> e, recoveries |-> rec,
     issues |-> [r \in Roles |-> IF r = "HOST" THEN host ELSE rig]]

\* One body lost, damaged or cut short while each side sends; or one side reconnects
\* while the host sends twice.
MCFaults == {Budget(1, 0, 0, 0, 1, 1), Budget(0, 1, 0, 0, 2, 0)}

\* A timer that runs out early and a fault, a message in each direction.
MCEarly == {Budget(1, 0, 1, 0, 1, 1)}

\* A reset of one side and a body cut short, nobody sends.
MCPartial == {Budget(1, 1, 0, 0, 0, 0)}

\* Hard recovery after a one-sided reconnection with a rig message in flight; or after
\* one in which a body was also lost, damaged or cut short.
MCRecovery == {Budget(0, 1, 0, 1, 0, 1), Budget(1, 1, 0, 1, 0, 0)}

=============================================================================
