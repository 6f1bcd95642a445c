--------------------------- MODULE MessageService ---------------------------
(***************************************************************************)
(* What the transport promises about application messages in one           *)
(* direction (docs/transport_layer/transport_layer.md, transport.h): a     *)
(* message is accepted by the receiver at most once and in the order of    *)
(* submission, and is confirmed to its sender only after it was accepted.  *)
(* A message whose session ends first is in doubt: it may or may not have  *)
(* been accepted, but the transport never sends it again.                  *)
(*                                                                         *)
(* Messages are numbered in the order of their submission.                 *)
(***************************************************************************)
EXTENDS Naturals, Sequences

VARIABLES
    issued,     \* how many messages were submitted
    pending,    \* the message its sender still waits for, or 0
    accepted,   \* the messages the receiver accepted, in order
    confirmed   \* the messages confirmed to the sender

vars == <<issued, pending, accepted, confirmed>>

Init == issued = 0 /\ pending = 0 /\ accepted = <<>> /\ confirmed = {}

Submit ==
    /\ pending = 0
    /\ issued' = issued + 1
    /\ pending' = issued'
    /\ UNCHANGED <<accepted, confirmed>>

\* A message may be accepted after its sender gave up, but never behind a later one.
Accept ==
    /\ \E m \in 1 .. issued :
          /\ \A i \in 1 .. Len(accepted) : accepted[i] < m
          /\ accepted' = Append(accepted, m)
    /\ UNCHANGED <<issued, pending, confirmed>>

Confirm ==
    /\ pending # 0
    /\ \E i \in 1 .. Len(accepted) : accepted[i] = pending
    /\ confirmed' = confirmed \cup {pending}
    /\ pending' = 0
    /\ UNCHANGED <<issued, accepted>>

Abandon ==
    /\ pending # 0
    /\ pending' = 0
    /\ UNCHANGED <<issued, accepted, confirmed>>

Next == Submit \/ Accept \/ Confirm \/ Abandon

Spec == Init /\ [][Next]_vars

-----------------------------------------------------------------------------
(* What follows from the specification, proved in MessageService_proofs *)

Delivered == {accepted[i] : i \in 1 .. Len(accepted)}

\* The receiver accepts messages in the order of submission and none of them twice.
InOrderOnce ==
    \A i, j \in 1 .. Len(accepted) : i < j => accepted[i] < accepted[j]

\* Only submitted messages arrive, and a confirmed message did arrive.
NothingInvented == Delivered \subseteq 1 .. issued
ConfirmedArrived == confirmed \subseteq Delivered

=============================================================================
