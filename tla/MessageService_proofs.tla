----------------------- MODULE MessageService_proofs -----------------------
(***************************************************************************)
(* The guarantees a user reads out of MessageService.  TransportPair       *)
(* implements MessageService in either direction, which is proved in       *)
(* TransportPair_proofs, so they are guarantees of the transport.          *)
(***************************************************************************)
EXTENDS MessageService, SequenceTheorems, TLAPS

TypeOK ==
    /\ issued \in Nat
    /\ pending \in Nat
    /\ accepted \in Seq(Nat)

Inv == TypeOK /\ InOrderOnce /\ NothingInvented /\ ConfirmedArrived

\* The guarantees do not mention what a stuttering step leaves alone.
LEMMA StutterStep ==
    ASSUME Inv, UNCHANGED vars
    PROVE  Inv'
BY DEF Inv, TypeOK, InOrderOnce, NothingInvented, ConfirmedArrived, Delivered, vars

\* A step that accepts nothing only adds to what may be confirmed or was issued.
LEMMA SenderStep ==
    ASSUME Inv, Submit \/ Confirm \/ Abandon
    PROVE  Inv'
<1>1. accepted' = accepted
  BY DEF Submit, Confirm, Abandon
<1>2. Delivered' = Delivered /\ InOrderOnce'
  BY <1>1 DEF Inv, InOrderOnce, Delivered
<1>3. TypeOK' /\ issued' >= issued
  BY DEF Inv, TypeOK, Submit, Confirm, Abandon
<1>4. NothingInvented'
  BY <1>2, <1>3 DEF Inv, TypeOK, NothingInvented
<1>5. ConfirmedArrived'
  BY <1>2 DEF Inv, ConfirmedArrived, Delivered, Submit, Confirm, Abandon
<1>. QED
  BY <1>2, <1>3, <1>4, <1>5 DEF Inv

\* An accepted message is new and later than everything accepted before it.
LEMMA AcceptStep ==
    ASSUME Inv, Accept
    PROVE  Inv'
<1>. PICK m \in 1 .. issued :
        /\ \A i \in 1 .. Len(accepted) : accepted[i] < m
        /\ accepted' = Append(accepted, m)
  BY DEF Accept
<1>. accepted \in Seq(Nat) /\ issued \in Nat /\ m \in Nat
  BY DEF Inv, TypeOK
<1>1. /\ accepted' \in Seq(Nat)
      /\ Len(accepted') = Len(accepted) + 1
      /\ \A i \in 1 .. Len(accepted) : accepted'[i] = accepted[i]
      /\ accepted'[Len(accepted) + 1] = m
  BY AppendProperties
<1>2. TypeOK'
  BY <1>1 DEF Accept, Inv, TypeOK
<1>3. InOrderOnce'
  <2>. SUFFICES ASSUME NEW i \in 1 .. Len(accepted'), NEW j \in 1 .. Len(accepted'), i < j
                PROVE  accepted'[i] < accepted'[j]
    BY DEF InOrderOnce
  <2>. i \in 1 .. Len(accepted)
    BY <1>1
  <2>1. CASE j = Len(accepted) + 1
    BY <1>1, <2>1
  <2>2. CASE j # Len(accepted) + 1
    BY <1>1, <2>2 DEF Inv, InOrderOnce
  <2>. QED
    BY <2>1, <2>2
<1>4. Delivered' = Delivered \cup {m}
  BY <1>1 DEF Delivered
<1>5. NothingInvented' /\ ConfirmedArrived'
  BY <1>4 DEF Inv, NothingInvented, ConfirmedArrived, Accept
<1>. QED
  BY <1>2, <1>3, <1>5 DEF Inv

\* A message is accepted at most once and in the order of submission, nothing arrives that
\* was not submitted, and what the sender sees confirmed did arrive.
THEOREM Guarantees == Spec => [](InOrderOnce /\ NothingInvented /\ ConfirmedArrived)
<1>1. Init => Inv
  BY DEF Init, Inv, TypeOK, InOrderOnce, NothingInvented, ConfirmedArrived, Delivered
<1>2. Inv /\ [Next]_vars => Inv'
  BY StutterStep, SenderStep, AcceptStep DEF Next
<1>3. Inv => InOrderOnce /\ NothingInvented /\ ConfirmedArrived
  BY DEF Inv
<1>. QED
  BY <1>1, <1>2, <1>3, PTL DEF Spec

=============================================================================
