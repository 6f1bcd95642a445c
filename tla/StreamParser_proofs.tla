------------------------- MODULE StreamParser_proofs -------------------------
(***************************************************************************)
(* Proofs about StreamParser, for every buffer capacity and set of byte    *)
(* values: its type correctness, that its own validation never fails, and  *)
(* that it implements SegmentStream.  All three follow from one inductive  *)
(* invariant, which relates the buffer and the flags to the bytes accepted *)
(* since the last delimiter.                                               *)
(***************************************************************************)
EXTENDS StreamParser, SequenceTheorems, TLAPS

\* What the parser still knows of the segment: all of it, or that it is too long.
Remembers ==
    /\ parser.ready => segment = <<>>
    /\ parser.discarding => Len(segment) > Capacity
    /\ ~ parser.ready /\ ~ parser.discarding => segment = parser.body

IInv == TypeOK /\ State_Is_Valid(parser) /\ NeverError /\ Remembers

-----------------------------------------------------------------------------
(* Sequences *)

\* Appending a byte to a body gives a body that is one byte longer, never the empty one.
LEMMA AppendBody ==
    ASSUME NEW s \in Bodies, NEW b \in NonzeroBytes
    PROVE  /\ Append(s, b) \in Bodies
           /\ Len(Append(s, b)) = Len(s) + 1
           /\ Append(s, b) # <<>>
  BY AppendProperties DEF Bodies

\* The empty sequence is a body, and the only one without a byte.
LEMMA EmptyBody ==
    /\ <<>> \in Bodies
    /\ \A s \in Bodies : Len(s) \in Nat /\ (s = <<>> <=> Len(s) = 0)
  BY DEF Bodies

-----------------------------------------------------------------------------
(* The invariant *)

\* An empty parser keeps the invariant.
LEMMA InitIInv == Init => IInv
  BY ParserAssumption, EmptyBody
  DEF Init, IInv, TypeOK, State_Is_Valid, NeverError, Remembers, Parser_Init

\* A byte in each of the parser's conditions: first what the call returns, field by
\* field, then the invariant.
LEMMA PushByteStep ==
    ASSUME IInv, NEW b \in Bytes, PushByte(b)
    PROVE  IInv'
<1>. USE ParserAssumption, EmptyBody
<1>1. /\ parser' = Push_Byte(parser, b).p /\ told' = Push_Byte(parser, b).result
      /\ taken' = taken
  BY DEF PushByte
<1>2. /\ State_Is_Valid(parser) /\ TypeOK /\ Remembers
      /\ parser.body \in Bodies /\ parser.capacity = Capacity
  BY DEF IInv, TypeOK
<1>3. CASE parser.ready
  <2>1. parser' = parser /\ told' = "BODY_READY" /\ segment' = segment
    BY <1>1, <1>2, <1>3 DEF Push_Byte, PushByte, Pushed
  <2>. QED
    BY <1>1, <1>2, <1>3, <2>1 DEF IInv, TypeOK, State_Is_Valid, NeverError, Remembers
<1>4. CASE ~ parser.ready /\ b = Delimiter
  <2>1. segment' = <<>>
    BY <1>4 DEF PushByte
  <2>2. CASE parser.discarding
    <3>1. /\ parser' = [parser EXCEPT !.discarding = FALSE]
          /\ told' = "DISCARDED_BODY"
      BY <1>1, <1>2, <1>4, <2>2 DEF Push_Byte, Push_Discarded, Pushed
    <3>2. parser.body = <<>>
      BY <1>2, <2>2 DEF State_Is_Valid
    <3>. QED
      BY <1>1, <1>2, <1>4, <2>1, <3>1, <3>2
      DEF IInv, TypeOK, State_Is_Valid, NeverError, Remembers
  <2>3. CASE ~ parser.discarding /\ parser.body = <<>>
    <3>1. parser' = parser /\ told' = "NEED_MORE_DATA"
      BY <1>1, <1>2, <1>4, <2>3 DEF Push_Byte, Push_Delimiter, Pushed
    <3>. QED
      BY <1>1, <1>2, <1>4, <2>1, <2>3, <3>1
      DEF IInv, TypeOK, State_Is_Valid, NeverError, Remembers
  <2>4. CASE ~ parser.discarding /\ parser.body # <<>>
    <3>1. parser' = [parser EXCEPT !.ready = TRUE] /\ told' = "BODY_READY"
      BY <1>1, <1>2, <1>4, <2>4 DEF Push_Byte, Push_Delimiter, Pushed
    <3>. QED
      BY <1>1, <1>2, <1>4, <2>1, <2>4, <3>1
      DEF IInv, TypeOK, State_Is_Valid, NeverError, Remembers
  <2>. QED BY <2>2, <2>3, <2>4
<1>5. CASE ~ parser.ready /\ b # Delimiter
  <2>1. b \in NonzeroBytes /\ segment' = Append(segment, b)
    BY <1>5 DEF PushByte, Bytes
  <2>2. segment' \in Bodies /\ Len(segment') = Len(segment) + 1
    BY <1>2, <2>1, AppendBody DEF TypeOK
  <2>3. Len(segment) \in Nat /\ segment \in Bodies
    BY <1>2 DEF TypeOK
  <2>4. CASE parser.discarding
    <3>1. parser' = parser /\ told' = "DISCARDING"
      BY <1>1, <1>2, <1>5, <2>4 DEF Push_Byte, Push_Discarded, Pushed
    <3>. QED
      BY <1>1, <1>2, <1>5, <2>2, <2>3, <2>4, <3>1
      DEF IInv, TypeOK, State_Is_Valid, NeverError, Remembers
  <2>5. CASE ~ parser.discarding /\ Len(parser.body) = Capacity
    <3>1. /\ parser' = [parser EXCEPT !.body = <<>>, !.discarding = TRUE]
          /\ told' = "DISCARDING"
      BY <1>1, <1>2, <1>5, <2>5 DEF Push_Byte, Push_Nonzero, Pushed
    <3>2. Len(segment') > Capacity
      BY <1>2, <1>5, <2>2, <2>5 DEF Remembers
    <3>3. /\ parser'.body = <<>> /\ ~ parser'.ready /\ parser'.discarding
          /\ parser' \in [capacity : {Capacity}, body : Bodies,
                       ready : BOOLEAN, discarding : BOOLEAN]
      BY <1>2, <1>5, <3>1 DEF TypeOK
    <3>4. TypeOK' /\ State_Is_Valid(parser)'
      BY <1>1, <1>2, <2>2, <3>3 DEF TypeOK, State_Is_Valid
    <3>5. Remembers' /\ NeverError'
      BY <3>1, <3>2, <3>3 DEF Remembers, NeverError
    <3>. QED
      BY <3>4, <3>5 DEF IInv
  <2>6. CASE ~ parser.discarding /\ Len(parser.body) # Capacity
    <3>1. /\ parser' = [parser EXCEPT !.body = Append(parser.body, b)]
          /\ told' = "NEED_MORE_DATA"
      BY <1>1, <1>2, <1>5, <2>6 DEF Push_Byte, Push_Nonzero, Pushed
    <3>2. /\ Append(parser.body, b) \in Bodies
          /\ Len(Append(parser.body, b)) <= Capacity
      BY <1>2, <2>1, <2>6, AppendBody DEF TypeOK
    <3>3. segment' = Append(parser.body, b)
      BY <1>2, <1>5, <2>1, <2>6 DEF Remembers
    <3>. QED
      BY <1>1, <1>2, <1>5, <2>2, <2>6, <3>1, <3>2, <3>3
      DEF IInv, TypeOK, State_Is_Valid, NeverError, Remembers
  <2>. QED BY <2>4, <2>5, <2>6
<1>. QED BY <1>3, <1>4, <1>5

\* A body is consumed or nothing changes.
LEMMA ConsumedStep ==
    ASSUME IInv, parser.ready, parser' = Consumed(parser), UNCHANGED segment
    PROVE  /\ parser' \in [capacity : {Capacity}, body : Bodies,
                       ready : BOOLEAN, discarding : BOOLEAN]
           /\ Len(parser'.body) <= Capacity
           /\ State_Is_Valid(parser)' /\ Remembers'
<1>1. /\ parser'.body = <<>> /\ ~ parser'.ready /\ ~ parser'.discarding
      /\ parser' \in [capacity : {Capacity}, body : Bodies,
                       ready : BOOLEAN, discarding : BOOLEAN]
  BY EmptyBody DEF IInv, TypeOK, State_Is_Valid, Consumed
<1>2. segment' = <<>>
  BY DEF IInv, Remembers
<1>. QED
  BY <1>1, <1>2, ParserAssumption, EmptyBody DEF State_Is_Valid, Remembers

\* Consuming a body clears what the parser remembers, or nothing is ready.
LEMMA ConsumeBodyStep ==
    ASSUME IInv, ConsumeBody
    PROVE  IInv'
<1>1. CASE parser.ready
  <2>1. told' = "OK" /\ parser' = Consumed(parser) /\ UNCHANGED <<taken, segment>>
    BY <1>1 DEF ConsumeBody, Peek_Status, IInv
  <2>. QED
    BY <1>1, <2>1, ConsumedStep DEF IInv, TypeOK, NeverError
<1>2. CASE ~ parser.ready
  <2>1. told' = "NOT_READY" /\ UNCHANGED <<parser, taken, segment>>
    BY <1>2 DEF ConsumeBody, Peek_Status, IInv
  <2>. QED
    BY <2>1 DEF IInv, TypeOK, State_Is_Valid, NeverError, Remembers
<1>. QED BY <1>1, <1>2

\* So does reading it; a short buffer changes nothing.
LEMMA ReadBodyStep ==
    ASSUME IInv, NEW room \in 0 .. Capacity, ReadBody(room)
    PROVE  IInv'
<1>1. CASE parser.ready /\ ~ (room < Len(parser.body))
  <2>1. /\ told' = "OK" /\ parser' = Consumed(parser)
        /\ taken' = parser.body /\ UNCHANGED segment
    BY <1>1 DEF ReadBody, Read_Status, Peek_Status, IInv
  <2>. QED
    BY <1>1, <2>1, ConsumedStep DEF IInv, TypeOK, NeverError
<1>2. CASE ~ parser.ready \/ room < Len(parser.body)
  <2>1. /\ told' \in {"NOT_READY", "BUFFER_TOO_SMALL"}
        /\ UNCHANGED <<parser, taken, segment>>
    BY <1>2 DEF ReadBody, Read_Status, Peek_Status, IInv
  <2>. QED
    BY <2>1 DEF IInv, TypeOK, State_Is_Valid, NeverError, Remembers
<1>. QED BY <1>1, <1>2

\* A reset forgets the segment and the body.
LEMMA ResetStep ==
    ASSUME IInv, Reset
    PROVE  IInv'
<1>1. /\ parser'.body = <<>> /\ ~ parser'.ready /\ ~ parser'.discarding
      /\ parser' \in [capacity : {Capacity}, body : Bodies,
                       ready : BOOLEAN, discarding : BOOLEAN]
  BY EmptyBody DEF IInv, TypeOK, Reset, Parser_Reset
<1>2. segment' = <<>> /\ told' = "NONE" /\ taken' = taken
  BY DEF Reset
<1>. QED
  BY <1>1, <1>2, ParserAssumption, EmptyBody
  DEF IInv, TypeOK, State_Is_Valid, NeverError, Remembers

\* Every operation keeps the invariant.
LEMMA Inductive == IInv /\ [Next]_vars => IInv'
<1>. SUFFICES ASSUME IInv, [Next]_vars
              PROVE  IInv'
  OBVIOUS
<1>1. ASSUME NEW b \in Bytes, PushByte(b)
      PROVE  IInv'
  BY <1>1, PushByteStep
<1>2. CASE ConsumeBody
  BY <1>2, ConsumeBodyStep
<1>3. ASSUME NEW room \in 0 .. Capacity, ReadBody(room)
      PROVE  IInv'
  BY <1>3, ReadBodyStep
<1>4. CASE Reset
  BY <1>4, ResetStep
<1>5. CASE UNCHANGED vars
  BY <1>5 DEF vars, IInv, TypeOK, State_Is_Valid, NeverError, Remembers
<1>. QED BY <1>1, <1>2, <1>3, <1>4, <1>5 DEF Next

\* The invariant holds in every reachable state.
THEOREM Invariance == Spec => []IInv
  BY InitIInv, Inductive, PTL DEF Spec

\* The accumulated bytes never exceed the buffer, whatever is pushed.
THEOREM ParserTypeCorrect == Spec => []TypeOK
<1>1. IInv => TypeOK
  BY DEF IInv
<1>. QED BY <1>1, Invariance, PTL

\* Neither Push_Byte nor the reading calls ever report a violated invariant.
THEOREM ParserNeverErrs == Spec => []NeverError
<1>1. IInv => NeverError
  BY DEF IInv
<1>. QED BY <1>1, Invariance, PTL

-----------------------------------------------------------------------------
(* The refinement *)

\* Nothing is unread at first.
LEMMA InitRefines == Init => Promise!Init
  BY DEF Init, Parser_Init, Unread, Promise!Init

\* A byte that is accepted extends or ends the segment, as the parser's own memory of
\* it tells; a byte before an unread body is refused.
LEMMA PushByteRefines ==
    ASSUME IInv, NEW b \in Bytes, PushByte(b)
    PROVE  Promise!Next
<1>. USE ParserAssumption, EmptyBody
<1>1. /\ parser' = Push_Byte(parser, b).p /\ told' = Push_Byte(parser, b).result
      /\ UNCHANGED taken
  BY DEF PushByte
<1>2. /\ State_Is_Valid(parser) /\ TypeOK /\ Remembers
      /\ parser.body \in Bodies /\ segment \in Bodies /\ parser.capacity = Capacity
      /\ Len(segment) \in Nat /\ Len(parser.body) \in Nat
  BY DEF IInv, TypeOK
<1>3. CASE parser.ready
  <2>1. parser' = parser /\ told' = "BODY_READY" /\ segment' = segment
    BY <1>1, <1>2, <1>3 DEF Push_Byte, PushByte, Pushed
  <2>2. Unread # <<>> /\ Unread' = Unread
    BY <1>2, <1>3, <2>1 DEF Unread, State_Is_Valid
  <2>3. Promise!Refuse
    BY <1>1, <2>1, <2>2 DEF Promise!Refuse
  <2>. QED BY <2>3 DEF Promise!Next
<1>4. CASE ~ parser.ready /\ b = Delimiter
  <2>1. segment' = <<>> /\ Unread = <<>>
    BY <1>4 DEF PushByte, Unread
  <2>2. CASE parser.discarding
    <3>1. /\ parser' = [parser EXCEPT !.discarding = FALSE]
          /\ told' = "DISCARDED_BODY"
      BY <1>1, <1>2, <1>4, <2>2 DEF Push_Byte, Push_Discarded, Pushed
    <3>2. Unread' = <<>>
      BY <1>2, <1>4, <3>1 DEF Unread, TypeOK
    <3>3. Len(segment) > Capacity
      BY <1>2, <2>2 DEF Remembers
    <3>. QED BY <1>1, <2>1, <3>1, <3>2, <3>3 DEF Promise!Next, Promise!End
  <2>3. CASE ~ parser.discarding /\ parser.body = <<>>
    <3>1. parser' = parser /\ told' = "NEED_MORE_DATA"
      BY <1>1, <1>2, <1>4, <2>3 DEF Push_Byte, Push_Delimiter, Pushed
    <3>2. Unread' = <<>> /\ segment = <<>>
      BY <1>2, <1>4, <2>3, <3>1 DEF Unread, Remembers
    <3>. QED BY <1>1, <2>1, <3>1, <3>2 DEF Promise!Next, Promise!End
  <2>4. CASE ~ parser.discarding /\ parser.body # <<>>
    <3>1. parser' = [parser EXCEPT !.ready = TRUE] /\ told' = "BODY_READY"
      BY <1>1, <1>2, <1>4, <2>4 DEF Push_Byte, Push_Delimiter, Pushed
    <3>2. segment = parser.body
      BY <1>2, <1>4, <2>4 DEF Remembers
    <3>3. Unread' = segment
      BY <1>2, <3>1, <3>2 DEF Unread, TypeOK
    <3>4. Len(segment) \in 1 .. Capacity
      BY <1>2, <2>4, <3>2 DEF TypeOK
    <3>. QED BY <1>1, <2>1, <3>1, <3>3, <3>4 DEF Promise!Next, Promise!End
  <2>. QED BY <2>2, <2>3, <2>4
<1>5. CASE ~ parser.ready /\ b # Delimiter
  <2>1. b \in NonzeroBytes /\ segment' = Append(segment, b)
    BY <1>5 DEF PushByte, Bytes
  <2>2. Len(segment') = Len(segment) + 1
    BY <1>2, <2>1, AppendBody
  <2>3. /\ ~ parser'.ready
        /\ told' = IF Len(segment') > Capacity THEN "DISCARDING" ELSE "NEED_MORE_DATA"
    <3>1. CASE parser.discarding
      <4>1. parser' = parser /\ told' = "DISCARDING"
        BY <1>1, <1>2, <1>5, <3>1 DEF Push_Byte, Push_Discarded, Pushed
      <4>. QED BY <1>2, <1>5, <2>2, <3>1, <4>1 DEF Remembers
    <3>2. CASE ~ parser.discarding /\ Len(parser.body) = Capacity
      <4>1. /\ parser' = [parser EXCEPT !.body = <<>>, !.discarding = TRUE]
            /\ told' = "DISCARDING"
        BY <1>1, <1>2, <1>5, <3>2 DEF Push_Byte, Push_Nonzero, Pushed
      <4>2. segment = parser.body
        BY <1>2, <1>5, <3>2 DEF Remembers
      <4>3. ~ parser'.ready
        BY <1>2, <1>5, <4>1 DEF TypeOK
      <4>. QED BY <1>2, <2>2, <3>2, <4>1, <4>2, <4>3
    <3>3. CASE ~ parser.discarding /\ Len(parser.body) # Capacity
      <4>1. /\ parser' = [parser EXCEPT !.body = Append(parser.body, b)]
            /\ told' = "NEED_MORE_DATA"
        BY <1>1, <1>2, <1>5, <3>3 DEF Push_Byte, Push_Nonzero, Pushed
      <4>2. segment = parser.body
        BY <1>2, <1>5, <3>3 DEF Remembers
      <4>3. ~ parser'.ready
        BY <1>2, <1>5, <4>1 DEF TypeOK
      <4>4. ~ (Len(segment') > Capacity)
        BY <1>2, <2>2, <3>3, <4>2 DEF TypeOK
      <4>. QED BY <4>1, <4>3, <4>4
    <3>. QED BY <3>1, <3>2, <3>3
  <2>4. Unread = <<>> /\ Unread' = <<>>
    BY <1>5, <2>3 DEF Unread
  <2>5. Promise!Extend
    BY <1>1, <2>1, <2>3, <2>4 DEF Promise!Extend
  <2>. QED BY <2>5 DEF Promise!Next
<1>. QED BY <1>3, <1>4, <1>5

\* What a reading call does to the segment held out.
LEMMA ReadingRefines ==
    ASSUME IInv, UNCHANGED segment
    PROVE  /\ parser.ready /\ parser' = Consumed(parser) /\ told' = "OK"
                 /\ taken' \in {taken, parser.body}
              => Promise!Take
           /\ ~ parser.ready /\ told' = "NOT_READY" /\ UNCHANGED <<parser, taken>>
              => Promise!Refuse
           /\ parser.ready /\ told' = "BUFFER_TOO_SMALL" /\ UNCHANGED <<parser, taken>>
              => Promise!RefuseRoom
<1>1. parser.ready => Unread = parser.body /\ Unread # <<>>
  BY DEF Unread, IInv, State_Is_Valid
<1>2. parser' = Consumed(parser) => Unread' = <<>>
  BY DEF Unread, Consumed, IInv, TypeOK
<1>3. ~ parser.ready => Unread = <<>>
  BY DEF Unread
<1>4. UNCHANGED parser => Unread' = Unread
  BY DEF Unread
<1>. QED
  BY <1>1, <1>2, <1>3, <1>4 DEF Promise!Take, Promise!Refuse, Promise!RefuseRoom

\* A consumed body is one the abstract stream hands over.
LEMMA ConsumeBodyRefines ==
    ASSUME IInv, ConsumeBody
    PROVE  Promise!Next
<1>1. UNCHANGED <<taken, segment>>
  BY DEF ConsumeBody
<1>2. CASE parser.ready
  <2>1. told' = "OK" /\ parser' = Consumed(parser)
    BY <1>2 DEF ConsumeBody, Peek_Status, IInv
  <2>. QED BY <1>1, <1>2, <2>1, ReadingRefines DEF Promise!Next
<1>3. CASE ~ parser.ready
  <2>1. told' = "NOT_READY" /\ parser' = parser
    BY <1>3 DEF ConsumeBody, Peek_Status, IInv
  <2>. QED BY <1>1, <1>3, <2>1, ReadingRefines DEF Promise!Next
<1>. QED BY <1>2, <1>3

\* A body that was copied is handed over, one that does not fit stays.
LEMMA ReadBodyRefines ==
    ASSUME IInv, NEW room \in 0 .. Capacity, ReadBody(room)
    PROVE  Promise!Next
<1>1. UNCHANGED segment
  BY DEF ReadBody
<1>2. CASE parser.ready /\ ~ (room < Len(parser.body))
  <2>1. told' = "OK" /\ parser' = Consumed(parser) /\ taken' = parser.body
    BY <1>2 DEF ReadBody, Read_Status, Peek_Status, IInv
  <2>. QED BY <1>1, <1>2, <2>1, ReadingRefines DEF Promise!Next
<1>3. CASE parser.ready /\ room < Len(parser.body)
  <2>1. told' = "BUFFER_TOO_SMALL" /\ UNCHANGED <<parser, taken>>
    BY <1>3 DEF ReadBody, Read_Status, Peek_Status, IInv
  <2>. QED BY <1>1, <1>3, <2>1, ReadingRefines DEF Promise!Next
<1>4. CASE ~ parser.ready
  <2>1. told' = "NOT_READY" /\ UNCHANGED <<parser, taken>>
    BY <1>4 DEF ReadBody, Read_Status, Peek_Status, IInv
  <2>. QED BY <1>1, <1>4, <2>1, ReadingRefines DEF Promise!Next
<1>. QED BY <1>2, <1>3, <1>4

\* A reset restarts the stream.
LEMMA ResetRefines == Reset => Promise!Restart
  BY DEF Reset, Parser_Reset, Unread, Promise!Restart

\* Every operation is a step of the abstract stream, or none.
LEMMA StepRefines == IInv /\ [Next]_vars => [Promise!Next]_(Promise!vars)
<1>. SUFFICES ASSUME IInv, [Next]_vars
              PROVE  Promise!Next \/ UNCHANGED Promise!vars
  OBVIOUS
<1>1. ASSUME NEW b \in Bytes, PushByte(b)
      PROVE  Promise!Next
  BY <1>1, PushByteRefines
<1>2. CASE ConsumeBody
  BY <1>2, ConsumeBodyRefines
<1>3. ASSUME NEW room \in 0 .. Capacity, ReadBody(room)
      PROVE  Promise!Next
  BY <1>3, ReadBodyRefines
<1>4. CASE Reset
  BY <1>4, ResetRefines DEF Promise!Next
<1>5. CASE UNCHANGED vars
  BY <1>5 DEF vars, Promise!vars, Unread
<1>. QED BY <1>1, <1>2, <1>3, <1>4, <1>5 DEF Next

\* The parser, which forgets an oversized body, keeps the promise that is stated over the
\* whole segment: what fits is read whole, what does not is reported once.
THEOREM ParserRefinesSegmentStream == Spec => ImplementsSegmentStream
  BY InitRefines, StepRefines, Invariance, PTL
  DEF Spec, ImplementsSegmentStream, Promise!Spec
=============================================================================
