------------------------------ MODULE FrameLink ------------------------------
(***************************************************************************)
(* Frames of one context to another as a stream of bytes.  Both contexts   *)
(* are configured on their own; the sender encodes frames into its output  *)
(* region, the wire may drop or change a byte, the receiver is handed the  *)
(* bytes in chunks of any size, cuts them into bodies and decodes those,   *)
(* and may have no room for what a body says, in which case it keeps the   *)
(* body and refuses the bytes behind it.                                   *)
(***************************************************************************)
EXTENDS FrameCodec, BodyParser

CONSTANTS
    Configs,         \* configurations: the message size and the encoded size
    Workspaces,      \* sizes of the storage handed to Init
    Frames,          \* frames the sender may be asked to send
    MaxFrames,       \* bound: frames sent
    MaxBodies,       \* bodies the receiver can have room for in one call
    MaxChunk,        \* bound: bytes of a chunk that is not all there is
    MaxFaults,       \* bytes dropped or changed (FrameAt counts on one at most)
    NewBytes         \* what a changed byte may become

\* Configurations are made of sizes, and so is the storage.
ASSUME SizesAssumption ==
    /\ Configs \subseteq [message : 0 .. SizeMax, encoded : 0 .. SizeMax]
    /\ Workspaces \subseteq 0 .. SizeMax

Ends == {"SENDER", "RECEIVER"}
NotReady == [status |-> "NONE", workspace |-> 0, config |-> [message |-> 0, encoded |-> 0]]

VARIABLES
    context,    \* per end: what Init was given and returned
    sent,       \* the frames sent
    wire,       \* their bytes, before the receiver
    parser,     \* the receiver's parser
    owed,       \* a body that was too long is not reported yet
    decoded,    \* what the receiver's bodies were, in order
    faults,     \* bytes the wire may still damage
    harmed,     \* the frames with a damaged byte, and the one a lost end runs into
    faulted     \* a call reported an inconsistency that faults its endpoint

vars == <<context, sent, wire, parser, owed, decoded, faults, harmed, faulted>>

Init ==
    /\ context = [e \in Ends |-> NotReady]
    /\ sent = <<>> /\ wire = <<>> /\ decoded = <<>>
    /\ parser = Parser_Init(1) /\ owed = FALSE
    /\ faults = MaxFaults
    /\ harmed = {} /\ faulted = FALSE

Initialised(e) == context[e].status = "OK"
Limit(e)  == context[e].config.message
Region(e) == Regions(context[e].config)

-----------------------------------------------------------------------------
(* Calls *)

Profile_Init(e, c, workspace) ==
    /\ ~ Initialised(e)
    /\ \E status \in {Init_Status(c, workspace)} :
           IF status = "OK"
           THEN /\ context' = [context EXCEPT ![e] =
                       [status |-> status, workspace |-> workspace, config |-> c]]
                /\ parser' = IF e = "RECEIVER" THEN Parser_Init(Regions(c).body) ELSE parser
           ELSE /\ context' = [context EXCEPT ![e] = [NotReady EXCEPT !.status = status]]
                /\ UNCHANGED parser
    /\ UNCHANGED <<sent, wire, owed, decoded, faults, harmed, faulted>>

\* A frame larger than the configuration allows is refused before it is encoded.
Send(f) ==
    /\ Initialised("SENDER") /\ Len(sent) < MaxFrames
    /\ Validate_Frame(f, Limit("SENDER")) = "OK"
    /\ sent' = Append(sent, f)
    /\ \E r \in {Encode_Frame(f, Limit("SENDER"), Region("SENDER").scratch,
                             Region("SENDER").output)} :
           /\ wire' = wire \o r.bytes
           /\ faulted' = (faulted \/ r.status # "OK")
    /\ UNCHANGED <<context, parser, owed, decoded, faults, harmed>>

\* The bytes of one Push_Bytes: all up to and with the one that ends a body.
Ending == {"ERROR", "BODY_READY", "DISCARDED_BODY"}
Push_Next(acc, i, b) ==
    IF acc.result \in Ending THEN acc
    ELSE LET r == Push_Byte(acc.p, b)
         IN  r @@ [used |-> IF r.result = "ERROR" THEN acc.used ELSE i]

Push_Bytes(p, data) ==
    LET Push(acc, i) == Push_Next(acc, i, data[i])
        result == IF p.ready THEN "BODY_READY" ELSE "NEED_MORE_DATA"
    IN  FoldLeftDomain(Push, [p |-> p, result |-> result, used |-> 0], data)

\* The body held by the parser is decoded and, with room for what it says, released.
\* Broken variants: a body that is no frame stays; it takes the bytes behind it along.
Body_Handled_kept(s, d, data) ==
    IF d.status \notin {"OK", "MESSAGE_TOO_LARGE"} THEN [s EXCEPT !.stop = TRUE, !.faulted = TRUE]
    ELSE IF d.result # "VALID" THEN s
    ELSE [s EXCEPT !.p = Consumed(s.p), !.out = Append(@, d), !.room = @ - 1]
Body_Handled_flushing(s, d, data) ==
    IF d.status \notin {"OK", "MESSAGE_TOO_LARGE"} THEN [s EXCEPT !.stop = TRUE, !.faulted = TRUE]
    ELSE [s EXCEPT !.p = Consumed(s.p), !.out = Append(@, d), !.room = @ - 1,
                   !.used = IF d.result = "VALID" THEN @ ELSE Len(data)]

Body_Handled(s, d, data) ==
    IF d.status \notin {"OK", "MESSAGE_TOO_LARGE"} THEN [s EXCEPT !.stop = TRUE, !.faulted = TRUE]
    ELSE [s EXCEPT !.p = Consumed(s.p), !.out = Append(@, d), !.room = @ - 1]

Process_Retained_Body(s, data) ==
    IF s.room = 0 THEN [s EXCEPT !.stop = TRUE]
    ELSE Body_Handled(s, Decode_Frame_View(s.p.body, Limit("RECEIVER"),
                                           Region("RECEIVER").scratch), data)

Discarded == [status |-> "OK", result |-> "DISCARDED", frame |-> NoFrame]

\* A discarded body is reported now, or first thing in a later call.
Process_Pending_Error(s) ==
    IF s.room = 0 THEN [s EXCEPT !.owed = TRUE, !.stop = TRUE]
    ELSE [s EXCEPT !.owed = FALSE, !.out = Append(@, Discarded), !.room = @ - 1]

\* What the receive loop does with the result of a Push_Bytes.
After_Push(s, result, data) ==
    CASE result = "BODY_READY" -> Process_Retained_Body(s, data)
      [] result = "DISCARDED_BODY" -> Process_Pending_Error(s)
      [] OTHER -> [s EXCEPT !.stop = TRUE,
                            !.faulted = @ \/ result = "ERROR" \/ s.used # Len(data)]

After_Turn(s, r, data) == After_Push([s EXCEPT !.p = r.p, !.used = @ + r.used], r.result, data)

\* What was left over from earlier calls comes first.
Receive_Start(room, data) ==
    LET start == [p |-> parser, owed |-> owed, used |-> 0, out |-> <<>>, room |-> room,
                  stop |-> FALSE, faulted |-> FALSE]
    IN  IF owed THEN Process_Pending_Error(start)
        ELSE IF parser.ready THEN Process_Retained_Body(start, data)
        ELSE start

\* Every turn of the loop takes a byte or is the last, so Len(data) turns are enough.
Receive_Bytes(data, room) ==
    LET Turn(s, i) ==
            IF s.stop \/ s.used = Len(data) THEN s
            ELSE After_Turn(s, Push_Bytes(s.p, SubSeq(data, s.used + 1, Len(data))), data)
    IN  FoldLeftDomain(Turn, Receive_Start(room, data), data)

Receive(n, room) ==
    /\ Initialised("RECEIVER")
    /\ \E r \in {Receive_Bytes(SubSeq(wire, 1, n), room)} :
           /\ parser' = r.p /\ owed' = r.owed
           /\ wire' = SubSeq(wire, r.used + 1, Len(wire))
           /\ decoded' = decoded \o r.out
           /\ faulted' = (faulted \/ r.faulted)
    /\ UNCHANGED <<context, sent, faults, harmed>>

-----------------------------------------------------------------------------
(* The wire *)

\* The frame whose bytes hold position i of the wire, its delimiter included.
FrameAt(i) ==
    Len(sent) + 1 - Cardinality({j \in i .. Len(wire) : wire[j] = 0})

Harm(i) ==
    {FrameAt(i)} \cup (IF wire[i] = 0 THEN {FrameAt(i) + 1} ELSE {})

Change(i, b) ==
    /\ faults > 0 /\ wire[i] # b
    /\ faults' = faults - 1
    /\ wire' = [wire EXCEPT ![i] = b]
    /\ harmed' = harmed \cup Harm(i)
    /\ UNCHANGED <<context, sent, parser, owed, decoded, faulted>>

Drop(i) ==
    /\ faults > 0
    /\ faults' = faults - 1
    /\ wire' = RemoveAt(wire, i)
    /\ harmed' = harmed \cup Harm(i)
    /\ UNCHANGED <<context, sent, parser, owed, decoded, faulted>>

Next ==
    \/ \E e \in Ends, c \in Configs, w \in Workspaces : Profile_Init(e, c, w)
    \/ \E f \in Frames : Send(f)
    \/ \E n \in 0 .. Len(wire), room \in 0 .. MaxBodies :
           (n <= MaxChunk \/ n = Len(wire)) /\ Receive(n, room)
    \/ \E i \in 1 .. Len(wire), b \in NewBytes : Change(i, b)
    \/ \E i \in 1 .. Len(wire) : Drop(i)

Spec == Init /\ [][Next]_vars

-----------------------------------------------------------------------------
(* Type invariant and properties *)

Results == {"VALID", "MALFORMED", "INTEGRITY_INVALID", "SESSION_INCOMPATIBLE", "DISCARDED"}

TypeOK ==
    /\ sent \in Seq(Frames) /\ wire \in Seq(Bytes)
    /\ State_Is_Valid(parser) /\ ~ (owed /\ parser.ready)
    /\ \A i \in DOMAIN decoded : decoded[i].result \in Results
    /\ faults \in 0 .. MaxFaults /\ faulted \in BOOLEAN /\ owed \in BOOLEAN

\* An accepted configuration lays its regions out within the storage that was handed over:
\* no sum wrapped on the way, and the size asked for beforehand is the size used.
LayoutFits ==
    \A e \in Ends : Initialised(e) =>
        LET r == Region(e)
        IN  /\ RootSize + r.submitted + r.output + r.body + r.scratch + r.received
                   = Required_Storage_Size(context[e].config)
            /\ Required_Storage_Size(context[e].config) <= context[e].workspace

\* No legal frame and no bytes of a peer, however long or damaged, make a call fail in a
\* way that faults the endpoint: an encoding fits the region that was sized in advance for
\* the worst case, and its exact size is the size predicted.
NothingFaults == ~ faulted

\* As long as nothing was damaged and the limits agree, exactly what was sent is read, in
\* order, wherever the chunks were cut.
Understood == [i \in 1 .. Len(sent) |-> [status |-> "OK", result |-> "VALID", frame |-> sent[i]]]
UndamagedArrivesInOrder ==
    harmed = {} /\ Limit("RECEIVER") >= Limit("SENDER") => IsPrefix(decoded, Understood)

\* Damage does not spread: when the wire is empty, every frame before the first damaged one
\* and behind the last has been read, in order.
Drained == wire = <<>> /\ ~ parser.ready /\ ~ owed
Before(S) == SubSeq(Understood, 1, Min(S) - 1)
Behind(S) == SubSeq(Understood, Max(S) + 1, Len(sent))
DamageStaysLocal ==
    Drained /\ harmed # {} /\ Limit("RECEIVER") >= Limit("SENDER") =>
        IsPrefix(Before(harmed), decoded) /\ IsSuffix(Behind(harmed), decoded)

\* No input blocks the receiver: whatever it was sent and holds, one call with room for
\* what the bytes say takes all of them, bodies too long or not understood included.
NoInputBlocks ==
    Initialised("RECEIVER") =>
        \A r \in {Receive_Bytes(wire, Len(wire) + 2)} :
            r.used = Len(wire) /\ ~ r.p.ready /\ ~ r.owed
=============================================================================
