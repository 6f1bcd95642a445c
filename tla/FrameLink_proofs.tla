--------------------------- MODULE FrameLink_proofs ---------------------------
(***************************************************************************)
(* For every size_t, every storage root and every configuration: a context *)
(* that Init accepted lays its regions out within the storage it was       *)
(* handed, although the sums that say so are made in a size_t.             *)
(***************************************************************************)
EXTENDS FrameLink, TLAPS

\* A number of a size_t is itself.
LEMMA WrappedSmall == ASSUME NEW n \in 0 .. SizeMax PROVE Wrapped(n) = n
BY CodecAssumption DEF Wrapped

\* An accepted configuration leaves room for the overhead of a frame.
LEMMA MessageLeavesRoom ==
    ASSUME NEW c \in Configs, Config_Status(c) = "OK"
    PROVE  c.message + RawOverhead \in 0 .. SizeMax /\ c.encoded > 0
<1>1. c.message \in 0 .. SizeMax /\ c.encoded \in 0 .. SizeMax
  BY SizesAssumption
<1>2. c.encoded # 0 /\ Max_Encoded_Size(c.message) # 0
  BY DEF Config_Status
<1>3. ~ (c.message > SizeMax - RawOverhead)
  BY <1>2 DEF Max_Encoded_Size
<1>. QED BY <1>1, <1>2, <1>3, CodecAssumption DEF RawOverhead, HeaderSize, CrcSize

\* A checked sum that did not overflow is the sum.
LEMMA CheckedSum ==
    ASSUME NEW a \in Nat \cup {Overflow}, NEW b \in Nat, Checked_Add(a, b) # Overflow
    PROVE  a \in Nat /\ Checked_Add(a, b) = a + b /\ a + b <= SizeMax
BY CodecAssumption DEF Checked_Add, Overflow

\* Adding what may have overflowed gives a size or an overflow.
LEMMA CheckedType ==
    ASSUME NEW a \in Nat \cup {Overflow}, NEW b \in Nat
    PROVE  Checked_Add(a, b) \in Nat \cup {Overflow}
BY CodecAssumption DEF Checked_Add, Overflow

Sum(r) == RootSize + r.submitted + r.output + r.body + r.scratch + r.received

\* The total of an accepted configuration is the true sum of its regions.
LEMMA TotalIsTrue ==
    ASSUME NEW c \in Configs, Config_Status(c) = "OK"
    PROVE  Total_Size(c) = Sum(Regions(c)) /\ Total_Size(c) \in Nat
<1>. DEFINE r == Regions(c)
            t1 == Checked_Add(RootSize, r.submitted)
            t2 == Checked_Add(t1, r.output)
            t3 == Checked_Add(t2, r.body)
            t4 == Checked_Add(t3, r.scratch)
            t5 == Checked_Add(t4, r.received)
<1>1. /\ r.submitted \in Nat /\ r.output \in Nat /\ r.body \in Nat
      /\ r.scratch \in Nat /\ r.received \in Nat
  <2>1. c.message \in 0 .. SizeMax /\ c.encoded \in 0 .. SizeMax
    BY SizesAssumption
  <2>2. Wrapped(c.message + RawOverhead) = c.message + RawOverhead
    BY MessageLeavesRoom, WrappedSmall
  <2>. QED BY <2>1, <2>2, MessageLeavesRoom DEF Regions
<1>2. Total_Size(c) = t5 /\ t5 # Overflow
  BY DEF Total_Size, Config_Status
<1>3. RootSize \in Nat \cup {Overflow}
  BY CodecAssumption
<1>. HIDE DEF r
<1>4. t1 \in Nat \cup {Overflow} BY <1>1, <1>3, CheckedType
<1>. HIDE DEF t1
<1>5. t2 \in Nat \cup {Overflow} BY <1>1, <1>4, CheckedType
<1>. HIDE DEF t2
<1>6. t3 \in Nat \cup {Overflow} BY <1>1, <1>5, CheckedType
<1>. HIDE DEF t3
<1>7. t4 \in Nat \cup {Overflow} BY <1>1, <1>6, CheckedType
<1>. HIDE DEF t4
<1>8. t4 \in Nat /\ t5 = t4 + r.received
  BY <1>1, <1>2, <1>7, CheckedSum
<1>9. t3 \in Nat /\ t4 = t3 + r.scratch
  BY <1>1, <1>6, <1>8, CheckedSum DEF t4, Overflow
<1>10. t2 \in Nat /\ t3 = t2 + r.body
  BY <1>1, <1>5, <1>9, CheckedSum DEF t3, Overflow
<1>11. t1 \in Nat /\ t2 = t1 + r.output
  BY <1>1, <1>4, <1>10, CheckedSum DEF t2, Overflow
<1>12. t1 = RootSize + r.submitted
  BY <1>1, <1>3, <1>11, CheckedSum DEF t1, Overflow
<1>13. t5 = Sum(r)
  BY <1>8, <1>9, <1>10, <1>11, <1>12 DEF Sum
<1>. QED BY <1>1, <1>2, <1>8, <1>13 DEF r

\* What Init leaves in a context: nothing, or a configuration that fits its storage.
ContextOK(x) ==
    x.status = "OK" => /\ Sum(Regions(x.config)) = Required_Storage_Size(x.config)
                       /\ Required_Storage_Size(x.config) <= x.workspace
LayoutInv ==
    /\ context = [e \in Ends |-> context[e]]
    /\ \A e \in Ends : ContextOK(context[e])

\* A context that was never initialised owns no storage.
LEMMA LayoutInit == Init => LayoutInv
BY DEF Init, LayoutInv, ContextOK, NotReady, Ends

\* Init accepts a configuration only with storage for it.
LEMMA AcceptedFits ==
    ASSUME NEW c \in Configs, NEW w \in Workspaces, Init_Status(c, w) = "OK"
    PROVE  ContextOK([status |-> "OK", workspace |-> w, config |-> c])
<1>1. Config_Status(c) = "OK" /\ ~ (w < Total_Size(c))
  BY DEF Init_Status
<1>2. Total_Size(c) = Sum(Regions(c)) /\ Total_Size(c) \in Nat
  BY <1>1, TotalIsTrue
<1>3. w \in Nat
  BY SizesAssumption, CodecAssumption
<1>. QED BY <1>1, <1>2, <1>3 DEF ContextOK, Required_Storage_Size

\* Init leaves the other context alone and installs this one only when it fits.
LEMMA InitKeepsLayout ==
    ASSUME LayoutInv, NEW e \in Ends, NEW c \in Configs, NEW w \in Workspaces,
           Profile_Init(e, c, w)
    PROVE  LayoutInv'
<1>1. PICK status \in {Init_Status(c, w)} :
          IF status = "OK"
          THEN context' = [context EXCEPT ![e] =
                   [status |-> status, workspace |-> w, config |-> c]]
          ELSE context' = [context EXCEPT ![e] = [NotReady EXCEPT !.status = status]]
  BY DEF Profile_Init
<1>2. CASE status = "OK"
  <2>1. ContextOK([status |-> "OK", workspace |-> w, config |-> c])
    BY <1>2, AcceptedFits
  <2>2. context' = [context EXCEPT ![e] = [status |-> "OK", workspace |-> w, config |-> c]]
    BY <1>1, <1>2
  <2>. QED BY <2>1, <2>2 DEF LayoutInv
<1>3. CASE status # "OK"
  <2>1. ContextOK([NotReady EXCEPT !.status = status])
    BY <1>3 DEF ContextOK, NotReady
  <2>2. context' = [context EXCEPT ![e] = [NotReady EXCEPT !.status = status]]
    BY <1>1, <1>3
  <2>. QED BY <2>1, <2>2 DEF LayoutInv
<1>. QED BY <1>2, <1>3

\* Only Init writes a context.
LEMMA LayoutNext == LayoutInv /\ [Next]_vars => LayoutInv'
<1>. SUFFICES ASSUME LayoutInv, [Next]_vars PROVE LayoutInv'
  OBVIOUS
<1>1. CASE \E e \in Ends, c \in Configs, w \in Workspaces : Profile_Init(e, c, w)
  BY <1>1, InitKeepsLayout
<1>2. CASE \E f \in Frames : Send(f)
  BY <1>2 DEF Send, LayoutInv
<1>3. CASE \E n \in 0 .. Len(wire), room \in 0 .. MaxBodies :
              (n <= MaxChunk \/ n = Len(wire)) /\ Receive(n, room)
  BY <1>3 DEF Receive, LayoutInv
<1>4. CASE \E i \in 1 .. Len(wire), b \in NewBytes : Change(i, b)
  BY <1>4 DEF Change, LayoutInv
<1>5. CASE \E i \in 1 .. Len(wire) : Drop(i)
  BY <1>5 DEF Drop, LayoutInv
<1>6. CASE UNCHANGED vars
  BY <1>6 DEF vars, LayoutInv
<1>. QED BY <1>1, <1>2, <1>3, <1>4, <1>5, <1>6 DEF Next

\* The regions of every accepted configuration fit the storage that was handed over, for
\* every size_t (HIL_TRANSPORT_MVP_Validate_Config_And_Size, HIL_TRANSPORT_PROFILE_Init).
THEOREM LayoutAlwaysFits == Spec => []LayoutFits
<1>1. LayoutInv => LayoutFits
  BY DEF LayoutInv, LayoutFits, ContextOK, Initialised, Region, Sum
<1>. QED BY <1>1, LayoutInit, LayoutNext, PTL DEF Spec
=============================================================================
