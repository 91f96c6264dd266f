-------------------------- MODULE CmsgParseProofs ---------------------------
(***************************************************************************)
(* The parser, for every layout and buffer.  On arbitrary bytes it stays   *)
(* inside the buffer, never yields a byte twice, and goes forward; on what *)
(* reserve_cmsg or the kernel wrote, wherever the kernel cut it off, it    *)
(* keeps in step and yields exactly what is there.                         *)
(***************************************************************************)
EXTENDS CmsgParse, CmsgLayoutProofs, TLAPS

-----------------------------------------------------------------------------
(* The inductive invariant.                                                *)

\* What TypeOK says of the walk's own state.
WalkTypes ==
    /\ hdrs \subseteq Header
    /\ total \in Nat
    /\ pos \in Nat
    /\ pos <= total
    /\ out \in Seq(Message)

\* Every message yielded ends where the walk stands, or before.
Behind == \A i \in DOMAIN out : out[i].off + header_len + out[i].data <= pos

IInv == WalkTypes /\ Behind /\ NoOverlap

-----------------------------------------------------------------------------
(* The writers.                                                            *)

\* Cutting a message leaves a header.
LEMMA DeliveredIsHeader ==
    ASSUME NEW h \in Header, NEW room \in Nat, IsDelivered(h, room)
    PROVE  Delivered(h, room) \in Header
<1> DEFINE left == room - h.off - header_len
           fit == IF h.kind = "rights" THEN FdSize * Whole(left) ELSE left
<1>1. header_len \in Nat /\ FdSize \in Nat \ {0}
  BY HeaderLenBounds, LayoutAssumption
<1>2. CASE RewritesLen /\ Straddles(h, room)
  <2>1. left \in Nat
    BY <1>1, <1>2 DEF IsDelivered, Header
  <2>2. Whole(left) \in Nat
    BY <1>1, <2>1 DEF Whole
  <2>3. fit \in Nat
    BY <1>1, <2>1, <2>2
  <2>4. Delivered(h, room) = [off |-> h.off, kind |-> h.kind, payload |-> fit,
                              len |-> header_len + fit]
    BY <1>2 DEF Delivered
  <2> HIDE DEF fit
  <2>5. h.off \in Nat /\ h.kind \in KindName /\ header_len + fit \in Nat
    BY <1>1, <2>3 DEF Header
  <2> QED
    BY <2>3, <2>4, <2>5 DEF Header
<1>3. CASE ~(RewritesLen /\ Straddles(h, room))
  BY <1>3 DEF Delivered
<1> QED
  BY <1>2, <1>3

LEMMA ReserveStep ==
    ASSUME IInv, NEW kind \in KindName, NEW n \in Nat, reserve_cmsg(kind, n)
    PROVE  IInv'
<1>1. n <= I32Max
  BY DEF reserve_cmsg, cmsg_space
<1>2. cmsg_space(n) \in Nat
  BY <1>1, CmsgSpaceExact, LayoutAssumption
<1>3. header_len + n \in Nat
  BY HeaderLenBounds
<1>4. [off |-> total, kind |-> kind, payload |-> n, len |-> header_len + n] \in Header
  BY <1>3 DEF Header, IInv, WalkTypes
<1>5. /\ hdrs' \subseteq Header
      /\ total' = total + cmsg_space(n) /\ pos' = pos /\ out' = out
  BY <1>4 DEF reserve_cmsg, IInv, WalkTypes
<1>6. WalkTypes'
  BY <1>2, <1>5 DEF IInv, WalkTypes
<1>7. Behind' /\ NoOverlap'
  BY <1>5 DEF IInv, Behind, NoOverlap
<1> QED
  BY <1>6, <1>7 DEF IInv

\* Before the walk nothing has been yielded.
NotStarted == phase = "write" => pos = 0 /\ out = <<>>

LEMMA DeliverStep ==
    ASSUME IInv, NotStarted, NEW room \in 0 .. Capacity, Deliver(room)
    PROVE  IInv'
<1>1. phase = "write" /\ pos = 0 /\ out = <<>>
  BY DEF Deliver, NotStarted
<1>2. pos' = 0 /\ out' = <<>> /\ total' \in 0 .. room
  BY <1>1 DEF Deliver
<1>3. hdrs' = {Delivered(h, room) : h \in {g \in hdrs : IsDelivered(g, room)}}
  BY DEF Deliver
<1>4. hdrs' \subseteq Header
  BY <1>3, DeliveredIsHeader, ParseAssumption DEF IInv, WalkTypes
<1>5. WalkTypes'
  BY <1>2, <1>4, ParseAssumption DEF WalkTypes
<1> QED
  BY <1>2, <1>5 DEF IInv, Behind, NoOverlap

LEMMA ScrambleStep ==
    ASSUME IInv, NotStarted, NEW n \in 0 .. Capacity, Scramble(n)
    PROVE  IInv'
<1>1. pos' = 0 /\ out' = <<>> /\ total' \in Nat /\ hdrs' = hdrs
  BY ParseAssumption DEF Scramble, NotStarted
<1>2. WalkTypes'
  BY <1>1 DEF IInv, WalkTypes
<1> QED
  BY <1>1, <1>2 DEF IInv, Behind, NoOverlap

-----------------------------------------------------------------------------
(* The walk.                                                               *)

\* Where the walk goes after a message: past its bytes, and never past the end.
LEMMA AdvanceBounds ==
    ASSUME total \in Nat, pos \in Nat, NEW data \in Nat,
           pos + header_len + data <= total
    PROVE  /\ Advance(data) \in Nat
           /\ pos + header_len + data <= Advance(data)
           /\ Advance(data) <= total
<1>1. header_len \in Nat
  BY HeaderLenBounds
<1>2. CASE cmsg_space(data) # NoSpace /\ cmsg_space(data) <= remaining
  <2>1. data <= I32Max
    BY <1>2 DEF cmsg_space
  <2>2. cmsg_space(data) \in Nat /\ cmsg_space(data) >= header_len + data
    BY <2>1, CmsgSpaceExact, LayoutAssumption
  <2>3. Advance(data) = pos + cmsg_space(data)
    BY <1>2 DEF Advance
  <2> HIDE DEF cmsg_space
  <2>4. cmsg_space(data) <= total - pos
    BY <1>2 DEF remaining
  <2> QED
    BY <1>1, <2>2, <2>3, <2>4
<1>3. CASE ~(cmsg_space(data) # NoSpace /\ cmsg_space(data) <= remaining)
  BY <1>3 DEF Advance
<1> QED
  BY <1>2, <1>3

\* The message a step of the walk yields, and where it stands after it.
LEMMA YieldFacts ==
    ASSUME IInv, WalkYields
    PROVE  \E m \in Message :
             /\ m.off = pos
             /\ out' = Append(out, m)
             /\ pos' \in Nat
             /\ pos + header_len + m.data <= pos'
             /\ pos' <= total
<1>1. PICK h \in HeaderAt(pos) :
         /\ Extent(h) >= header_len
         /\ out' = Append(out, [off |-> pos, kind |-> h.kind,
                                data |-> Extent(h) - header_len])
         /\ pos' = Advance(Extent(h) - header_len)
  BY DEF WalkYields
<1>2. total \in Nat /\ pos \in Nat /\ pos <= total /\ header_len \in Nat
  BY HeaderLenBounds DEF IInv, WalkTypes
<1>3. h.kind \in KindName /\ h.len \in Nat
  BY <1>1, ParseAssumption DEF HeaderAt, IInv, WalkTypes, Header
<1>4. Extent(h) \in Nat /\ Extent(h) <= total - pos
  BY <1>2, <1>3 DEF Extent, MinOf, remaining
<1> DEFINE data == Extent(h) - header_len
           m == [off |-> pos, kind |-> h.kind, data |-> data]
<1>5. data \in Nat /\ pos + header_len + data <= total
  BY <1>1, <1>2, <1>4
<1>6. m \in Message
  BY <1>2, <1>3, <1>5 DEF Message
<1>7. /\ pos' \in Nat /\ pos' <= total
      /\ pos + header_len + data <= pos'
  BY <1>1, <1>2, <1>5, AdvanceBounds
<1>8. out' = Append(out, m) /\ m.off = pos /\ m.data = data
  BY <1>1
<1> QED
  BY <1>6, <1>7, <1>8

LEMMA YieldStep ==
    ASSUME IInv, WalkYields
    PROVE  IInv'
<1>1. PICK m \in Message :
         /\ m.off = pos
         /\ out' = Append(out, m)
         /\ pos' \in Nat
         /\ pos + header_len + m.data <= pos'
         /\ pos' <= total
  BY YieldFacts
<1>2. total' = total /\ hdrs' = hdrs
  BY DEF WalkYields
<1>3. WalkTypes'
  BY <1>1, <1>2 DEF IInv, WalkTypes
<1>4. header_len \in Nat /\ pos \in Nat /\ m.data \in Nat /\ out \in Seq(Message)
  BY HeaderLenBounds DEF IInv, WalkTypes, Message
<1>5. /\ DOMAIN out = 1 .. Len(out) /\ DOMAIN out' = 1 .. Len(out) + 1
      /\ \A i \in DOMAIN out : out'[i] = out[i]
      /\ out'[Len(out) + 1] = m
  BY <1>1, <1>4
<1>6. \A i \in DOMAIN out : /\ out[i].off \in Nat /\ out[i].data \in Nat
                            /\ out[i].off + header_len + out[i].data <= pos
  <2>1. \A i \in DOMAIN out : out[i] \in Message
    BY <1>4
  <2>2. \A i \in DOMAIN out : out[i].off \in Nat /\ out[i].data \in Nat
    BY <2>1 DEF Message
  <2> QED
    BY <2>2 DEF IInv, Behind
<1>7. Behind'
  <2> SUFFICES ASSUME NEW i \in DOMAIN out'
               PROVE  out'[i].off + header_len + out'[i].data <= pos'
    BY DEF Behind
  <2>1. CASE i \in DOMAIN out
    <3>1. pos <= pos' /\ pos' \in Nat
      BY <1>1, <1>4
    <3>2. /\ out[i].off \in Nat /\ out[i].data \in Nat
          /\ out[i].off + header_len + out[i].data <= pos
      BY <1>6, <2>1
    <3>3. out[i].off + header_len + out[i].data <= pos'
      BY <1>4, <3>1, <3>2
    <3>4. out'[i] = out[i]
      BY <1>5, <2>1
    <3> QED
      BY <3>3, <3>4
  <2>2. CASE i = Len(out) + 1
    BY <1>1, <1>5, <2>2
  <2> QED
    BY <1>4, <1>5, <2>1, <2>2
<1>8. NoOverlap'
  <2> SUFFICES ASSUME NEW i \in DOMAIN out', NEW j \in DOMAIN out', i < j
               PROVE  out'[i].off + header_len + out'[i].data <= out'[j].off
    BY DEF NoOverlap
  <2>1. i \in DOMAIN out
    BY <1>4, <1>5
  <2>2. CASE j \in DOMAIN out
    BY <1>5, <2>1, <2>2 DEF IInv, NoOverlap
  <2>3. CASE j = Len(out) + 1
    BY <1>1, <1>5, <1>6, <2>1, <2>3
  <2> QED
    BY <1>4, <1>5, <2>2, <2>3
<1> QED
  BY <1>3, <1>7, <1>8 DEF IInv

-----------------------------------------------------------------------------
(* The theorems.                                                           *)

\* The invariant holds in every reachable state.
THEOREM WalkInvariance == Spec => [](IInv /\ NotStarted)
<1>1. Init => IInv /\ NotStarted
  BY DEF Init, IInv, WalkTypes, Behind, NoOverlap, NotStarted
<1>2. IInv /\ NotStarted /\ [Next]_vars => (IInv /\ NotStarted)'
  <2> SUFFICES ASSUME IInv, NotStarted, [Next]_vars
               PROVE  IInv' /\ NotStarted'
    OBVIOUS
  <2>1. CASE Write
    <3>1. PICK kind \in KindName, n \in Payloads : reserve_cmsg(kind, n)
      BY <2>1 DEF Write
    <3>2. IInv'
      BY <3>1, ReserveStep, ParseAssumption
    <3> QED
      BY <3>1, <3>2 DEF reserve_cmsg, NotStarted
  <2>2. CASE Hand
    <3>1. PICK n \in 0 .. Capacity : Deliver(n) \/ Scramble(n)
      BY <2>2 DEF Hand
    <3>2. IInv'
      BY <3>1, DeliverStep, ScrambleStep
    <3> QED
      BY <3>1, <3>2 DEF Deliver, Scramble, NotStarted
  <2>3. CASE WalkEnds
    <3>1. UNCHANGED <<hdrs, total, pos, out>> /\ phase' = "done"
      BY <2>3 DEF WalkEnds
    <3> QED
      BY <3>1 DEF IInv, WalkTypes, Behind, NoOverlap, NotStarted
  <2>4. CASE WalkYields
    <3>1. phase' = "walk"
      BY <2>4 DEF WalkYields
    <3> QED
      BY <2>4, <3>1, YieldStep DEF NotStarted
  <2>5. CASE UNCHANGED vars
    BY <2>5 DEF vars, IInv, WalkTypes, Behind, NoOverlap, NotStarted
  <2> QED
    BY <2>1, <2>2, <2>3, <2>4, <2>5 DEF Next
<1> QED
  BY <1>1, <1>2, PTL DEF Spec

\* No slice of RawMessages::next leaves the buffer, whatever its bytes are.
THEOREM ParserStaysInside == Spec => []WithinBuffer
<1>1. IInv => WithinBuffer
  <2> SUFFICES ASSUME IInv, NEW i \in DOMAIN out
               PROVE  out[i].off + header_len + out[i].data <= total
    BY DEF WithinBuffer
  <2>1. out[i].off \in Nat /\ out[i].data \in Nat /\ header_len \in Nat
    <3>1. out[i] \in Message
      BY DEF IInv, WalkTypes
    <3> QED
      BY <3>1, HeaderLenBounds DEF Message
  <2> QED
    BY <2>1 DEF IInv, WalkTypes, Behind
<1> QED
  BY <1>1, WalkInvariance, PTL

\* No byte of the buffer belongs to two messages: take_received_into and
\* take_fds never own the same bytes twice.
THEOREM MessagesAreDisjoint == Spec => []NoOverlap
<1>1. IInv => NoOverlap
  BY DEF IInv
<1> QED
  BY <1>1, WalkInvariance, PTL

\* Each message yielded brings the walk at least a header further, whatever
\* cmsg_len says: RawMessages cannot loop.
THEOREM ParserMakesProgress == Spec => WalkProgresses
<1>1. IInv /\ NotStarted /\ [Next]_vars
        => [out' # out => pos' >= pos + header_len]_vars
  <2> SUFFICES ASSUME IInv, NotStarted, Next, out' # out
               PROVE  pos' >= pos + header_len
    OBVIOUS
  <2>1. WalkYields
    <3>1. ASSUME Write PROVE FALSE
      BY <3>1 DEF Write, reserve_cmsg
    <3>2. ASSUME Hand PROVE FALSE
      BY <3>2 DEF Hand, Deliver, Scramble
    <3>3. ASSUME WalkEnds PROVE FALSE
      BY <3>3 DEF WalkEnds
    <3> QED
      BY <3>1, <3>2, <3>3 DEF Next
  <2>2. PICK m \in Message : /\ pos' \in Nat
                             /\ pos + header_len + m.data <= pos'
    BY <2>1, YieldFacts
  <2>3. header_len \in Nat /\ pos \in Nat /\ m.data \in Nat
    BY HeaderLenBounds DEF IInv, WalkTypes, Message
  <2> QED
    BY <2>2, <2>3
<1> QED
  BY <1>1, WalkInvariance, PTL DEF Spec, WalkProgresses

-----------------------------------------------------------------------------
(* Bytes that reserve_cmsg or the kernel laid out.                         *)

\* The messages in H, of `end` bytes, follow one another: each begins where the
\* space of the one before it ends, and the first at the beginning.
Laid(H, end) ==
    /\ \A h \in H : h.payload <= I32Max /\ h.len = header_len + h.payload
    /\ \A h \in H : \/ h.off + cmsg_space(h.payload) >= end
                    \/ \E g \in H : g.off = h.off + cmsg_space(h.payload)
    /\ \A g, h \in H : g.off < h.off => g.off + cmsg_space(g.payload) <= h.off
    /\ \A g, h \in H : g.off = h.off => g = h
    /\ end > 0 => \E h \in H : h.off = 0

\* Before the kernel cuts the buffer every message is there with its padding.
Fits(H, end) == \A h \in H : h.off + cmsg_space(h.payload) <= end

\* The payload bytes of h that are left in the buffer.
Cut(h) == MinOf(h.payload, total - h.off - header_len)

\* The walk stands where a header was written or at the end, and has yielded
\* each header behind it with the payload that is there.
Walked ==
    /\ pos = total \/ \E h \in hdrs : h.off = pos
    /\ \A i \in DOMAIN out : \E h \in hdrs :
         h.off = out[i].off /\ h.kind = out[i].kind /\ out[i].data = Cut(h)
    /\ \A h \in hdrs : h.off < pos => \E i \in DOMAIN out : out[i].off = h.off
    /\ phase = "done" => remaining < header_len
    /\ Reported = UNION {Slots(h.off, Whole(Cut(h))) : h \in {g \in hdrs : g.kind = "rights"}}
    /\ RewritesLen => Reported = installed

TrustedInv ==
    trusted => /\ Laid(hdrs, total)
               /\ phase = "write" => Fits(hdrs, total)
               /\ phase # "write" => Walked

\* What a payload that can be sent takes.
LEMMA SpaceFacts ==
    ASSUME NEW n \in Nat, n <= I32Max
    PROVE  /\ cmsg_space(n) \in Nat /\ cmsg_space(n) # NoSpace
           /\ cmsg_space(n) >= header_len + n
           /\ cmsg_space(n) = CMSG_SPACE(n)
           /\ header_len \in Nat /\ header_len > 0
<1>1. n \in 0 .. I32Max
  BY LayoutAssumption
<1>2. header_len \in Nat /\ header_len > 0
  BY HeaderLenBounds, LayoutAssumption
<1>3. cmsg_space(n) = CMSG_SPACE(n)
  BY DEF cmsg_space
<1> QED
  BY <1>1, <1>2, <1>3, CmsgSpaceExact

\* The message appended by reserve_cmsg follows the others.
LEMMA ReserveLaid ==
    ASSUME NEW H \in SUBSET Header, NEW end \in Nat, Laid(H, end), Fits(H, end),
           NEW h \in Header, h.off = end, h.payload <= I32Max,
           h.len = header_len + h.payload
    PROVE  LET new == end + cmsg_space(h.payload)
           IN  Laid(H \cup {h}, new) /\ Fits(H \cup {h}, new)
<1> DEFINE sp(g) == cmsg_space(g.payload)
           new == end + sp(h)
           G == H \cup {h}
<1>1. ASSUME NEW g \in G
      PROVE  g.off \in Nat /\ sp(g) \in Nat /\ sp(g) > 0 /\ g.payload <= I32Max
             /\ g.len = header_len + g.payload
  <2>1. g.off \in Nat /\ g.payload \in Nat /\ g.payload <= I32Max
        /\ g.len = header_len + g.payload
    BY DEF Header, Laid
  <2> QED
    BY <2>1, SpaceFacts
<1>2. \A g \in H : g.off + sp(g) <= end
  BY DEF Fits
<1>3. \A g \in H : g.off + sp(g) >= end \/ \E f \in H : f.off = g.off + sp(g)
  BY DEF Laid
<1>4. \A f, g \in H : f.off < g.off => f.off + sp(f) <= g.off
  BY DEF Laid
<1>5. \A f, g \in H : f.off = g.off => f = g
  BY DEF Laid
<1>6. end > 0 => \E g \in H : g.off = 0
  BY DEF Laid
<1> HIDE DEF sp
<1>7. \A g \in H : g.off < end
  BY <1>1, <1>2
<1>8. \A g \in G : g.off + sp(g) <= new
  BY <1>1, <1>2
<1>9. \A g \in G : g.off + sp(g) >= new \/ \E f \in G : f.off = g.off + sp(g)
  <2> SUFFICES ASSUME NEW g \in H
               PROVE  \E f \in G : f.off = g.off + sp(g)
    BY <1>1
  <2>1. CASE g.off + sp(g) >= end
    BY <1>1, <1>2, <2>1
  <2>2. CASE \E f \in H : f.off = g.off + sp(g)
    BY <2>2
  <2> QED
    BY <1>3, <2>1, <2>2
<1>10. \A f, g \in G : f.off < g.off => f.off + sp(f) <= g.off
  <2> SUFFICES ASSUME NEW f \in G, NEW g \in G, f.off < g.off
               PROVE  f.off + sp(f) <= g.off
    OBVIOUS
  <2>1. CASE f \in H /\ g \in H
    BY <1>4, <2>1
  <2>2. CASE f \in H /\ g = h
    BY <1>2, <2>2
  <2>3. f # h
    BY <1>1, <1>7
  <2> QED
    BY <2>1, <2>2, <2>3
<1>11. \A f, g \in G : f.off = g.off => f = g
  <2> SUFFICES ASSUME NEW f \in G, NEW g \in G, f.off = g.off
               PROVE  f = g
    OBVIOUS
  <2> QED
    BY <1>1, <1>5, <1>7
<1>12. \E g \in G : g.off = 0
  BY <1>6
<1> QED
  BY <1>1, <1>8, <1>9, <1>10, <1>11, <1>12 DEF Laid, Fits, sp

\* Whole descriptors are no longer than the bytes they are taken from.
LEMMA WholeBounds ==
    ASSUME NEW n \in Nat
    PROVE  Whole(n) \in Nat /\ FdSize * Whole(n) \in Nat /\ FdSize * Whole(n) <= n
<1>1. FdSize \in Nat \ {0}
  BY LayoutAssumption
<1>2. n \div FdSize \in Nat /\ FdSize * (n \div FdSize) <= n
  BY <1>1
<1>3. Whole(n) = n \div FdSize
  BY DEF Whole
<1> QED
  BY <1>1, <1>2, <1>3

\* Dividing by the size of a descriptor.
LEMMA WholeAtLeast ==
    ASSUME NEW n \in Int, NEW k \in Nat \ {0}
    PROVE  k <= Whole(n) <=> FdSize * k <= n
<1>1. FdSize \in Nat \ {0}
  BY LayoutAssumption
<1>2. CASE n < 0
  <2>1. Whole(n) = 0
    BY <1>2 DEF Whole
  <2>2. FdSize * k \in Nat
    BY <1>1
  <2>3. ~(k <= 0) /\ ~(FdSize * k <= n)
    BY <1>2, <2>2
  <2> QED
    BY <2>1, <2>3
<1>3. CASE ~(n < 0)
  <2> DEFINE q == n \div FdSize
             t == n % FdSize
  <2>1. q \in Int /\ t \in Nat /\ t < FdSize /\ n = FdSize * q + t
    BY <1>1, <1>3
  <2>2. Whole(n) = q
    BY <1>3 DEF Whole
  <2> HIDE DEF q, t
  <2>3. ASSUME k <= q PROVE FdSize * k <= n
    <3>1. FdSize * k <= FdSize * q
      BY <1>1, <2>1, <2>3
    <3> QED
      BY <1>1, <2>1, <3>1
  <2>4. ASSUME q + 1 <= k PROVE ~(FdSize * k <= n)
    <3>1. FdSize * (q + 1) <= FdSize * k
      BY <1>1, <2>1, <2>4
    <3>2. FdSize * (q + 1) = FdSize * q + FdSize
      BY <1>1, <2>1
    <3> QED
      BY <1>1, <2>1, <3>1, <3>2
  <2>5. k <= q \/ q + 1 <= k
    BY <2>1
  <2>6. q + 1 <= k => ~(k <= q)
    BY <2>1
  <2> QED
    BY <2>2, <2>3, <2>4, <2>5, <2>6
<1> QED
  BY <1>2, <1>3

\* The descriptors of a message that are whole before `end`.
LEMMA SlotsBefore ==
    ASSUME NEW off \in Nat, NEW p \in Nat, NEW end \in Nat
    PROVE  \A s : s \in Slots(off, Whole(p)) /\ s + FdSize <= end
                   <=> s \in Slots(off, Whole(MinOf(p, end - off - header_len)))
<1> DEFINE left == end - off - header_len
           least == MinOf(p, left)
           at(j) == off + header_len + FdSize * j
<1>1. FdSize \in Nat \ {0} /\ header_len \in Nat
  BY LayoutAssumption, HeaderLenBounds
<1>2. left \in Int
  BY <1>1
<1>3. ASSUME NEW n \in Int
      PROVE  \A s : s \in Slots(off, Whole(n)) <=> \E j \in Nat : s = at(j) /\ FdSize * (j + 1) <= n
  <2>1. Whole(n) \in Int
    BY <1>1 DEF Whole
  <2>2. \A j \in Nat : j \in 0 .. Whole(n) - 1 <=> FdSize * (j + 1) <= n
    <3> SUFFICES ASSUME NEW j \in Nat
                 PROVE  j \in 0 .. Whole(n) - 1 <=> FdSize * (j + 1) <= n
      OBVIOUS
    <3>1. j + 1 \in Nat \ {0}
      OBVIOUS
    <3>2. j + 1 <= Whole(n) <=> FdSize * (j + 1) <= n
      BY <3>1, WholeAtLeast
    <3>3. j \in 0 .. Whole(n) - 1 <=> j + 1 <= Whole(n)
      BY <2>1
    <3> QED
      BY <3>2, <3>3
  <2>3. \A j \in 0 .. Whole(n) - 1 : j \in Nat
    BY <2>1
  <2>4. Slots(off, Whole(n)) = {at(j) : j \in 0 .. Whole(n) - 1}
    BY DEF Slots
  <2> HIDE DEF at
  <2> QED
    BY <2>2, <2>3, <2>4
<1>4. ASSUME NEW j \in Nat
      PROVE  at(j) + FdSize <= end <=> FdSize * (j + 1) <= left
  <2>1. FdSize * (j + 1) = FdSize * j + FdSize /\ FdSize * j \in Nat
    BY <1>1
  <2> QED
    BY <1>1, <2>1
<1>5. ASSUME NEW j \in Nat
      PROVE  FdSize * (j + 1) <= least <=> FdSize * (j + 1) <= p /\ FdSize * (j + 1) <= left
  <2>1. FdSize * (j + 1) \in Nat
    BY <1>1
  <2> HIDE DEF left
  <2> QED
    BY <1>2, <2>1 DEF MinOf
<1>6. least \in Int
  BY <1>2 DEF MinOf
<1> HIDE DEF at, left, least
<1>7. \A s : s \in Slots(off, Whole(p)) /\ s + FdSize <= end <=> s \in Slots(off, Whole(least))
  <2>1. \A s : s \in Slots(off, Whole(p))
                  <=> \E j \in Nat : s = at(j) /\ FdSize * (j + 1) <= p
    BY <1>3
  <2>2. \A s : s \in Slots(off, Whole(least))
                  <=> \E j \in Nat : s = at(j) /\ FdSize * (j + 1) <= least
    BY <1>3, <1>6
  <2> QED
    BY <1>4, <1>5, <2>1, <2>2
<1> QED
  BY <1>7 DEF least, left

\* The same for a set of messages.
LEMMA DescriptorsBefore ==
    ASSUME NEW H \in SUBSET Header, NEW end \in Nat
    PROVE  {s \in Descriptors(H) : s + FdSize <= end}
             = UNION {Slots(h.off, Whole(MinOf(h.payload, end - h.off - header_len))) :
                        h \in {g \in H : g.kind = "rights"}}
<1> DEFINE R == {g \in H : g.kind = "rights"}
           All(h) == Slots(h.off, Whole(h.payload))
           Part(h) == Slots(h.off, Whole(MinOf(h.payload, end - h.off - header_len)))
<1>1. \A h \in R : \A s : s \in All(h) /\ s + FdSize <= end <=> s \in Part(h)
  BY SlotsBefore DEF Header
<1>2. Descriptors(H) = UNION {All(h) : h \in R}
  BY DEF Descriptors
<1> HIDE DEF R, All, Part
<1>3. {s \in Descriptors(H) : s + FdSize <= end} = UNION {Part(h) : h \in R}
  BY <1>1, <1>2
<1> QED
  BY <1>3 DEF R, Part

\* What the kernel writes of a message that fits the room, or straddles its end.
LEMMA DeliveredFacts ==
    ASSUME NEW h \in Header, h.payload <= I32Max, h.len = header_len + h.payload,
           NEW room \in Nat, IsDelivered(h, room), NEW d, d = Delivered(h, room)
    PROVE  /\ d \in Header /\ d.off = h.off /\ d.kind = h.kind
           /\ d.payload <= h.payload /\ d.len = header_len + d.payload
           /\ h.off <= room
           /\ ~(RewritesLen /\ Straddles(h, room)) => d = h
           /\ EndOf(d, room) \in Nat /\ EndOf(d, room) <= room
           /\ EndOf(d, room) <= d.off + cmsg_space(d.payload)
<1> DEFINE left == room - h.off - header_len
           fit == IF h.kind = "rights" THEN FdSize * Whole(left) ELSE left
<1>1. header_len \in Nat /\ header_len > 0 /\ FdSize \in Nat \ {0}
  BY HeaderLenBounds, LayoutAssumption
<1>2. h.off \in Nat /\ h.payload \in Nat /\ h.kind \in KindName
  BY DEF Header
<1>3. d \in Header
  BY DeliveredIsHeader
<1>4. /\ d.off = h.off /\ d.kind = h.kind /\ h.off <= room
      /\ d.payload <= h.payload /\ d.len = header_len + d.payload
      /\ ~(RewritesLen /\ Straddles(h, room)) => d = h
  <2>1. CASE RewritesLen /\ Straddles(h, room)
    <3>1. left \in Nat
      BY <1>1, <1>2, <2>1 DEF IsDelivered
    <3>2. left <= h.payload /\ h.off <= room
      BY <1>1, <1>2, <2>1, <3>1 DEF Straddles
    <3>3. fit \in Nat /\ fit <= left
      <4>1. FdSize * Whole(left) \in Nat /\ FdSize * Whole(left) <= left
        <5> HIDE DEF left
        <5> QED
          BY <3>1, WholeBounds
      <4> QED
        BY <3>1, <4>1
    <3>4. d = [off |-> h.off, kind |-> h.kind, payload |-> fit, len |-> header_len + fit]
      BY <2>1 DEF Delivered
    <3> HIDE DEF left, fit
    <3>5. fit <= h.payload
      BY <1>2, <3>1, <3>2, <3>3
    <3> QED
      BY <2>1, <3>2, <3>4, <3>5
  <2>2. CASE ~(RewritesLen /\ Straddles(h, room))
    <3>1. d = h
      BY <2>2 DEF Delivered
    <3>2. h.off < room
      BY <2>2 DEF IsDelivered
    <3> QED
      BY <1>2, <3>1, <3>2
  <2> QED
    BY <2>1, <2>2
<1>5. d.off \in Nat /\ d.payload \in Nat /\ d.payload <= I32Max
  BY <1>2, <1>3, <1>4, LayoutAssumption DEF Header
<1>6. cmsg_space(d.payload) \in Nat /\ cmsg_space(d.payload) = CMSG_SPACE(d.payload)
  BY <1>5, SpaceFacts
<1>7. EndOf(d, room) = MinOf(room, d.off + cmsg_space(d.payload))
  BY <1>6 DEF EndOf
<1>8. /\ EndOf(d, room) \in Nat /\ EndOf(d, room) <= room
      /\ EndOf(d, room) <= d.off + cmsg_space(d.payload)
  BY <1>5, <1>6, <1>7 DEF MinOf
<1> QED
  BY <1>3, <1>4, <1>8

\* No message is delivered behind one that straddles the end of the room, and
\* one that is not delivered does.
LEMMA NothingBehind ==
    ASSUME NEW H \in SUBSET Header, NEW end \in Nat, Laid(H, end), NEW room \in Nat,
           NEW g \in H
    PROVE  /\ ~IsDelivered(g, room) => Straddles(g, room)
           /\ Straddles(g, room) =>
                \A f \in H : g.off < f.off => room < f.off /\ ~IsDelivered(f, room)
<1>1. header_len \in Nat /\ header_len > 0 /\ FdSize \in Nat
  BY HeaderLenBounds, LayoutAssumption
<1>2. g.off \in Nat /\ g.payload \in Nat /\ g.payload <= I32Max
  BY DEF Header, Laid
<1>3. ~IsDelivered(g, room) => Straddles(g, room)
  BY <1>1, <1>2 DEF IsDelivered, Straddles
<1>4. ASSUME Straddles(g, room), NEW f \in H, g.off < f.off
      PROVE  room < f.off /\ ~IsDelivered(f, room)
  <2>1. f.off \in Nat /\ f.payload \in Nat
    BY DEF Header
  <2>2. g.off + cmsg_space(g.payload) <= f.off
    BY <1>4 DEF Laid
  <2>3. cmsg_space(g.payload) \in Nat /\ cmsg_space(g.payload) >= header_len + g.payload
    BY <1>2, SpaceFacts
  <2>4. g.off + header_len + g.payload > room
    BY <1>4 DEF Straddles
  <2>5. room < f.off
    BY <1>1, <1>2, <2>1, <2>2, <2>3, <2>4
  <2>6. ~IsDelivered(f, room)
    BY <1>1, <2>1, <2>5 DEF IsDelivered
  <2> QED
    BY <2>5, <2>6
<1> QED
  BY <1>3, <1>4

\* Cut or not, a message ends within its space.
LEMMA EndWithin ==
    ASSUME NEW h \in Header, h.payload <= I32Max, h.len = header_len + h.payload,
           NEW room \in Nat, IsDelivered(h, room)
    PROVE  EndOf(Delivered(h, room), room) <= h.off + cmsg_space(h.payload)
<1> DEFINE d == Delivered(h, room)
<1>1. header_len \in Nat /\ h.off \in Nat /\ h.payload \in Nat
  BY HeaderLenBounds DEF Header
<1>2. cmsg_space(h.payload) \in Nat /\ cmsg_space(h.payload) >= header_len + h.payload
  BY <1>1, SpaceFacts
<1>3. /\ EndOf(d, room) \in Nat /\ EndOf(d, room) <= room
      /\ EndOf(d, room) <= d.off + cmsg_space(d.payload)
      /\ ~(RewritesLen /\ Straddles(h, room)) => d = h
  BY DeliveredFacts
<1> HIDE DEF d
<1>4. CASE RewritesLen /\ Straddles(h, room)
  <2>1. h.off + header_len + h.payload > room
    BY <1>4 DEF Straddles
  <2>2. EndOf(d, room) <= h.off + cmsg_space(h.payload)
    BY <1>1, <1>2, <1>3, <2>1
  <2> QED
    BY <2>2 DEF d
<1>5. CASE ~(RewritesLen /\ Straddles(h, room))
  BY <1>3, <1>5 DEF d
<1> QED
  BY <1>4, <1>5

\* What the kernel delivers follows one another as well, wherever it cuts.
LEMMA DeliverLaid ==
    ASSUME NEW H \in SUBSET Header, NEW end \in Nat, Laid(H, end), Fits(H, end),
           NEW room \in Nat,
           NEW got, got = {Delivered(h, room) : h \in {g \in H : IsDelivered(g, room)}},
           NEW len \in 0 .. room,
           len \in {EndOf(h, room) : h \in got} \cup {0}
    PROVE  Laid(got, len)
<1> DEFINE sp(g) == cmsg_space(g.payload)
           D(g) == Delivered(g, room)
           In(g) == IsDelivered(g, room)
<1>1. ASSUME NEW g \in H
      PROVE  /\ g.off \in Nat /\ sp(g) \in Nat /\ sp(g) > 0
             /\ g.payload \in Nat /\ g.payload <= I32Max /\ g.len = header_len + g.payload
             /\ sp(g) >= header_len + g.payload
  <2>1. g.off \in Nat /\ g.payload \in Nat /\ g.payload <= I32Max
        /\ g.len = header_len + g.payload
    BY DEF Header, Laid
  <2> QED
    BY <2>1, SpaceFacts
<1>2. ASSUME NEW g \in H, In(g)
      PROVE  /\ D(g) \in Header /\ D(g).off = g.off /\ D(g).payload <= I32Max
             /\ D(g).len = header_len + D(g).payload
             /\ g.off <= room
             /\ ~Straddles(g, room) => D(g) = g
             /\ ~RewritesLen => D(g) = g
             /\ EndOf(D(g), room) \in Nat
             /\ EndOf(D(g), room) <= g.off + sp(D(g))
             /\ EndOf(D(g), room) <= g.off + sp(g)
  <2>1. g.payload <= I32Max /\ g.len = header_len + g.payload
    BY <1>1
  <2>2. /\ D(g) \in Header /\ D(g).off = g.off /\ D(g).payload <= g.payload
        /\ D(g).len = header_len + D(g).payload
        /\ g.off <= room
        /\ ~(RewritesLen /\ Straddles(g, room)) => D(g) = g
        /\ EndOf(D(g), room) \in Nat
        /\ EndOf(D(g), room) <= D(g).off + sp(D(g))
    BY <1>2, <2>1, DeliveredFacts
  <2>3. EndOf(D(g), room) <= g.off + sp(g)
    BY <1>2, <2>1, EndWithin
  <2>4. D(g).payload <= I32Max
    <3>1. D(g).payload \in Nat /\ I32Max \in Nat
      BY <2>2, LayoutAssumption DEF Header
    <3> HIDE DEF D
    <3> QED
      BY <1>1, <2>2, <3>1
  <2> QED
    BY <2>2, <2>3, <2>4
<1>3. /\ \A g \in H : g.off + sp(g) >= end \/ \E f \in H : f.off = g.off + sp(g)
      /\ \A f, g \in H : f.off < g.off => f.off + sp(f) <= g.off
      /\ \A f, g \in H : f.off = g.off => f = g
      /\ end > 0 => \E g \in H : g.off = 0
      /\ \A g \in H : g.off + sp(g) <= end
  BY DEF Laid, Fits
<1>4. ASSUME NEW g \in H
      PROVE  /\ ~In(g) => Straddles(g, room)
             /\ Straddles(g, room) => \A f \in H : g.off < f.off => room < f.off /\ ~In(f)
  BY NothingBehind
<1>5. got = {D(h) : h \in {g \in H : In(g)}}
  OBVIOUS
<1>6. \A g \in H : g.off + header_len + g.payload <= room => ~Straddles(g, room)
  BY <1>1, HeaderLenBounds DEF Straddles
<1>7. len = 0 \/ \E f \in H : In(f) /\ len = EndOf(D(f), room)
  BY <1>5
<1>8. len \in Nat /\ len <= room
  OBVIOUS
<1> HIDE DEF sp, D, In
<1>9. \A d \in got : \E g \in H : In(g) /\ d = D(g)
  BY <1>5
<1>10. \A d \in got : d.payload <= I32Max /\ d.len = header_len + d.payload
  BY <1>2, <1>9
<1>11. ASSUME NEW g \in H, NEW f \in H, In(f), f.off < g.off
       PROVE  EndOf(D(f), room) <= g.off
  BY <1>1, <1>2, <1>3, <1>11
<1>12. ASSUME NEW g \in H, Straddles(g, room)
       PROVE  \A f \in H : In(f) => f.off <= g.off
  BY <1>1, <1>4, <1>12
<1>13. ASSUME NEW d \in got
       PROVE  d.off + sp(d) >= len \/ \E e \in got : e.off = d.off + sp(d)
  <2>1. PICK g \in H : In(g) /\ d = D(g)
    BY <1>9
  <2>2. d.off = g.off /\ d.off \in Nat /\ sp(d) \in Nat
    <3>1. d \in Header /\ d.payload <= I32Max /\ d.off = g.off
      BY <1>2, <2>1
    <3>2. d.off \in Nat /\ d.payload \in Nat
      BY <3>1 DEF Header
    <3> QED
      BY <3>1, <3>2, SpaceFacts DEF sp
  <2>3. CASE Straddles(g, room)
    <3>1. CASE len = 0
      BY <2>2, <3>1
    <3>2. CASE \E f \in H : In(f) /\ len = EndOf(D(f), room)
      <4>1. PICK f \in H : In(f) /\ len = EndOf(D(f), room)
        BY <3>2
      <4>2. f.off <= g.off
        BY <1>12, <2>3, <4>1
      <4>3. CASE f.off = g.off
        <5>1. f = g
          BY <1>3, <4>3
        <5> QED
          BY <1>2, <2>1, <2>2, <4>1, <5>1
      <4>4. CASE f.off < g.off
        <5>1. len <= g.off
          BY <1>11, <4>1, <4>4
        <5> QED
          BY <1>8, <2>2, <5>1
      <4> QED
        BY <1>1, <4>2, <4>3, <4>4
    <3> QED
      BY <1>7, <3>1, <3>2
  <2>4. CASE ~Straddles(g, room)
    <3>1. d = g
      BY <1>2, <2>1, <2>4
    <3>2. CASE g.off + sp(g) >= end
      <4>1. len <= end
        <5>1. CASE len = 0
          BY <5>1
        <5>2. CASE \E f \in H : In(f) /\ len = EndOf(D(f), room)
          <6>1. PICK f \in H : In(f) /\ len = EndOf(D(f), room)
            BY <5>2
          <6>2. f.off + sp(f) <= end /\ len <= f.off + sp(f) /\ f.off + sp(f) \in Nat
            BY <1>1, <1>2, <1>3, <6>1
          <6> QED
            BY <1>8, <6>2
        <5> QED
          BY <1>7, <5>1, <5>2
      <4> QED
        BY <1>1, <1>8, <3>1, <3>2, <4>1
    <3>3. CASE \E f \in H : f.off = g.off + sp(g)
      <4>1. PICK f \in H : f.off = g.off + sp(g)
        BY <3>3
      <4>2. CASE In(f)
        <5>1. D(f) \in got /\ D(f).off = f.off
          BY <1>2, <1>5, <4>2
        <5> QED
          BY <3>1, <4>1, <5>1
      <4>3. CASE ~In(f)
        <5>1. CASE len = 0
          BY <2>2, <5>1
        <5>2. CASE \E e \in H : In(e) /\ len = EndOf(D(e), room)
          <6>1. PICK e \in H : In(e) /\ len = EndOf(D(e), room)
            BY <5>2
          <6>2. e.off <= f.off
            BY <1>4, <1>12, <4>3, <6>1
          <6>3. e.off # f.off
            BY <1>3, <4>3, <6>1
          <6>4. e.off < f.off
            BY <1>1, <6>2, <6>3
          <6>5. len <= f.off
            BY <1>11, <6>1, <6>4
          <6> QED
            BY <1>1, <1>8, <3>1, <4>1, <6>5
        <5> QED
          BY <1>7, <5>1, <5>2
      <4> QED
        BY <4>2, <4>3
    <3> QED
      BY <1>3, <3>2, <3>3
  <2> QED
    BY <2>3, <2>4
<1>14. ASSUME NEW d \in got, NEW e \in got, d.off < e.off
       PROVE  d.off + sp(d) <= e.off
  <2>1. PICK g \in H, f \in H : In(g) /\ d = D(g) /\ In(f) /\ e = D(f)
    BY <1>9
  <2>2. g.off < f.off /\ d.off = g.off /\ e.off = f.off
    BY <1>2, <1>14, <2>1
  <2>3. ~Straddles(g, room)
    BY <1>4, <2>1, <2>2
  <2>4. d = g
    BY <1>2, <2>1, <2>3
  <2> QED
    BY <1>3, <2>2, <2>4
<1>15. \A d, e \in got : d.off = e.off => d = e
  <2> SUFFICES ASSUME NEW d \in got, NEW e \in got, d.off = e.off PROVE d = e
    OBVIOUS
  <2>1. PICK g \in H, f \in H : In(g) /\ d = D(g) /\ In(f) /\ e = D(f)
    BY <1>9
  <2>2. g.off = f.off
    BY <1>2, <2>1
  <2> QED
    BY <1>3, <2>1, <2>2
<1>16. ASSUME len > 0 PROVE \E d \in got : d.off = 0
  <2>1. PICK f \in H : In(f) /\ len = EndOf(D(f), room)
    BY <1>7, <1>8, <1>16
  <2>2. end > 0
    BY <1>1, <1>3
  <2>3. PICK g \in H : g.off = 0
    BY <1>3, <2>2
  <2>4. CASE In(g)
    <3>1. D(g) \in got /\ D(g).off = 0
      BY <1>2, <1>5, <2>3, <2>4
    <3> QED
      BY <3>1
  <2>5. CASE ~In(g)
    <3>1. f.off <= g.off
      BY <1>4, <1>12, <2>1, <2>5
    <3>2. f.off = g.off
      BY <1>1, <2>3, <3>1
    <3> QED
      BY <1>3, <2>1, <2>5, <3>2
  <2> QED
    BY <2>4, <2>5
<1> QED
  BY <1>10, <1>13, <1>14, <1>15, <1>16 DEF Laid, sp

\* The walk stands at the header it reads, and yields what is left of it.
LEMMA ReadsHeader ==
    ASSUME IInv, TrustedInv, trusted, phase = "walk", remaining >= CmsgHdrSize,
           NEW h \in HeaderAt(pos)
    PROVE  /\ h \in hdrs /\ h.off = pos /\ h.off \in Nat /\ h.payload \in Nat
           /\ h.payload <= I32Max /\ h.len = header_len + h.payload
           /\ Extent(h) - header_len = Cut(h)
<1>1. /\ total \in Nat /\ pos \in Nat /\ pos <= total /\ hdrs \subseteq Header
      /\ header_len \in Nat /\ CmsgHdrSize \in Nat \ {0}
  BY HeaderLenBounds, LayoutAssumption DEF IInv, WalkTypes
<1>2. pos # total
  BY <1>1 DEF remaining
<1>3. h \in hdrs /\ h.off = pos
  BY <1>2 DEF TrustedInv, Walked, HeaderAt
<1>4. h.off \in Nat /\ h.payload \in Nat /\ h.payload <= I32Max
      /\ h.len = header_len + h.payload
  BY <1>1, <1>3 DEF TrustedInv, Laid, Header
<1>5. Extent(h) - header_len = Cut(h)
  BY <1>1, <1>3, <1>4 DEF Extent, Cut, MinOf, remaining
<1> QED
  BY <1>3, <1>4, <1>5

\* From a header the walk goes to the next one, or to the end, and passes no
\* header in between.
LEMMA NextHeader ==
    ASSUME IInv, TrustedInv, trusted, NEW h \in hdrs, h.off = pos, Cut(h) >= 0
    PROVE  /\ Advance(Cut(h)) = total \/ \E g \in hdrs : g.off = Advance(Cut(h))
           /\ \A g \in hdrs : g.off < Advance(Cut(h)) => g.off <= pos
<1> DEFINE sp(g) == cmsg_space(g.payload)
           data == Cut(h)
<1>1. /\ total \in Nat /\ pos \in Nat /\ pos <= total /\ hdrs \subseteq Header
      /\ header_len \in Nat
  BY HeaderLenBounds DEF IInv, WalkTypes
<1>2. /\ \A g \in hdrs : g.off + sp(g) >= total \/ \E f \in hdrs : f.off = g.off + sp(g)
      /\ \A f, g \in hdrs : f.off < g.off => f.off + sp(f) <= g.off
  BY DEF TrustedInv, Laid
<1>3. \A g \in hdrs : g.off \in Nat /\ g.payload \in Nat /\ g.payload <= I32Max
  BY <1>1 DEF TrustedInv, Laid, Header
<1>4. sp(h) \in Nat /\ sp(h) >= header_len + h.payload /\ sp(h) # NoSpace
  BY <1>3, SpaceFacts
<1>5. data \in Nat /\ data <= h.payload /\ pos + header_len + data <= total
      /\ (data = h.payload \/ pos + header_len + data = total)
  BY <1>1, <1>3 DEF Cut, MinOf
<1>6. /\ Advance(data) \in Nat /\ pos + header_len + data <= Advance(data)
      /\ Advance(data) <= total
  <2> HIDE DEF data
  <2> QED
    BY <1>1, <1>5, AdvanceBounds
<1>7. Advance(data) = IF cmsg_space(data) # NoSpace /\ cmsg_space(data) <= total - pos
                      THEN pos + cmsg_space(data) ELSE total
  BY DEF Advance, remaining
<1> HIDE DEF data, sp
<1>8. \A g \in hdrs : pos < g.off => pos + sp(h) <= g.off
  BY <1>2
<1>9. CASE data = h.payload
  <2>1. cmsg_space(data) = sp(h)
    BY <1>9 DEF sp
  <2>2. \/ Advance(data) = total /\ total < pos + sp(h)
        \/ Advance(data) = pos + sp(h)
    BY <1>1, <1>4, <1>7, <2>1
  <2>3. Advance(data) = total \/ \E g \in hdrs : g.off = Advance(data)
    BY <1>1, <1>2, <1>4, <1>6, <2>2
  <2>4. \A g \in hdrs : g.off < Advance(data) => g.off <= pos
    BY <1>1, <1>3, <1>4, <1>8, <2>2
  <2> QED
    BY <2>3, <2>4 DEF data
<1>10. CASE data # h.payload
  <2>1. Advance(data) = total /\ total < pos + sp(h)
    BY <1>1, <1>3, <1>4, <1>5, <1>6, <1>10
  <2>2. \A g \in hdrs : g.off < Advance(data) => g.off <= pos
    BY <1>1, <1>3, <1>4, <1>8, <2>1
  <2> QED
    BY <2>1, <2>2 DEF data
<1> QED
  BY <1>9, <1>10

LEMMA YieldWalks ==
    ASSUME IInv, TrustedInv, trusted, WalkYields
    PROVE  Walked'
<1>1. phase = "walk" /\ remaining >= CmsgHdrSize
      /\ UNCHANGED <<phase, trusted, hdrs, total, installed>>
  BY DEF WalkYields
<1>2. PICK h \in HeaderAt(pos) :
         /\ Extent(h) >= header_len
         /\ out' = Append(out, [off |-> pos, kind |-> h.kind,
                                data |-> Extent(h) - header_len])
         /\ pos' = Advance(Extent(h) - header_len)
  BY DEF WalkYields
<1>3. /\ h \in hdrs /\ h.off = pos /\ h.off \in Nat /\ h.payload \in Nat
      /\ h.len = header_len + h.payload
      /\ Extent(h) - header_len = Cut(h)
  BY <1>1, ReadsHeader
<1>4. /\ total \in Nat /\ pos \in Nat /\ pos <= total /\ hdrs \subseteq Header
      /\ header_len \in Nat /\ out \in Seq(Message)
  BY HeaderLenBounds DEF IInv, WalkTypes
<1>5. Cut(h) >= 0
  BY <1>2, <1>3, <1>4 DEF Extent, MinOf, remaining
<1> DEFINE m == [off |-> pos, kind |-> h.kind, data |-> Cut(h)]
<1>6. out' = Append(out, m) /\ pos' = Advance(Cut(h))
  BY <1>2, <1>3
<1>7. /\ DOMAIN out = 1 .. Len(out) /\ DOMAIN out' = 1 .. Len(out) + 1
      /\ \A i \in DOMAIN out : out'[i] = out[i]
      /\ out'[Len(out) + 1] = m /\ Len(out) \in Nat
  <2>1. m \in Message
    <3>1. h.kind \in KindName /\ Cut(h) \in Nat
      BY <1>3, <1>4, <1>5 DEF Cut, MinOf, Header
    <3> QED
      BY <1>4, <3>1 DEF Message
  <2> HIDE DEF m
  <2> QED
    BY <1>4, <1>6, <2>1
<1>8. /\ pos' = total \/ \E g \in hdrs : g.off = pos'
      /\ \A g \in hdrs : g.off < pos' => g.off <= pos
  BY <1>3, <1>5, <1>6, NextHeader
<1>9. m.off = h.off /\ m.kind = h.kind /\ m.data = Cut(h)
  BY <1>3
<1> HIDE DEF m
<1>10. \A g \in hdrs : Cut(g)' = Cut(g)
  BY <1>1 DEF Cut
<1>11. Walked
  BY <1>1 DEF TrustedInv
<1>12. ASSUME NEW i \in DOMAIN out'
       PROVE  \E g \in hdrs : g.off = out'[i].off /\ g.kind = out'[i].kind
                              /\ out'[i].data = Cut(g)
  <2>1. CASE i \in DOMAIN out
    BY <1>7, <1>11, <2>1 DEF Walked
  <2>2. CASE i = Len(out) + 1
    BY <1>3, <1>7, <1>9, <2>2
  <2> QED
    BY <1>7, <2>1, <2>2
<1>13. ASSUME NEW g \in hdrs, g.off < pos'
       PROVE  \E i \in DOMAIN out' : out'[i].off = g.off
  <2>1. CASE g.off < pos
    BY <1>7, <1>11, <2>1 DEF Walked
  <2>2. CASE g.off = pos
    <3>1. Len(out) + 1 \in DOMAIN out'
      BY <1>7
    <3> QED
      BY <1>3, <1>7, <1>9, <2>2, <3>1
  <2>3. g.off \in Nat /\ g.off <= pos
    BY <1>4, <1>8, <1>13 DEF Header
  <2> QED
    BY <1>4, <2>1, <2>2, <2>3
<1>14. /\ Reported = UNION {Slots(g.off, Whole(Cut(g))) : g \in {f \in hdrs : f.kind = "rights"}}
       /\ RewritesLen => Reported = installed
       /\ Reported' = Reported
  BY <1>1, <1>11 DEF Walked, Reported
<1>15. {Slots(g.off, Whole(Cut(g)')) : g \in {f \in hdrs : f.kind = "rights"}}
         = {Slots(g.off, Whole(Cut(g))) : g \in {f \in hdrs : f.kind = "rights"}}
  BY <1>10
<1> QED
  BY <1>1, <1>8, <1>10, <1>12, <1>13, <1>14, <1>15 DEF Walked

\* A walk ends when no header is left.
LEMMA EndWalks ==
    ASSUME IInv, TrustedInv, trusted, WalkEnds
    PROVE  Walked'
<1>1. phase = "walk" /\ phase' = "done"
      /\ UNCHANGED <<trusted, hdrs, total, pos, out, installed>>
  BY DEF WalkEnds
<1>2. Walked
  BY <1>1 DEF TrustedInv
<1>3. remaining < header_len
  <2>1. remaining \in Nat /\ header_len \in Nat /\ CmsgHdrSize \in Nat /\ CmsgHdrSize <= header_len
    BY HeaderLenBounds, LayoutAssumption DEF IInv, WalkTypes, remaining
  <2>2. CASE remaining < CmsgHdrSize
    BY <2>1, <2>2
  <2>3. CASE remaining >= CmsgHdrSize /\ \E h \in HeaderAt(pos) : Extent(h) < header_len
    <3>1. PICK h \in HeaderAt(pos) : Extent(h) < header_len
      BY <2>3
    <3>2. h.len = header_len + h.payload /\ h.payload \in Nat
      BY <1>1, <2>3, ReadsHeader
    <3> QED
      BY <2>1, <3>1, <3>2 DEF Extent, MinOf
  <2> QED
    BY <2>2, <2>3 DEF WalkEnds
<1>4. \A h \in hdrs : Cut(h)' = Cut(h)
  BY <1>1 DEF Cut
<1>5. remaining' < header_len
  BY <1>1, <1>3 DEF remaining
<1>6. {Slots(g.off, Whole(Cut(g)')) : g \in {f \in hdrs : f.kind = "rights"}}
         = {Slots(g.off, Whole(Cut(g))) : g \in {f \in hdrs : f.kind = "rights"}}
  BY <1>4
<1>7. Reported' = Reported
  BY <1>1 DEF Reported
<1> QED
  BY <1>1, <1>2, <1>4, <1>5, <1>6, <1>7 DEF Walked

\* The descriptors reported are those of the delivered messages.
LEMMA DeliverReports ==
    ASSUME IInv, TrustedInv, trusted, phase = "write", NEW room \in 0 .. Capacity, Deliver(room)
    PROVE  Reported' = UNION {Slots(h.off, Whole(Cut(h)')) : h \in {g \in hdrs' : g.kind = "rights"}}
<1> DEFINE part(h) == Slots(h.off, Whole(MinOf(h.payload, total' - h.off - header_len)))
           R(H) == {g \in H : g.kind = "rights"}
<1>1. /\ hdrs' = {Delivered(h, room) : h \in {g \in hdrs : IsDelivered(g, room)}}
      /\ total' \in 0 .. room
      /\ installed' = Descriptors(IF RewritesLen THEN hdrs' ELSE hdrs)
  BY DEF Deliver
<1>2. room \in Nat /\ total' \in Nat /\ total' <= room /\ hdrs \in SUBSET Header
  BY <1>1, ParseAssumption DEF IInv, WalkTypes
<1>3. hdrs' \in SUBSET Header
  BY <1>1, <1>2, DeliveredIsHeader
<1>4. Reported' = UNION {part(h) : h \in R(hdrs')}
  <2>1. CASE RewritesLen
    <3>1. Reported' = {s \in Descriptors(hdrs') : s + FdSize <= total'}
      BY <1>1, <2>1 DEF Reported
    <3> QED
      BY <1>2, <1>3, <3>1, DescriptorsBefore
  <2>2. CASE ~RewritesLen
    <3>1. Reported' = {s \in Descriptors(hdrs) : s + FdSize <= total'}
      BY <1>1, <2>2 DEF Reported
    <3>2. Reported' = UNION {part(h) : h \in R(hdrs)}
      BY <1>2, <3>1, DescriptorsBefore
    <3>3. hdrs' = {h \in hdrs : h.off < room}
      BY <1>1, <2>2 DEF Delivered, IsDelivered
    <3>4. ASSUME NEW h \in hdrs, ~(h.off < room) PROVE part(h) = {}
      <4>1. h.off \in Nat /\ h.payload \in Nat /\ header_len \in Nat /\ header_len > 0
        BY <1>2, HeaderLenBounds, LayoutAssumption DEF Header
      <4>2. total' - h.off - header_len < 0 /\ total' - h.off - header_len \in Int
        BY <1>2, <3>4, <4>1
      <4>3. MinOf(h.payload, total' - h.off - header_len) < 0
        BY <4>1, <4>2 DEF MinOf
      <4>4. Whole(MinOf(h.payload, total' - h.off - header_len)) = 0
        BY <4>3 DEF Whole
      <4>5. Slots(h.off, 0) = {}
        BY DEF Slots
      <4> QED
        BY <4>4, <4>5
    <3> HIDE DEF part
    <3>5. UNION {part(h) : h \in R(hdrs)} = UNION {part(h) : h \in R(hdrs')}
      BY <3>3, <3>4
    <3> QED
      BY <3>2, <3>5
  <2> QED
    BY <2>1, <2>2
<1>5. \A h : Cut(h)' = MinOf(h.payload, total' - h.off - header_len)
  BY DEF Cut
<1> QED
  BY <1>4, <1>5

\* Where the kernel installs what fits, all of it is reported.
LEMMA DeliverExact ==
    ASSUME IInv, TrustedInv, trusted, phase = "write", NEW room \in 0 .. Capacity, Deliver(room),
           RewritesLen
    PROVE  Reported' = installed'
<1>1. /\ hdrs' = {Delivered(h, room) : h \in {g \in hdrs : IsDelivered(g, room)}}
      /\ \A h \in hdrs' : EndOf(h, room) <= total'
      /\ total' \in 0 .. room
      /\ installed' = Descriptors(hdrs')
  BY DEF Deliver
<1>2. room \in Nat /\ total' \in Nat /\ hdrs \in SUBSET Header
      /\ header_len \in Nat /\ FdSize \in Nat \ {0}
  BY <1>1, ParseAssumption, HeaderLenBounds, LayoutAssumption DEF IInv, WalkTypes
<1>3. ASSUME NEW d \in hdrs', d.kind = "rights"
      PROVE  /\ d.off \in Nat /\ d.payload \in Nat
             /\ d.off + header_len + d.payload <= total'
  <2>1. PICK h \in hdrs : d = Delivered(h, room) /\ IsDelivered(h, room)
    BY <1>1
  <2>2. h \in Header /\ h.payload <= I32Max /\ h.len = header_len + h.payload
    BY <1>2 DEF TrustedInv, Laid
  <2>3. h.off \in Nat /\ h.payload \in Nat /\ I32Max \in Nat
    BY <2>2, LayoutAssumption DEF Header
  <2>4. d \in Header /\ d.off = h.off /\ d.kind = h.kind /\ d.payload <= h.payload
        /\ (~Straddles(h, room) => d = h)
    BY <1>2, <2>1, <2>2, DeliveredFacts
  <2>5. d.payload \in Nat /\ d.payload <= I32Max
    BY <2>2, <2>3, <2>4 DEF Header
  <2>6. d.off + header_len + d.payload <= room
    <3>1. CASE Straddles(h, room)
      <4> DEFINE left == room - h.off - header_len
      <4>1. left \in Nat
        BY <1>2, <1>3, <2>1, <2>3, <2>4, <3>1 DEF IsDelivered
      <4>2. d.payload = FdSize * Whole(left)
        BY <1>3, <2>1, <2>4, <3>1 DEF Delivered
      <4> HIDE DEF left
      <4>3. d.payload <= left
        BY <4>1, <4>2, WholeBounds
      <4> QED
        BY <1>2, <2>3, <2>4, <2>5, <4>1, <4>3 DEF left
    <3>2. CASE ~Straddles(h, room)
      BY <1>2, <2>3, <2>4, <3>2 DEF Straddles
    <3> QED
      BY <3>1, <3>2
  <2>7. CMSG_SPACE(d.payload) \in Nat /\ CMSG_SPACE(d.payload) >= header_len + d.payload
    BY <2>5, SpaceFacts
  <2>8. EndOf(d, room) >= d.off + header_len + d.payload /\ EndOf(d, room) \in Nat
    BY <1>2, <2>3, <2>4, <2>5, <2>6, <2>7 DEF EndOf, MinOf
  <2> QED
    BY <1>1, <1>2, <2>3, <2>4, <2>5, <2>8
<1>4. \A s \in installed' : s + FdSize <= total'
  <2> SUFFICES ASSUME NEW s \in installed' PROVE s + FdSize <= total'
    OBVIOUS
  <2>1. PICK d \in hdrs' : d.kind = "rights" /\ s \in Slots(d.off, Whole(d.payload))
    BY <1>1 DEF Descriptors
  <2>2. d.off \in Nat /\ d.payload \in Nat /\ d.off + header_len + d.payload <= total'
    BY <1>3, <2>1
  <2>3. Whole(MinOf(d.payload, total' - d.off - header_len)) = Whole(d.payload)
    BY <1>2, <2>2 DEF MinOf
  <2> QED
    BY <1>2, <2>1, <2>2, <2>3, SlotsBefore
<1> QED
  BY <1>4 DEF Reported

\* What the kernel hands over, and the walk before its first step.
LEMMA DeliverTrusted ==
    ASSUME IInv, NotStarted, TrustedInv, NEW room \in 0 .. Capacity, Deliver(room)
    PROVE  TrustedInv'
<1>1. /\ phase = "write" /\ phase' = "walk" /\ pos = 0 /\ out = <<>>
      /\ UNCHANGED <<trusted, pos, out>>
      /\ hdrs' = {Delivered(h, room) : h \in {g \in hdrs : IsDelivered(g, room)}}
  BY DEF Deliver, NotStarted
<1>2. /\ total' \in 0 .. room
      /\ total' \in {EndOf(h, room) : h \in hdrs'} \cup {0}
  BY DEF Deliver
<1>3. room \in Nat /\ hdrs \in SUBSET Header /\ total \in Nat
  BY ParseAssumption DEF IInv, WalkTypes
<1>4. ASSUME trusted PROVE Laid(hdrs', total')
  BY <1>1, <1>2, <1>3, <1>4, DeliverLaid DEF TrustedInv
<1>5. hdrs' \subseteq Header /\ total' \in Nat
  BY DeliverStep DEF IInv, WalkTypes
<1>6. ASSUME trusted PROVE Walked'
  <2>1. pos' = total' \/ \E h \in hdrs' : h.off = pos'
    BY <1>1, <1>4, <1>5, <1>6 DEF Laid
  <2>2. \A h \in hdrs' : ~(h.off < pos')
    BY <1>1, <1>5 DEF Header
  <2>3. DOMAIN out' = {}
    BY <1>1
  <2>4. Reported' = UNION {Slots(h.off, Whole(Cut(h)')) : h \in {g \in hdrs' : g.kind = "rights"}}
    BY <1>1, <1>6, DeliverReports
  <2>5. RewritesLen => Reported' = installed'
    BY <1>1, <1>6, DeliverExact
  <2> QED
    BY <1>1, <2>1, <2>2, <2>3, <2>4, <2>5 DEF Walked
<1> QED
  BY <1>1, <1>4, <1>6 DEF TrustedInv

LEMMA ReserveTrusted ==
    ASSUME IInv, TrustedInv, NEW kind \in KindName, NEW n \in Nat, reserve_cmsg(kind, n)
    PROVE  TrustedInv'
<1> DEFINE h == [off |-> total, kind |-> kind, payload |-> n, len |-> header_len + n]
<1>1. /\ phase = "write" /\ cmsg_space(n) # NoSpace
      /\ hdrs' = hdrs \cup {h} /\ total' = total + cmsg_space(n)
      /\ UNCHANGED <<phase, trusted>>
  BY DEF reserve_cmsg
<1>2. n <= I32Max /\ header_len \in Nat /\ total \in Nat /\ hdrs \in SUBSET Header
  BY <1>1, HeaderLenBounds DEF cmsg_space, IInv, WalkTypes
<1>3. h \in Header /\ h.off = total /\ h.payload = n /\ h.len = header_len + h.payload
  BY <1>2 DEF Header
<1> HIDE DEF h
<1>4. ASSUME trusted PROVE Laid(hdrs', total') /\ Fits(hdrs', total')
  BY <1>1, <1>2, <1>3, <1>4, ReserveLaid DEF TrustedInv
<1> QED
  BY <1>1, <1>4 DEF TrustedInv

\* On the bytes of a writer the walk keeps in step with it.
THEOREM TrustedInvariance == Spec => []TrustedInv
<1>1. Init => TrustedInv
  BY DEF Init, TrustedInv, Laid, Fits
<1>2. IInv /\ NotStarted /\ TrustedInv /\ [Next]_vars => TrustedInv'
  <2> SUFFICES ASSUME IInv, NotStarted, TrustedInv, [Next]_vars
               PROVE  TrustedInv'
    OBVIOUS
  <2>1. ASSUME NEW kind \in KindName, NEW n \in Payloads, reserve_cmsg(kind, n)
        PROVE  TrustedInv'
    BY <2>1, ReserveTrusted, ParseAssumption
  <2>2. ASSUME NEW n \in 0 .. Capacity, Deliver(n) PROVE TrustedInv'
    BY <2>2, DeliverTrusted
  <2>3. ASSUME NEW n \in 0 .. Capacity, Scramble(n) PROVE TrustedInv'
    BY <2>3 DEF Scramble, TrustedInv
  <2>4. CASE WalkEnds
    <3>1. /\ phase = "walk" /\ phase' = "done" /\ trusted' = trusted
          /\ hdrs' = hdrs /\ total' = total
      BY <2>4 DEF WalkEnds
    <3> QED
      BY <2>4, <3>1, EndWalks DEF TrustedInv
  <2>5. CASE WalkYields
    <3>1. phase = "walk" /\ UNCHANGED <<phase, trusted, hdrs, total>>
      BY <2>5 DEF WalkYields
    <3> QED
      BY <2>5, <3>1, YieldWalks DEF TrustedInv
  <2>6. CASE UNCHANGED vars
    <3>1. UNCHANGED <<phase, trusted, hdrs, total, pos, out, installed>>
      BY <2>6 DEF vars
    <3>2. Walked => Walked'
      BY <3>1 DEF Walked, Cut, remaining, Reported
    <3> QED
      BY <3>1, <3>2 DEF TrustedInv
  <2> QED
    BY <2>1, <2>2, <2>3, <2>4, <2>5, <2>6 DEF Next, Write, Hand
<1> QED
  BY <1>1, <1>2, WalkInvariance, PTL DEF Spec

\* On bytes that reserve_cmsg or the kernel laid out, cut anywhere, the walk of
\* RawMessages reads headers only where headers are (InStep).
THEOREM WalkStaysInStep == Spec => []InStep
<1>1. IInv /\ NotStarted /\ TrustedInv => InStep
  <2> SUFFICES ASSUME IInv, NotStarted, TrustedInv, trusted PROVE InStep
    BY DEF InStep
  <2>1. phase = "write" => DOMAIN out = {}
    BY DEF NotStarted
  <2>2. phase # "write" => \A i \in DOMAIN out : \E h \in hdrs : h.off = out[i].off
    BY DEF TrustedInv, Walked
  <2>3. ASSUME phase = "walk", remaining >= CmsgHdrSize PROVE \E h \in hdrs : h.off = pos
    <3>1. pos # total
      BY <2>3, LayoutAssumption DEF remaining, IInv, WalkTypes
    <3> QED
      BY <2>3, <3>1 DEF TrustedInv, Walked
  <2> QED
    BY <2>1, <2>2, <2>3 DEF InStep
<1> QED
  BY <1>1, WalkInvariance, TrustedInvariance, PTL

\* What is left of a header that the finished walk did not yield: nothing.
LEMMA NotYielded ==
    ASSUME IInv, TrustedInv, trusted, phase = "done", NEW h \in hdrs,
           ~ \E i \in DOMAIN out : out[i].off = h.off
    PROVE  Cut(h) < 0 /\ total < h.off + header_len
<1>1. /\ total \in Nat /\ pos \in Nat /\ header_len \in Nat
      /\ h.off \in Nat /\ h.payload \in Nat
  BY HeaderLenBounds DEF IInv, WalkTypes, Header
<1>2. Walked
  BY DEF TrustedInv
<1>3. pos <= h.off /\ total - pos < header_len
  BY <1>1, <1>2 DEF Walked, remaining
<1>4. total < h.off + header_len
  BY <1>1, <1>3
<1> QED
  BY <1>1, <1>4 DEF Cut, MinOf

\* Every message delivered whole is yielded, with its own payload (RoundTrip).
THEOREM WholeMessagesArrive == Spec => []RoundTrip
<1>1. IInv /\ TrustedInv => RoundTrip
  <2> SUFFICES ASSUME IInv, TrustedInv, trusted, phase = "done",
                      NEW h \in hdrs, h.off + header_len + h.payload <= total
               PROVE  \E i \in DOMAIN out : out[i] = [off |-> h.off, kind |-> h.kind,
                                                      data |-> h.payload]
    BY DEF RoundTrip
  <2>1. /\ total \in Nat /\ header_len \in Nat /\ h.off \in Nat /\ h.payload \in Nat
    BY HeaderLenBounds DEF IInv, WalkTypes, Header
  <2>2. Cut(h) = h.payload
    BY <2>1 DEF Cut, MinOf
  <2>3. PICK i \in DOMAIN out : out[i].off = h.off
    BY <2>1, <2>2, NotYielded
  <2>4. PICK g \in hdrs : g.off = out[i].off /\ g.kind = out[i].kind /\ out[i].data = Cut(g)
    BY DEF TrustedInv, Walked
  <2>5. g = h
    BY <2>3, <2>4 DEF TrustedInv, Laid
  <2>6. out[i] \in Message
    BY DEF IInv, WalkTypes
  <2>7. out[i] = [off |-> out[i].off, kind |-> out[i].kind, data |-> out[i].data]
    BY <2>6 DEF Message
  <2> QED
    BY <2>2, <2>4, <2>5, <2>7
<1> QED
  BY <1>1, WalkInvariance, TrustedInvariance, PTL

\* The descriptors taken are those the kernel reported, wherever it cut the
\* buffer, so that no reported one leaks and no unrelated number is owned; on
\* Linux they are all it installed (OwnsExactlyReported).
THEOREM ReportedAreOwned == Spec => []OwnsExactlyReported
<1>1. IInv /\ TrustedInv => OwnsExactlyReported
  <2> SUFFICES ASSUME IInv, TrustedInv, trusted, phase = "done"
               PROVE  Taken = Reported
    BY DEF OwnsExactlyReported, TrustedInv, Walked
  <2>1. Walked
    BY DEF TrustedInv
  <2> DEFINE R == {g \in hdrs : g.kind = "rights"}
  <2>2. Reported = UNION {Slots(g.off, Whole(Cut(g))) : g \in R}
    BY <2>1 DEF Walked
  <2> DEFINE Y == {j \in DOMAIN out : out[j].kind = "rights"}
  <2>3. Taken = UNION {Slots(out[i].off, Whole(out[i].data)) : i \in Y}
    BY DEF Taken, rights
  <2>4. ASSUME NEW i \in Y
        PROVE  \E g \in R : Slots(out[i].off, Whole(out[i].data)) = Slots(g.off, Whole(Cut(g)))
    <3>1. PICK g \in hdrs : g.off = out[i].off /\ g.kind = out[i].kind /\ out[i].data = Cut(g)
      BY <2>1 DEF Walked
    <3>2. g \in R
      BY <3>1
    <3> QED
      BY <3>1, <3>2
  <2>5. ASSUME NEW g \in R
        PROVE  \/ Slots(g.off, Whole(Cut(g))) = {}
               \/ \E i \in Y : Slots(out[i].off, Whole(out[i].data)) = Slots(g.off, Whole(Cut(g)))
    <3>1. CASE \E i \in DOMAIN out : out[i].off = g.off
      <4>1. PICK i \in DOMAIN out : out[i].off = g.off
        BY <3>1
      <4>2. PICK f \in hdrs : f.off = out[i].off /\ f.kind = out[i].kind /\ out[i].data = Cut(f)
        BY <2>1 DEF Walked
      <4>3. f = g
        BY <4>1, <4>2 DEF TrustedInv, Laid
      <4>4. i \in Y
        BY <4>2, <4>3
      <4> QED
        BY <4>2, <4>3, <4>4
    <3>2. CASE ~ \E i \in DOMAIN out : out[i].off = g.off
      <4>1. Cut(g) < 0
        BY <3>2, NotYielded
      <4>2. Whole(Cut(g)) = 0
        BY <4>1 DEF Whole
      <4>3. Slots(g.off, 0) = {}
        BY DEF Slots
      <4> QED
        BY <4>2, <4>3
    <3> QED
      BY <3>1, <3>2
  <2> HIDE DEF R, Y
  <2> QED
    BY <2>2, <2>3, <2>4, <2>5
<1> QED
  BY <1>1, WalkInvariance, TrustedInvariance, PTL

=============================================================================
