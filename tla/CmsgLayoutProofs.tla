-------------------------- MODULE CmsgLayoutProofs --------------------------
(***************************************************************************)
(* Facts about control-message layout, for every header size, alignment    *)
(* and integer width.                                                      *)
(***************************************************************************)
EXTENDS CmsgLayout, TLAPS

\* CMSG_ALIGN adds less than one alignment unit.
LEMMA PaddingBounds ==
    ASSUME NEW n \in Nat
    PROVE  Padding(n) \in 0 .. CmsgAlign - 1
<1>1. n % CmsgAlign \in 0 .. CmsgAlign - 1
  BY LayoutAssumption
<1>2. CmsgAlign - (n % CmsgAlign) \in Nat
  BY <1>1, LayoutAssumption
<1>3. QED
  BY <1>2, LayoutAssumption DEF Padding

\* The padded header is a natural number, at least the header's size.
LEMMA HeaderLenBounds ==
    header_len \in Nat /\ header_len >= CmsgHdrSize
    /\ header_len < CmsgHdrSize + CmsgAlign
BY PaddingBounds, LayoutAssumption DEF header_len, CMSG_ALIGN

\* cmsg_space refuses exactly the payloads above i32::MAX, so that for the
\* ones it accepts CMSG_SPACE never wraps its c_uint: the space it returns is
\* the true one, it holds the header and the payload, and it is never None.
THEOREM CmsgSpaceExact ==
    ASSUME NEW n \in 0 .. I32Max
    PROVE  /\ cmsg_space(n) = header_len + CMSG_ALIGN(n)
           /\ cmsg_space(n) >= header_len + n
           /\ cmsg_space(n) \in Nat
           /\ cmsg_space(n) # NoSpace
<1>1. Padding(n) \in 0 .. CmsgAlign - 1
  BY PaddingBounds, LayoutAssumption
<1>2. header_len + CMSG_ALIGN(n) \in 0 .. U32 - 1
  BY <1>1, HeaderLenBounds, LayoutAssumption DEF CMSG_ALIGN, U32
<1>3. U32 \in Nat \ {0}
  BY LayoutAssumption DEF U32
<1>4. (header_len + CMSG_ALIGN(n)) % U32 = header_len + CMSG_ALIGN(n)
  BY <1>2, <1>3
<1>5. cmsg_space(n) = header_len + CMSG_ALIGN(n)
  BY <1>4, LayoutAssumption DEF cmsg_space, CMSG_SPACE
<1>6. QED
  BY <1>5, <1>1, HeaderLenBounds DEF CMSG_ALIGN, NoSpace

\* Whatever the payload, CMSG_SPACE yields a natural number.
LEMMA CmsgSpaceNat ==
    ASSUME NEW n \in Nat
    PROVE  CMSG_SPACE(n) \in Nat
<1>1. header_len + CMSG_ALIGN(n) \in Nat
  BY PaddingBounds, HeaderLenBounds, LayoutAssumption DEF CMSG_ALIGN
<1>2. U32 \in Nat \ {0}
  BY LayoutAssumption DEF U32
<1>3. QED
  BY <1>1, <1>2 DEF CMSG_SPACE

\* CMSG_ALIGN returns a multiple of the alignment.
LEMMA AlignIsMultiple ==
    ASSUME NEW n \in Nat
    PROVE  \E q \in Nat : CMSG_ALIGN(n) = CmsgAlign * q
<1> DEFINE d == n \div CmsgAlign
           r == n % CmsgAlign
<1>1. d \in Nat /\ r \in 0 .. CmsgAlign - 1 /\ n = CmsgAlign * d + r
  BY LayoutAssumption
<1>2. Padding(n) = (CmsgAlign - r) % CmsgAlign
  BY DEF Padding
<1> HIDE DEF d, r
<1>3. CASE r = 0
  <2>1. CmsgAlign - r = CmsgAlign /\ CmsgAlign % CmsgAlign = 0
    BY <1>3, LayoutAssumption
  <2>2. Padding(n) = 0
    BY <1>1, <1>2, <2>1, LayoutAssumption
  <2>3. CMSG_ALIGN(n) = CmsgAlign * d
    BY <1>1, <1>3, <2>2, LayoutAssumption DEF CMSG_ALIGN
  <2> QED
    BY <1>1, <2>3
<1>4. CASE r # 0
  <2>1. CmsgAlign - r \in 1 .. CmsgAlign - 1
    BY <1>1, <1>4, LayoutAssumption
  <2>2. Padding(n) = CmsgAlign - r
    BY <1>2, <2>1, LayoutAssumption
  <2>3. CMSG_ALIGN(n) = CmsgAlign * d + CmsgAlign
    BY <1>1, <2>2, LayoutAssumption DEF CMSG_ALIGN
  <2>4. CmsgAlign * d + CmsgAlign = CmsgAlign * (d + 1)
    BY <1>1, LayoutAssumption
  <2> QED
    BY <1>1, <2>3, <2>4
<1> QED
  BY <1>3, <1>4

\* A longer payload never takes less room.
LEMMA AlignMonotonic ==
    ASSUME NEW a \in Nat, NEW b \in Nat, a <= b
    PROVE  CMSG_ALIGN(a) <= CMSG_ALIGN(b)
<1>1. PICK p \in Nat : CMSG_ALIGN(a) = CmsgAlign * p
  BY AlignIsMultiple
<1>2. PICK q \in Nat : CMSG_ALIGN(b) = CmsgAlign * q
  BY AlignIsMultiple
<1>3. CMSG_ALIGN(a) < a + CmsgAlign /\ CMSG_ALIGN(b) >= b
  BY PaddingBounds, LayoutAssumption DEF CMSG_ALIGN
<1>4. CMSG_ALIGN(a) \in Nat /\ CMSG_ALIGN(b) \in Nat
  BY PaddingBounds, LayoutAssumption DEF CMSG_ALIGN
<1>5. CASE p <= q
  <2>1. CmsgAlign * p <= CmsgAlign * q
    BY <1>5, LayoutAssumption
  <2> QED
    BY <1>1, <1>2, <2>1
<1>6. CASE q + 1 <= p
  <2>1. CmsgAlign * (q + 1) <= CmsgAlign * p
    BY <1>6, LayoutAssumption
  <2>2. CmsgAlign * (q + 1) = CmsgAlign * q + CmsgAlign
    BY LayoutAssumption
  <2> QED
    BY <1>1, <1>2, <1>3, <1>4, <2>1, <2>2, LayoutAssumption
<1> QED
  BY <1>5, <1>6

=============================================================================
