--------------------------- MODULE ReceiveProofs ----------------------------
(***************************************************************************)
(* The receiving half of the high-level API, for any number of receivers,  *)
(* any modes, buffers, limits and descriptor tables, over any transport.   *)
(*                                                                         *)
(* First the sizing of a receive (ReceiveBudget), for every layout and     *)
(* integer width; then an invariant RecvInv that every operation of        *)
(* Receive preserves.  The transport modules add what they know of the     *)
(* messages they deliver.                                                  *)
(***************************************************************************)
EXTENDS Receive, CmsgLayoutProofs, SequenceTheorems, FiniteSetTheorems, TLAPS

\* What getrlimit can report, and that it failed.
Limit == Nat \cup {NoLimit}

\* clamp_nofile: zero, RLIM_INFINITY, values beyond usize and a failed
\* getrlimit all give a budget between the floor and the ceiling.
THEOREM BudgetBounded ==
    ASSUME NEW rlim \in Limit
    PROVE  max_recv_fds(rlim) \in HardFloor .. HardCeiling
<1>1. /\ HardFloor \in Nat /\ HardCeiling \in Nat /\ HardFloor <= HardCeiling
      /\ UsizeMax \in Nat /\ RlimInfinity \in Nat
  BY BudgetAssumption
<1>2. CASE FixedBudget \/ rlim = NoLimit
  BY <1>1, <1>2 DEF max_recv_fds
<1>3. CASE ~FixedBudget /\ rlim # NoLimit
  <2>1. rlim \in Nat
    BY <1>3 DEF Limit
  <2>2. max_recv_fds(rlim) = clamp_nofile(rlim)
    BY <1>3 DEF max_recv_fds
  <2> QED
    BY <1>1, <2>1, <2>2 DEF clamp_nofile, MinOf, MaxOf
<1> QED
  BY <1>2, <1>3

\* The descriptors a receive of n makes room for.
Wanted(n, rlim) == MaxOf(n, max_recv_fds(rlim))

LEMMA WantedFacts ==
    ASSUME NEW n \in Nat, NEW rlim \in Limit
    PROVE  /\ Wanted(n, rlim) \in Nat
           /\ Wanted(n, rlim) >= n
           /\ Wanted(n, rlim) >= HardFloor
<1>1. max_recv_fds(rlim) \in Nat /\ max_recv_fds(rlim) >= HardFloor
  BY BudgetBounded, BudgetAssumption
<1>2. HardFloor \in Nat
  BY BudgetAssumption
<1> QED
  BY <1>1, <1>2 DEF Wanted, MaxOf

\* The rights part of the storage, where the payload is representable.
LEMMA RightsSpace ==
    ASSUME NEW m \in Nat, buffer_size_for_rights(m) # NoSpace
    PROVE  /\ FdSize * m \in 0 .. I32Max
           /\ buffer_size_for_rights(m) = header_len + CMSG_ALIGN(FdSize * m)
           /\ buffer_size_for_rights(m) \in Nat
           /\ buffer_size_for_rights(m) >= header_len + FdSize * m
<1> DEFINE p == FdSize * m
<1>1. p \in Nat
  BY LayoutAssumption
<1>2. buffer_size_for_rights(m) = cmsg_space(p) /\ cmsg_space(p) # NoSpace
  BY DEF buffer_size_for_rights
<1> HIDE DEF p
<1>3. p <= I32Max
  BY <1>2 DEF cmsg_space
<1>4. p \in 0 .. I32Max
  BY <1>1, <1>3, LayoutAssumption
<1> QED
  BY <1>2, <1>4, CmsgSpaceExact DEF p

\* The credentials part.
LEMMA CredentialSpace ==
    /\ buffer_size_for_credentials = header_len + CMSG_ALIGN(UcredSize)
    /\ buffer_size_for_credentials = CMSG_SPACE(UcredSize)
    /\ buffer_size_for_credentials \in Nat
    /\ buffer_size_for_credentials < UcredSize + CmsgHdrSize + 2 * CmsgAlign
<1>1. UcredSize \in 0 .. I32Max
  BY LayoutAssumption, BudgetAssumption
<1>2. /\ cmsg_space(UcredSize) = header_len + CMSG_ALIGN(UcredSize)
      /\ cmsg_space(UcredSize) \in Nat
  BY <1>1, CmsgSpaceExact
<1>3. cmsg_space(UcredSize) = CMSG_SPACE(UcredSize)
  BY <1>1, LayoutAssumption DEF cmsg_space
<1>4. Padding(UcredSize) \in 0 .. CmsgAlign - 1
  BY <1>1, PaddingBounds
<1>5. header_len + CMSG_ALIGN(UcredSize) < UcredSize + CmsgHdrSize + 2 * CmsgAlign
  BY <1>1, <1>4, HeaderLenBounds, LayoutAssumption DEF CMSG_ALIGN
<1> QED
  BY <1>2, <1>3, <1>5 DEF buffer_size_for_credentials

-----------------------------------------------------------------------------

\* recv_core adds the two sizes with checked_add.  Whatever N and the limit,
\* the sum fits in usize wherever the first size exists: the error it returns
\* for an overflow cannot happen.
THEOREM AdditionNeverOverflows ==
    ASSUME NEW n \in Nat, NEW rlim \in Limit, ControlSize(n, rlim) # NoSpace
    PROVE  ControlSize(n, rlim) \in 0 .. UsizeMax
<1> DEFINE m == Wanted(n, rlim)
           rights == buffer_size_for_rights(m)
           payload == FdSize * m
<1>1. m \in Nat
  BY WantedFacts
<1>2. rights # NoSpace
  BY DEF ControlSize, Wanted
<1>3. /\ payload \in 0 .. I32Max
      /\ rights = header_len + CMSG_ALIGN(payload)
      /\ rights \in Nat
  BY <1>1, <1>2, RightsSpace
<1>4. Padding(payload) \in 0 .. CmsgAlign - 1
  BY <1>3, PaddingBounds, LayoutAssumption
<1>5. rights < I32Max + CmsgHdrSize + 2 * CmsgAlign
  <2> HIDE DEF payload, rights
  <2> QED
    BY <1>3, <1>4, HeaderLenBounds, LayoutAssumption DEF CMSG_ALIGN
<1>6. ControlSize(n, rlim)
        = IF Linux THEN rights + buffer_size_for_credentials ELSE rights
  BY <1>2 DEF ControlSize, Wanted
<1>7. UcredSize + 2 * (CmsgHdrSize + 2 * CmsgAlign) <= I32Max
  BY BudgetAssumption
<1>8. 2 * I32Max + 1 <= UsizeMax /\ UsizeMax \in Nat
  BY BudgetAssumption, LayoutAssumption DEF U32
<1> HIDE DEF rights
<1> QED
  BY <1>3, <1>5, <1>6, <1>7, <1>8, CredentialSpace, LayoutAssumption

\* Dividing by the size of a descriptor.
LEMMA DivBound ==
    ASSUME NEW d \in Nat \ {0}, NEW m \in Nat, NEW x \in Nat, x >= d * m
    PROVE  x \div d >= m
<1> DEFINE q == x \div d
<1>1. q \in Int /\ x = d * q + (x % d) /\ x % d \in 0 .. d - 1
  OBVIOUS
<1> HIDE DEF q
<1>2. SUFFICES ASSUME q + 1 <= m PROVE FALSE
  BY <1>1 DEF q
<1>3. d * (q + 1) <= d * m
  BY <1>1, <1>2
<1>4. d * (q + 1) = d * q + d
  BY <1>1
<1> QED
  BY <1>1, <1>3, <1>4

\* What a control message takes in the kernel.
LEMMA SpaceFacts ==
    /\ \A p \in Nat : Space(p) \in Nat /\ Space(p) >= header_len + p
    /\ \A p, q \in Nat : p <= q => Space(p) <= Space(q)
<1>1. ASSUME NEW p \in Nat PROVE Space(p) \in Nat /\ Space(p) >= header_len + p
  BY HeaderLenBounds, PaddingBounds, LayoutAssumption DEF Space, CMSG_ALIGN
<1>2. ASSUME NEW p \in Nat, NEW q \in Nat, p <= q PROVE Space(p) <= Space(q)
  <2>1. CMSG_ALIGN(p) \in Nat /\ CMSG_ALIGN(q) \in Nat
    BY PaddingBounds, LayoutAssumption DEF CMSG_ALIGN
  <2> QED
    BY <1>2, <2>1, AlignMonotonic, HeaderLenBounds DEF Space
<1> QED
  BY <1>1, <1>2

LEMMA NeededFacts ==
    ASSUME NEW k \in Nat, NEW pidfd \in BOOLEAN
    PROVE  /\ Needed(k, pidfd) \in Nat
           /\ Needed(k, FALSE) <= Needed(k, pidfd)
           /\ k > 0 => Needed(k, FALSE) = Space(FdSize * k)
           /\ pidfd => Needed(k, pidfd) - Needed(k, FALSE) = Space(FdSize)
<1>1. FdSize * k \in Nat /\ FdSize \in Nat
  BY LayoutAssumption
<1>2. Space(FdSize * k) \in Nat /\ Space(FdSize) \in Nat
  BY <1>1, SpaceFacts
<1> QED
  BY <1>2 DEF Needed

LEMMA NeededBound ==
    ASSUME NEW k \in Nat, NEW m \in Nat, k <= m
    PROVE  Needed(k, FALSE) \in Nat /\ Needed(k, FALSE) <= Space(FdSize * m)
<1>1. FdSize * k \in Nat /\ FdSize * m \in Nat /\ FdSize * k <= FdSize * m
  BY LayoutAssumption
<1>2. /\ Space(FdSize * k) \in Nat /\ Space(FdSize * m) \in Nat
      /\ Space(FdSize * k) <= Space(FdSize * m)
  BY <1>1, SpaceFacts
<1> QED
  BY <1>2 DEF Needed

\* The budget reaches its purpose: whatever the limit and whether or not the
\* kernel puts credentials first, the storage has room for the descriptors the
\* caller asked for and for at least HARD_FLOOR of them.
THEOREM RoomForAll ==
    ASSUME NEW n \in Nat, NEW rlim \in Limit, NEW creds \in BOOLEAN,
           creds => Linux,
           ControlSize(n, rlim) # NoSpace
    PROVE  /\ Room(ControlSize(n, rlim), creds) \in Nat
           /\ Room(ControlSize(n, rlim), creds) >= MaxOf(n, HardFloor)
           /\ Left(ControlSize(n, rlim), creds) \in Nat
           /\ Left(ControlSize(n, rlim), creds) >= Needed(MaxOf(n, HardFloor), FALSE)
<1> DEFINE m == Wanted(n, rlim)
           rights == buffer_size_for_rights(m)
           size == ControlSize(n, rlim)
           part == IF creds THEN CMSG_SPACE(UcredSize) ELSE 0
           left == Left(size, creds) - header_len
<1>1. m \in Nat /\ m >= n /\ m >= HardFloor /\ HardFloor \in Nat
  BY WantedFacts, BudgetAssumption
<1>2. rights # NoSpace
  BY DEF ControlSize, Wanted
<1>3. /\ FdSize * m \in Nat
      /\ rights \in Nat
      /\ rights = Space(FdSize * m)
      /\ rights >= header_len + FdSize * m
  BY <1>1, <1>2, RightsSpace, LayoutAssumption DEF Space
<1>4. size = IF Linux THEN rights + buffer_size_for_credentials ELSE rights
  BY <1>2 DEF ControlSize, Wanted
<1>5. part = IF creds THEN buffer_size_for_credentials ELSE 0
  BY CredentialSpace
<1>6. Left(size, creds) \in Nat /\ Left(size, creds) >= rights
  <2>1. Left(size, creds) = size - part
    BY DEF Left
  <2> HIDE DEF size, part, rights
  <2> QED
    BY <1>3, <1>4, <1>5, <2>1, CredentialSpace
<1>7. left \in Nat /\ left >= FdSize * m
  <2> HIDE DEF size, rights
  <2> QED
    BY <1>3, <1>6, HeaderLenBounds
<1>8. left \div FdSize >= m /\ left \div FdSize \in Int
  <2> HIDE DEF left, m
  <2>1. left \div FdSize >= m
    BY <1>1, <1>7, DivBound, LayoutAssumption
  <2> QED
    BY <1>7, <2>1, LayoutAssumption
<1>9. Room(size, creds) = MaxOf(0, left \div FdSize)
  BY DEF Room
<1> DEFINE k == MaxOf(n, HardFloor)
<1>10. k \in Nat /\ k <= m
  BY <1>1 DEF MaxOf
<1>11. Left(size, creds) >= Needed(k, FALSE)
  <2> DEFINE need == Needed(k, FALSE)
             have == Left(size, creds)
  <2>1. need \in Nat /\ need <= rights
    BY <1>1, <1>3, <1>10, NeededBound
  <2>2. have \in Nat /\ have >= rights
    BY <1>6
  <2> HIDE DEF need, have, rights
  <2>3. have >= need
    BY <1>3, <2>1, <2>2
  <2> QED
    BY <2>3 DEF need, have
<1> HIDE DEF m, left, size, k
<1>12. Room(size, creds) \in Nat /\ Room(size, creds) >= k
  BY <1>1, <1>8, <1>9, <1>10 DEF MaxOf
<1> QED
  BY <1>6, <1>11, <1>12 DEF size, k

\* Whether N can be represented does not depend on the resource limit: a retry
\* after a change of the limit finds its storage.
LEMMA SizeAnyLimit ==
    ASSUME NEW n \in Nat, NEW a \in Limit, NEW b \in Limit,
           ControlSize(n, a) # NoSpace
    PROVE  ControlSize(n, b) # NoSpace
<1> DEFINE m == Wanted(n, b)
           p == FdSize * m
<1>1. buffer_size_for_rights(Wanted(n, a)) # NoSpace
  BY DEF ControlSize, Wanted
<1>2. Wanted(n, a) \in Nat /\ Wanted(n, a) >= n
  BY WantedFacts
<1>3. FdSize * Wanted(n, a) \in 0 .. I32Max
  BY <1>1, <1>2, RightsSpace
<1>4. \A x, y \in Nat : x <= y => FdSize * x <= FdSize * y
  BY LayoutAssumption
<1>5. FdSize * n <= I32Max /\ FdSize * n \in Nat
  BY <1>2, <1>3, <1>4, LayoutAssumption
<1>6. max_recv_fds(b) \in Nat /\ max_recv_fds(b) <= HardCeiling /\ HardCeiling \in Nat
  BY BudgetBounded, BudgetAssumption
<1>7. FdSize * max_recv_fds(b) <= I32Max
  <2>1. FdSize * max_recv_fds(b) <= FdSize * HardCeiling
    BY <1>4, <1>6
  <2>2. FdSize * max_recv_fds(b) \in Nat /\ FdSize * HardCeiling \in Nat
    BY <1>6, LayoutAssumption
  <2> QED
    BY <2>1, <2>2, BudgetAssumption, LayoutAssumption
<1>8. m = n \/ m = max_recv_fds(b)
  BY DEF Wanted, MaxOf
<1>9. p \in 0 .. I32Max /\ m \in Nat
  BY <1>5, <1>6, <1>7, <1>8, LayoutAssumption
<1>10. ~(p > UsizeMax)
  BY <1>9, BudgetAssumption, LayoutAssumption DEF U32
<1>11. buffer_size_for_rights(m) = cmsg_space(p)
  BY <1>10 DEF buffer_size_for_rights
<1> HIDE DEF p, m
<1>12. buffer_size_for_rights(m) \in Nat
  BY <1>9, <1>11, CmsgSpaceExact
<1>13. buffer_size_for_credentials \in Nat
  BY CredentialSpace
<1> QED
  BY <1>12, <1>13 DEF ControlSize, NoSpace, m, Wanted

-----------------------------------------------------------------------------
(* The invariant of the receiving half, over the bytes B and the rights R  *)
(* of a transport.                                                         *)

\* Every descriptor has one owner: the application or one receive call.
SoleOwner ==
    /\ \A r \in Receiver : held \cap ToSet(msg[r].fds) = {}
    /\ \A r, q \in Receiver : r # q => ToSet(msg[r].fds) \cap ToSet(msg[q].fds) = {}

\* The storage of a call about to receive was computed from some value that
\* RLIMIT_NOFILE had.
Sized(r) ==
    \E limit \in Nofile : /\ control[r] = ControlSize(mode[r].n, limit)
                          /\ ControlSize(mode[r].n, limit) # NoSpace

\* What a call holds after recvmsg: the first of the rights that were sent,
\* flagged if they are not all.
Installed(r) ==
    /\ Len(msg[r].fds) <= Len(msg[r].rights)
    /\ msg[r].fds = SubSeq(msg[r].rights, 1, Len(msg[r].fds))
    /\ Len(msg[r].fds) < Len(msg[r].rights) => msg[r].ctrunc

Phase(r) ==
    /\ rpc[r] \notin {"parse", "core"} => msg[r] = NoMsg
    /\ rpc[r] # "idle" => mode[r] \in Mode /\ buf[r] = BufLen /\ ~result[r].ok
    /\ rpc[r] \in {"recvmsg", "waiting"} => Sized(r)
    /\ rpc[r] \in {"parse", "core"} => Installed(r)

\* NoDescriptorLeak and BudgetSuffices are about the states between the system
\* call and the return; they need the single owner, the provenance of the
\* control storage and that SO_PASSCRED is only ever on where it exists.
RecvInv(B, R) ==
    /\ RecvTypeOK(B, R)
    /\ IsFiniteSet(fdtable) /\ IsFiniteSet(pidfds)
    /\ passcred \/ passpidfd => Linux
    /\ NoDescriptorLeak
    /\ SoleOwner
    /\ \A r \in Receiver : Phase(r)
    /\ BudgetSuffices

-----------------------------------------------------------------------------
(* Sequences.                                                              *)

LEMMA ToSetFacts ==
    ASSUME NEW S, NEW s \in Seq(S)
    PROVE  /\ ToSet(s) \subseteq S
           /\ IsFiniteSet(ToSet(s))
           /\ Cardinality(ToSet(s)) <= Len(s)
           /\ Cardinality(ToSet(s)) \in Nat /\ Len(s) \in Nat
<1>1. Len(s) \in Nat /\ DOMAIN s = 1 .. Len(s) /\ s \in [1 .. Len(s) -> S]
  BY LenProperties
<1>2. ToSet(s) \subseteq S
  BY <1>1 DEF ToSet
<1>3. s \in Surjection(1 .. Len(s), ToSet(s))
  BY <1>1 DEF Surjection, ToSet
<1>4. IsFiniteSet(1 .. Len(s)) /\ Cardinality(1 .. Len(s)) = Len(s)
  BY <1>1, FS_Interval
<1>5. IsFiniteSet(ToSet(s)) /\ Cardinality(ToSet(s)) <= Len(s)
  BY <1>3, <1>4, FS_Surjection
<1> QED
  BY <1>1, <1>2, <1>5, FS_CardinalityType

\* The first k elements of a sequence.
LEMMA PrefixFacts ==
    ASSUME NEW S, NEW s \in Seq(S), NEW k \in Nat, k <= Len(s)
    PROVE  /\ SubSeq(s, 1, k) \in Seq(S)
           /\ Len(SubSeq(s, 1, k)) = k
           /\ \A i \in 1 .. k : SubSeq(s, 1, k)[i] = s[i]
           /\ ToSet(SubSeq(s, 1, k)) \subseteq ToSet(s)
<1>1. Len(s) \in Nat /\ DOMAIN s = 1 .. Len(s) /\ \A i \in 1 .. k : s[i] \in S
  BY LenProperties, ElementOfSeq
<1>2. /\ SubSeq(s, 1, k) \in Seq(S)
      /\ Len(SubSeq(s, 1, k)) = IF 1 <= k THEN k - 1 + 1 ELSE 0
      /\ \A i \in 1 .. k - 1 + 1 : SubSeq(s, 1, k)[i] = s[1 + i - 1]
  BY <1>1, SubSeqProperties
<1>3. Len(SubSeq(s, 1, k)) = k /\ \A i \in 1 .. k : SubSeq(s, 1, k)[i] = s[i]
  BY <1>2
<1>4. DOMAIN SubSeq(s, 1, k) = 1 .. k
  BY <1>2, <1>3, LenProperties
<1>5. ToSet(SubSeq(s, 1, k)) \subseteq ToSet(s)
  BY <1>1, <1>3, <1>4 DEF ToSet
<1> QED
  BY <1>2, <1>3, <1>5

-----------------------------------------------------------------------------
(* What the operations of Receive do to the invariant.                     *)

LEMMA ConstantsTyped ==
    /\ NoLimit \in Int /\ Nofile \subseteq Limit
    /\ BufLen \in Nat \ {0} /\ TableSize \in Nat \ {0} /\ HardFloor \in Nat
    /\ \A m \in Mode : m.n \in Nat /\ m.exact \in BOOLEAN
    /\ \A m \in Mode \cup {NoMode} : m.n \in Nat
BY ReceiveAssumption, BudgetAssumption DEF NoLimit, Limit, NoMode

\* The values of msg[r] and result[r].
Received(B, R) == [bytes : Seq(B), fds : Seq(R), rights : Seq(R),
                   ctrunc : BOOLEAN, trunc : BOOLEAN, full : BOOLEAN,
                   pidfd : BOOLEAN]
Outcome(B, R) == [ok : BOOLEAN, mode : Mode \cup {NoMode}, bytes : Seq(B),
                  fds : Seq(R), surplus : Nat]

LEMMA RecvTypes ==
    ASSUME NEW B, NEW R
    PROVE  RecvTypeOK(B, R) <=>
             /\ rpc \in [Receiver -> {"idle", "recvmsg", "waiting", "parse", "core"}]
             /\ mode \in [Receiver -> Mode \cup {NoMode}]
             /\ buf \in [Receiver -> 0 .. BufLen] /\ control \in [Receiver -> Nat]
             /\ msg \in [Receiver -> Received(B, R)]
             /\ result \in [Receiver -> Outcome(B, R)]
             /\ fdtable \subseteq R /\ held \subseteq fdtable /\ unseen \subseteq fdtable
             /\ pidfds \subseteq Receiver
             /\ Cardinality(fdtable) + Cardinality(pidfds) <= TableSize
             /\ passcred \in BOOLEAN /\ passpidfd \in BOOLEAN /\ nofile \in Nofile
BY DEF RecvTypeOK, Received, Outcome

LEMMA NoMsgFacts ==
    ASSUME NEW B, NEW R
    PROVE  /\ NoMsg \in Received(B, R)
           /\ ToSet(NoMsg.fds) = {}
           /\ ~NoMsg.ctrunc /\ ~NoMsg.trunc /\ ~NoMsg.pidfd
           /\ NoResult \in Outcome(B, R)
           /\ ~NoResult.ok
BY DEF NoMsg, ToSet, Received, Outcome, NoResult, NoMode

LEMMA RecvInitEstablishes ==
    ASSUME NEW B, NEW R, RecvInit
    PROVE  RecvInv(B, R)
<1>1. RecvTypeOK(B, R)
  <2>1. Cardinality({}) + Cardinality({}) <= TableSize
    BY FS_EmptySet, ConstantsTyped
  <2>2. msg \in [Receiver -> Received(B, R)] /\ result \in [Receiver -> Outcome(B, R)]
    BY NoMsgFacts DEF RecvInit
  <2>3. /\ rpc \in [Receiver -> {"idle", "recvmsg", "waiting", "parse", "core"}]
        /\ mode \in [Receiver -> Mode \cup {NoMode}]
        /\ buf \in [Receiver -> 0 .. BufLen] /\ control \in [Receiver -> Nat]
    BY ConstantsTyped DEF RecvInit
  <2> QED
    BY <2>1, <2>2, <2>3, RecvTypes DEF RecvInit
<1>2. \A r \in Receiver : msg[r] = NoMsg /\ ToSet(msg[r].fds) = {}
  BY NoMsgFacts DEF RecvInit
<1>3. NoDescriptorLeak /\ SoleOwner /\ BudgetSuffices
  BY <1>2, NoMsgFacts DEF RecvInit, NoDescriptorLeak, SoleOwner, BudgetSuffices
<1>4. \A r \in Receiver : Phase(r)
  BY <1>2 DEF RecvInit, Phase
<1> QED
  BY <1>1, <1>3, <1>4, FS_EmptySet DEF RecvInit, RecvInv

\* The slots left in the descriptor table.
LEMMA SlotsFacts ==
    ASSUME NEW B, NEW R, RecvInv(B, R)
    PROVE  /\ FreeSlots \in Nat
           /\ Cardinality(fdtable) \in Nat /\ Cardinality(pidfds) \in Nat
           /\ Cardinality(fdtable) + Cardinality(pidfds) + FreeSlots <= TableSize
<1>1. /\ Cardinality(fdtable) \in Nat /\ Cardinality(pidfds) \in Nat
      /\ Cardinality(fdtable) + Cardinality(pidfds) <= TableSize
  BY FS_CardinalityType DEF RecvInv, RecvTypeOK
<1>2. nofile = NoLimit \/ nofile \in Nat
  BY ConstantsTyped DEF RecvInv, RecvTypeOK, Limit
<1> DEFINE limit == IF nofile = NoLimit THEN TableSize ELSE MinOf(nofile, TableSize)
<1>3. limit \in Nat /\ limit <= TableSize
  BY <1>2, ConstantsTyped DEF MinOf
<1>4. FreeSlots = MaxOf(limit - Cardinality(fdtable) - Cardinality(pidfds), 0)
  BY DEF FreeSlots
<1> HIDE DEF limit
<1> QED
  BY <1>1, <1>3, <1>4, ConstantsTyped DEF MaxOf

\* The storage of a call in progress has room for what it asked for.
LEMMA SizedHasRoom ==
    ASSUME NEW B, NEW R, RecvInv(B, R), NEW r \in Receiver, rpc[r] = "recvmsg"
    PROVE  /\ Room(control[r], passcred) \in Nat
           /\ Room(control[r], passcred) >= MaxOf(mode[r].n, HardFloor)
           /\ Left(control[r], passcred) \in Nat
           /\ Left(control[r], passcred) >= Needed(MaxOf(mode[r].n, HardFloor), FALSE)
<1>1. PICK limit \in Nofile : /\ control[r] = ControlSize(mode[r].n, limit)
                              /\ ControlSize(mode[r].n, limit) # NoSpace
  BY DEF RecvInv, Phase, Sized
<1>2. mode[r].n \in Nat /\ limit \in Limit
  BY ConstantsTyped DEF RecvInv, Phase
<1>3. passcred \in BOOLEAN /\ (passcred => Linux)
  BY DEF RecvInv, RecvTypeOK
<1> QED
  BY <1>1, <1>2, <1>3, RoomForAll

LEMMA RecvCallPreserves ==
    ASSUME NEW B, NEW R, RecvInv(B, R), NEW r \in Receiver, NEW m \in Mode, RecvCall(r, m)
    PROVE  RecvInv(B, R)'
<1>1. nofile \in Nofile /\ nofile \in Limit /\ m.n \in Nat
  BY ConstantsTyped DEF RecvInv, RecvTypeOK
<1>2. ControlSize(m.n, nofile) \in Nat
  BY <1>1, AdditionNeverOverflows, BudgetAssumption DEF RecvCall
<1>3. /\ rpc \in [Receiver -> {"idle", "recvmsg", "waiting", "parse", "core"}]
      /\ mode \in [Receiver -> Mode \cup {NoMode}]
      /\ buf \in [Receiver -> 0 .. BufLen] /\ control \in [Receiver -> Nat]
      /\ msg \in [Receiver -> Received(B, R)]
      /\ result \in [Receiver -> Outcome(B, R)]
  BY RecvTypes DEF RecvInv
<1>4. RecvTypeOK(B, R)'
  <2>1. /\ rpc' \in [Receiver -> {"idle", "recvmsg", "waiting", "parse", "core"}]
        /\ mode' \in [Receiver -> Mode \cup {NoMode}]
        /\ buf' \in [Receiver -> 0 .. BufLen] /\ control' \in [Receiver -> Nat]
    BY <1>2, <1>3, ConstantsTyped DEF RecvCall
  <2>2. result' \in [Receiver -> Outcome(B, R)]
    BY <1>3, NoMsgFacts DEF RecvCall
  <2> QED
    BY <2>1, <2>2, RecvTypes DEF RecvInv, RecvCall, optVars, RecvTypeOK, Received, Outcome
<1>5. /\ UNCHANGED <<msg, fdtable, held, unseen, pidfds, passcred, passpidfd>>
      /\ msg[r] = NoMsg /\ rpc[r] = "idle"
  BY DEF RecvCall, optVars, RecvInv, Phase
<1>6. NoDescriptorLeak' /\ SoleOwner'
  <2>1. \A q \in pidfds : rpc'[q] = "parse"
    BY <1>3, <1>5 DEF RecvCall, RecvInv, NoDescriptorLeak
  <2> QED
    BY <1>5, <2>1 DEF RecvInv, NoDescriptorLeak, SoleOwner
<1>7. BudgetSuffices'
  BY <1>5, NoMsgFacts DEF RecvInv, RecvTypeOK, RecvCall, BudgetSuffices
<1>8. ASSUME NEW q \in Receiver PROVE Phase(q)'
  <2>1. CASE q = r
    <3>1. /\ rpc'[r] = "recvmsg" /\ mode'[r] = m /\ buf'[r] = BufLen
          /\ result'[r] = NoResult /\ control'[r] = ControlSize(m.n, nofile)
          /\ ControlSize(m.n, nofile) # NoSpace
      BY <1>3 DEF RecvCall
    <3>2. Sized(r)'
      BY <1>1, <3>1 DEF Sized
    <3> QED
      BY <1>5, <2>1, <3>1, <3>2 DEF Phase, NoResult
  <2>2. CASE q # r
    <3>1. /\ rpc'[q] = rpc[q] /\ mode'[q] = mode[q] /\ buf'[q] = buf[q]
          /\ control'[q] = control[q] /\ result'[q] = result[q] /\ msg'[q] = msg[q]
      BY <1>3, <1>5, <2>2 DEF RecvCall
    <3>2. Phase(q)
      BY DEF RecvInv
    <3> QED
      BY <3>1, <3>2 DEF Phase, Sized, Installed
  <2> QED
    BY <2>1, <2>2
<1> QED
  BY <1>4, <1>5, <1>6, <1>7, <1>8 DEF RecvInv

\* A call that a step leaves alone.
LEMMA PhaseUnchanged ==
    ASSUME NEW q \in Receiver, Phase(q), rpc'[q] = rpc[q], mode'[q] = mode[q],
           buf'[q] = buf[q], control'[q] = control[q], result'[q] = result[q],
           msg'[q] = msg[q]
    PROVE  Phase(q)'
BY DEF Phase, Sized, Installed

\* The descriptors of rights that recvmsg opens for r: those it reports, and
\* where the storage does not bound them others; and the pidfd.
Opens(r, rights, open) ==
    /\ ToSet(msg'[r].fds) \subseteq ToSet(open)
    /\ ToSet(open) \subseteq ToSet(rights)
    /\ ~InstallsOmitted => ToSet(msg'[r].fds) = ToSet(open)
    /\ fdtable' = fdtable \cup ToSet(open)
    /\ unseen' = unseen \cup (ToSet(open) \ ToSet(msg'[r].fds))
    /\ \/ pidfds' = pidfds /\ Len(open) <= FreeSlots
       \/ pidfds' = pidfds \cup {r} /\ Len(open) + 1 <= FreeSlots

\* What BudgetSuffices says of one call.
Budgeted(r) ==
    msg[r].ctrunc =>
        \/ msg[r].full
        \/ Needed(Len(msg[r].rights), msg[r].pidfd)
             > Needed(MaxOf(mode[r].n, HardFloor), FALSE)

\* What recvmsg returns: what it reports are the first of the rights sent, it
\* installs no more than the process has slots for, and what is missing is
\* flagged and has one of the reasons BudgetSuffices gives.
LEMMA DeliverFacts ==
    ASSUME NEW B, NEW R, RecvInv(B, R), NEW r \in Receiver, rpc[r] = "recvmsg",
           NEW bytes \in Seq(B), NEW rights \in Seq(R), NEW trunc \in BOOLEAN,
           Deliver(r, bytes, rights, trunc)
    PROVE  /\ msg' \in [Receiver -> Received(B, R)]
           /\ \A q \in Receiver : q # r => msg'[q] = msg[q]
           /\ msg'[r].bytes = bytes /\ msg'[r].rights = rights /\ msg'[r].trunc = trunc
           /\ Installed(r)'
           /\ msg'[r].fds \in Seq(R)
           /\ \E open \in Seq(R) : Opens(r, rights, open)
           /\ Budgeted(r)'
<1> DEFINE room == Room(control[r], passcred)
           j == MinOf(Len(rights), IF InstallsOmitted THEN FreeSlots ELSE MinOf(room, FreeSlots))
           open == SubSeq(rights, 1, j)
           k == MinOf(Len(open), room)
           fds == SubSeq(open, 1, k)
           fits == PidfdFits(control[r], passcred, Len(fds))
           pidfd == passpidfd /\ fits
           M == [bytes |-> bytes, fds |-> fds, rights |-> rights,
                 ctrunc |-> Len(fds) < Len(rights) \/ (passpidfd /\ ~pidfd),
                 trunc |-> trunc, full |-> Len(open) = FreeSlots,
                 pidfd |-> passpidfd]
<1>1. Len(rights) \in Nat /\ FreeSlots \in Nat /\ room \in Nat
  BY LenProperties, SlotsFacts, SizedHasRoom
<1>2. /\ msg' = [msg EXCEPT ![r] = M] /\ fdtable' = fdtable \cup ToSet(open)
      /\ unseen' = unseen \cup (ToSet(open) \ ToSet(fds))
      /\ pidfds' = IF pidfd /\ Len(open) < FreeSlots THEN pidfds \cup {r} ELSE pidfds
      /\ UNCHANGED <<mode, passcred, passpidfd>>
  BY DEF Deliver, optVars
<1>3. /\ j \in Nat /\ j <= Len(rights) /\ j <= FreeSlots
      /\ ~InstallsOmitted => j <= room
      /\ j < FreeSlots /\ Len(rights) <= room => j = Len(rights)
  BY <1>1 DEF MinOf
<1> HIDE DEF j, room
<1>4. open \in Seq(R) /\ Len(open) = j /\ ToSet(open) \subseteq ToSet(rights)
      /\ \A i \in 1 .. j : open[i] = rights[i]
  BY <1>3, PrefixFacts
<1>5. k \in Nat /\ k <= Len(open) /\ (~InstallsOmitted => k = Len(open))
      /\ (Len(open) <= room => k = Len(open))
  BY <1>1, <1>3, <1>4 DEF MinOf
<1> HIDE DEF k
<1>6. fds \in Seq(R) /\ Len(fds) = k /\ ToSet(fds) \subseteq ToSet(open)
      /\ \A i \in 1 .. k : fds[i] = open[i]
  <2> HIDE DEF open
  <2> QED
    BY <1>4, <1>5, PrefixFacts
<1>7. fds = SubSeq(rights, 1, Len(fds))
  <2>1. k <= Len(rights) /\ \A i \in 1 .. k : fds[i] = rights[i]
    <3> HIDE DEF open, fds
    <3> QED
      BY <1>1, <1>3, <1>4, <1>5, <1>6
  <2>2. /\ SubSeq(rights, 1, k) \in Seq(R) /\ Len(SubSeq(rights, 1, k)) = k
        /\ \A i \in 1 .. k : SubSeq(rights, 1, k)[i] = rights[i]
    BY <1>5, <2>1, PrefixFacts
  <2> HIDE DEF fds
  <2>3. fds = SubSeq(rights, 1, k)
    BY <1>6, <2>1, <2>2, SeqEqual
  <2> QED
    BY <1>6, <2>3
<1>8. ~InstallsOmitted => ToSet(fds) = ToSet(open)
  <2> SUFFICES ASSUME ~InstallsOmitted PROVE ToSet(fds) = ToSet(open)
    OBVIOUS
  <2>1. k = Len(open)
    BY <1>5
  <2> HIDE DEF open
  <2>2. SubSeq(open, 1, Len(open)) = open
    BY <1>4, SubSeqFull
  <2> QED
    BY <2>1, <2>2
<1>9. fits \in BOOLEAN
  BY DEF PidfdFits
<1>10. M.ctrunc => \/ M.full
                   \/ Needed(Len(rights), M.pidfd)
                        > Needed(MaxOf(mode[r].n, HardFloor), FALSE)
  <2> DEFINE left == Left(control[r], passcred)
             asked == Needed(MaxOf(mode[r].n, HardFloor), FALSE)
             n == Len(rights)
  <2>1. left \in Nat /\ left >= asked
    BY SizedHasRoom
  <2>2. asked \in Nat
    <3>1. mode[r].n \in Nat /\ HardFloor \in Nat
      BY ConstantsTyped, RecvTypes DEF RecvInv
    <3>2. MaxOf(mode[r].n, HardFloor) \in Nat
      BY <3>1 DEF MaxOf
    <3> QED
      BY <3>2, NeededFacts
  <2>3. passpidfd \in BOOLEAN
    BY DEF RecvInv, RecvTypeOK
  <2> DEFINE need == Needed(n, passpidfd)
             some == Needed(n, FALSE)
  <2>4. /\ need \in Nat /\ some \in Nat /\ some <= need
        /\ passpidfd => need - some = Space(FdSize)
        /\ n > 0 => some = Space(FdSize * n)
    BY <1>1, <2>3, NeededFacts
  <2>5. /\ M.ctrunc = (Len(fds) < n \/ (passpidfd /\ ~fits))
        /\ M.full = (Len(open) = FreeSlots) /\ M.pidfd = passpidfd
    BY <2>3
  <2>6. SUFFICES ASSUME ~(need > asked), Len(open) # FreeSlots
                 PROVE  ~M.ctrunc
    <3>1. Needed(Len(rights), M.pidfd) = need
      BY <2>5
    <3> HIDE DEF M, fds, open, fits
    <3> QED
      BY <2>5, <3>1, Zenon
  <2>7. left >= need
    <3> HIDE DEF left, need, asked
    <3> QED
      BY <2>1, <2>2, <2>4, <2>6
  <2>8. n <= room
    <3>1. CASE n = 0
      BY <1>1, <3>1
    <3>2. CASE n > 0
      <4> DEFINE space == Space(FdSize * n)
                 payload == FdSize * n
      <4>1. payload \in Nat /\ header_len \in Nat
        BY <1>1, HeaderLenBounds, LayoutAssumption
      <4>2. space \in Nat /\ space >= header_len + payload
        BY <4>1, SpaceFacts
      <4>3. left - header_len \in Nat /\ left - header_len >= payload
        <5> HIDE DEF left, need, some, space, payload
        <5> QED
          BY <2>1, <2>4, <2>7, <3>2, <4>1, <4>2 DEF space
      <4> HIDE DEF left
      <4>4. (left - header_len) \div FdSize >= n
        BY <1>1, <4>3, DivBound, LayoutAssumption
      <4>5. (left - header_len) \div FdSize \in Int
        BY <4>3, LayoutAssumption
      <4>6. room = MaxOf(0, (left - header_len) \div FdSize)
        BY DEF room, Room, left
      <4> QED
        BY <1>1, <4>4, <4>5, <4>6 DEF MaxOf
    <3> QED
      BY <1>1, <3>1, <3>2
  <2>9. Len(fds) = n
    <3>1. Len(open) = j /\ Len(fds) = k
      BY <1>4, <1>6
    <3> HIDE DEF open, fds
    <3> QED
      BY <1>1, <1>3, <1>5, <2>6, <2>8, <3>1
  <2>10. ASSUME passpidfd PROVE fits
    <3>1. Space(FdSize) \in Nat /\ Space(FdSize) >= header_len + FdSize
      BY SpaceFacts, LayoutAssumption
    <3>2. header_len \in Nat /\ FdSize \in Nat
      BY HeaderLenBounds, LayoutAssumption
    <3>3. fits = (left - some >= header_len + FdSize)
      BY <2>9 DEF PidfdFits
    <3> HIDE DEF left, some, need, fits
    <3>4. left - some >= header_len + FdSize
      BY <2>1, <2>4, <2>7, <2>10, <3>1, <3>2
    <3> QED
      BY <3>3, <3>4
  <2>11. ~(Len(fds) < n)
    <3> HIDE DEF fds
    <3> QED
      BY <1>1, <2>9
  <2> HIDE DEF M, fds, fits
  <2> QED
    BY <2>5, <2>10, <2>11, Zenon
<1>11. msg \in [Receiver -> Received(B, R)] /\ passpidfd \in BOOLEAN
  BY RecvTypes DEF RecvInv
<1>12. /\ M.fds = fds /\ M.rights = rights /\ M.bytes = bytes /\ M.trunc = trunc
       /\ M.ctrunc \in BOOLEAN /\ M.full \in BOOLEAN /\ M.pidfd \in BOOLEAN
       /\ Len(fds) < Len(rights) => M.ctrunc
  BY <1>11
<1>13. \/ pidfds' = pidfds /\ Len(open) <= FreeSlots
       \/ pidfds' = pidfds \cup {r} /\ Len(open) + 1 <= FreeSlots
  <2> HIDE DEF open, pidfd
  <2> QED
    BY <1>1, <1>2, <1>3, <1>4
<1> HIDE DEF fds, open, pidfd
<1>14. M \in Received(B, R)
  BY <1>6, <1>12 DEF Received
<1> HIDE DEF M
<1>15. msg'[r] = M /\ \A q \in Receiver : q # r => msg'[q] = msg[q]
  BY <1>2, <1>11
<1>16. msg' \in [Receiver -> Received(B, R)]
  BY <1>2, <1>11, <1>14
<1>17. Installed(r)'
  BY <1>1, <1>3, <1>4, <1>5, <1>6, <1>7, <1>12, <1>15 DEF Installed
<1>18. Opens(r, rights, open)
  BY <1>2, <1>4, <1>6, <1>8, <1>12, <1>13, <1>15 DEF Opens
<1>19. Budgeted(r)'
  BY <1>2, <1>10, <1>12, <1>15 DEF Budgeted
<1> QED
  BY <1>4, <1>12, <1>6, <1>15, <1>16, <1>17, <1>18, <1>19

\* A delivery of rights that are not installed yet.
LEMMA DeliverPreserves ==
    ASSUME NEW B, NEW R, RecvInv(B, R), NEW r \in Receiver, rpc[r] = "recvmsg",
           NEW bytes \in Seq(B), NEW rights \in Seq(R), NEW trunc \in BOOLEAN,
           ToSet(rights) \cap fdtable = {},
           Deliver(r, bytes, rights, trunc)
    PROVE  RecvInv(B, R)'
<1>1. /\ msg' \in [Receiver -> Received(B, R)]
      /\ \A q \in Receiver : q # r => msg'[q] = msg[q]
      /\ msg'[r].bytes = bytes /\ msg'[r].rights = rights /\ msg'[r].trunc = trunc
      /\ Installed(r)'
      /\ msg'[r].fds \in Seq(R)
      /\ \E open \in Seq(R) : Opens(r, rights, open)
      /\ Budgeted(r)'
  BY DeliverFacts
<1> DEFINE F == ToSet(msg'[r].fds)
<1>2. PICK open \in Seq(R) : Opens(r, rights, open)
  BY <1>1
<1>2a. /\ F \subseteq ToSet(open)
       /\ ToSet(open) \subseteq ToSet(rights)
       /\ ~InstallsOmitted => F = ToSet(open)
       /\ fdtable' = fdtable \cup ToSet(open)
       /\ unseen' = unseen \cup (ToSet(open) \ F)
       /\ \/ pidfds' = pidfds /\ Len(open) <= FreeSlots
          \/ pidfds' = pidfds \cup {r} /\ Len(open) + 1 <= FreeSlots
  BY <1>2 DEF Opens
<1> DEFINE O == ToSet(open)
<1>3. rpc' = [rpc EXCEPT ![r] = "parse"]
      /\ UNCHANGED <<mode, buf, control, result, held, passcred, passpidfd, nofile>>
  BY DEF Deliver, optVars
<1>4. msg[r] = NoMsg /\ ToSet(msg[r].fds) = {}
  BY NoMsgFacts DEF RecvInv, Phase
<1>5. O \subseteq R /\ IsFiniteSet(O) /\ Cardinality(O) <= Len(open) /\ Len(open) \in Nat
  BY ToSetFacts
<1>6. O \cap fdtable = {}
  BY <1>2a
<1> HIDE DEF F, O
<1>7. rpc \in [Receiver -> {"idle", "recvmsg", "waiting", "parse", "core"}]
  BY RecvTypes DEF RecvInv
<1>8. /\ IsFiniteSet(fdtable') /\ IsFiniteSet(pidfds')
      /\ Cardinality(fdtable') + Cardinality(pidfds') <= TableSize
  <2>1. Cardinality(O) \in Nat /\ IsFiniteSet(fdtable) /\ IsFiniteSet(pidfds)
    BY <1>5, FS_CardinalityType DEF RecvInv
  <2>2. IsFiniteSet(fdtable \cup O)
        /\ Cardinality(fdtable \cup O)
             = Cardinality(fdtable) + Cardinality(O) - Cardinality(fdtable \cap O)
    BY <1>5, <2>1, FS_Union
  <2>3. Cardinality(fdtable \cap O) = 0
    BY <1>6, FS_EmptySet
  <2>4. /\ FreeSlots \in Nat
        /\ Cardinality(fdtable) \in Nat /\ Cardinality(pidfds) \in Nat
        /\ Cardinality(fdtable) + Cardinality(pidfds) + FreeSlots <= TableSize
        /\ TableSize \in Nat
    BY SlotsFacts, ConstantsTyped
  <2>5. Cardinality(fdtable') <= Cardinality(fdtable) + Len(open)
        /\ Cardinality(fdtable') \in Nat /\ IsFiniteSet(fdtable')
    <3>1. fdtable' = fdtable \cup O
      BY <1>2a DEF O
    <3>2. Cardinality(fdtable') = Cardinality(fdtable) + Cardinality(O)
      BY <2>1, <2>2, <2>3, <2>4, <3>1
    <3> QED
      BY <1>5, <2>1, <2>2, <2>4, <3>1, <3>2
  <2>6. CASE pidfds' = pidfds /\ Len(open) <= FreeSlots
    <3>1. Cardinality(pidfds') = Cardinality(pidfds) /\ IsFiniteSet(pidfds')
      BY <2>1, <2>6
    <3>2. Cardinality(fdtable') + Cardinality(pidfds') <= TableSize
      BY <1>5, <2>4, <2>5, <2>6, <3>1
    <3> QED
      BY <2>5, <3>1, <3>2
  <2>7. CASE pidfds' = pidfds \cup {r} /\ Len(open) + 1 <= FreeSlots
    <3>1. IsFiniteSet(pidfds \cup {r})
          /\ Cardinality(pidfds \cup {r})
               = IF r \in pidfds THEN Cardinality(pidfds) ELSE Cardinality(pidfds) + 1
      BY <2>1, FS_AddElement
    <3>2. IsFiniteSet(pidfds') /\ Cardinality(pidfds') <= Cardinality(pidfds) + 1
          /\ Cardinality(pidfds') \in Nat
      BY <2>4, <2>7, <3>1
    <3> QED
      BY <1>5, <2>4, <2>5, <2>7, <3>2
  <2> QED
    BY <1>2a, <2>6, <2>7
<1>9. RecvTypeOK(B, R)'
  <2>1. /\ fdtable' \subseteq R /\ held' \subseteq fdtable'
        /\ unseen' \subseteq fdtable' /\ pidfds' \subseteq Receiver
    BY <1>2a, <1>3, <1>5 DEF RecvInv, RecvTypeOK, O
  <2>2. rpc' \in [Receiver -> {"idle", "recvmsg", "waiting", "parse", "core"}]
    BY <1>3, <1>7
  <2> QED
    BY <1>1, <1>3, <1>8, <2>1, <2>2, RecvTypes
       DEF RecvInv, RecvTypeOK, Received, Outcome
<1>10. \A q \in Receiver : q # r => ToSet(msg'[q].fds) = ToSet(msg[q].fds)
  BY <1>1
<1> DEFINE U == UNION {ToSet(msg[q].fds) : q \in Receiver}
<1>11. U \subseteq fdtable /\ held \subseteq fdtable /\ unseen \subseteq fdtable
       /\ fdtable \ unseen = held \cup U
  BY DEF RecvInv, NoDescriptorLeak, RecvTypeOK
<1>12. NoDescriptorLeak'
  <2>1. UNION {ToSet(msg'[q].fds) : q \in Receiver} = F \cup U
    BY <1>4, <1>10 DEF F
  <2> HIDE DEF U
  <2>2. fdtable' \ unseen' = held' \cup F \cup U
    BY <1>2a, <1>3, <1>6, <1>11 DEF O
  <2>3. \A q \in pidfds' : rpc'[q] = "parse"
    BY <1>2a, <1>3, <1>7 DEF RecvInv, NoDescriptorLeak, RecvTypeOK
  <2>4. ~InstallsOmitted => unseen' = {}
    BY <1>2a DEF RecvInv, NoDescriptorLeak
  <2> QED
    BY <2>1, <2>2, <2>3, <2>4 DEF NoDescriptorLeak
<1>13. SoleOwner'
  <2>1. \A q \in Receiver : ToSet(msg[q].fds) \subseteq fdtable
    BY <1>11
  <2>2. F \cap fdtable = {}
    BY <1>2a, <1>6 DEF O
  <2> HIDE DEF U
  <2> QED
    BY <1>3, <1>10, <1>11, <2>1, <2>2 DEF RecvInv, SoleOwner, F
<1>14. BudgetSuffices'
  <2>1. \A q \in Receiver : Budgeted(q)'
    BY <1>1, <1>3 DEF RecvInv, BudgetSuffices, Budgeted
  <2> QED
    BY <2>1 DEF BudgetSuffices, Budgeted
<1>15. ASSUME NEW q \in Receiver PROVE Phase(q)'
  <2>1. CASE q = r
    BY <1>1, <1>3, <1>7, <2>1 DEF RecvInv, Phase
  <2>2. CASE q # r
    BY <1>1, <1>3, <1>7, <2>2, PhaseUnchanged DEF RecvInv
  <2> QED
    BY <2>1, <2>2
<1> QED
  BY <1>3, <1>8, <1>9, <1>12, <1>13, <1>14, <1>15 DEF RecvInv

\* The end of a call: what it still owned is the application's or is closed.
LEMMA ReturnPreserves ==
    ASSUME NEW B, NEW R, RecvInv(B, R), NEW r \in Receiver, NEW ok \in BOOLEAN,
           NEW fds \in Seq(R), ToSet(fds) \subseteq ToSet(msg[r].fds),
           NEW surplus \in Nat, rpc[r] # "parse", RecvReturn(r, ok, fds, surplus)
    PROVE  RecvInv(B, R)'
<1>0. /\ pidfds \subseteq Receiver /\ rpc[r] # "parse" /\ unseen \subseteq fdtable
      /\ \A q \in pidfds : rpc[q] = "parse"
  BY DEF RecvInv, RecvTypeOK, NoDescriptorLeak
<1> DEFINE old == ToSet(msg[r].fds)
           kept == ToSet(fds)
           res == [ok |-> ok, mode |-> mode[r], bytes |-> msg[r].bytes,
                   fds |-> fds, surplus |-> surplus]
<1>1. /\ result' = [result EXCEPT ![r] = res]
      /\ fdtable' = (fdtable \ old) \cup kept /\ held' = held \cup kept
      /\ rpc' = [rpc EXCEPT ![r] = "idle"] /\ mode' = [mode EXCEPT ![r] = NoMode]
      /\ buf' = [buf EXCEPT ![r] = 0] /\ control' = [control EXCEPT ![r] = 0]
      /\ msg' = [msg EXCEPT ![r] = NoMsg]
      /\ UNCHANGED <<unseen, pidfds, passcred, passpidfd, nofile>>
  BY DEF RecvReturn, Forget, optVars
<1>2. /\ rpc \in [Receiver -> {"idle", "recvmsg", "waiting", "parse", "core"}]
      /\ mode \in [Receiver -> Mode \cup {NoMode}]
      /\ buf \in [Receiver -> 0 .. BufLen] /\ control \in [Receiver -> Nat]
      /\ msg \in [Receiver -> Received(B, R)]
      /\ result \in [Receiver -> Outcome(B, R)]
      /\ fdtable \subseteq R /\ held \subseteq fdtable
      /\ Cardinality(fdtable) + Cardinality(pidfds) <= TableSize
      /\ passcred \in BOOLEAN /\ passpidfd \in BOOLEAN /\ nofile \in Nofile
  BY RecvTypes DEF RecvInv
<1>3. res \in Outcome(B, R)
  BY <1>2 DEF Outcome, Received
<1>4. \A q \in Receiver : ToSet(msg[q].fds) \subseteq fdtable
  BY DEF RecvInv, NoDescriptorLeak
<1>5. kept \subseteq old /\ old \subseteq fdtable
  BY <1>4
<1>6. /\ msg'[r] = NoMsg /\ ToSet(msg'[r].fds) = {} /\ ~msg'[r].ctrunc
      /\ \A q \in Receiver : q # r => msg'[q] = msg[q]
  BY <1>1, <1>2, NoMsgFacts
<1> HIDE DEF old, kept, res
<1>7. fdtable' \subseteq fdtable
  BY <1>1, <1>5
<1>8. IsFiniteSet(fdtable') /\ Cardinality(fdtable') + Cardinality(pidfds') <= TableSize
  <2>1. IsFiniteSet(fdtable) /\ IsFiniteSet(pidfds) /\ pidfds' = pidfds
    BY <1>1 DEF RecvInv
  <2>2. IsFiniteSet(fdtable') /\ Cardinality(fdtable') <= Cardinality(fdtable)
    BY <1>7, <2>1, FS_Subset
  <2>3. /\ Cardinality(fdtable) \in Nat /\ Cardinality(fdtable') \in Nat
        /\ Cardinality(pidfds) \in Nat
    BY <2>1, <2>2, FS_CardinalityType
  <2> QED
    BY <1>2, <2>1, <2>2, <2>3, ConstantsTyped
<1>9. held \cap old = {} /\ unseen \cap old = {}
  <2>1. held \cap old = {}
    BY DEF RecvInv, SoleOwner, old
  <2>2. old \subseteq fdtable \ unseen
    BY DEF RecvInv, NoDescriptorLeak, old
  <2> QED
    BY <2>1, <2>2
<1>10. RecvTypeOK(B, R)'
  <2>1. held' \subseteq fdtable' /\ fdtable' \subseteq R /\ unseen' \subseteq fdtable'
    BY <1>0, <1>1, <1>2, <1>7, <1>9
  <2>2. NoMsg \in Received(B, R)
    BY NoMsgFacts
  <2>3. msg' \in [Receiver -> Received(B, R)] /\ result' \in [Receiver -> Outcome(B, R)]
    BY <1>1, <1>2, <1>3, <2>2
  <2>4. /\ rpc' \in [Receiver -> {"idle", "recvmsg", "waiting", "parse", "core"}]
        /\ mode' \in [Receiver -> Mode \cup {NoMode}]
        /\ buf' \in [Receiver -> 0 .. BufLen] /\ control' \in [Receiver -> Nat]
    BY <1>1, <1>2, ConstantsTyped
  <2> QED
    BY <1>0, <1>1, <1>2, <1>8, <2>1, <2>3, <2>4 DEF RecvTypeOK, Received, Outcome
<1>11. NoDescriptorLeak'
  <2> DEFINE U == UNION {ToSet(msg[q].fds) : q \in Receiver \ {r}}
  <2>1. UNION {ToSet(msg[q].fds) : q \in Receiver} = U \cup old
    BY DEF old
  <2>2. UNION {ToSet(msg'[q].fds) : q \in Receiver} = U
    BY <1>6
  <2>3. U \cap old = {}
    BY DEF RecvInv, SoleOwner, old
  <2> HIDE DEF U
  <2>4. fdtable \ unseen = held \cup U \cup old
    BY <2>1 DEF RecvInv, NoDescriptorLeak
  <2>5. fdtable' \ unseen' = held' \cup U
    BY <1>1, <1>5, <1>9, <2>3, <2>4
  <2>6. \A q \in pidfds' : rpc'[q] = "parse"
    BY <1>0, <1>1, <1>2
  <2>7. ~InstallsOmitted => unseen' = {}
    BY <1>1 DEF RecvInv, NoDescriptorLeak
  <2> QED
    BY <2>2, <2>5, <2>6, <2>7 DEF NoDescriptorLeak
<1>12. SoleOwner'
  <2>1. \A q \in Receiver : q # r => /\ ToSet(msg'[q].fds) = ToSet(msg[q].fds)
                                     /\ ToSet(msg[q].fds) \cap old = {}
                                     /\ ToSet(msg[q].fds) \cap held = {}
    BY <1>6 DEF RecvInv, SoleOwner, old
  <2>2. \A q \in Receiver : held' \cap ToSet(msg'[q].fds) = {}
    BY <1>1, <1>5, <1>6, <2>1
  <2>3. \A p, q \in Receiver : p # q => ToSet(msg'[p].fds) \cap ToSet(msg'[q].fds) = {}
    BY <1>6, <2>1 DEF RecvInv, SoleOwner
  <2> QED
    BY <2>2, <2>3 DEF SoleOwner
<1>13. BudgetSuffices'
  <2>1. \A q \in Receiver : q # r => mode'[q] = mode[q]
    BY <1>1, <1>2
  <2> QED
    BY <1>6, <2>1 DEF RecvInv, BudgetSuffices
<1>14. ASSUME NEW q \in Receiver PROVE Phase(q)'
  <2>1. CASE q = r
    BY <1>1, <1>2, <1>6, <2>1 DEF Phase
  <2>2. CASE q # r
    BY <1>1, <1>2, <1>6, <2>2, PhaseUnchanged DEF RecvInv
  <2> QED
    BY <2>1, <2>2
<1> QED
  BY <1>1, <1>8, <1>10, <1>11, <1>12, <1>13, <1>14 DEF RecvInv

\* An error return owns nothing any more.
LEMMA ErrorPreserves ==
    ASSUME NEW B, NEW R, RecvInv(B, R), NEW r \in Receiver,
           rpc[r] # "parse", RecvReturn(r, FALSE, <<>>, 0)
    PROVE  RecvInv(B, R)'
<1>1. ToSet(<<>>) = {} /\ <<>> \in Seq(R)
  BY DEF ToSet
<1> QED
  BY <1>1, ReturnPreserves

\* What a successful recv_core returns: a prefix of all the rights that were
\* sent, and the number of the others.
LEMMA CoreReturns ==
    ASSUME NEW B, NEW R, RecvInv(B, R), NEW r \in Receiver, recv_core(r)
    PROVE  \/ RecvReturn(r, FALSE, <<>>, 0)
           \/ \E k \in 0 .. Len(msg[r].rights) :
                /\ RecvReturn(r, TRUE, SubSeq(msg[r].rights, 1, k), Len(msg[r].rights) - k)
                /\ msg[r].fds = msg[r].rights
                /\ k = IF mode[r].exact THEN mode[r].n ELSE MinOf(Len(msg[r].rights), mode[r].n)
                /\ SocketKind = "Datagram" => ~msg[r].trunc
<1> DEFINE fds == msg[r].fds
           rights == msg[r].rights
           n == mode[r].n
<1>1. rpc[r] = "core" /\ Installed(r) /\ mode[r] \in Mode
  BY DEF RecvInv, Phase, recv_core
<1>2. msg[r] \in Received(B, R)
  BY RecvTypes DEF RecvInv
<1>3. rights \in Seq(R) /\ Len(rights) \in Nat /\ Len(fds) \in Nat /\ n \in Nat
  BY <1>1, <1>2, LenProperties, ConstantsTyped DEF Received
<1>4. CASE msg[r].ctrunc \/ (SocketKind = "Datagram" /\ msg[r].trunc)
  BY <1>4 DEF recv_core
<1>5. CASE ~(msg[r].ctrunc \/ (SocketKind = "Datagram" /\ msg[r].trunc))
  <2>1. Len(fds) = Len(rights)
    BY <1>1, <1>3, <1>5 DEF Installed
  <2>2. fds = rights
    BY <1>1, <1>3, <2>1, SubSeqFull DEF Installed
  <2>3. Counted(r)
    BY <1>5 DEF recv_core
  <2>4. CASE ~mode[r].exact
    <3> DEFINE k == MinOf(Len(rights), n)
    <3>1. k \in 0 .. Len(rights) /\ MaxOf(Len(rights) - n, 0) = Len(rights) - k
      BY <1>3 DEF MinOf, MaxOf
    <3>2. RecvReturn(r, TRUE, SubSeq(fds, 1, MinOf(Len(fds), n)), MaxOf(Len(fds) - n, 0))
      BY <2>3, <2>4 DEF Counted
    <3>3. RecvReturn(r, TRUE, SubSeq(rights, 1, k), Len(rights) - k)
      BY <2>2, <3>1, <3>2
    <3> QED
      BY <1>5, <2>2, <2>4, <3>1, <3>3
  <2>5. CASE mode[r].exact
    <3>1. CASE Len(fds) = n
      <4>1. RecvReturn(r, TRUE, fds, 0)
        BY <2>3, <2>5, <3>1 DEF Counted
      <4>2. SubSeq(rights, 1, n) = rights /\ Len(rights) - n = 0 /\ n \in 0 .. Len(rights)
        <5>1. SubSeq(rights, 1, Len(rights)) = rights
          BY <1>3, SubSeqFull
        <5> QED
          BY <1>3, <2>1, <3>1, <5>1
      <4>3. RecvReturn(r, TRUE, SubSeq(rights, 1, n), Len(rights) - n)
        BY <2>2, <4>1, <4>2
      <4> QED
        BY <1>5, <2>2, <2>5, <4>2, <4>3
    <3>2. CASE Len(fds) # n
      BY <2>3, <2>5, <3>2 DEF Counted
    <3> QED
      BY <3>1, <3>2
  <2> QED
    BY <2>4, <2>5
<1> QED
  BY <1>4, <1>5

\* The steps of the receiving process alone keep the invariant and open no
\* descriptor.
LEMMA CorePreserves ==
    ASSUME NEW B, NEW R, RecvInv(B, R), NEW r \in Receiver, recv_core(r)
    PROVE  RecvInv(B, R)'
<1>0. rpc[r] # "parse"
  BY DEF recv_core
<1>1. CASE RecvReturn(r, FALSE, <<>>, 0)
  BY <1>0, <1>1, ErrorPreserves
<1>2. CASE \E k \in 0 .. Len(msg[r].rights) :
              /\ RecvReturn(r, TRUE, SubSeq(msg[r].rights, 1, k), Len(msg[r].rights) - k)
              /\ msg[r].fds = msg[r].rights
  <2>1. PICK k \in 0 .. Len(msg[r].rights) :
           /\ RecvReturn(r, TRUE, SubSeq(msg[r].rights, 1, k), Len(msg[r].rights) - k)
           /\ msg[r].fds = msg[r].rights
    BY <1>2
  <2>2. msg[r].rights \in Seq(R) /\ Len(msg[r].rights) \in Nat
    BY RecvTypes, LenProperties DEF RecvInv, Received
  <2>3. k \in Nat /\ k <= Len(msg[r].rights) /\ Len(msg[r].rights) - k \in Nat
    BY <2>2
  <2>4. /\ SubSeq(msg[r].rights, 1, k) \in Seq(R)
        /\ ToSet(SubSeq(msg[r].rights, 1, k)) \subseteq ToSet(msg[r].fds)
    BY <2>1, <2>2, <2>3, PrefixFacts
  <2> QED
    BY <1>0, <2>1, <2>3, <2>4, ReturnPreserves
<1> QED
  BY <1>1, <1>2, CoreReturns

\* A call that is not parsing moves on and no descriptor does.
LEMMA LeakUnchanged ==
    ASSUME NEW B, NEW R, RecvInv(B, R), NEW r \in Receiver, NEW pc, rpc[r] # "parse",
           rpc' = [rpc EXCEPT ![r] = pc],
           UNCHANGED <<msg, fdtable, held, unseen, pidfds>>
    PROVE  NoDescriptorLeak' /\ SoleOwner'
<1>1. \A q \in pidfds' : rpc'[q] = "parse"
  BY DEF RecvInv, RecvTypeOK, NoDescriptorLeak
<1> QED
  BY <1>1 DEF RecvInv, NoDescriptorLeak, SoleOwner

LEMMA WouldBlockPreserves ==
    ASSUME NEW B, NEW R, RecvInv(B, R), NEW r \in Receiver, RecvWouldBlock(r)
    PROVE  RecvInv(B, R)'
<1>1. /\ rpc[r] = "recvmsg" /\ rpc' = [rpc EXCEPT ![r] = "waiting"]
      /\ UNCHANGED <<mode, buf, control, msg, result, fdtable, held, unseen, pidfds>>
      /\ UNCHANGED <<passcred, passpidfd, nofile>>
  BY DEF RecvWouldBlock, optVars
<1>2. rpc \in [Receiver -> {"idle", "recvmsg", "waiting", "parse", "core"}]
  BY RecvTypes DEF RecvInv
<1>3. RecvTypeOK(B, R)'
  BY <1>1, <1>2 DEF RecvInv, RecvTypeOK
<1>4. ASSUME NEW q \in Receiver PROVE Phase(q)'
  <2>1. CASE q = r
    BY <1>1, <1>2, <2>1 DEF RecvInv, Phase, Sized
  <2>2. CASE q # r
    BY <1>1, <1>2, <2>2, PhaseUnchanged DEF RecvInv
  <2> QED
    BY <2>1, <2>2
<1>5. NoDescriptorLeak' /\ SoleOwner'
  BY <1>1, LeakUnchanged
<1> QED
  BY <1>1, <1>3, <1>4, <1>5 DEF RecvInv, BudgetSuffices

LEMMA RetryPreserves ==
    ASSUME NEW B, NEW R, RecvInv(B, R), NEW r \in Receiver, RecvRetry(r)
    PROVE  RecvInv(B, R)'
<1> DEFINE size == ControlSize(mode[r].n, nofile)
<1>1. /\ rpc[r] = "waiting" /\ rpc' = [rpc EXCEPT ![r] = "recvmsg"]
      /\ control' = [control EXCEPT ![r] = size]
      /\ UNCHANGED <<mode, buf, msg, result, fdtable, held, unseen, pidfds>>
      /\ UNCHANGED <<passcred, passpidfd, nofile>>
  BY DEF RecvRetry, optVars
<1>2. rpc \in [Receiver -> {"idle", "recvmsg", "waiting", "parse", "core"}]
      /\ control \in [Receiver -> Nat] /\ nofile \in Nofile /\ nofile \in Limit
  BY RecvTypes, ConstantsTyped DEF RecvInv
<1>3. PICK limit \in Nofile : ControlSize(mode[r].n, limit) # NoSpace
  BY <1>1 DEF RecvInv, Phase, Sized
<1>4. mode[r] \in Mode /\ mode[r].n \in Nat /\ limit \in Limit
  BY <1>1, ConstantsTyped DEF RecvInv, Phase
<1>5. size # NoSpace
  BY <1>2, <1>3, <1>4, SizeAnyLimit
<1>6. size \in Nat
  BY <1>2, <1>4, <1>5, AdditionNeverOverflows, BudgetAssumption
<1>7. RecvTypeOK(B, R)'
  <2> HIDE DEF size
  <2> QED
    BY <1>1, <1>2, <1>6 DEF RecvInv, RecvTypeOK
<1>8. ASSUME NEW q \in Receiver PROVE Phase(q)'
  <2>1. CASE q = r
    <3>1. Sized(r)'
      <4>1. control'[r] = size /\ mode'[r] = mode[r]
        BY <1>1, <1>2
      <4> QED
        BY <1>2, <1>5, <4>1 DEF Sized
    <3> QED
      BY <1>1, <1>2, <2>1, <3>1 DEF RecvInv, Phase
  <2>2. CASE q # r
    BY <1>1, <1>2, <2>2, PhaseUnchanged DEF RecvInv
  <2> QED
    BY <2>1, <2>2
<1>9. NoDescriptorLeak' /\ SoleOwner'
  BY <1>1, LeakUnchanged
<1> QED
  BY <1>1, <1>7, <1>8, <1>9 DEF RecvInv, BudgetSuffices

LEMMA CancelPreserves ==
    ASSUME NEW B, NEW R, RecvInv(B, R), NEW r \in Receiver, RecvCancel(r)
    PROVE  RecvInv(B, R)'
<1>1. /\ rpc[r] = "waiting" /\ rpc' = [rpc EXCEPT ![r] = "idle"]
      /\ mode' = [mode EXCEPT ![r] = NoMode]
      /\ buf' = [buf EXCEPT ![r] = 0] /\ control' = [control EXCEPT ![r] = 0]
      /\ msg' = [msg EXCEPT ![r] = NoMsg]
      /\ UNCHANGED <<result, fdtable, held, unseen, pidfds, passcred, passpidfd, nofile>>
  BY DEF RecvCancel, Forget, optVars
<1>2. /\ rpc \in [Receiver -> {"idle", "recvmsg", "waiting", "parse", "core"}]
      /\ mode \in [Receiver -> Mode \cup {NoMode}]
      /\ buf \in [Receiver -> 0 .. BufLen] /\ control \in [Receiver -> Nat]
      /\ msg \in [Receiver -> Received(B, R)]
  BY RecvTypes DEF RecvInv
<1>3. msg' = msg /\ msg[r] = NoMsg
  <2>1. msg[r] = NoMsg
    BY <1>1 DEF RecvInv, Phase
  <2> QED
    BY <1>1, <1>2, <2>1
<1>4. RecvTypeOK(B, R)'
  <2>1. /\ rpc' \in [Receiver -> {"idle", "recvmsg", "waiting", "parse", "core"}]
        /\ mode' \in [Receiver -> Mode \cup {NoMode}]
        /\ buf' \in [Receiver -> 0 .. BufLen] /\ control' \in [Receiver -> Nat]
    BY <1>1, <1>2, ConstantsTyped
  <2> QED
    BY <1>1, <1>3, <2>1 DEF RecvInv, RecvTypeOK
<1>5. BudgetSuffices'
  <2>1. \A q \in Receiver : q # r => mode'[q] = mode[q]
    BY <1>1, <1>2
  <2> QED
    BY <1>3, <2>1, NoMsgFacts DEF RecvInv, BudgetSuffices
<1>6. ASSUME NEW q \in Receiver PROVE Phase(q)'
  <2>1. CASE q = r
    BY <1>1, <1>2, <1>3, <2>1 DEF Phase
  <2>2. CASE q # r
    BY <1>1, <1>2, <1>3, <2>2, PhaseUnchanged DEF RecvInv
  <2> QED
    BY <2>1, <2>2
<1>7. UNCHANGED <<fdtable, held, unseen, pidfds, msg, passcred, passpidfd>>
  BY <1>1, <1>3
<1>8. NoDescriptorLeak' /\ SoleOwner'
  BY <1>1, <1>7, LeakUnchanged
<1>9. IsFiniteSet(fdtable)' /\ IsFiniteSet(pidfds)' /\ (passcred \/ passpidfd => Linux)'
  BY <1>7 DEF RecvInv
<1> QED
  BY <1>4, <1>5, <1>6, <1>8, <1>9 DEF RecvInv

LEMMA ClosePreserves ==
    ASSUME NEW B, NEW R, RecvInv(B, R), NEW f \in held, CloseHeld(f)
    PROVE  RecvInv(B, R)'
<1>1. /\ held' = held \ {f} /\ fdtable' = fdtable \ {f}
      /\ UNCHANGED <<rpc, mode, buf, control, msg, result, unseen, pidfds>>
      /\ UNCHANGED <<passcred, passpidfd, nofile>>
  BY DEF CloseHeld, callVars, optVars
<1>2. IsFiniteSet(fdtable') /\ Cardinality(fdtable') + Cardinality(pidfds') <= TableSize
  <2>1. /\ IsFiniteSet(fdtable) /\ IsFiniteSet(pidfds) /\ pidfds' = pidfds
        /\ Cardinality(fdtable) + Cardinality(pidfds) <= TableSize
    BY <1>1 DEF RecvInv, RecvTypeOK
  <2>2. IsFiniteSet(fdtable') /\ Cardinality(fdtable') <= Cardinality(fdtable)
    BY <1>1, <2>1, FS_Subset
  <2>3. /\ Cardinality(fdtable) \in Nat /\ Cardinality(fdtable') \in Nat
        /\ Cardinality(pidfds) \in Nat
    BY <2>1, <2>2, FS_CardinalityType
  <2> QED
    BY <2>1, <2>2, <2>3, ConstantsTyped
<1>2a. f \notin unseen
  BY DEF RecvInv, NoDescriptorLeak
<1>3. RecvTypeOK(B, R)'
  BY <1>1, <1>2, <1>2a DEF RecvInv, RecvTypeOK
<1>4. NoDescriptorLeak' /\ SoleOwner'
  <2>1. \A q \in Receiver : f \notin ToSet(msg[q].fds)
    BY DEF RecvInv, SoleOwner
  <2>2. f \notin UNION {ToSet(msg[q].fds) : q \in Receiver}
    BY <2>1
  <2> QED
    BY <1>1, <1>2a, <2>1, <2>2 DEF RecvInv, NoDescriptorLeak, SoleOwner
<1>5. \A q \in Receiver : Phase(q)'
  BY <1>1, PhaseUnchanged DEF RecvInv
<1> QED
  BY <1>1, <1>2, <1>3, <1>4, <1>5 DEF RecvInv, BudgetSuffices

LEMMA UnchangedPreserves ==
    ASSUME NEW B, NEW R, RecvInv(B, R), UNCHANGED recvVars
    PROVE  RecvInv(B, R)'
<1>1. /\ UNCHANGED <<rpc, mode, buf, control, msg, result, fdtable, held, unseen, pidfds>>
      /\ UNCHANGED <<passcred, passpidfd, nofile>>
  BY DEF recvVars, callVars, optVars
<1>2. \A q \in Receiver : Phase(q)'
  BY <1>1, PhaseUnchanged DEF RecvInv
<1>3. RecvTypeOK(B, R)'
  BY <1>1 DEF RecvInv, RecvTypeOK
<1>4. NoDescriptorLeak' /\ SoleOwner' /\ BudgetSuffices'
  BY <1>1 DEF RecvInv, NoDescriptorLeak, SoleOwner, BudgetSuffices
<1> QED
  BY <1>1, <1>2, <1>3, <1>4 DEF RecvInv

\* take_fds: what the call owns is unchanged, and its pidfd is closed.
LEMMA TakeFdsPreserves ==
    ASSUME NEW B, NEW R, RecvInv(B, R), NEW r \in Receiver, take_fds(r)
    PROVE  RecvInv(B, R)'
<1>1. /\ rpc[r] = "parse" /\ rpc' = [rpc EXCEPT ![r] = "core"] /\ pidfds' = pidfds \ {r}
      /\ UNCHANGED <<mode, buf, control, msg, result, fdtable, held, unseen>>
      /\ UNCHANGED <<passcred, passpidfd, nofile>>
  BY DEF take_fds, optVars
<1>2. /\ rpc \in [Receiver -> {"idle", "recvmsg", "waiting", "parse", "core"}]
      /\ pidfds \subseteq Receiver
      /\ Cardinality(fdtable) + Cardinality(pidfds) <= TableSize
  BY RecvTypes DEF RecvInv
<1>3. IsFiniteSet(pidfds') /\ Cardinality(fdtable') + Cardinality(pidfds') <= TableSize
  <2>1. IsFiniteSet(fdtable) /\ IsFiniteSet(pidfds)
    BY DEF RecvInv
  <2>2. IsFiniteSet(pidfds') /\ Cardinality(pidfds') <= Cardinality(pidfds)
    BY <1>1, <2>1, FS_Subset
  <2>3. /\ Cardinality(fdtable) \in Nat /\ Cardinality(pidfds') \in Nat
        /\ Cardinality(pidfds) \in Nat
    BY <2>1, <2>2, FS_CardinalityType
  <2> QED
    BY <1>1, <1>2, <2>2, <2>3, ConstantsTyped
<1>4. RecvTypeOK(B, R)'
  <2>1. rpc' \in [Receiver -> {"idle", "recvmsg", "waiting", "parse", "core"}]
        /\ pidfds' \subseteq Receiver
    BY <1>1, <1>2
  <2> QED
    BY <1>1, <1>3, <2>1 DEF RecvInv, RecvTypeOK
<1>5. NoDescriptorLeak' /\ SoleOwner'
  <2>1. \A q \in pidfds' : rpc'[q] = "parse"
    BY <1>1, <1>2 DEF RecvInv, NoDescriptorLeak
  <2> QED
    BY <1>1, <2>1 DEF RecvInv, NoDescriptorLeak, SoleOwner
<1>6. ASSUME NEW q \in Receiver PROVE Phase(q)'
  <2>1. CASE q = r
    <3>1. /\ rpc'[r] = "core" /\ msg' = msg /\ mode' = mode /\ buf' = buf
          /\ result' = result
      BY <1>1, <1>2
    <3> QED
      BY <1>1, <2>1, <3>1 DEF RecvInv, Phase, Installed
  <2>2. CASE q # r
    BY <1>1, <1>2, <2>2, PhaseUnchanged DEF RecvInv
  <2> QED
    BY <2>1, <2>2
<1> QED
  BY <1>1, <1>3, <1>4, <1>5, <1>6 DEF RecvInv, BudgetSuffices

\* SO_PASSCRED, SO_PASSPIDFD and RLIMIT_NOFILE may change at any moment.
LEMMA OptionsPreserve ==
    ASSUME NEW B, NEW R, RecvInv(B, R),
           \/ \E on \in BOOLEAN : set_passcred(on) \/ SetPasspidfd(on)
           \/ \E limit \in Nofile : setrlimit(limit)
    PROVE  RecvInv(B, R)'
<1>1. /\ UNCHANGED <<rpc, mode, buf, control, msg, result, fdtable, held, unseen, pidfds>>
      /\ passcred' \in BOOLEAN /\ passpidfd' \in BOOLEAN /\ nofile' \in Nofile
      /\ passcred' \/ passpidfd' => Linux
  BY DEF RecvInv, RecvTypeOK, set_passcred, SetPasspidfd, setrlimit, callVars
<1>2. \A q \in Receiver : Phase(q)'
  BY <1>1, PhaseUnchanged DEF RecvInv
<1>3. RecvTypeOK(B, R)'
  BY <1>1 DEF RecvInv, RecvTypeOK
<1>4. NoDescriptorLeak' /\ SoleOwner' /\ BudgetSuffices'
  BY <1>1 DEF RecvInv, NoDescriptorLeak, SoleOwner, BudgetSuffices
<1> QED
  BY <1>1, <1>2, <1>3, <1>4 DEF RecvInv

\* A closed descriptor stays closed: no step but a delivery opens one.
LEMMA ReturnOpensNothing ==
    ASSUME NEW B, NEW R, RecvInv(B, R), NEW r \in Receiver, NEW ok, NEW fds, NEW surplus,
           ToSet(fds) \subseteq ToSet(msg[r].fds), RecvReturn(r, ok, fds, surplus)
    PROVE  fdtable' \subseteq fdtable
<1>1. ToSet(msg[r].fds) \subseteq fdtable
  BY DEF RecvInv, NoDescriptorLeak
<1> QED
  BY <1>1 DEF RecvReturn

LEMMA LocalPreserves ==
    ASSUME NEW B, NEW R, RecvInv(B, R), ReceiveLocal
    PROVE  RecvInv(B, R)' /\ fdtable' \subseteq fdtable
<1>1. ToSet(<<>>) = {}
  BY DEF ToSet
<1>2. ASSUME NEW r \in Receiver, rpc[r] # "parse", RecvReturn(r, FALSE, <<>>, 0)
      PROVE  RecvInv(B, R)' /\ fdtable' \subseteq fdtable
  BY <1>1, <1>2, ErrorPreserves, ReturnOpensNothing
<1>3. ASSUME NEW r \in Receiver, RecvRetry(r) \/ RecvCancel(r)
      PROVE  RecvInv(B, R)' /\ fdtable' \subseteq fdtable
  BY <1>3, RetryPreserves, CancelPreserves DEF RecvRetry, RecvCancel
<1>4. ASSUME NEW r \in Receiver, CloexecFails(r)
      PROVE  RecvInv(B, R)' /\ fdtable' \subseteq fdtable
  BY <1>2, <1>4 DEF CloexecFails
<1>5. ASSUME NEW r \in Receiver, recv_core(r)
      PROVE  RecvInv(B, R)' /\ fdtable' \subseteq fdtable
  <2>1. CASE \E k \in 0 .. Len(msg[r].rights) :
               /\ RecvReturn(r, TRUE, SubSeq(msg[r].rights, 1, k), Len(msg[r].rights) - k)
               /\ msg[r].fds = msg[r].rights
    <3>1. msg[r].rights \in Seq(R) /\ Len(msg[r].rights) \in Nat
      BY RecvTypes, LenProperties DEF RecvInv, Received
    <3>2. \A k \in 0 .. Len(msg[r].rights) :
            ToSet(SubSeq(msg[r].rights, 1, k)) \subseteq ToSet(msg[r].rights)
      BY <3>1, PrefixFacts
    <3> QED
      BY <1>5, <2>1, <3>2, CorePreserves, ReturnOpensNothing
  <2>2. rpc[r] # "parse"
    BY <1>5 DEF recv_core
  <2> QED
    BY <1>2, <1>5, <2>1, <2>2, CoreReturns
<1>6. ASSUME NEW f \in held, CloseHeld(f)
      PROVE  RecvInv(B, R)' /\ fdtable' \subseteq fdtable
  BY <1>6, ClosePreserves DEF CloseHeld
<1>7. CASE \/ \E on \in BOOLEAN : set_passcred(on) \/ SetPasspidfd(on)
           \/ \E limit \in Nofile : setrlimit(limit)
  BY <1>7, OptionsPreserve DEF set_passcred, SetPasspidfd, setrlimit
<1>8. ASSUME NEW r \in Receiver, take_fds(r)
      PROVE  RecvInv(B, R)' /\ fdtable' \subseteq fdtable
  BY <1>8, TakeFdsPreserves DEF take_fds
<1> QED
  BY <1>3, <1>4, <1>5, <1>6, <1>7, <1>8 DEF ReceiveLocal

=============================================================================
