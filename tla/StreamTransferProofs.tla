------------------------ MODULE StreamTransferProofs ------------------------
(***************************************************************************)
(* Descriptors on a stream, for any number of senders and receivers, any   *)
(* frames, buffers and descriptor tables, on platforms with and without    *)
(* MSG_CMSG_CLOEXEC and MSG_NOSIGNAL, and for the blocking and the tokio   *)
(* form of the API.                                                        *)
(***************************************************************************)
EXTENDS StreamTransfer, ReceiveProofs

-----------------------------------------------------------------------------
(* Flattening a sequence of sequences.                                     *)

\* Every non-empty set of natural numbers has a least element: the form in
\* which the proofs of this module use induction.
LEMMA LeastElement ==
    ASSUME NEW T \in SUBSET Nat, T # {}
    PROVE  \E x \in T : \A y \in T : x <= y
<1> DEFINE R == {p \in Nat \X Nat : p[1] < p[2]}
<1>1. IsWellFoundedOn(R, Nat)
  BY NatLessThanWellFounded DEF OpToRel
<1>2. \A x, y \in Nat : y < x => <<y, x>> \in R
  OBVIOUS
<1> HIDE DEF R
<1>3. PICK x \in T : \A y \in T : ~ (<<y, x>> \in R)
  BY <1>1, WFMin
<1>4. ASSUME NEW y \in T PROVE x <= y
  <2>1. x \in Nat /\ y \in Nat /\ <<y, x>> \notin R
    BY <1>3
  <2>2. ~(y < x)
    BY <1>2, <2>1
  <2> QED
    BY <2>1, <2>2
<1> QED
  BY <1>4

\* f flattens the first m elements of s.
Flattens(s, m, f) ==
    f = [i \in 1 .. m |-> IF i = 1 THEN s[i] ELSE f[i - 1] \o s[i]]

LEMMA FlattensExtends ==
    ASSUME NEW s, NEW m \in Nat, NEW f, Flattens(s, m, f)
    PROVE  \E g : Flattens(s, m + 1, g)
<1> DEFINE g == [i \in 1 .. m + 1 |->
                   IF i \in 1 .. m THEN f[i] ELSE IF i = 1 THEN s[i] ELSE f[i - 1] \o s[i]]
<1>1. \A i \in 1 .. m : f[i] = IF i = 1 THEN s[i] ELSE f[i - 1] \o s[i]
  BY DEF Flattens
<1>2. \A i \in 1 .. m : g[i] = f[i]
  OBVIOUS
<1>3. \A i \in 1 .. m + 1 : i # 1 => i - 1 \in 1 .. m
  OBVIOUS
<1>4. \A i \in 1 .. m + 1 : g[i] = IF i = 1 THEN s[i] ELSE g[i - 1] \o s[i]
  <2> SUFFICES ASSUME NEW i \in 1 .. m + 1
               PROVE  g[i] = IF i = 1 THEN s[i] ELSE g[i - 1] \o s[i]
    OBVIOUS
  <2>1. CASE i \in 1 .. m
    <3>1. g[i] = f[i]
      BY <1>2, <2>1
    <3>2. i # 1 => g[i - 1] = f[i - 1]
      BY <1>2, <1>3
    <3> HIDE DEF g
    <3> QED
      BY <1>1, <2>1, <3>1, <3>2
  <2>2. CASE i \notin 1 .. m
    <3>1. g[i] = IF i = 1 THEN s[i] ELSE f[i - 1] \o s[i]
      BY <2>2
    <3>2. i # 1 => g[i - 1] = f[i - 1]
      BY <1>2, <1>3
    <3> HIDE DEF g
    <3> QED
      BY <3>1, <3>2
  <2> QED
    BY <2>1, <2>2
<1>5. g = [i \in 1 .. m + 1 |-> g[i]]
  OBVIOUS
<1> HIDE DEF g
<1>6. [i \in 1 .. m + 1 |-> g[i]]
        = [i \in 1 .. m + 1 |-> IF i = 1 THEN s[i] ELSE g[i - 1] \o s[i]]
  BY <1>4
<1> QED
  BY <1>5, <1>6 DEF Flattens

LEMMA FlattensExists ==
    ASSUME NEW s, NEW n \in Nat
    PROVE  \E f : Flattens(s, n, f)
<1> DEFINE T == {m \in Nat : ~ \E f : Flattens(s, m, f)}
<1>1. SUFFICES ASSUME T # {} PROVE FALSE
  OBVIOUS
<1>2. PICK m \in T : \A y \in T : m <= y
  BY <1>1, LeastElement
<1>3. m # 0
  <2>1. \E f : Flattens(s, 0, f)
    <3> DEFINE f == [i \in 1 .. 0 |-> s[i]]
    <3>1. Flattens(s, 0, f)
      BY DEF Flattens
    <3> QED
      BY <3>1
  <2> QED
    BY <2>1
<1>4. m - 1 \in Nat /\ ~(m <= m - 1)
  BY <1>3
<1>5. PICK f : Flattens(s, m - 1, f)
  BY <1>2, <1>4
<1>6. \E g : Flattens(s, m - 1 + 1, g)
  BY <1>4, <1>5, FlattensExtends
<1>7. m - 1 + 1 = m
  OBVIOUS
<1> QED
  BY <1>6, <1>7

\* The elements of a concatenation.
LEMMA ConcatElements ==
    ASSUME NEW S, NEW s \in Seq(S), NEW t \in Seq(S)
    PROVE  s \o t \in Seq(S) /\ ToSet(s \o t) \subseteq ToSet(s) \cup ToSet(t)
<1>1. /\ s \o t \in Seq(S) /\ Len(s \o t) = Len(s) + Len(t)
      /\ \A i \in 1 .. Len(s) + Len(t) :
           (s \o t)[i] = IF i <= Len(s) THEN s[i] ELSE t[i - Len(s)]
  BY ConcatProperties
<1>2. /\ DOMAIN (s \o t) = 1 .. Len(s) + Len(t)
      /\ DOMAIN s = 1 .. Len(s) /\ DOMAIN t = 1 .. Len(t)
      /\ Len(s) \in Nat /\ Len(t) \in Nat
  BY <1>1, LenProperties
<1>3. \A i \in 1 .. Len(s) + Len(t) :
        IF i <= Len(s) THEN i \in 1 .. Len(s) ELSE i - Len(s) \in 1 .. Len(t)
  BY <1>2
<1>4. ASSUME NEW i \in 1 .. Len(s) + Len(t)
      PROVE  (s \o t)[i] \in ToSet(s) \cup ToSet(t)
  BY <1>1, <1>2, <1>3 DEF ToSet
<1>5. ToSet(s \o t) \subseteq ToSet(s) \cup ToSet(t)
  BY <1>2, <1>4 DEF ToSet
<1> QED
  BY <1>1, <1>5

\* What a flattened sequence consists of.
LEMMA FlattenFacts ==
    ASSUME NEW S, NEW s \in Seq(Seq(S))
    PROVE  /\ FlattenSeq(s) \in Seq(S)
           /\ ToSet(FlattenSeq(s)) \subseteq UNION {ToSet(s[i]) : i \in DOMAIN s}
<1> DEFINE n == Len(s)
           U == UNION {ToSet(s[i]) : i \in DOMAIN s}
<1>1. n \in Nat /\ DOMAIN s = 1 .. n /\ \A i \in 1 .. n : s[i] \in Seq(S)
  BY LenProperties, ElementOfSeq
<1>2. \A i \in 1 .. n : ToSet(s[i]) \subseteq U
  BY <1>1
<1>3. CASE n = 0
  <2>1. FlattenSeq(s) = s
    BY <1>3 DEF FlattenSeq
  <2>2. s = <<>>
    BY <1>3, EmptySeq
  <2>3. <<>> \in Seq(S) /\ ToSet(<<>>) = {}
    BY DEF ToSet
  <2> QED
    BY <2>1, <2>2, <2>3
<1>4. CASE n # 0
  <2> DEFINE f == CHOOSE g : Flattens(s, n, g)
  <2>1. FlattenSeq(s) = f[n]
    BY <1>4 DEF FlattenSeq, Flattens
  <2>2. Flattens(s, n, f)
    BY <1>1, FlattensExists
  <2> HIDE DEF f, n, U
  <2>3. \A i \in 1 .. n : f[i] = IF i = 1 THEN s[i] ELSE f[i - 1] \o s[i]
    BY <2>2 DEF Flattens
  <2> DEFINE T == {i \in 1 .. n : ~(f[i] \in Seq(S) /\ ToSet(f[i]) \subseteq U)}
  <2>4. T = {}
    <3>1. SUFFICES ASSUME T # {} PROVE FALSE
      OBVIOUS
    <3>2. T \in SUBSET Nat
      BY <1>1
    <3>3. PICK i \in T : \A y \in T : i <= y
      <4> HIDE DEF T
      <4> QED
        BY <3>1, <3>2, LeastElement
    <3>4. i \in 1 .. n /\ s[i] \in Seq(S) /\ ToSet(s[i]) \subseteq U
      BY <1>1, <1>2
    <3>5. CASE i = 1
      BY <2>3, <3>4, <3>5
    <3>6. CASE i # 1
      <4>1. i - 1 \in 1 .. n /\ ~(i <= i - 1)
        BY <1>1, <3>4, <3>6
      <4>2. f[i - 1] \in Seq(S) /\ ToSet(f[i - 1]) \subseteq U
        BY <3>3, <4>1
      <4>3. f[i] = f[i - 1] \o s[i]
        BY <2>3, <3>4, <3>6
      <4>4. f[i] \in Seq(S) /\ ToSet(f[i]) \subseteq U
        BY <3>4, <4>2, <4>3, ConcatElements
      <4> QED
        BY <4>4
    <3> QED
      BY <3>5, <3>6
  <2>5. n \in 1 .. n
    BY <1>1, <1>4 DEF n
  <2>6. f[n] \in Seq(S) /\ ToSet(f[n]) \subseteq U
    BY <2>4, <2>5
  <2> QED
    BY <2>1, <2>6 DEF U
<1> QED
  BY <1>3, <1>4

-----------------------------------------------------------------------------
(* The inductive invariant.                                                *)

\* How far the call of s has come.  A frame that is being sent, or was sent, has
\* a byte for its descriptors to ride on.
Called(s) ==
    /\ spc[s] = "idle" => sent[s] = 0
    /\ spc[s] \in Sending \cup {"ok"} => validate_stream_send(frame[s])
    /\ spc[s] = "ok" /\ frame[s].all => sent[s] = frame[s].len
    /\ error[s] = "InvalidInput" => spc[s] = "err" /\ sent[s] = 0

\* Every sendmsg is protected against SIGPIPE where something can: prepare_send
\* comes before it, and SO_NOSIGPIPE is never switched off.
Suppressed ==
    \A s \in Sender :
        spc[s] = "sendmsg" /\ Suppression = "SO_NOSIGPIPE" => nosigpipe

\* RightsRideOnce for one task.
Rides(s) ==
    /\ {Entered[i].at : i \in Places(s)} = 1 .. sent[s]
    /\ \A i, j \in Places(s) : i < j => Entered[i].at < Entered[j].at
    /\ \A i \in Places(s) :
         Entered[i].rights = IF Entered[i].at = 1 THEN Descriptors(s) ELSE <<>>

\* A descriptor is open in the receiving process only after the byte it rode on
\* left the stream.
FreshRights ==
    \A f \in fdtable :
        /\ sent[f[1]] >= 1
        /\ \A i \in DOMAIN stream : ~(stream[i].src = f[1] /\ stream[i].at = 1)

\* What a receive holds are the rights of the bytes it consumed.
Taken(r) == rpc[r] \in {"parse", "core"} => msg[r].rights = Rights(msg[r].bytes)

\* The order of the bytes of each task makes the rights riding on the first of
\* them new to the receiving process, so that every descriptor has one owner
\* there.
IInv ==
    /\ TypeOK
    /\ RecvInv(Byte, Right)
    /\ NoSigpipe /\ Suppressed
    /\ \A s \in Sender : Called(s) /\ Rides(s)
    /\ FreshRights
    /\ \A r \in Receiver : Taken(r)
    /\ ReceiptAccounted

-----------------------------------------------------------------------------
(* Bytes and the rights on them.                                           *)

LEMMA RightsFacts ==
    ASSUME NEW bytes \in Seq(Byte)
    PROVE  /\ Rights(bytes) \in Seq(Right)
           /\ \A f \in ToSet(Rights(bytes)) :
                \E i \in DOMAIN bytes : f \in ToSet(bytes[i].rights)
<1> DEFINE s == [i \in DOMAIN bytes |-> bytes[i].rights]
<1>1. DOMAIN bytes = 1 .. Len(bytes) /\ Len(bytes) \in Nat
      /\ \A i \in 1 .. Len(bytes) : bytes[i].rights \in Seq(Right)
  <2>1. \A i \in 1 .. Len(bytes) : bytes[i] \in Byte
    BY ElementOfSeq
  <2> QED
    BY <2>1, LenProperties DEF Byte
<1>2. s \in Seq(Seq(Right))
  BY <1>1
<1>3. DOMAIN s = DOMAIN bytes /\ \A i \in DOMAIN bytes : s[i] = bytes[i].rights
  OBVIOUS
<1>4. Rights(bytes) = FlattenSeq(s)
  BY DEF Rights
<1> HIDE DEF s
<1>5. /\ Rights(bytes) \in Seq(Right)
      /\ ToSet(Rights(bytes)) \subseteq UNION {ToSet(s[i]) : i \in DOMAIN s}
  BY <1>2, <1>4, FlattenFacts
<1> QED
  BY <1>3, <1>5

LEMMA NoRights == Rights(<<>>) = <<>>
BY DEF Rights, FlattenSeq

LEMMA DescriptorsFacts ==
    ASSUME TypeOK, NEW s \in Sender
    PROVE  /\ frame[s].len \in Nat /\ frame[s].fds \in Nat
           /\ Descriptors(s) \in Seq(Right)
           /\ DOMAIN Descriptors(s) = 1 .. frame[s].fds
           /\ \A f \in ToSet(Descriptors(s)) : f[1] = s
<1>1. frame[s].len \in Nat /\ frame[s].fds \in Nat
  <2>1. frame[s] \in Frame \cup {NoFrame}
    BY DEF TypeOK
  <2> QED
    BY <2>1, StreamAssumption DEF NoFrame
<1>2. \A i \in 1 .. frame[s].fds : <<s, i>> \in Right
  BY <1>1 DEF Right
<1>3. Descriptors(s) \in Seq(Right) /\ DOMAIN Descriptors(s) = 1 .. frame[s].fds
      /\ \A i \in 1 .. frame[s].fds : Descriptors(s)[i] = <<s, i>>
  BY <1>1, <1>2 DEF Descriptors
<1>4. \A f \in ToSet(Descriptors(s)) : f[1] = s
  <2> SUFFICES ASSUME NEW f \in ToSet(Descriptors(s)) PROVE f[1] = s
    OBVIOUS
  <2>1. PICK i \in 1 .. frame[s].fds : f = <<s, i>>
    BY <1>3 DEF ToSet
  <2> QED
    BY <2>1
<1> QED
  BY <1>1, <1>3, <1>4

LEMMA PayloadFacts ==
    ASSUME TypeOK, NEW s \in Sender, NEW k \in Nat
    PROVE  /\ Payload(s, k) \in Seq(Byte) /\ Len(Payload(s, k)) = k
           /\ \A j \in 1 .. k :
                /\ Payload(s, k)[j].src = s /\ Payload(s, k)[j].at = sent[s] + j
                /\ Payload(s, k)[j].rights = IF j = 1 THEN Attached(s) ELSE <<>>
<1>1. sent[s] \in Nat
  BY DEF TypeOK
<1>2. Descriptors(s) \in Seq(Right) /\ <<>> \in Seq(Right)
  BY DescriptorsFacts
<1>3. Attached(s) \in Seq(Right)
  BY <1>2 DEF Attached
<1> DEFINE b(j) == [src |-> s, at |-> sent[s] + j,
                    rights |-> IF j = 1 THEN Attached(s) ELSE <<>>]
<1>4. \A j \in 1 .. k : b(j) \in Byte
  BY <1>1, <1>2, <1>3 DEF Byte
<1>5. Payload(s, k) = [j \in 1 .. k |-> b(j)]
  BY DEF Payload
<1>6. \A j \in 1 .. k : b(j).src = s /\ b(j).at = sent[s] + j
                        /\ b(j).rights = IF j = 1 THEN Attached(s) ELSE <<>>
  OBVIOUS
<1> HIDE DEF b
<1>7. [j \in 1 .. k |-> b(j)] \in Seq(Byte) /\ Len([j \in 1 .. k |-> b(j)]) = k
  BY <1>4
<1> QED
  BY <1>5, <1>6, <1>7

LEMMA EnteredFacts ==
    ASSUME TypeOK
    PROVE  /\ Len(drained) \in Nat /\ Len(stream) \in Nat
           /\ DOMAIN stream = 1 .. Len(stream)
           /\ Entered \in Seq(Byte)
           /\ Len(Entered) = Len(drained) + Len(stream)
           /\ DOMAIN Entered = 1 .. Len(drained) + Len(stream)
           /\ \A i \in DOMAIN Entered : Entered[i] \in Byte
           /\ \A i \in 1 .. Len(stream) : /\ Len(drained) + i \in DOMAIN Entered
                                          /\ Entered[Len(drained) + i] = stream[i]
<1>1. drained \in Seq(Byte) /\ stream \in Seq(Byte)
  BY DEF TypeOK
<1>2. /\ Entered \in Seq(Byte)
      /\ Len(Entered) = Len(drained) + Len(stream)
      /\ \A i \in 1 .. Len(drained) + Len(stream) :
           Entered[i] = IF i <= Len(drained) THEN drained[i] ELSE stream[i - Len(drained)]
  BY <1>1, ConcatProperties DEF Entered
<1>3. /\ Len(drained) \in Nat /\ Len(stream) \in Nat
      /\ DOMAIN stream = 1 .. Len(stream)
      /\ DOMAIN Entered = 1 .. Len(Entered)
  BY <1>1, <1>2, LenProperties
<1>4. \A i \in DOMAIN Entered : Entered[i] \in Byte
  BY <1>2, <1>3, ElementOfSeq
<1>5. ASSUME NEW i \in 1 .. Len(stream)
      PROVE  Len(drained) + i \in DOMAIN Entered /\ Entered[Len(drained) + i] = stream[i]
  <2>1. /\ Len(drained) + i \in 1 .. Len(drained) + Len(stream)
        /\ ~(Len(drained) + i <= Len(drained)) /\ Len(drained) + i - Len(drained) = i
    BY <1>3
  <2> QED
    BY <1>2, <1>3, <2>1
<1> QED
  BY <1>2, <1>3, <1>4, <1>5

\* What the bytes in flight carry.
LEMMA StreamRides ==
    ASSUME IInv, NEW i \in DOMAIN stream
    PROVE  /\ stream[i].src \in Sender
           /\ stream[i].at \in 1 .. sent[stream[i].src]
           /\ stream[i].rights = IF stream[i].at = 1 THEN Descriptors(stream[i].src) ELSE <<>>
           /\ \A j \in DOMAIN stream :
                i < j /\ stream[j].src = stream[i].src => stream[i].at < stream[j].at
<1> DEFINE d == Len(drained)
           s == stream[i].src
<1>1. /\ d \in Nat /\ Len(stream) \in Nat /\ DOMAIN stream = 1 .. Len(stream)
      /\ \A j \in DOMAIN stream : d + j \in DOMAIN Entered /\ Entered[d + j] = stream[j]
  BY EnteredFacts DEF IInv
<1>2. s \in Sender
  <2>1. stream[i] \in Byte
    BY <1>1, ElementOfSeq DEF IInv, TypeOK
  <2> QED
    BY <2>1 DEF Byte
<1>3. Rides(s)
  BY <1>2 DEF IInv
<1>4. d + i \in Places(s)
  BY <1>1 DEF Places
<1>5. \A j \in DOMAIN stream : stream[j].src = s => d + j \in Places(s)
  BY <1>1 DEF Places
<1>6. \A j \in DOMAIN stream : i < j => d + i < d + j
  BY <1>1
<1> HIDE DEF d, s
<1>7. stream[i].at \in 1 .. sent[s]
  BY <1>1, <1>3, <1>4 DEF Rides
<1>8. stream[i].rights = IF stream[i].at = 1 THEN Descriptors(s) ELSE <<>>
  BY <1>1, <1>3, <1>4 DEF Rides
<1>9. \A j \in DOMAIN stream : i < j /\ stream[j].src = s => stream[i].at < stream[j].at
  BY <1>1, <1>3, <1>4, <1>5, <1>6 DEF Rides
<1> QED
  BY <1>2, <1>7, <1>8, <1>9 DEF s

\* The parts say what RightsRideOnce and OkIsComplete say.
LEMMA PartsSuffice ==
    ASSUME IInv
    PROVE  RightsRideOnce /\ OkIsComplete
<1>1. RightsRideOnce
  BY DEF IInv, RightsRideOnce, Rides
<1>2. ASSUME NEW s \in Sender, spc[s] = "ok", frame[s].all,
             NEW d \in ToSet(Descriptors(s))
      PROVE  \E i \in Places(s) : d \in ToSet(Entered[i].rights)
  <2>1. TypeOK /\ Called(s) /\ Rides(s)
    BY DEF IInv
  <2>2. frame[s].len \in Nat /\ frame[s].fds \in Nat
        /\ DOMAIN Descriptors(s) = 1 .. frame[s].fds
    BY <2>1, DescriptorsFacts
  <2>3. frame[s].fds # 0
    BY <2>2 DEF ToSet
  <2>4. 1 \in 1 .. sent[s]
    BY <1>2, <2>1, <2>2, <2>3 DEF Called, validate_stream_send
  <2>5. PICK i \in Places(s) : Entered[i].at = 1
    BY <2>1, <2>4 DEF Rides
  <2>6. Entered[i].rights = Descriptors(s)
    BY <2>1, <2>5 DEF Rides
  <2> QED
    BY <2>6
<1>3. ASSUME NEW s \in Sender, error[s] = "InvalidInput" PROVE Places(s) = {}
  <2>1. Called(s) /\ Rides(s)
    BY DEF IInv
  <2>2. 1 .. sent[s] = {}
    BY <1>3, <2>1 DEF Called
  <2> QED
    BY <2>1, <2>2 DEF Rides
<1>4. \A s \in Sender : spc[s] = "ok" /\ frame[s].all => sent[s] = frame[s].len
  BY DEF IInv, Called
<1> QED
  BY <1>1, <1>2, <1>3, <1>4 DEF OkIsComplete

-----------------------------------------------------------------------------
(* Sends.                                                                  *)

LEMMA ReceiverUntouched ==
    ASSUME IInv, UNCHANGED recvVars
    PROVE  RecvInv(Byte, Right)' /\ (\A r \in Receiver : Taken(r)') /\ ReceiptAccounted'
<1>1. RecvInv(Byte, Right)'
  BY UnchangedPreserves DEF IInv
<1>2. UNCHANGED <<rpc, msg, result>>
  BY DEF recvVars, callVars
<1> QED
  BY <1>1, <1>2 DEF IInv, Taken, ReceiptAccounted

\* What entered the stream stays as it was described, whatever is called next.
LEMMA RidesUnchanged ==
    ASSUME IInv, NEW t \in Sender, Entered' = Entered, sent'[t] = sent[t],
           frame'[t] = frame[t] \/ sent[t] = 0
    PROVE  Rides(t)'
<1>1. Rides(t)
  BY DEF IInv
<1>2. Places(t)' = Places(t)
  BY DEF Places
<1>3. CASE frame'[t] = frame[t]
  <2>1. Descriptors(t)' = Descriptors(t)
    BY <1>3 DEF Descriptors
  <2> QED
    BY <1>1, <1>2, <2>1 DEF Rides
<1>4. CASE sent[t] = 0
  <2>1. 1 .. sent[t] = {}
    BY <1>4
  <2>2. Places(t) = {}
    BY <1>1, <2>1 DEF Rides
  <2> QED
    BY <1>1, <1>2, <2>2 DEF Rides
<1> QED
  BY <1>3, <1>4

\* A step of a send that passes nothing to the kernel.
LEMMA QuietSend ==
    ASSUME IInv, UNCHANGED <<sent, stream, drained, peer, recvVars>>,
           \A t \in Sender : frame'[t] = frame[t] \/ sent[t] = 0,
           /\ spc' \in [Sender -> {"idle"} \cup Sending \cup Returned]
           /\ frame' \in [Sender -> Frame \cup {NoFrame}]
           /\ \A t \in Sender : sent[t] <= frame'[t].len
           /\ error' \in [Sender -> Errors]
           /\ nosigpipe' \in BOOLEAN /\ killed' \in BOOLEAN,
           NoSigpipe', Suppressed', \A t \in Sender : Called(t)'
    PROVE  IInv'
<1>1. RecvInv(Byte, Right)' /\ (\A r \in Receiver : Taken(r)') /\ ReceiptAccounted'
  BY ReceiverUntouched
<1>2. TypeOK'
  BY <1>1 DEF IInv, TypeOK, RecvInv
<1>3. Entered' = Entered
  BY DEF Entered
<1>4. \A t \in Sender : Rides(t)'
  BY <1>3, RidesUnchanged
<1>5. FreshRights'
  BY DEF IInv, FreshRights, recvVars
<1> QED
  BY <1>1, <1>2, <1>4, <1>5 DEF IInv

LEMMA ReturnFacts ==
    ASSUME TypeOK, NEW s \in Sender, NEW e \in Errors, Return(s, e)
    PROVE  /\ spc' \in [Sender -> {"idle"} \cup Sending \cup Returned]
           /\ spc'[s] = IF e = "none" THEN "ok" ELSE "err"
           /\ error' \in [Sender -> Errors] /\ error'[s] = e
           /\ \A t \in Sender : t # s => spc'[t] = spc[t] /\ error'[t] = error[t]
<1>1. /\ spc \in [Sender -> {"idle"} \cup Sending \cup Returned]
      /\ error \in [Sender -> Errors]
  BY DEF TypeOK
<1>2. {"ok", "err"} \subseteq {"idle"} \cup Sending \cup Returned
  BY DEF Returned
<1> QED
  BY <1>1, <1>2 DEF Return

LEMMA SendTypes ==
    ASSUME IInv
    PROVE  /\ spc \in [Sender -> {"idle"} \cup Sending \cup Returned]
           /\ frame \in [Sender -> Frame \cup {NoFrame}]
           /\ sent \in [Sender -> Nat]
           /\ \A t \in Sender : sent[t] <= frame[t].len
           /\ error \in [Sender -> Errors]
           /\ nosigpipe \in BOOLEAN /\ killed \in BOOLEAN
BY DEF IInv, TypeOK

\* A task that a step leaves alone.
LEMMA CalledUnchanged ==
    ASSUME NEW t \in Sender, Called(t), spc'[t] = spc[t], frame'[t] = frame[t],
           sent'[t] = sent[t], error'[t] = error[t]
    PROVE  Called(t)'
BY DEF Called, validate_stream_send

LEMMA SendCallPreserves ==
    ASSUME IInv, NEW s \in Sender, NEW f \in Frame, SendCall(s, f)
    PROVE  IInv'
<1>1. /\ spc[s] = "idle" /\ frame' = [frame EXCEPT ![s] = f]
      /\ UNCHANGED <<sent, nosigpipe, killed, stream, drained, peer, recvVars>>
  BY DEF SendCall
<1>2. /\ spc \in [Sender -> {"idle"} \cup Sending \cup Returned]
      /\ frame \in [Sender -> Frame \cup {NoFrame}]
      /\ sent \in [Sender -> Nat] /\ error \in [Sender -> Errors]
      /\ \A t \in Sender : sent[t] <= frame[t].len
      /\ nosigpipe \in BOOLEAN /\ killed \in BOOLEAN
  BY SendTypes
<1>3. f.len \in Nat /\ f.fds \in Nat /\ f.all \in BOOLEAN
  BY StreamAssumption
<1>4. Called(s) /\ sent[s] = 0 /\ error[s] # "InvalidInput"
  BY <1>1 DEF IInv, Called
<1>5. /\ frame' \in [Sender -> Frame \cup {NoFrame}] /\ frame'[s] = f
      /\ \A t \in Sender : t # s => frame'[t] = frame[t]
  BY <1>1, <1>2
<1>6. \A t \in Sender : sent[t] <= frame'[t].len /\ (frame'[t] = frame[t] \/ sent[t] = 0)
  BY <1>2, <1>3, <1>4, <1>5
<1>7. \/ /\ ~validate_stream_send(f) /\ Return(s, "InvalidInput")
      \/ /\ f.all /\ f.len = 0 /\ f.fds = 0 /\ Return(s, "none")
      \/ /\ validate_stream_send(f) /\ spc' = [spc EXCEPT ![s] = "prepare"]
         /\ UNCHANGED error
  BY <1>3 DEF SendCall
<1>8. /\ spc' \in [Sender -> {"idle"} \cup Sending \cup Returned]
      /\ error' \in [Sender -> Errors]
      /\ \A t \in Sender : t # s => spc'[t] = spc[t] /\ error'[t] = error[t]
      /\ \/ spc'[s] = "err" /\ error'[s] = "InvalidInput"
         \/ f.all /\ f.len = 0 /\ f.fds = 0 /\ spc'[s] = "ok" /\ error'[s] = "none"
         \/ validate_stream_send(f) /\ spc'[s] = "prepare" /\ error'[s] = error[s]
  <2>1. TypeOK /\ "InvalidInput" \in Errors /\ "none" \in Errors
    BY DEF IInv, Errors
  <2>2. CASE ~validate_stream_send(f) /\ Return(s, "InvalidInput")
    BY <2>1, <2>2, ReturnFacts
  <2>3. CASE f.all /\ f.len = 0 /\ f.fds = 0 /\ Return(s, "none")
    BY <2>1, <2>3, ReturnFacts
  <2>4. CASE /\ validate_stream_send(f) /\ spc' = [spc EXCEPT ![s] = "prepare"]
             /\ UNCHANGED error
    <3>1. "prepare" \in Sending
      BY DEF Sending
    <3> QED
      BY <1>2, <2>4, <3>1
  <2> QED
    BY <1>7, <2>2, <2>3, <2>4
<1>9. ASSUME NEW t \in Sender PROVE Called(t)'
  <2>1. CASE t = s
    <3>1. sent'[s] = 0 /\ frame'[s] = f
      BY <1>1, <1>4, <1>5
    <3>2. validate_stream_send(f) <=> f.len # 0 \/ f.fds = 0
      BY DEF validate_stream_send
    <3>3. validate_stream_send(frame[s])' <=> validate_stream_send(f)
      BY <3>1 DEF validate_stream_send
    <3> QED
      BY <1>4, <1>8, <2>1, <3>1, <3>2, <3>3 DEF Called, Sending
  <2>2. CASE t # s
    BY <1>1, <1>5, <1>8, <2>2, CalledUnchanged DEF IInv
  <2> QED
    BY <2>1, <2>2
<1>10. Suppressed'
  <2>1. spc'[s] # "sendmsg"
    BY <1>8
  <2> QED
    BY <1>1, <1>8, <2>1 DEF IInv, Suppressed
<1>11. NoSigpipe'
  BY <1>1 DEF IInv, NoSigpipe
<1> QED
  BY <1>1, <1>2, <1>5, <1>6, <1>8, <1>9, <1>10, <1>11, QuietSend

\* A send that fails at the kernel, or at its preparation.
LEMMA FailurePreserves ==
    ASSUME IInv, NEW s \in Sender, NEW e \in {"BrokenPipe", "kernel"}, Return(s, e),
           killed' \in BOOLEAN, NoSigpipe',
           UNCHANGED <<frame, sent, nosigpipe, stream, drained, peer, recvVars>>
    PROVE  IInv'
<1>1. TypeOK /\ e \in Errors
  BY DEF IInv, Errors
<1>2. /\ spc' \in [Sender -> {"idle"} \cup Sending \cup Returned] /\ spc'[s] = "err"
      /\ error' \in [Sender -> Errors] /\ error'[s] # "InvalidInput"
      /\ \A t \in Sender : t # s => spc'[t] = spc[t] /\ error'[t] = error[t]
  BY <1>1, ReturnFacts
<1>3. ASSUME NEW t \in Sender PROVE Called(t)'
  <2>1. CASE t = s
    BY <1>2, <2>1 DEF Called, Sending
  <2>2. CASE t # s
    BY <1>2, <2>2, CalledUnchanged DEF IInv
  <2> QED
    BY <2>1, <2>2
<1>4. Suppressed'
  BY <1>2 DEF IInv, Suppressed
<1>5. NoSigpipe' /\ killed' \in BOOLEAN
  OBVIOUS
<1> QED
  BY <1>2, <1>3, <1>4, <1>5, SendTypes, QuietSend

LEMMA StillAlive ==
    ASSUME IInv, UNCHANGED killed
    PROVE  killed' \in BOOLEAN /\ NoSigpipe'
BY DEF IInv, NoSigpipe, TypeOK

LEMMA PreparePreserves ==
    ASSUME IInv, NEW s \in Sender, prepare_send(s)
    PROVE  IInv'
<1>1. spc[s] = "prepare"
      /\ UNCHANGED <<frame, sent, killed, stream, drained, peer, recvVars>>
  BY DEF prepare_send
<1>2. CASE Return(s, "BrokenPipe") /\ UNCHANGED nosigpipe
  BY <1>1, <1>2, StillAlive, FailurePreserves
<1>3. CASE /\ nosigpipe' = (nosigpipe \/ Suppression = "SO_NOSIGPIPE")
           /\ spc' = [spc EXCEPT ![s] = "sendmsg"] /\ UNCHANGED error
  <2>1. spc \in [Sender -> {"idle"} \cup Sending \cup Returned] /\ nosigpipe \in BOOLEAN
        /\ "sendmsg" \in Sending /\ "prepare" \in Sending
    BY SendTypes DEF Sending
  <2>2. /\ spc' \in [Sender -> {"idle"} \cup Sending \cup Returned] /\ spc'[s] = "sendmsg"
        /\ \A t \in Sender : t # s => spc'[t] = spc[t]
    BY <1>3, <2>1
  <2>3. nosigpipe' \in BOOLEAN /\ (Suppression = "SO_NOSIGPIPE" => nosigpipe')
        /\ (nosigpipe => nosigpipe')
    BY <1>3, <2>1
  <2>4. ASSUME NEW t \in Sender PROVE Called(t)'
    <3>1. CASE t = s
      <4>1. Called(s)
        BY DEF IInv
      <4>2. validate_stream_send(frame[s])' <=> validate_stream_send(frame[s])
        BY <1>1 DEF validate_stream_send
      <4> QED
        BY <1>1, <1>3, <2>1, <2>2, <3>1, <4>1, <4>2 DEF Called
    <3>2. CASE t # s
      BY <1>1, <1>3, <2>2, <3>2, CalledUnchanged DEF IInv
    <3> QED
      BY <3>1, <3>2
  <2>5. Suppressed'
    BY <2>2, <2>3 DEF IInv, Suppressed
  <2>6. NoSigpipe'
    BY <1>1 DEF IInv, NoSigpipe
  <2>7. killed' \in BOOLEAN /\ error' \in [Sender -> Errors]
        /\ frame' \in [Sender -> Frame \cup {NoFrame}]
        /\ \A t \in Sender : sent[t] <= frame'[t].len /\ frame'[t] = frame[t]
    BY <1>1, <1>3, SendTypes
  <2> QED
    BY <1>1, <2>2, <2>3, <2>4, <2>5, <2>6, <2>7, QuietSend
<1> QED
  BY <1>2, <1>3 DEF prepare_send

LEMMA PeerClosedPreserves ==
    ASSUME IInv, NEW s \in Sender, SendPeerClosed(s)
    PROVE  IInv'
<1>1. /\ spc[s] = "sendmsg" /\ Return(s, "BrokenPipe")
      /\ killed' = (killed \/ ~(Suppression = "MSG_NOSIGNAL" \/ nosigpipe))
      /\ UNCHANGED <<frame, sent, nosigpipe, stream, drained, peer, recvVars>>
  BY DEF SendPeerClosed
<1>2. \/ Suppression \in {"MSG_NOSIGNAL", "none"}
      \/ Suppression = "SO_NOSIGPIPE" /\ nosigpipe
  BY <1>1, StreamAssumption DEF IInv, Suppressed
<1>3. killed' \in BOOLEAN /\ NoSigpipe'
  <2>1. killed \in BOOLEAN /\ nosigpipe \in BOOLEAN /\ (killed => Suppression = "none")
    BY DEF IInv, TypeOK, NoSigpipe
  <2> QED
    BY <1>1, <1>2, <2>1 DEF NoSigpipe
<1> QED
  BY <1>1, <1>3, FailurePreserves

LEMMA CancelSendPreserves ==
    ASSUME IInv, NEW s \in Sender, SendCancel(s)
    PROVE  IInv'
<1>1. /\ spc[s] \in Sending /\ spc' = [spc EXCEPT ![s] = "cancelled"]
      /\ UNCHANGED <<frame, sent, error, nosigpipe, killed, stream, drained, peer, recvVars>>
  BY DEF SendCancel
<1>2. spc \in [Sender -> {"idle"} \cup Sending \cup Returned] /\ "cancelled" \in Returned
      /\ "err" \notin Sending
  BY SendTypes DEF Returned, Sending
<1>3. /\ spc' \in [Sender -> {"idle"} \cup Sending \cup Returned] /\ spc'[s] = "cancelled"
      /\ \A t \in Sender : t # s => spc'[t] = spc[t]
  BY <1>1, <1>2
<1>4. ASSUME NEW t \in Sender PROVE Called(t)'
  <2>1. CASE t = s
    <3>1. error[s] # "InvalidInput"
      BY <1>1, <1>2 DEF IInv, Called
    <3>2. error'[s] = error[s]
      BY <1>1
    <3>3. "cancelled" \notin Sending \cup {"ok"}
      BY DEF Sending
    <3> QED
      BY <1>3, <2>1, <3>1, <3>2, <3>3 DEF Called
  <2>2. CASE t # s
    BY <1>1, <1>3, <2>2, CalledUnchanged DEF IInv
  <2> QED
    BY <2>1, <2>2
<1>5. Suppressed' /\ NoSigpipe'
  BY <1>1, <1>3 DEF IInv, Suppressed, NoSigpipe
<1> QED
  BY <1>1, <1>3, <1>4, <1>5, SendTypes, QuietSend

\* What the stream holds after the kernel took k more bytes of s.
LEMMA EnteredExtend ==
    ASSUME TypeOK, NEW s \in Sender, NEW k \in Nat, stream' = stream \o Payload(s, k),
           drained' = drained
    PROVE  /\ stream' \in Seq(Byte)
           /\ DOMAIN Entered' = 1 .. Len(Entered) + k
           /\ \A i \in 1 .. Len(Entered) : Entered'[i] = Entered[i]
           /\ \A j \in 1 .. k : Entered'[Len(Entered) + j] = Payload(s, k)[j]
           /\ \A i \in DOMAIN stream' : \/ i \in DOMAIN stream /\ stream'[i] = stream[i]
                                        \/ \E j \in 1 .. k : stream'[i] = Payload(s, k)[j]
<1> DEFINE P == Payload(s, k)
           n == Len(Entered)
<1>1. drained \in Seq(Byte) /\ stream \in Seq(Byte) /\ P \in Seq(Byte) /\ Len(P) = k
  BY PayloadFacts DEF TypeOK
<1> HIDE DEF P
<1>2. Entered \in Seq(Byte) /\ n \in Nat /\ DOMAIN Entered = 1 .. n
  BY EnteredFacts, LenProperties
<1>3. Entered' = Entered \o P
  <2>1. drained \in Seq(Byte) /\ stream \in Seq(Byte) /\ P \in Seq(Byte)
    BY <1>1
  <2>2. (drained \o stream) \o P = drained \o (stream \o P)
    BY ONLY <2>1, ConcatAssociative
  <2>3. stream' = stream \o P
    BY DEF P
  <2> QED
    BY <2>2, <2>3 DEF Entered
<1>4. /\ Entered \o P \in Seq(Byte) /\ Len(Entered \o P) = n + k
      /\ \A i \in 1 .. n + k : (Entered \o P)[i] = IF i <= n THEN Entered[i] ELSE P[i - n]
  BY <1>1, <1>2, ConcatProperties
<1>5. DOMAIN (Entered \o P) = 1 .. n + k
  BY <1>4, LenProperties
<1>6. /\ stream \o P \in Seq(Byte) /\ Len(stream \o P) = Len(stream) + k
      /\ \A i \in 1 .. Len(stream) + k :
           (stream \o P)[i] = IF i <= Len(stream) THEN stream[i] ELSE P[i - Len(stream)]
  BY <1>1, ConcatProperties
<1>7. DOMAIN (stream \o P) = 1 .. Len(stream) + k /\ Len(stream) \in Nat
      /\ DOMAIN stream = 1 .. Len(stream)
  BY <1>1, <1>6, LenProperties
<1>8. \A i \in 1 .. Len(stream) + k :
        i \in 1 .. Len(stream) \/ (~(i <= Len(stream)) /\ i - Len(stream) \in 1 .. k)
  BY <1>7
<1>9. \A i \in DOMAIN (stream \o P) :
        \/ i \in DOMAIN stream /\ (stream \o P)[i] = stream[i]
        \/ \E j \in 1 .. k : (stream \o P)[i] = P[j]
  BY <1>6, <1>7, <1>8
<1> HIDE DEF n
<1>10. \A i \in 1 .. n : i \in 1 .. n + k /\ i <= n
  BY <1>2 DEF n
<1>11. \A j \in 1 .. k : n + j \in 1 .. n + k /\ ~(n + j <= n) /\ n + j - n = j
  BY <1>2 DEF n
<1>12. \A i \in 1 .. n : Entered'[i] = Entered[i]
  BY <1>3, <1>4, <1>10
<1>13. ASSUME NEW j \in 1 .. k PROVE Entered'[n + j] = P[j]
  <2>1. n + j \in 1 .. n + k /\ ~(n + j <= n) /\ n + j - n = j
    BY <1>11
  <2>2. (Entered \o P)[n + j] = P[n + j - n]
    BY <1>2, <1>4, <2>1 DEF n
  <2> QED
    BY <1>3, <2>1, <2>2
<1>14. DOMAIN Entered' = 1 .. n + k
  BY <1>3, <1>5
<1>15. stream' = stream \o P
  BY DEF P
<1>16. /\ stream' \in Seq(Byte)
       /\ \A i \in DOMAIN stream' : \/ i \in DOMAIN stream /\ stream'[i] = stream[i]
                                    \/ \E j \in 1 .. k : stream'[i] = P[j]
  BY <1>6, <1>9, <1>15
<1> QED
  BY <1>12, <1>13, <1>14, <1>16 DEF P, n

\* The k more bytes of s are the next of its frame, and the whole list of
\* descriptors rides on the first byte of the frame only.
LEMMA AcceptRides ==
    ASSUME IInv, NEW s \in Sender, NEW k \in Nat, stream' = stream \o Payload(s, k),
           drained' = drained, frame' = frame, sent' = [sent EXCEPT ![s] = sent[s] + k]
    PROVE  \A t \in Sender : Rides(t)'
<1> DEFINE n == Len(Entered)
           P == Payload(s, k)
<1>1. /\ DOMAIN Entered' = 1 .. n + k
      /\ \A i \in 1 .. n : Entered'[i] = Entered[i]
      /\ \A j \in 1 .. k : Entered'[n + j] = P[j]
  BY EnteredExtend DEF IInv
<1>2. /\ \A j \in 1 .. k : /\ P[j].src = s /\ P[j].at = sent[s] + j
                           /\ P[j].rights = IF j = 1 THEN Attached(s) ELSE <<>>
  BY PayloadFacts DEF IInv
<1>3. n \in Nat /\ DOMAIN Entered = 1 .. n
  BY EnteredFacts, LenProperties DEF IInv
<1> HIDE DEF n, P
<1>4. \A i \in 1 .. n + k : i \in 1 .. n \/ \E j \in 1 .. k : i = n + j
  <2> SUFFICES ASSUME NEW i \in 1 .. n + k, i \notin 1 .. n
               PROVE  \E j \in 1 .. k : i = n + j
    OBVIOUS
  <2>1. i - n \in 1 .. k /\ i = n + (i - n)
    BY <1>3
  <2> QED
    BY <2>1
<1>5. /\ \A i \in 1 .. n : i \in 1 .. n + k
      /\ \A j \in 1 .. k : n + j \in 1 .. n + k
      /\ \A i \in 1 .. n, j \in 1 .. k : ~(n + j < i)
      /\ \A i, j \in 1 .. k : n + i < n + j => i < j
  BY <1>3
<1>6. /\ sent \in [Sender -> Nat] /\ sent'[s] = sent[s] + k
      /\ \A t \in Sender : t # s => sent'[t] = sent[t]
  BY SendTypes
<1>7. \A t \in Sender : Descriptors(t)' = Descriptors(t)
  BY DEF Descriptors
<1>8. \A t \in Sender :
        /\ Places(t) = {i \in 1 .. n : Entered[i].src = t}
        /\ Places(t)' = {i \in 1 .. n + k : Entered'[i].src = t}
  BY <1>1, <1>3 DEF Places
<1>9. ASSUME NEW t \in Sender
      PROVE  Places(t)' = Places(t) \cup {i \in {n + j : j \in 1 .. k} : Entered'[i].src = t}
  <2> DEFINE new == {n + j : j \in 1 .. k}
  <2>1. 1 .. n + k = (1 .. n) \cup new
    BY <1>4, <1>5
  <2>2. \A i \in 1 .. n : Entered'[i] = Entered[i]
    BY <1>1
  <2> HIDE DEF new
  <2>3. {i \in (1 .. n) \cup new : Entered'[i].src = t}
          = {i \in 1 .. n : Entered[i].src = t} \cup {i \in new : Entered'[i].src = t}
    BY <2>2
  <2> QED
    BY <1>8, <2>1, <2>3 DEF new
<1>10. ASSUME NEW t \in Sender, t # s PROVE Rides(t)'
  <2>1. Rides(t)
    BY DEF IInv
  <2>2. \A j \in 1 .. k : Entered'[n + j].src # t
    BY <1>1, <1>2, <1>10
  <2>3. Places(t)' = Places(t)
    <3>1. {i \in {n + j : j \in 1 .. k} : Entered'[i].src = t} = {}
      BY <2>2
    <3> QED
      BY <1>9, <3>1
  <2>4. \A i \in Places(t) : Entered'[i] = Entered[i]
    BY <1>1, <1>8
  <2>5. {Entered'[i].at : i \in Places(t)'} = 1 .. sent'[t]
    <3>1. {Entered'[i].at : i \in Places(t)'} = {Entered[i].at : i \in Places(t)}
      BY <2>3, <2>4
    <3> QED
      BY <1>6, <1>10, <2>1, <3>1 DEF Rides
  <2>6. \A i, j \in Places(t)' : i < j => Entered'[i].at < Entered'[j].at
    BY <2>1, <2>3, <2>4 DEF Rides
  <2>7. \A i \in Places(t)' : Entered'[i].rights
                                = IF Entered'[i].at = 1 THEN Descriptors(t)' ELSE <<>>
    BY <1>7, <2>1, <2>3, <2>4 DEF Rides
  <2> QED
    BY <2>5, <2>6, <2>7 DEF Rides
<1>11. Rides(s)'
  <2>1. Rides(s)
    BY DEF IInv
  <2>2. Places(s)' = Places(s) \cup {n + j : j \in 1 .. k}
    <3>1. \A j \in 1 .. k : Entered'[n + j].src = s
      BY <1>1, <1>2
    <3>2. {i \in {n + j : j \in 1 .. k} : Entered'[i].src = s} = {n + j : j \in 1 .. k}
      BY <3>1
    <3> QED
      BY <1>9, <3>2
  <2>3. \A i \in Places(s) : i \in 1 .. n /\ Entered'[i] = Entered[i]
                              /\ Entered[i].at \in 1 .. sent[s]
    BY <1>1, <1>8, <2>1 DEF Rides
  <2>4. \A j \in 1 .. k : /\ Entered'[n + j].at = sent[s] + j
                          /\ Entered'[n + j].rights = IF j = 1 THEN Attached(s) ELSE <<>>
    <3>1. ASSUME NEW j \in 1 .. k PROVE Entered'[n + j] = P[j]
      BY <1>1
    <3>2. \A j \in 1 .. k : Entered'[n + j] = P[j]
      BY <3>1
    <3> QED
      BY <1>2, <3>2
  <2>5. {Entered'[i].at : i \in Places(s)'} = 1 .. sent'[s]
    <3>1. {Entered'[i].at : i \in Places(s)'}
            = {Entered[i].at : i \in Places(s)} \cup {sent[s] + j : j \in 1 .. k}
      <4> DEFINE new == {n + j : j \in 1 .. k}
      <4>1. {Entered'[i].at : i \in Places(s) \cup new}
              = {Entered'[i].at : i \in Places(s)} \cup {Entered'[i].at : i \in new}
        OBVIOUS
      <4>2. {Entered'[i].at : i \in Places(s)} = {Entered[i].at : i \in Places(s)}
        BY <2>3
      <4>3. {Entered'[i].at : i \in new} = {sent[s] + j : j \in 1 .. k}
        BY <2>4
      <4> HIDE DEF new
      <4> QED
        BY <2>2, <4>1, <4>2, <4>3 DEF new
    <3>2. {Entered[i].at : i \in Places(s)} = 1 .. sent[s]
      BY <2>1 DEF Rides
    <3>3. 1 .. sent[s] + k = (1 .. sent[s]) \cup {sent[s] + j : j \in 1 .. k}
      <4>1. \A a \in 1 .. sent[s] + k :
              a \in 1 .. sent[s] \/ (a - sent[s] \in 1 .. k /\ a = sent[s] + (a - sent[s]))
        BY <1>6
      <4>2. \A j \in 1 .. k : sent[s] + j \in 1 .. sent[s] + k
        BY <1>6
      <4>3. \A a \in 1 .. sent[s] : a \in 1 .. sent[s] + k
        BY <1>6
      <4>4. ASSUME NEW a \in 1 .. sent[s] + k
            PROVE  a \in (1 .. sent[s]) \cup {sent[s] + j : j \in 1 .. k}
        BY <4>1
      <4> QED
        BY <4>2, <4>3, <4>4
    <3> QED
      BY <1>6, <3>1, <3>2, <3>3
  <2>6. \A i, j \in Places(s)' : i < j => Entered'[i].at < Entered'[j].at
    <3> SUFFICES ASSUME NEW i \in Places(s)', NEW j \in Places(s)', i < j
                 PROVE  Entered'[i].at < Entered'[j].at
      OBVIOUS
    <3>1. CASE i \in Places(s) /\ j \in Places(s)
      BY <2>1, <2>3, <3>1 DEF Rides
    <3>2. CASE i \in Places(s) /\ \E q \in 1 .. k : j = n + q
      <4>1. PICK q \in 1 .. k : j = n + q
        BY <3>2
      <4>2. Entered'[j].at = sent[s] + q /\ Entered'[i].at \in 1 .. sent[s]
        BY <2>3, <2>4, <3>2, <4>1
      <4> QED
        BY <1>6, <4>2
    <3>3. CASE \E p, q \in 1 .. k : i = n + p /\ j = n + q
      <4>1. PICK p \in 1 .. k, q \in 1 .. k : i = n + p /\ j = n + q
        BY <3>3
      <4>2. p < q
        BY <1>5, <4>1
      <4>3. Entered'[i].at = sent[s] + p /\ Entered'[j].at = sent[s] + q
        BY <2>4, <4>1
      <4> QED
        BY <1>6, <4>2, <4>3
    <3>4. ~(j \in Places(s) /\ \E p \in 1 .. k : i = n + p)
      BY <1>5, <2>3
    <3> QED
      BY <2>2, <3>1, <3>2, <3>3, <3>4
  <2>7. \A i \in Places(s)' : Entered'[i].rights
                                = IF Entered'[i].at = 1 THEN Descriptors(s) ELSE <<>>
    <3> SUFFICES ASSUME NEW i \in Places(s)'
                 PROVE  Entered'[i].rights
                          = IF Entered'[i].at = 1 THEN Descriptors(s) ELSE <<>>
      OBVIOUS
    <3>1. CASE i \in Places(s)
      BY <2>1, <2>3, <3>1 DEF Rides
    <3>2. CASE \E j \in 1 .. k : i = n + j
      <4>1. PICK j \in 1 .. k : i = n + j
        BY <3>2
      <4>2. /\ Entered'[i].at = sent[s] + j
            /\ Entered'[i].rights = IF j = 1 THEN Attached(s) ELSE <<>>
        BY <2>4, <4>1
      <4>3. sent[s] + j = 1 <=> j = 1 /\ sent[s] = 0
        BY <1>6
      <4> QED
        BY <4>2, <4>3 DEF Attached
    <3> QED
      BY <2>2, <3>1, <3>2
  <2> QED
    BY <1>7, <2>5, <2>6, <2>7 DEF Rides
<1> QED
  BY <1>10, <1>11

\* How far the call of s is after the kernel took k bytes.
LEMMA ProgressFacts ==
    ASSUME IInv, NEW s \in Sender, spc[s] = "sendmsg", NEW k \in 0 .. Remaining(s),
           Progress(s, k), frame' = frame, nosigpipe' = nosigpipe
    PROVE  /\ sent' = [sent EXCEPT ![s] = sent[s] + k] /\ sent' \in [Sender -> Nat]
           /\ \A t \in Sender : sent[t] <= sent'[t] /\ sent'[t] <= frame[t].len
           /\ spc' \in [Sender -> {"idle"} \cup Sending \cup Returned]
           /\ error' \in [Sender -> Errors]
           /\ \A t \in Sender : Called(t)'
           /\ Suppressed'
<1> DEFINE len == frame[s].len
           all == frame[s].all
<1>1. TypeOK
  BY DEF IInv
<1>2. sent \in [Sender -> Nat] /\ len \in Nat /\ sent[s] <= len
      /\ \A t \in Sender : frame[t].len \in Nat /\ sent[t] <= frame[t].len
  BY <1>1, SendTypes, DescriptorsFacts
<1>3. k \in Nat /\ sent[s] + k <= len
  BY <1>2 DEF Remaining
<1>4. sent' = [sent EXCEPT ![s] = sent[s] + k]
  BY DEF Progress
<1>5. /\ sent'[s] = sent[s] + k /\ sent' \in [Sender -> Nat]
      /\ \A t \in Sender : t # s => sent'[t] = sent[t]
  BY <1>2, <1>3, <1>4
<1>6. \A t \in Sender : sent[t] <= sent'[t] /\ sent'[t] <= frame[t].len
  BY <1>2, <1>3, <1>5
<1>7. \/ Return(s, "WriteZero")
      \/ /\ spc' = [spc EXCEPT ![s] = "prepare"] /\ UNCHANGED error
      \/ /\ Return(s, "none") /\ (all => ~(sent[s] + k < len))
  BY DEF Progress
<1>8. /\ spc \in [Sender -> {"idle"} \cup Sending \cup Returned]
      /\ error \in [Sender -> Errors]
  BY SendTypes
<1>9. /\ spc' \in [Sender -> {"idle"} \cup Sending \cup Returned]
      /\ error' \in [Sender -> Errors]
      /\ \A t \in Sender : t # s => spc'[t] = spc[t] /\ error'[t] = error[t]
      /\ \/ spc'[s] = "err" /\ error'[s] = "WriteZero"
         \/ spc'[s] = "prepare" /\ error'[s] = error[s]
         \/ spc'[s] = "ok" /\ error'[s] = "none" /\ (all => sent'[s] = len)
  <2>1. CASE Return(s, "WriteZero")
    <3>1. "WriteZero" \in Errors
      BY DEF Errors
    <3> QED
      BY <1>1, <2>1, <3>1, ReturnFacts
  <2>2. CASE spc' = [spc EXCEPT ![s] = "prepare"] /\ UNCHANGED error
    <3>1. "prepare" \in Sending
      BY DEF Sending
    <3> QED
      BY <1>8, <2>2, <3>1
  <2>3. CASE Return(s, "none") /\ (all => ~(sent[s] + k < len))
    <3>1. "none" \in Errors
      BY DEF Errors
    <3>2. all => sent'[s] = len
      BY <1>2, <1>3, <1>5, <2>3
    <3>3. /\ spc' \in [Sender -> {"idle"} \cup Sending \cup Returned]
          /\ spc'[s] = "ok" /\ error' \in [Sender -> Errors] /\ error'[s] = "none"
          /\ \A t \in Sender : t # s => spc'[t] = spc[t] /\ error'[t] = error[t]
      BY <1>1, <2>3, <3>1, ReturnFacts
    <3> HIDE DEF len, all
    <3> QED
      BY <3>2, <3>3
  <2> HIDE DEF len, all
  <2> QED
    BY <1>7, <2>1, <2>2, <2>3
<1>10. ASSUME NEW t \in Sender PROVE Called(t)'
  <2>1. CASE t = s
    <3>1. validate_stream_send(frame[s]) /\ error[s] # "InvalidInput"
      BY DEF IInv, Called, Sending
    <3>2. validate_stream_send(frame[s])'
      BY <3>1 DEF validate_stream_send
    <3> QED
      BY <1>9, <2>1, <3>1, <3>2 DEF Called, Sending
  <2>2. CASE t # s
    BY <1>5, <1>9, <2>2, CalledUnchanged DEF IInv
  <2> QED
    BY <2>1, <2>2
<1>11. Suppressed'
  BY <1>9 DEF IInv, Suppressed
<1> QED
  BY <1>4, <1>5, <1>6, <1>9, <1>10, <1>11

LEMMA SendmsgPreserves ==
    ASSUME IInv, NEW s \in Sender, sendmsg(s)
    PROVE  IInv'
<1>1. PICK k \in 0 .. MinOf(Remaining(s), SockBuf - Len(stream)) :
        stream' = stream \o Payload(s, k) /\ Progress(s, k)
  BY DEF sendmsg
<1>2. /\ spc[s] = "sendmsg"
      /\ UNCHANGED <<frame, nosigpipe, killed, drained, peer, recvVars>>
  BY DEF sendmsg
<1>3. TypeOK
  BY DEF IInv
<1>4. sent[s] \in Nat /\ frame[s].len \in Nat /\ sent[s] <= frame[s].len
  BY <1>3, SendTypes, DescriptorsFacts
<1>5. k \in 0 .. Remaining(s) /\ k \in Nat
  <2>1. Remaining(s) \in Nat
    BY <1>4 DEF Remaining
  <2>2. SockBuf - Len(stream) \in Int
    BY <1>3, EnteredFacts, StreamAssumption
  <2> QED
    BY <2>1, <2>2 DEF MinOf
<1>6. /\ sent' = [sent EXCEPT ![s] = sent[s] + k] /\ sent' \in [Sender -> Nat]
      /\ \A t \in Sender : sent[t] <= sent'[t] /\ sent'[t] <= frame[t].len
      /\ spc' \in [Sender -> {"idle"} \cup Sending \cup Returned]
      /\ error' \in [Sender -> Errors]
      /\ \A t \in Sender : Called(t)'
      /\ Suppressed'
  BY <1>1, <1>2, <1>5, ProgressFacts
<1>7. /\ stream' \in Seq(Byte)
      /\ \A i \in DOMAIN stream' : \/ i \in DOMAIN stream /\ stream'[i] = stream[i]
                                   \/ \E j \in 1 .. k : stream'[i] = Payload(s, k)[j]
  BY <1>1, <1>2, <1>3, <1>5, EnteredExtend
<1>8. \A t \in Sender : Rides(t)'
  BY <1>1, <1>2, <1>5, <1>6, AcceptRides
<1>9. RecvInv(Byte, Right)' /\ (\A r \in Receiver : Taken(r)') /\ ReceiptAccounted'
  BY <1>2, ReceiverUntouched
<1>10. TypeOK'
  <2>1. RecvTypeOK(Byte, Right)'
    BY <1>9 DEF RecvInv
  <2>2. \A t \in Sender : sent'[t] <= frame'[t].len
    BY <1>2, <1>6
  <2>3. /\ frame' \in [Sender -> Frame \cup {NoFrame}]
        /\ nosigpipe' \in BOOLEAN /\ killed' \in BOOLEAN
        /\ drained' \in Seq(Byte) /\ peer' \in {"open", "closed"}
    BY <1>2, <1>3 DEF TypeOK
  <2> QED
    BY <1>6, <1>7, <2>1, <2>2, <2>3 DEF TypeOK
<1>11. NoSigpipe'
  BY <1>2 DEF IInv, NoSigpipe
<1>12. FreshRights'
  <2>1. fdtable' = fdtable
    BY <1>2 DEF recvVars
  <2> SUFFICES ASSUME NEW f \in fdtable
               PROVE  /\ sent'[f[1]] >= 1
                      /\ \A i \in DOMAIN stream' : ~(stream'[i].src = f[1] /\ stream'[i].at = 1)
    BY <2>1 DEF FreshRights
  <2>2. f[1] \in Sender /\ sent[f[1]] >= 1
        /\ \A i \in DOMAIN stream : ~(stream[i].src = f[1] /\ stream[i].at = 1)
    <3>1. f \in Right
      BY DEF IInv, RecvInv, RecvTypeOK
    <3> QED
      BY <3>1 DEF IInv, FreshRights, Right
  <2>3. sent'[f[1]] >= 1
    <3>1. sent[f[1]] \in Nat /\ sent'[f[1]] \in Nat /\ sent[f[1]] <= sent'[f[1]]
      BY <1>6, <2>2, SendTypes
    <3> QED
      BY <2>2, <3>1
  <2>4. ASSUME NEW j \in 1 .. k
        PROVE  ~(Payload(s, k)[j].src = f[1] /\ Payload(s, k)[j].at = 1)
    <3>1. Payload(s, k)[j].src = s /\ Payload(s, k)[j].at = sent[s] + j
      BY <1>3, <1>5, PayloadFacts
    <3>2. ASSUME s = f[1] PROVE sent[s] + j # 1
      BY <1>4, <1>5, <2>2, <3>2
    <3> QED
      BY <3>1, <3>2
  <2> QED
    BY <1>7, <2>2, <2>3, <2>4
<1> QED
  BY <1>6, <1>8, <1>9, <1>10, <1>11, <1>12 DEF IInv

-----------------------------------------------------------------------------
(* Receives.                                                               *)

\* A step of the receiving side that takes nothing off the stream.
LEMMA FrameFacts ==
    ASSUME IInv, RecvInv(Byte, Right)', UNCHANGED streamVars, fdtable' \subseteq fdtable
    PROVE  /\ TypeOK' /\ NoSigpipe' /\ Suppressed' /\ FreshRights'
           /\ \A s \in Sender : Called(s)' /\ Rides(s)'
<1>1. UNCHANGED <<spc, frame, sent, error, nosigpipe, killed, stream, drained, peer>>
  BY DEF streamVars, sendVars
<1>2. TypeOK'
  BY <1>1 DEF IInv, TypeOK, RecvInv
<1>3. NoSigpipe' /\ Suppressed' /\ FreshRights'
  BY <1>1 DEF IInv, NoSigpipe, Suppressed, FreshRights
<1>4. Entered' = Entered
  BY <1>1 DEF Entered
<1>5. ASSUME NEW s \in Sender PROVE Called(s)' /\ Rides(s)'
  BY <1>1, <1>4, CalledUnchanged, RidesUnchanged DEF IInv
<1> QED
  BY <1>2, <1>3, <1>5

\* Calls that a step leaves alone.
LEMMA CallUntouched ==
    ASSUME IInv, NEW q \in Receiver, rpc'[q] = rpc[q], msg'[q] = msg[q]
    PROVE  Taken(q)'
BY DEF IInv, Taken

LEMMA CallsUntouched ==
    ASSUME IInv, UNCHANGED <<msg, result>>,
           \A q \in Receiver : rpc'[q] \in {"parse", "core"} => rpc[q] \in {"parse", "core"}
    PROVE  (\A q \in Receiver : Taken(q)') /\ ReceiptAccounted'
BY DEF IInv, Taken, ReceiptAccounted

\* ReceiptAccounted for one call.
Accounted(r) ==
    result[r].ok =>
        /\ result[r].fds = SubSeq(Rights(result[r].bytes), 1, Len(result[r].fds))
        /\ Len(result[r].fds) + result[r].surplus = Len(Rights(result[r].bytes))
        /\ Len(result[r].fds) = (IF result[r].mode.exact THEN result[r].mode.n
                                 ELSE MinOf(Len(Rights(result[r].bytes)), result[r].mode.n))

LEMMA AllAccounted == ReceiptAccounted <=> \A r \in Receiver : Accounted(r)
BY DEF ReceiptAccounted, Accounted

LEMMA ReturnAccounted ==
    ASSUME IInv, NEW r \in Receiver, NEW ok, NEW fds, NEW surplus,
           RecvReturn(r, ok, fds, surplus),
           ok => /\ fds = SubSeq(Rights(msg[r].bytes), 1, Len(fds))
                 /\ Len(fds) + surplus = Len(Rights(msg[r].bytes))
                 /\ Len(fds) = (IF mode[r].exact THEN mode[r].n
                                ELSE MinOf(Len(Rights(msg[r].bytes)), mode[r].n))
    PROVE  (\A q \in Receiver : Taken(q)') /\ ReceiptAccounted'
<1>1. /\ rpc \in [Receiver -> {"idle", "recvmsg", "waiting", "parse", "core"}]
      /\ msg \in [Receiver -> Received(Byte, Right)]
      /\ result \in [Receiver -> Outcome(Byte, Right)]
  BY RecvTypes DEF IInv, RecvInv
<1>2. /\ rpc' = [rpc EXCEPT ![r] = "idle"] /\ msg' = [msg EXCEPT ![r] = NoMsg]
      /\ result' = [result EXCEPT ![r] =
                      [ok |-> ok, mode |-> mode[r], bytes |-> msg[r].bytes,
                       fds |-> fds, surplus |-> surplus]]
  BY DEF RecvReturn, Forget
<1>3. rpc'[r] = "idle" /\ \A q \in Receiver : q # r => rpc'[q] = rpc[q] /\ msg'[q] = msg[q]
  BY <1>1, <1>2
<1>4. /\ result'[r].ok = ok /\ result'[r].bytes = msg[r].bytes /\ result'[r].fds = fds
      /\ result'[r].surplus = surplus /\ result'[r].mode = mode[r]
      /\ \A q \in Receiver : q # r => result'[q] = result[q]
  BY <1>1, <1>2
<1>5. ASSUME NEW q \in Receiver PROVE Taken(q)'
  <2>1. CASE q = r
    BY <1>3, <2>1 DEF Taken
  <2>2. CASE q # r
    BY <1>3, <2>2, CallUntouched
  <2> QED
    BY <2>1, <2>2
<1>6. ASSUME NEW q \in Receiver PROVE Accounted(q)'
  <2>1. CASE q = r
    BY <1>4, <2>1 DEF Accounted
  <2>2. CASE q # r
    <3>1. Accounted(q)
      BY AllAccounted DEF IInv
    <3> QED
      BY <1>4, <2>2, <3>1 DEF Accounted
  <2> QED
    BY <2>1, <2>2
<1>7. ReceiptAccounted'
  BY <1>6 DEF ReceiptAccounted, Accounted
<1> QED
  BY <1>5, <1>7

\* An error says nothing about the bytes.
LEMMA ErrorKeeps ==
    ASSUME IInv, UNCHANGED streamVars, NEW r \in Receiver, rpc[r] # "parse",
           RecvReturn(r, FALSE, <<>>, 0)
    PROVE  IInv'
<1>1. RecvInv(Byte, Right)'
  BY ErrorPreserves DEF IInv
<1>2. fdtable' \subseteq fdtable
  <2>1. ToSet(<<>>) = {}
    BY DEF ToSet
  <2> QED
    BY <2>1, ReturnOpensNothing DEF IInv
<1>3. (\A q \in Receiver : Taken(q)') /\ ReceiptAccounted'
  BY ReturnAccounted
<1> QED
  BY <1>1, <1>2, <1>3, FrameFacts DEF IInv

\* recv_core returns the first of the rights of the bytes, or an error.
LEMMA CoreKeeps ==
    ASSUME IInv, UNCHANGED streamVars, NEW r \in Receiver, recv_core(r)
    PROVE  IInv'
<1>1. CASE RecvReturn(r, FALSE, <<>>, 0)
  <2>1. rpc[r] # "parse"
    BY DEF recv_core
  <2> QED
    BY <1>1, <2>1, ErrorKeeps
<1>2. CASE \E k \in 0 .. Len(msg[r].rights) :
              /\ RecvReturn(r, TRUE, SubSeq(msg[r].rights, 1, k), Len(msg[r].rights) - k)
              /\ msg[r].fds = msg[r].rights
              /\ k = IF mode[r].exact THEN mode[r].n
                     ELSE MinOf(Len(msg[r].rights), mode[r].n)
  <2>1. PICK k \in 0 .. Len(msg[r].rights) :
              /\ RecvReturn(r, TRUE, SubSeq(msg[r].rights, 1, k), Len(msg[r].rights) - k)
              /\ msg[r].fds = msg[r].rights
              /\ k = IF mode[r].exact THEN mode[r].n
                     ELSE MinOf(Len(msg[r].rights), mode[r].n)
    BY <1>2
  <2> DEFINE fds == SubSeq(msg[r].rights, 1, k)
             surplus == Len(msg[r].rights) - k
  <2>2. msg[r].rights = Rights(msg[r].bytes)
    BY DEF recv_core, IInv, Taken
  <2>3. msg[r].rights \in Seq(Right) /\ Len(msg[r].rights) \in Nat
    BY RecvTypes, LenProperties DEF IInv, RecvInv, Received
  <2>4. k \in Nat /\ k <= Len(msg[r].rights)
    BY <2>3
  <2>5. Len(fds) = k /\ ToSet(fds) \subseteq ToSet(msg[r].fds)
    BY <2>1, <2>3, <2>4, PrefixFacts
  <2>6. k + surplus = Len(msg[r].rights)
    BY <2>3, <2>4
  <2>7. fds = SubSeq(msg[r].rights, 1, Len(fds))
    BY <2>5
  <2>8. RecvInv(Byte, Right)'
    BY CorePreserves DEF IInv
  <2>9. RecvReturn(r, TRUE, fds, surplus)
    BY <2>1
  <2> HIDE DEF fds, surplus
  <2>10. fdtable' \subseteq fdtable
    BY <2>5, <2>9, ReturnOpensNothing DEF IInv
  <2>11. (\A q \in Receiver : Taken(q)') /\ ReceiptAccounted'
    <3>1. /\ fds = SubSeq(Rights(msg[r].bytes), 1, Len(fds))
          /\ Len(fds) + surplus = Len(Rights(msg[r].bytes))
          /\ Len(fds) = (IF mode[r].exact THEN mode[r].n
                         ELSE MinOf(Len(Rights(msg[r].bytes)), mode[r].n))
      BY <2>1, <2>2, <2>5, <2>6, <2>7
    <3> QED
      BY <2>9, <3>1, ReturnAccounted
  <2> QED
    BY <2>8, <2>10, <2>11, FrameFacts DEF IInv
<1>3. RecvInv(Byte, Right)
  BY DEF IInv
<1> QED
  BY <1>1, <1>2, <1>3, CoreReturns

\* A call begins: it has no result yet.
LEMMA RecvCallKeeps ==
    ASSUME IInv, UNCHANGED streamVars, NEW r \in Receiver, NEW m \in Mode, RecvCall(r, m)
    PROVE  IInv'
<1>1. RecvInv(Byte, Right)'
  BY RecvCallPreserves DEF IInv
<1>2. /\ result \in [Receiver -> Outcome(Byte, Right)]
      /\ rpc \in [Receiver -> {"idle", "recvmsg", "waiting", "parse", "core"}]
  BY RecvTypes DEF IInv, RecvInv
<1>3. /\ rpc' = [rpc EXCEPT ![r] = "recvmsg"] /\ result' = [result EXCEPT ![r] = NoResult]
      /\ msg' = msg /\ fdtable' = fdtable
  BY DEF RecvCall
<1>4. ASSUME NEW q \in Receiver PROVE Taken(q)'
  <2>1. CASE q = r
    BY <1>2, <1>3, <2>1 DEF Taken
  <2>2. CASE q # r
    BY <1>2, <1>3, <2>2, CallUntouched
  <2> QED
    BY <2>1, <2>2
<1>5. ASSUME NEW q \in Receiver PROVE Accounted(q)'
  <2>1. CASE q = r
    BY <1>2, <1>3, <2>1 DEF Accounted, NoResult
  <2>2. CASE q # r
    <3>1. Accounted(q)
      BY AllAccounted DEF IInv
    <3> QED
      BY <1>2, <1>3, <2>2, <3>1 DEF Accounted
  <2> QED
    BY <2>1, <2>2
<1>6. ReceiptAccounted'
  BY <1>5 DEF ReceiptAccounted, Accounted
<1> QED
  BY <1>1, <1>3, <1>4, <1>6, FrameFacts DEF IInv

\* A sequence in two parts.
LEMMA SuffixFacts ==
    ASSUME NEW S, NEW s \in Seq(S), NEW k \in Nat, k <= Len(s)
    PROVE  /\ SubSeq(s, k + 1, Len(s)) \in Seq(S)
           /\ \A i \in DOMAIN SubSeq(s, k + 1, Len(s)) :
                /\ k + i \in DOMAIN s /\ k + i > k
                /\ SubSeq(s, k + 1, Len(s))[i] = s[k + i]
           /\ SubSeq(s, 1, k) \o SubSeq(s, k + 1, Len(s)) = s
<1> DEFINE m == k + 1
           n == Len(s)
           rest == SubSeq(s, m, n)
<1>1. n \in Nat /\ DOMAIN s = 1 .. n /\ \A i \in 1 .. n : s[i] \in S
  BY LenProperties, ElementOfSeq
<1> HIDE DEF n
<1>2. m \in Int /\ n \in Int /\ \A i \in m .. n : s[i] \in S
  BY <1>1
<1> HIDE DEF m
<1>3. /\ rest \in Seq(S)
      /\ Len(rest) = IF m <= n THEN n - m + 1 ELSE 0
      /\ \A i \in 1 .. n - m + 1 : rest[i] = s[m + i - 1]
  BY <1>2, SubSeqProperties
<1> HIDE DEF rest
<1>4. DOMAIN rest = 1 .. Len(rest) /\ Len(rest) = n - k
  <2>1. k \in Nat /\ k <= n
    BY DEF n
  <2>2. Len(rest) = n - k
    BY <1>1, <1>3, <2>1 DEF m
  <2> QED
    BY <1>3, <2>2, LenProperties
<1>5. ASSUME NEW i \in DOMAIN rest
      PROVE  k + i \in DOMAIN s /\ k + i > k /\ rest[i] = s[k + i]
  <2>1. /\ k + i \in 1 .. n /\ k + i > k
        /\ i \in 1 .. n - m + 1 /\ m + i - 1 = k + i
    BY <1>1, <1>4 DEF m
  <2> QED
    BY <1>1, <1>3, <2>1
<1>6. SubSeq(s, 1, k) \o SubSeq(s, k + 1, n) = s
  <2>1. 1 \in 1 .. Len(s) + 1 /\ k \in 1 - 1 .. Len(s) /\ n \in k .. Len(s)
    BY <1>1 DEF n
  <2>2. SubSeq(s, 1, k) \o SubSeq(s, k + 1, n) = SubSeq(s, 1, n)
    BY <2>1, ConcatAdjacentSubSeq
  <2> QED
    BY <2>2, SubSeqFull DEF n
<1> QED
  BY <1>3, <1>5, <1>6 DEF m, n, rest

\* The first bytes in flight, and the rights on them.
LEMMA PrefixRights ==
    ASSUME IInv, NEW k \in 1 .. Len(stream), NEW f \in ToSet(Rights(SubSeq(stream, 1, k)))
    PROVE  /\ f \notin fdtable
           /\ sent[f[1]] >= 1
           /\ \A j \in DOMAIN stream : j > k => ~(stream[j].src = f[1] /\ stream[j].at = 1)
<1> DEFINE bytes == SubSeq(stream, 1, k)
<1>1. stream \in Seq(Byte) /\ Len(stream) \in Nat /\ DOMAIN stream = 1 .. Len(stream)
      /\ k \in Nat /\ k <= Len(stream)
  BY LenProperties DEF IInv, TypeOK
<1>2. bytes \in Seq(Byte) /\ DOMAIN bytes = 1 .. k /\ \A i \in 1 .. k : bytes[i] = stream[i]
  <2>1. bytes \in Seq(Byte) /\ Len(bytes) = k /\ \A i \in 1 .. k : bytes[i] = stream[i]
    BY <1>1, PrefixFacts
  <2> QED
    BY <2>1, LenProperties
<1> HIDE DEF bytes
<1>3. PICK i \in 1 .. k : f \in ToSet(bytes[i].rights)
  BY <1>2, RightsFacts DEF bytes
<1>4. i \in DOMAIN stream /\ f \in ToSet(stream[i].rights)
      /\ \A j \in DOMAIN stream : j > k => i < j
  BY <1>1, <1>2, <1>3
<1> DEFINE s == stream[i].src
<1>5. /\ s \in Sender
      /\ stream[i].at \in 1 .. sent[s]
      /\ stream[i].rights = IF stream[i].at = 1 THEN Descriptors(s) ELSE <<>>
      /\ \A j \in DOMAIN stream : i < j /\ stream[j].src = s => stream[i].at < stream[j].at
  BY <1>4, StreamRides
<1>6. ToSet(<<>>) = {}
  BY DEF ToSet
<1>7. stream[i].at = 1 /\ f \in ToSet(Descriptors(s))
  BY <1>4, <1>5, <1>6
<1>8. f[1] = s /\ sent[s] \in Nat
  BY <1>5, <1>7, DescriptorsFacts, SendTypes DEF IInv
<1>9. sent[f[1]] >= 1
  BY <1>5, <1>7, <1>8
<1>10. f \notin fdtable
  BY <1>4, <1>7, <1>8 DEF IInv, FreshRights
<1>11. \A j \in DOMAIN stream : j > k => ~(stream[j].src = s /\ stream[j].at = 1)
  BY <1>4, <1>5, <1>7
<1> QED
  BY <1>8, <1>9, <1>10, <1>11

\* What the receive r sees of a delivery.
LEMMA DeliverKeeps ==
    ASSUME IInv, NEW r \in Receiver, rpc[r] = "recvmsg",
           NEW bytes \in Seq(Byte), NEW rights \in Seq(Right), rights = Rights(bytes),
           Deliver(r, bytes, rights, FALSE), ToSet(rights) \cap fdtable = {}
    PROVE  /\ RecvInv(Byte, Right)'
           /\ fdtable' \subseteq fdtable \cup ToSet(rights)
           /\ (\A q \in Receiver : Taken(q)') /\ ReceiptAccounted'
<1> DEFINE trunc == FALSE
<1>1. RecvInv(Byte, Right) /\ trunc \in BOOLEAN /\ Deliver(r, bytes, rights, trunc)
  BY DEF IInv
<1> HIDE DEF trunc
<1>2. /\ \A q \in Receiver : q # r => msg'[q] = msg[q]
      /\ msg'[r].bytes = bytes /\ msg'[r].rights = rights
      /\ fdtable' \subseteq fdtable \cup ToSet(rights)
  <2>1. /\ \A q \in Receiver : q # r => msg'[q] = msg[q]
        /\ msg'[r].bytes = bytes /\ msg'[r].rights = rights
        /\ \E open \in Seq(Right) : Opens(r, rights, open)
    BY <1>1, DeliverFacts
  <2>2. PICK open \in Seq(Right) : Opens(r, rights, open)
    BY <2>1
  <2> QED
    BY <2>1, <2>2 DEF Opens
<1>3. RecvInv(Byte, Right)'
  BY <1>1, DeliverPreserves
<1>4. rpc' = [rpc EXCEPT ![r] = "parse"] /\ result' = result
  BY DEF Deliver
<1>5. rpc \in [Receiver -> {"idle", "recvmsg", "waiting", "parse", "core"}]
  BY RecvTypes DEF IInv, RecvInv
<1>6. ASSUME NEW q \in Receiver PROVE Taken(q)'
  <2>1. CASE q = r
    BY <1>2, <2>1 DEF Taken
  <2>2. CASE q # r
    BY <1>2, <1>4, <1>5, <2>2, CallUntouched
  <2> QED
    BY <2>1, <2>2
<1>7. ReceiptAccounted'
  BY <1>4 DEF IInv, ReceiptAccounted
<1> QED
  BY <1>2, <1>3, <1>6, <1>7

\* Bytes that leave the stream have still entered it.
LEMMA EnteredShift ==
    ASSUME drained \in Seq(Byte), NEW bytes \in Seq(Byte), NEW rest \in Seq(Byte),
           bytes \o rest = stream, drained' = drained \o bytes, stream' = rest
    PROVE  Entered' = Entered
<1>1. (drained \o bytes) \o rest = drained \o (bytes \o rest)
  BY ONLY ConcatAssociative, drained \in Seq(Byte), bytes \in Seq(Byte), rest \in Seq(Byte)
<1> QED
  BY <1>1 DEF Entered

LEMMA RecvMsgPreserves ==
    ASSUME IInv, NEW r \in Receiver, RecvMsg(r)
    PROVE  IInv'
<1>1. PICK k \in 1 .. MinOf(buf[r], Len(stream)) :
        /\ Deliver(r, SubSeq(stream, 1, k), Rights(SubSeq(stream, 1, k)), FALSE)
        /\ stream' = SubSeq(stream, k + 1, Len(stream))
        /\ drained' = drained \o SubSeq(stream, 1, k)
  BY DEF RecvMsg
<1>2. rpc[r] = "recvmsg" /\ UNCHANGED <<spc, frame, sent, error, nosigpipe, killed, peer>>
  BY DEF RecvMsg, sendVars
<1>3. stream \in Seq(Byte) /\ drained \in Seq(Byte)
      /\ Len(stream) \in Nat /\ DOMAIN stream = 1 .. Len(stream)
  BY LenProperties DEF IInv, TypeOK
<1>4. buf[r] = BufLen /\ BufLen \in Nat
  BY <1>2, ConstantsTyped DEF IInv, RecvInv, Phase
<1>5. k \in 1 .. Len(stream) /\ k \in Nat /\ k <= Len(stream)
  BY <1>3, <1>4 DEF MinOf
<1> DEFINE bytes == SubSeq(stream, 1, k)
           rest == SubSeq(stream, k + 1, Len(stream))
<1>6. bytes \in Seq(Byte)
  BY <1>3, <1>5, PrefixFacts
<1>7. /\ rest \in Seq(Byte) /\ bytes \o rest = stream
      /\ \A i \in DOMAIN rest : k + i \in DOMAIN stream /\ k + i > k /\ rest[i] = stream[k + i]
  BY <1>3, <1>5, SuffixFacts
<1>8. rest \in Seq(Byte) /\ bytes \o rest = stream
  BY <1>7
<1> DEFINE rights == Rights(bytes)
<1>9. rights \in Seq(Right)
  BY <1>6, RightsFacts
<1>10. \A f \in ToSet(rights) :
         /\ f \notin fdtable
         /\ sent[f[1]] >= 1
         /\ \A j \in DOMAIN stream : j > k => ~(stream[j].src = f[1] /\ stream[j].at = 1)
  BY <1>5, PrefixRights
<1>11. Deliver(r, bytes, rights, FALSE) /\ stream' = rest /\ drained' = drained \o bytes
       /\ rights = Rights(bytes)
  BY <1>1
<1> HIDE DEF bytes, rest, rights
<1>12. ToSet(rights) \cap fdtable = {}
  BY <1>10
<1>13. /\ RecvInv(Byte, Right)'
       /\ fdtable' \subseteq fdtable \cup ToSet(rights)
       /\ (\A q \in Receiver : Taken(q)') /\ ReceiptAccounted'
  BY <1>2, <1>6, <1>9, <1>11, <1>12, DeliverKeeps
<1>14. Entered' = Entered
  BY <1>3, <1>6, <1>8, <1>11, EnteredShift
<1>15. TypeOK'
  <2>1. drained' \in Seq(Byte) /\ stream' \in Seq(Byte)
    BY <1>3, <1>6, <1>7, <1>11, ConcatProperties
  <2>2. RecvTypeOK(Byte, Right)'
    BY <1>13 DEF RecvInv
  <2> QED
    BY <1>2, <2>1, <2>2 DEF IInv, TypeOK
<1>16. ASSUME NEW s \in Sender PROVE Called(s)' /\ Rides(s)'
  BY <1>2, <1>14, CalledUnchanged, RidesUnchanged DEF IInv
<1>17. NoSigpipe' /\ Suppressed'
  BY <1>2 DEF IInv, NoSigpipe, Suppressed
<1>18. FreshRights'
  <2> SUFFICES ASSUME NEW f \in fdtable'
               PROVE  /\ sent[f[1]] >= 1
                      /\ \A i \in DOMAIN rest : ~(rest[i].src = f[1] /\ rest[i].at = 1)
    BY <1>2, <1>11 DEF FreshRights
  <2>1. CASE f \in fdtable
    BY <1>7, <2>1 DEF IInv, FreshRights
  <2>2. CASE f \in ToSet(rights)
    BY <1>7, <1>10, <2>2
  <2> QED
    BY <1>13, <2>1, <2>2
<1> QED
  BY <1>13, <1>15, <1>16, <1>17, <1>18 DEF IInv

LEMMA RecvEofPreserves ==
    ASSUME IInv, NEW r \in Receiver, RecvEof(r)
    PROVE  IInv'
<1>1. rpc[r] = "recvmsg" /\ Deliver(r, <<>>, <<>>, FALSE) /\ UNCHANGED streamVars
  BY DEF RecvEof
<1>2. <<>> \in Seq(Byte) /\ <<>> \in Seq(Right) /\ ToSet(<<>>) = {}
  BY DEF ToSet
<1>3. /\ RecvInv(Byte, Right)' /\ fdtable' \subseteq fdtable \cup ToSet(<<>>)
      /\ (\A q \in Receiver : Taken(q)') /\ ReceiptAccounted'
  BY <1>1, <1>2, NoRights, DeliverKeeps
<1> QED
  BY <1>1, <1>2, <1>3, FrameFacts DEF IInv

LEMMA WouldBlockKeeps ==
    ASSUME IInv, UNCHANGED streamVars, NEW r \in Receiver, RecvWouldBlock(r)
    PROVE  IInv'
<1>1. RecvInv(Byte, Right)'
  BY WouldBlockPreserves DEF IInv
<1>2. rpc \in [Receiver -> {"idle", "recvmsg", "waiting", "parse", "core"}]
  BY RecvTypes DEF IInv, RecvInv
<1>3. rpc' = [rpc EXCEPT ![r] = "waiting"] /\ UNCHANGED <<msg, result, fdtable>>
  BY DEF RecvWouldBlock
<1>4. \A q \in Receiver : rpc'[q] \in {"parse", "core"} => rpc[q] \in {"parse", "core"}
  BY <1>2, <1>3
<1> QED
  BY <1>1, <1>3, <1>4, CallsUntouched, FrameFacts DEF IInv

LEMMA RetryKeeps ==
    ASSUME IInv, UNCHANGED streamVars, NEW r \in Receiver, RecvRetry(r)
    PROVE  IInv'
<1>1. RecvInv(Byte, Right)'
  BY RetryPreserves DEF IInv
<1>2. rpc \in [Receiver -> {"idle", "recvmsg", "waiting", "parse", "core"}]
  BY RecvTypes DEF IInv, RecvInv
<1>3. rpc' = [rpc EXCEPT ![r] = "recvmsg"] /\ UNCHANGED <<msg, result, fdtable>>
  BY DEF RecvRetry
<1>4. \A q \in Receiver : rpc'[q] \in {"parse", "core"} => rpc[q] \in {"parse", "core"}
  BY <1>2, <1>3
<1> QED
  BY <1>1, <1>3, <1>4, CallsUntouched, FrameFacts DEF IInv

\* A receive dropped at its await held nothing.
LEMMA CancelKeeps ==
    ASSUME IInv, UNCHANGED streamVars, NEW r \in Receiver, RecvCancel(r)
    PROVE  IInv'
<1>1. RecvInv(Byte, Right)'
  BY CancelPreserves DEF IInv
<1>2. /\ rpc \in [Receiver -> {"idle", "recvmsg", "waiting", "parse", "core"}]
      /\ msg \in [Receiver -> Received(Byte, Right)]
  BY RecvTypes DEF IInv, RecvInv
<1>3. /\ rpc[r] = "waiting" /\ rpc' = [rpc EXCEPT ![r] = "idle"]
      /\ msg' = [msg EXCEPT ![r] = NoMsg] /\ UNCHANGED <<result, fdtable>>
  BY DEF RecvCancel, Forget
<1>4. msg' = msg
  <2>1. msg[r] = NoMsg
    BY <1>3 DEF IInv, RecvInv, Phase
  <2> QED
    BY <1>2, <1>3, <2>1
<1>5. \A q \in Receiver : rpc'[q] \in {"parse", "core"} => rpc[q] \in {"parse", "core"}
  BY <1>2, <1>3
<1> QED
  BY <1>1, <1>3, <1>4, <1>5, CallsUntouched, FrameFacts DEF IInv

\* The steps of the receiving process alone.
LEMMA LocalKeeps ==
    ASSUME IInv, UNCHANGED streamVars, ReceiveLocal
    PROVE  IInv'
<1>1. ASSUME NEW r \in Receiver, CloexecFails(r) PROVE IInv'
  <2>1. RecvReturn(r, FALSE, <<>>, 0) /\ rpc[r] # "parse"
    BY <1>1 DEF CloexecFails
  <2> QED
    BY <2>1, ErrorKeeps
<1>2. ASSUME \/ \E f \in held : CloseHeld(f)
             \/ \E on \in BOOLEAN : set_passcred(on) \/ SetPasspidfd(on)
             \/ \E limit \in Nofile : setrlimit(limit)
      PROVE  IInv'
  <2>1. RecvInv(Byte, Right)' /\ fdtable' \subseteq fdtable
    BY LocalPreserves DEF IInv
  <2>2. UNCHANGED <<rpc, msg, result>>
    BY <1>2 DEF CloseHeld, set_passcred, SetPasspidfd, setrlimit, callVars
  <2> QED
    BY <2>1, <2>2, CallsUntouched, FrameFacts DEF IInv
<1>3. ASSUME NEW r \in Receiver, take_fds(r) PROVE IInv'
  <2>1. RecvInv(Byte, Right)'
    BY <1>3, TakeFdsPreserves DEF IInv
  <2>2. rpc \in [Receiver -> {"idle", "recvmsg", "waiting", "parse", "core"}]
    BY RecvTypes DEF IInv, RecvInv
  <2>3. /\ rpc[r] = "parse" /\ rpc' = [rpc EXCEPT ![r] = "core"]
        /\ UNCHANGED <<msg, result, fdtable>>
    BY <1>3 DEF take_fds
  <2>4. \A q \in Receiver : rpc'[q] \in {"parse", "core"} => rpc[q] \in {"parse", "core"}
    BY <2>2, <2>3
  <2> QED
    BY <2>1, <2>3, <2>4, CallsUntouched, FrameFacts DEF IInv
<1> QED
  BY <1>1, <1>2, <1>3, RetryKeeps, CancelKeeps, CoreKeeps DEF ReceiveLocal

\* The receiving socket is dropped with what it still holds.
LEMMA ClosePeerPreserves ==
    ASSUME IInv, ClosePeer
    PROVE  IInv'
<1>1. /\ peer' = "closed" /\ drained' = drained \o stream /\ stream' = <<>>
      /\ UNCHANGED <<spc, frame, sent, error, nosigpipe, killed, recvVars>>
  BY DEF ClosePeer, sendVars
<1>2. drained \in Seq(Byte) /\ stream \in Seq(Byte)
  BY DEF IInv, TypeOK
<1>3. drained' \in Seq(Byte) /\ Entered' = Entered
  BY <1>1, <1>2, ConcatProperties, ConcatEmptySeq DEF Entered
<1>4. stream' \in Seq(Byte) /\ DOMAIN stream' = {}
  BY <1>1
<1>5. RecvInv(Byte, Right)' /\ (\A r \in Receiver : Taken(r)') /\ ReceiptAccounted'
  BY <1>1, ReceiverUntouched
<1>6. ASSUME NEW s \in Sender PROVE Called(s)' /\ Rides(s)'
  BY <1>1, <1>3, CalledUnchanged, RidesUnchanged DEF IInv
<1>7. TypeOK'
  BY <1>1, <1>3, <1>4, <1>5 DEF IInv, TypeOK, RecvInv
<1>8. NoSigpipe' /\ Suppressed'
  BY <1>1 DEF IInv, NoSigpipe, Suppressed
<1>9. FreshRights'
  BY <1>1, <1>4 DEF IInv, FreshRights, recvVars
<1> QED
  BY <1>5, <1>6, <1>7, <1>8, <1>9 DEF IInv

-----------------------------------------------------------------------------
(* The invariant.                                                          *)

LEMMA InitEstablishes ==
    ASSUME Init
    PROVE  IInv
<1>1. RecvInv(Byte, Right)
  BY RecvInitEstablishes DEF Init
<1>2. TypeOK
  <2>1. <<>> \in Seq(Byte) /\ "none" \in Errors
    BY DEF Errors
  <2>2. \A s \in Sender : sent[s] <= frame[s].len
    BY DEF Init, NoFrame
  <2> QED
    BY <1>1, <2>1, <2>2 DEF Init, TypeOK, RecvInv
<1>3. NoSigpipe /\ Suppressed
  BY DEF Init, NoSigpipe, Suppressed
<1>4. ASSUME NEW s \in Sender PROVE Called(s)
  BY DEF Init, Called, Sending
<1>5. ASSUME NEW s \in Sender PROVE Rides(s)
  <2>1. <<>> \o <<>> = <<>> /\ DOMAIN <<>> = {}
    OBVIOUS
  <2>2. Places(s) = {} /\ sent[s] = 0
    BY <2>1 DEF Init, Places, Entered
  <2>3. 1 .. sent[s] = {}
    BY <2>2
  <2> QED
    BY <2>2, <2>3 DEF Rides
<1>6. FreshRights
  BY DEF Init, RecvInit, FreshRights
<1>7. \A r \in Receiver : Taken(r)
  BY DEF Init, RecvInit, Taken
<1>8. ReceiptAccounted
  BY DEF Init, RecvInit, ReceiptAccounted, NoResult
<1> QED
  BY <1>1, <1>2, <1>3, <1>4, <1>5, <1>6, <1>7, <1>8 DEF IInv

LEMMA NextPreserves ==
    ASSUME IInv, [Next]_vars
    PROVE  IInv'
<1>1. ASSUME NEW s \in Sender, NEW f \in Frame, SendCall(s, f) PROVE IInv'
  BY <1>1, SendCallPreserves
<1>2. ASSUME NEW s \in Sender, prepare_send(s) \/ sendmsg(s) PROVE IInv'
  BY <1>2, PreparePreserves, SendmsgPreserves
<1>3. ASSUME NEW s \in Sender, SendPeerClosed(s) \/ SendCancel(s) PROVE IInv'
  BY <1>3, PeerClosedPreserves, CancelSendPreserves
<1>4. ASSUME NEW s \in Sender, SendTooMany(s) \/ SendFails(s) PROVE IInv'
  <2>1. /\ Return(s, "kernel")
        /\ UNCHANGED <<frame, sent, nosigpipe, killed, stream, drained, peer, recvVars>>
    BY <1>4 DEF SendTooMany, SendFails
  <2> QED
    BY <2>1, StillAlive, FailurePreserves
<1>5. ASSUME NEW r \in Receiver, NEW m \in Mode, RecvCall(r, m), UNCHANGED streamVars
      PROVE  IInv'
  BY <1>5, RecvCallKeeps
<1>6. ASSUME NEW r \in Receiver, RecvMsg(r) \/ RecvEof(r) PROVE IInv'
  BY <1>6, RecvMsgPreserves, RecvEofPreserves
<1>7. ASSUME NEW r \in Receiver, RecvNothing(r) PROVE IInv'
  <2>1. /\ UNCHANGED streamVars
        /\ \/ rpc[r] # "parse" /\ RecvReturn(r, FALSE, <<>>, 0)
           \/ RecvWouldBlock(r)
    BY <1>7 DEF RecvNothing, RecvFails
  <2> QED
    BY <2>1, ErrorKeeps, WouldBlockKeeps
<1>8. ASSUME ReceiveLocal, UNCHANGED streamVars PROVE IInv'
  BY <1>8, LocalKeeps
<1>9. ASSUME ClosePeer PROVE IInv'
  BY <1>9, ClosePeerPreserves
<1>10. ASSUME UNCHANGED vars PROVE IInv'
  <2>1. UNCHANGED streamVars /\ UNCHANGED recvVars /\ fdtable' = fdtable
    BY <1>10 DEF vars, recvVars
  <2> QED
    BY <2>1, ReceiverUntouched, FrameFacts DEF IInv
<1> QED
  BY <1>1, <1>2, <1>3, <1>4, <1>5, <1>6, <1>7, <1>8, <1>9, <1>10 DEF Next, SendStep

\* The inductive invariant holds in every reachable state.
THEOREM Invariance == Spec => []IInv
<1>1. Init => IInv
  BY InitEstablishes
<1>2. IInv /\ [Next]_vars => IInv'
  BY NextPreserves
<1> QED
  BY <1>1, <1>2, PTL DEF Spec

\* Type correctness of both ends and of what is between them (TypeOK).
THEOREM TypeCorrect == Spec => []TypeOK
<1>1. IInv => TypeOK
  BY DEF IInv
<1> QED
  BY <1>1, Invariance, PTL

\* Whichever of its returns a receive on a stream takes, no descriptor it was
\* told of and no pidfd stays open without an owner; only where the kernel
\* installs descriptors it does not report may others be open (NoDescriptorLeak).
THEOREM NothingLeaks == Spec => []NoDescriptorLeak
<1>1. IInv => NoDescriptorLeak
  BY DEF IInv, RecvInv
<1> QED
  BY <1>1, Invariance, PTL

\* A receive is truncated only because the process is out of descriptors, or
\* because the message needs more room besides credentials than the larger of N
\* and HARD_FLOOR descriptors do, a pidfd counted, whatever SO_PASSCRED,
\* SO_PASSPIDFD and RLIMIT_NOFILE become during the receive (BudgetSuffices).
THEOREM StorageSuffices == Spec => []BudgetSuffices
<1>1. IInv => BudgetSuffices
  BY DEF IInv, RecvInv
<1> QED
  BY <1>1, Invariance, PTL

\* The descriptors of a frame ride on its first byte, once, however the partial
\* sends of several tasks interleave and wherever one fails or is dropped
\* (RightsRideOnce).
THEOREM DescriptorsRideOnce == Spec => []RightsRideOnce
<1>1. IInv => RightsRideOnce
  BY PartsSuffice
<1> QED
  BY <1>1, Invariance, PTL

\* When send_fds_all returns Ok the whole payload and every descriptor are on
\* the stream, and a refused argument put nothing there (OkIsComplete).
THEOREM OkMeansSent == Spec => []OkIsComplete
<1>1. IInv => OkIsComplete
  BY PartsSuffice
<1> QED
  BY <1>1, Invariance, PTL

\* A successful receive accounts for every right of the bytes it consumed
\* (ReceiptAccounted).
THEOREM RightsAreAccounted == Spec => []ReceiptAccounted
<1>1. IInv => ReceiptAccounted
  BY DEF IInv
<1> QED
  BY <1>1, Invariance, PTL

\* Where a send can be protected from SIGPIPE, a peer that closes between the
\* option call and the send it protects raises no signal (NoSigpipe).
THEOREM NoSignal == Spec => []NoSigpipe
<1>1. IInv => NoSigpipe
  BY DEF IInv
<1> QED
  BY <1>1, Invariance, PTL

=============================================================================
