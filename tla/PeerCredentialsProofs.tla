----------------------- MODULE PeerCredentialsProofs ------------------------
(***************************************************************************)
(* Whose credentials a receiver reads, for any number of processes, any    *)
(* claims, any sizes of control storage and any length of the queue.       *)
(***************************************************************************)
EXTENDS PeerCredentials, CmsgLayoutProofs, SequenceTheorems, FiniteSetTheorems,
        TLAPS

Credentials == [pid : Nat, uid : Nat, gid : Nat]
Ucred == Nat \X Nat \X Nat

Message == [from : Process, fds : 0 .. MaxFds, claimed : BOOLEAN, on : BOOLEAN,
            truth : Credentials, privileged : BOOLEAN, ucred : Ucred \cup {NoUcred}]

\* What the kernel attaches is the sender's identity at the send, or the claim
\* of a privileged one; nothing at all only without SO_PASSCRED and without a
\* claim.
Genuine ==
    {m \in Message :
       /\ m.ucred # NoUcred => m.ucred = to_ucred(m.truth) \/ (m.claimed /\ m.privileged)
       /\ m.ucred = NoUcred => ~m.on /\ ~m.claimed}

\* The inductive invariant.  Both properties are about the message of the last
\* receive, and hold of it if every message waiting in the kernel is genuine,
\* whatever its sender became since then.
IInv ==
    /\ ident \in [Process -> {RootId, UserId}]
    /\ out \in [Process -> [ucred : Ucred \cup {NoUcred}, fds : 0 .. MaxFds]]
    /\ passcred \in BOOLEAN
    /\ queue \in Seq(Genuine)
    /\ NoImpersonation
    /\ AttributedInTime

-----------------------------------------------------------------------------

LEMMA Identity ==
    ASSUME NEW p \in Process, ident \in [Process -> {RootId, UserId}]
    PROVE  /\ for_this_process(p) \in Credentials
           /\ to_ucred(for_this_process(p)) \in Ucred
<1>1. ident[p].uid \in Nat /\ ident[p].gid \in Nat /\ Pid[p] \in Nat
  BY CredentialsAssumption
<1> QED
  BY <1>1 DEF for_this_process, new, to_ucred, Credentials, Ucred

\* The conversion to struct ucred and back loses nothing.
LEMMA UcredRoundTrip ==
    ASSUME NEW c \in Credentials
    PROVE  /\ to_ucred(c) \in Ucred
           /\ to_ucred(c) # NoUcred
           /\ from_ucred(to_ucred(c)) = c
BY DEF Credentials, Ucred, to_ucred, from_ucred, new, NoUcred

\* The kernel's check makes every message it takes genuine.
LEMMA SentIsGenuine ==
    ASSUME IInv, NEW p \in Process,
           out[p].ucred = NoUcred \/ MayClaim(p, out[p].ucred)
    PROVE  Attached(p, out[p].ucred) \in Genuine
<1> DEFINE m == Attached(p, out[p].ucred)
           me == for_this_process(p)
<1>1. me \in Credentials /\ to_ucred(me) \in Ucred /\ to_ucred(me) # NoUcred
  BY Identity, UcredRoundTrip DEF IInv
<1>2. out[p].ucred \in Ucred \cup {NoUcred} /\ out[p].fds \in 0 .. MaxFds
  BY DEF IInv
<1>3. /\ m.truth = me /\ m.on = passcred /\ m.privileged = (ident[p] = RootId)
      /\ m.claimed = (out[p].ucred # NoUcred)
      /\ m.ucred = IF out[p].ucred # NoUcred THEN out[p].ucred
                   ELSE IF passcred THEN to_ucred(me) ELSE NoUcred
  BY DEF Attached
<1>4. m \in Message
  <2> HIDE DEF me
  <2>1. passcred \in BOOLEAN
    BY DEF IInv
  <2> QED
    BY <1>1, <1>2, <2>1 DEF Attached, Message, me
<1>5. m.ucred # NoUcred => m.ucred = to_ucred(m.truth) \/ (m.claimed /\ m.privileged)
  BY <1>3 DEF MayClaim
<1>6. m.ucred = NoUcred => ~m.on /\ ~m.claimed
  <2> HIDE DEF me
  <2> QED
    BY <1>1, <1>3
<1> QED
  BY <1>4, <1>5, <1>6 DEF Genuine

\* What a receive of a genuine message returns.
LEMMA ReceivedIsGenuine ==
    ASSUME IInv, NEW size, NEW lowLevel \in BOOLEAN, lowLevel => size \in Nat,
           Recv(size, lowLevel)
    PROVE  NoImpersonation' /\ AttributedInTime' /\ queue' \in Seq(Genuine)
<1> DEFINE m == Head(queue)
           u == IF m.ucred = NoUcred THEN Placeholder ELSE m.ucred
           room == Room(size, passcred)
           cut == (passcred /\ Held(size) < UcredSize) \/ room < m.fds
<1>1. queue # <<>> /\ queue \in Seq(Genuine) /\ queue' = Tail(queue)
  BY DEF IInv, Recv
<1>2. m \in Genuine /\ queue' \in Seq(Genuine)
  BY <1>1, HeadTailProperties
<1>3. m.truth \in Credentials /\ m.fds \in Nat /\ m \in Message
  BY <1>2, CredentialsAssumption DEF Genuine, Message
<1>4. /\ got'.creds = IF passcred /\ lowLevel THEN credentials(u, size) ELSE {}
      /\ got'.fds = IF lowLevel THEN MinOf(room, m.fds) ELSE IF cut THEN 0 ELSE m.fds
      /\ got'.truncated = (cut \/ ~lowLevel)
      /\ got'.on = passcred
      /\ got'.msg = m
  BY DEF Recv
<1>5. m.ucred # NoUcred => from_ucred(u) = m.truth \/ (m.claimed /\ m.privileged)
  <2>1. from_ucred(to_ucred(m.truth)) = m.truth
    BY <1>3, UcredRoundTrip
  <2> QED
    BY <1>2, <2>1 DEF Genuine
<1>6. m.ucred = NoUcred => u = Placeholder /\ ~m.on /\ ~m.claimed
  BY <1>2 DEF Genuine
<1> HIDE DEF m, u, room, cut
<1>7. \A c \in got'.creds : c = from_ucred(u)
  BY <1>4 DEF credentials
<1>8. NoImpersonation'
  BY <1>4, <1>5, <1>6, <1>7 DEF NoImpersonation
<1>9. got'.msg.on /\ got'.on /\ ~got'.truncated =>
        /\ got'.fds = got'.msg.fds
        /\ Cardinality(got'.creds) = 1
        /\ got'.msg.privileged \/ got'.creds = {got'.msg.truth}
  <2> SUFFICES ASSUME m.on, passcred, lowLevel, ~cut
               PROVE  /\ got'.fds = m.fds
                      /\ Cardinality(got'.creds) = 1
                      /\ m.privileged \/ got'.creds = {m.truth}
    BY <1>4
  <2>1. room \in Int /\ ~(room < m.fds) /\ ~(Held(size) < UcredSize)
    <3>1. room \in Int
      <4> DEFINE left == Left(size, passcred) - header_len
      <4>1. CMSG_SPACE(UcredSize) \in Nat /\ header_len \in Nat /\ FdSize \in Nat \ {0}
        BY LayoutAssumption, CmsgSpaceNat, HeaderLenBounds
      <4>2. size \in Int
        OBVIOUS
      <4>3. left \in Int
        BY <4>1, <4>2 DEF Left
      <4> HIDE DEF left
      <4>4. left \div FdSize \in Int
        BY <4>1, <4>3
      <4>5. room = MaxOf(0, left \div FdSize)
        BY DEF room, Room, left
      <4> QED
        BY <4>4, <4>5 DEF MaxOf
    <3> QED
      BY <3>1 DEF cut
  <2>2. got'.fds = m.fds
    BY <1>3, <1>4, <2>1 DEF MinOf
  <2>3. got'.creds = {from_ucred(u)}
    BY <1>4, <2>1 DEF credentials
  <2>4. Cardinality(got'.creds) = 1
    BY <2>3, FS_Singleton
  <2> QED
    BY <1>5, <1>6, <2>2, <2>3, <2>4
<1>10. ~got'.on => got'.creds = {}
  BY <1>4
<1> QED
  BY <1>2, <1>8, <1>9, <1>10 DEF AttributedInTime

-----------------------------------------------------------------------------

LEMMA InitEstablishes == Init => IInv
<1> SUFFICES ASSUME Init PROVE IInv
  OBVIOUS
<1>1. out \in [Process -> [ucred : Ucred \cup {NoUcred}, fds : 0 .. MaxFds]]
  BY CredentialsAssumption DEF Init
<1>2. queue \in Seq(Genuine)
  BY DEF Init
<1>3. NoImpersonation /\ AttributedInTime
  BY DEF Init, NothingReceived, NoImpersonation, AttributedInTime
<1> QED
  BY <1>1, <1>2, <1>3 DEF Init, IInv

LEMMA StepPreserves == IInv /\ [Next]_vars => IInv'
<1> SUFFICES ASSUME IInv, [Next]_vars PROVE IInv'
  OBVIOUS
<1>1. ASSUME UNCHANGED got PROVE NoImpersonation' /\ AttributedInTime'
  BY <1>1 DEF IInv, NoImpersonation, AttributedInTime
<1>2. ASSUME NEW p \in Process, NEW n \in 0 .. MaxFds, Build(p, Claims(p), n)
      PROVE  IInv'
  <2>1. Claims(p) \subseteq Ucred \cup {NoUcred}
    <3>1. \A c \in Claim : to_ucred(c) \in Ucred
      BY UcredRoundTrip, CredentialsAssumption DEF Credentials
    <3> QED
      BY <3>1, Identity DEF Claims, IInv
  <2>2. out' \in [Process -> [ucred : Ucred \cup {NoUcred}, fds : 0 .. MaxFds]]
    BY <1>2, <2>1 DEF Build, IInv
  <2> QED
    BY <1>1, <1>2, <2>2 DEF Build, IInv
<1>3. ASSUME NEW p \in Process, cmsg_sendmsg(p)
      PROVE  IInv'
  <2>1. queue' \in Seq(Genuine)
    BY <1>3, SentIsGenuine, AppendProperties DEF cmsg_sendmsg, IInv
  <2> QED
    BY <1>1, <1>3, <2>1 DEF cmsg_sendmsg, IInv
<1>4. ASSUME NEW p \in Process, DropPrivileges(p)
      PROVE  IInv'
  BY <1>1, <1>4 DEF DropPrivileges, IInv
<1>5. ASSUME NEW on \in BOOLEAN, set_passcred(on)
      PROVE  IInv'
  BY <1>1, <1>5 DEF set_passcred, IInv
<1>6. ASSUME NEW size, NEW lowLevel \in BOOLEAN, lowLevel => size \in Nat,
             Recv(size, lowLevel)
      PROVE  IInv'
  <2>1. UNCHANGED <<ident, out, passcred>>
    BY <1>6 DEF Recv
  <2> QED
    BY <1>6, <2>1, ReceivedIsGenuine DEF IInv
<1>7. CASE cmsg_recvmsg
  BY <1>6, <1>7, CredentialsAssumption DEF cmsg_recvmsg
<1>8. CASE recv_fds
  BY <1>6, <1>8 DEF recv_fds
<1>9. CASE UNCHANGED vars
  BY <1>1, <1>9 DEF vars, IInv
<1> QED
  BY <1>2, <1>3, <1>4, <1>5, <1>7, <1>8, <1>9 DEF Next

THEOREM Invariance == Spec => []IInv
BY InitEstablishes, StepPreserves, PTL DEF Spec

\* No process passes for another: what a receiver reads is the identity its
\* sender had at the send, a claim of a privileged sender, or the placeholder
\* of a message that went out without SO_PASSCRED (ScmCredentials).
THEOREM CredentialsAreGenuine == Spec => []NoImpersonation
<1>1. IInv => NoImpersonation
  BY DEF IInv
<1> QED
  BY <1>1, Invariance, PTL

\* set_passcred in time: a message sent and received under it is attributed.
THEOREM CredentialsArriveInTime == Spec => []AttributedInTime
<1>1. IInv => AttributedInTime
  BY DEF IInv
<1> QED
  BY <1>1, Invariance, PTL

=============================================================================
