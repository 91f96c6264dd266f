-------------------------- MODULE PeerCredentials --------------------------
(***************************************************************************)
(* Who sent a message: SCM_CREDENTIALS on a socket that several processes  *)
(* write to (credentials.rs, and the credentials half of ancillary.rs).    *)
(* Linux only.                                                             *)
(*                                                                         *)
(* A process fills a SocketAncillary, with or without a claim, and sends   *)
(* it, perhaps again later; in between it may drop its privileges.  The    *)
(* kernel checks a claim, or attaches the sender's identity by itself if   *)
(* SO_PASSCRED is on at that moment.  At the receive it hands over what is *)
(* attached if SO_PASSCRED is on then, with a placeholder if nothing is.   *)
(***************************************************************************)
EXTENDS ReceiveBudget, Sequences, FiniteSets

CONSTANTS
    Process,        \* processes writing to the socket
    Pid,            \* their process ids
    RootId, UserId, \* ids before and after dropping privileges: [uid, gid]
    Overflow,       \* overflow uid and gid
    Claim,          \* what may be passed to ScmCredentials::new
    ControlSizes,   \* control storage of callers of cmsg_recvmsg
    MaxFds,         \* bound: descriptors in a message
    MaxSends        \* bound: messages sent

ASSUME CredentialsAssumption ==
    /\ Pid \in [Process -> Nat \ {0}]
    /\ {RootId, UserId} \subseteq [uid : Nat, gid : Nat]
    /\ Claim \subseteq [pid : Nat, uid : Nat, gid : Nat]
    /\ ControlSizes \subseteq Nat
    /\ {Overflow, MaxFds, MaxSends} \subseteq Nat
    /\ Linux

VARIABLES
    ident,      \* ids of each process: RootId is privileged
    out,        \* the SocketAncillary of each process: [ucred, fds]
    passcred,   \* SO_PASSCRED of the receiving socket
    queue,      \* messages in the kernel: [from, ucred, fds] and, as ghosts,
                \*   claimed, on (SO_PASSCRED), truth (who sent it)
    sends,      \* how many messages have been sent
    got         \* what the last receive returned; no or one ScmCredentials

vars == <<ident, out, passcred, queue, sends, got>>

NoUcred == <<>>
NothingReceived == [creds |-> {}, fds |-> 0, truncated |-> TRUE, on |-> FALSE,
                    msg |-> [on |-> FALSE]]

Init ==
    /\ ident \in [Process -> {RootId, UserId}]
    /\ out = [p \in Process |-> [ucred |-> NoUcred, fds |-> 0]]
    /\ passcred \in BOOLEAN
    /\ queue = <<>> /\ sends = 0
    /\ got = NothingReceived

-----------------------------------------------------------------------------
(* Values.                                                                 *)

\* ScmCredentials::new: nothing is validated.
new(pid, uid, gid) == [pid |-> pid, uid |-> uid, gid |-> gid]

\* The values a process may always send.
for_this_process(p) == new(Pid[p], ident[p].uid, ident[p].gid)

\* to_ucred: the fields of struct ucred in their order in memory.
to_ucred(c) == <<c.pid, c.uid, c.gid>>

\* Mutant of from_ucred: the ids in the wrong order.
from_ucred_swapped(u) == new(u[1], u[3], u[2])

\* from_ucred.
from_ucred(u) == new(u[1], u[2], u[3])

\* What the kernel reports for a message it attached nothing to.
Placeholder == <<0, Overflow, Overflow>>

\* The kernel's check of a claim: CAP_SYS_ADMIN and CAP_SETUID, CAP_SETGID, or
\* the process's own values.
MayClaim(p, u) == ident[p] = RootId \/ u = to_ucred(for_this_process(p))

-----------------------------------------------------------------------------
(* Sending.                                                                *)

\* A process fills its SocketAncillary anew, with add_fds if there are
\* descriptors and add_credentials if there is a claim.
Build(p, claims, n) ==
    /\ \E c \in claims : out' = [out EXCEPT ![p] = [ucred |-> c, fds |-> n]]
    /\ UNCHANGED <<ident, passcred, queue, sends, got>>

\* The claims it can choose from.
Claims(p) == {NoUcred, to_ucred(for_this_process(p))} \cup {to_ucred(c) : c \in Claim}

\* The message of p, if the kernel takes it.
Attached(p, ucred) ==
    [from |-> p, fds |-> out[p].fds, claimed |-> ucred # NoUcred, on |-> passcred,
     truth |-> for_this_process(p), privileged |-> ident[p] = RootId,
     ucred |-> IF ucred # NoUcred THEN ucred
               ELSE IF passcred THEN to_ucred(for_this_process(p)) ELSE NoUcred]

\* cmsg_sendmsg with what was added; the buffer can be sent again.  A claim the
\* kernel rejects fails the whole call with EPERM: nothing is queued.
cmsg_sendmsg(p) ==
    /\ sends < MaxSends
    /\ out[p].ucred = NoUcred \/ MayClaim(p, out[p].ucred)
    /\ queue' = Append(queue, Attached(p, out[p].ucred))
    /\ sends' = sends + 1
    /\ UNCHANGED <<ident, out, passcred, got>>

\* setuid and setgid give up the privileges for good.
DropPrivileges(p) ==
    /\ ident[p] = RootId
    /\ ident' = [ident EXCEPT ![p] = UserId]
    /\ UNCHANGED <<out, passcred, queue, sends, got>>

-----------------------------------------------------------------------------
(* Receiving.                                                              *)

\* set_passcred.
set_passcred(on) ==
    /\ passcred' = on
    /\ UNCHANGED <<ident, out, queue, sends, got>>

\* Bytes of the credentials' payload that a control buffer of this size holds.
Held(size) == MaxOf(0, MinOf(UcredSize, size - header_len))

\* Mutant of credentials: the length of the payload is not checked, and the
\* bytes that are missing read as zero.
credentials_unchecked(u, size) ==
    {from_ucred(IF Held(size) < UcredSize THEN [u EXCEPT ![3] = 0] ELSE u)}

\* RawMessage::credentials: None for a payload shorter than a ucred.
credentials(u, size) == IF Held(size) < UcredSize THEN {} ELSE {from_ucred(u)}

\* The oldest message is received with control storage of this size; the
\* kernel writes credentials before rights.  recv_fds uses none of the
\* former and fails if anything was truncated.
Recv(size, lowLevel) ==
    /\ queue # <<>>
    /\ LET m == Head(queue)
           u == IF m.ucred = NoUcred THEN Placeholder ELSE m.ucred
           room == Room(size, passcred)
           cut == (passcred /\ Held(size) < UcredSize) \/ room < m.fds
       IN got' = [creds |-> IF passcred /\ lowLevel THEN credentials(u, size) ELSE {},
                  fds |-> IF lowLevel THEN MinOf(room, m.fds) ELSE IF cut THEN 0 ELSE m.fds,
                  truncated |-> cut \/ ~lowLevel,
                  on |-> passcred, msg |-> m]
    /\ queue' = Tail(queue)
    /\ UNCHANGED <<ident, out, passcred, sends>>

\* cmsg_recvmsg and messages().
cmsg_recvmsg == \E size \in ControlSizes : Recv(size, TRUE)

\* recv_fds, with the storage recv_core asks for.
recv_fds == Recv(ControlSize(MaxFds, NoLimit), FALSE)

Next ==
    \/ \E p \in Process :
         \/ \E n \in 0 .. MaxFds : Build(p, Claims(p), n)
         \/ cmsg_sendmsg(p) \/ DropPrivileges(p)
    \/ \E on \in BOOLEAN : set_passcred(on)
    \/ cmsg_recvmsg
    \/ recv_fds

Spec == Init /\ [][Next]_vars

-----------------------------------------------------------------------------
(* Properties.                                                             *)

\* "A received value is trustworthy in a way the payload is not, as long as
\* SO_PASSCRED was on when the peer sent the message" (ScmCredentials): what a
\* receiver reads is who sent the message, at that time, or a claim of a
\* privileged sender.  Otherwise it is the placeholder, and then the option was
\* off at the send; truncated storage never yields values of its own.
NoImpersonation ==
    \A c \in got.creds :
        \/ c = got.msg.truth
        \/ got.msg.claimed /\ got.msg.privileged
        \/ c = from_ucred(Placeholder) /\ ~got.msg.on /\ ~got.msg.claimed

\* "Credentials only arrive on a socket that has this set, and it must be set
\* before the peer sends" (set_passcred): with the option on at the send and at
\* the receive, an untruncated message is attributed, to its real sender unless
\* that one is privileged and claimed otherwise; with the option off, no
\* message is.
AttributedInTime ==
    /\ got.msg.on /\ got.on /\ ~got.truncated =>
         /\ got.fds = got.msg.fds
         /\ Cardinality(got.creds) = 1
         /\ got.msg.privileged \/ got.creds = {got.msg.truth}
    /\ ~got.on => got.creds = {}

=============================================================================
