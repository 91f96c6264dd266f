----------------------------- MODULE Ancillary ------------------------------
(***************************************************************************)
(* SocketAncillary and the low-level API built on it (cmsg_sendmsg,        *)
(* cmsg_recvmsg, cmsg_recvmsg_peek), for several buffers used by the       *)
(* threads of one process over one descriptor table.  The socket is one    *)
(* queue of messages; its kernel side is external.                         *)
(*                                                                         *)
(* Every descriptor of the process that somebody is responsible for is one *)
(* record of `descs`, and its life is a change of place and stage:         *)
(*   raw    installed by recvmsg, an integer in the control buffer         *)
(*   held   an OwnedFd in the buffer's list of received messages           *)
(*   iter   an OwnedFd in a ScmRights iterator that the caller holds       *)
(*   owned  an OwnedFd of the caller                                       *)
(* A receive is several steps, between which other threads run: clear the  *)
(* buffer, the system call, one step per control message parsed, one fcntl *)
(* per descriptor where the kernel has no MSG_CMSG_CLOEXEC, the return.    *)
(* A kernel that installs descriptors it does not report (Apple) leaves    *)
(* numbers open that nobody in the process knows: `unseen`.                *)
(***************************************************************************)
EXTENDS CmsgLayout, Sequences, FiniteSets

CONSTANTS
    Fd,             \* descriptor numbers
    Resource,       \* open files
    Closed,         \* the table's entry for a free number
    PidFile,        \* the resource an SCM_PIDFD descriptor names
    Buffer,         \* SocketAncillary objects
    Caller,         \* the place of a descriptor the caller owns
    Capacity,       \* buffer.len()
    AtomicCloexec,  \* the kernel has MSG_CMSG_CLOEXEC
    Linux,          \* credentials, MSG_PEEK and SCM_PIDFD exist
    SplitRights,    \* the kernel may deliver two SCM_RIGHTS messages
    InstallsOmitted,\* the kernel may install descriptors it does not report
    MaxBatch,       \* bound: descriptors of one add_fds call
    MaxWire,        \* bound: descriptors of one send
    MaxQueue        \* bound: messages queued on the socket

ASSUME AncillaryAssumption ==
    /\ Closed \notin Resource
    /\ PidFile \in Resource
    /\ Caller \notin Buffer
    /\ Capacity \in Nat
    /\ AtomicCloexec \in BOOLEAN
    /\ Linux \in BOOLEAN
    /\ SplitRights \in BOOLEAN
    /\ InstallsOmitted \in BOOLEAN /\ (Linux => ~InstallsOmitted)
    /\ MaxBatch \in Nat
    /\ MaxWire \in Nat
    /\ MaxQueue \in Nat

VARIABLES
    table,          \* the process's descriptor table
    cloexec,        \* descriptors with FD_CLOEXEC
    descs,          \* every descriptor somebody must close
    unseen,         \* descriptors the kernel installed and did not report
    receive_mode,   \* SocketAncillary.receive_mode
    length,         \* SocketAncillary.length
    truncated,      \* SocketAncillary.truncated
    received,       \* numbers of the messages in SocketAncillary.received
    wire,           \* the rights encoded in buffer[..length]
    borrowed,       \* descriptors the buffer's lifetime borrows
    pc,             \* what the thread using the buffer is doing
    control,        \* control messages take_received_into has not parsed
    ret,            \* RecvMsgResult of the receive in progress
    outcome,        \* what the last receive returned to the caller
    lost,           \* ghost: the kernel dropped a descriptor of the message
    queue           \* messages queued on the socket

bufVars == <<receive_mode, length, truncated, received, wire, borrowed>>
callVars == <<pc, control, ret, outcome, lost>>
fdVars == <<table, cloexec, descs, unseen>>
vars == <<fdVars, bufVars, callVars, queue>>

-----------------------------------------------------------------------------
(* Control messages are numbered in the order the kernel writes them.      *)

Kind == <<"creds", "rights", "rights", "pidfd">>
MessageNo == DOMAIN Kind
RightsNo == {n \in MessageNo : Kind[n] = "rights"}
PidfdNo == 4

Stage == {"raw", "held", "iter", "owned"}

Desc == [fd : Fd, res : Resource, at : Buffer \cup {Caller}, stage : Stage,
         msg : MessageNo, pos : Nat]

\* An element of the wire: the number written, and the open file it named.
WireFd == [fd : Fd, res : Resource]

\* An element of a queued message: the open file the kernel took a reference
\* to, and (ghost) the one the sender passed to add_fds.
Passed == [res : Resource, meant : Resource]

TypeOK ==
    /\ table \in [Fd -> Resource \cup {Closed}]
    /\ cloexec \subseteq Fd
    /\ descs \subseteq Desc
    /\ unseen \subseteq Fd
    /\ receive_mode \in [Buffer -> BOOLEAN]
    /\ length \in [Buffer -> 0 .. Capacity]
    /\ truncated \in [Buffer -> BOOLEAN]
    /\ received \in [Buffer -> SUBSET MessageNo]
    /\ wire \in [Buffer -> Seq(WireFd)]
    /\ borrowed \in [Buffer -> SUBSET Fd]
    /\ pc \in [Buffer -> {"idle", "recv", "peek", "take", "cloexec", "drain"}]
    /\ control \in [Buffer -> SUBSET MessageNo]
    /\ ret \in [Buffer -> [len : 0 .. Capacity, trunc : BOOLEAN]]
    /\ outcome \in [Buffer -> {"none", "ok", "err"}]
    /\ lost \in [Buffer -> BOOLEAN]
    /\ queue \in Seq(Seq(Passed))

NoRet == [len |-> 0, trunc |-> FALSE]

Init ==
    /\ table = [f \in Fd |-> Closed]
    /\ cloexec = {}
    /\ descs = {}
    /\ unseen = {}
    /\ receive_mode = [b \in Buffer |-> FALSE]
    /\ length = [b \in Buffer |-> 0]
    /\ truncated = [b \in Buffer |-> FALSE]
    /\ received = [b \in Buffer |-> {}]
    /\ wire = [b \in Buffer |-> <<>>]
    /\ borrowed = [b \in Buffer |-> {}]
    /\ pc = [b \in Buffer |-> "idle"]
    /\ control = [b \in Buffer |-> {}]
    /\ ret = [b \in Buffer |-> NoRet]
    /\ outcome = [b \in Buffer |-> "none"]
    /\ lost = [b \in Buffer |-> FALSE]
    /\ queue = <<>>

-----------------------------------------------------------------------------
(* Descriptors.                                                            *)

At(b, stage) == {d \in descs : d.at = b /\ d.stage = stage}
FdsOf(S) == {d.fd : d \in S}
Free == {f \in Fd : table[f] = Closed}

\* Drop the OwnedFds of S: their numbers are free for anybody to reuse.
Drop(S) ==
    /\ table' = [f \in Fd |-> IF f \in FdsOf(S) THEN Closed ELSE table[f]]
    /\ cloexec' = cloexec \ FdsOf(S)
    /\ descs' = descs \ S
    /\ UNCHANGED unseen

\* The same descriptor in another place and stage.
InPlace(d, at, stage) == [fd |-> d.fd, res |-> d.res, at |-> at,
                          stage |-> stage, msg |-> d.msg, pos |-> d.pos]

\* A descriptor of the caller's.
Owned(f, r) == [fd |-> f, res |-> r, at |-> Caller, stage |-> "owned",
                msg |-> 1, pos |-> 0]

\* Move the OwnedFds of S to another place and stage.
Move(S, at, stage) ==
    /\ descs' = (descs \ S) \cup {InPlace(d, at, stage) : d \in S}
    /\ UNCHANGED <<table, cloexec, unseen>>

\* The borrow checker's condition for a call that takes &mut SocketAncillary:
\* no call is running and neither a Messages nor a ScmRights borrows it.
Usable(b) == pc[b] = "idle" /\ At(b, "iter") = {}

-----------------------------------------------------------------------------
(* The caller.                                                             *)

\* The caller opens a file (close-on-exec, as std does).
Open(f, r) ==
    /\ f \in Free
    /\ table' = [table EXCEPT ![f] = r]
    /\ cloexec' = cloexec \cup {f}
    /\ descs' = descs \cup {Owned(f, r)}
    /\ UNCHANGED <<unseen, bufVars, callVars, queue>>

\* Descriptors the lifetime parameter of some buffer keeps borrowed.
Lent == UNION {borrowed[b] : b \in Buffer}

\* Mutant of CloseOwned: descriptors are not borrowed by the send buffer.
CloseOwnedUnborrowed(d) ==
    /\ d.at = Caller
    /\ Drop({d})
    /\ UNCHANGED <<bufVars, callVars, queue>>

\* The caller drops an OwnedFd, which the borrow checker lets it do only when
\* no live buffer borrows it.
CloseOwned(d) ==
    /\ d.at = Caller
    /\ d.fd \notin Lent
    /\ Drop({d})
    /\ UNCHANGED <<bufVars, callVars, queue>>

-----------------------------------------------------------------------------
(* Building and sending a message.                                         *)

\* Mutant of CanReserve: the end of the message is not compared with the
\* buffer's length.
CanReserveUnchecked(b, payload) ==
    /\ ~receive_mode[b]
    /\ cmsg_space(payload) # NoSpace

\* reserve_cmsg: refuse a received buffer, a payload with no representable
\* space, and a message that does not fit.
CanReserve(b, payload) ==
    /\ ~receive_mode[b]
    /\ cmsg_space(payload) # NoSpace
    /\ length[b] + cmsg_space(payload) <= Capacity

reserve_cmsg(b, payload) ==
    length' = [length EXCEPT ![b] = @ + cmsg_space(payload)]

CallerFds == FdsOf({d \in descs : d.at = Caller})

Batch == UNION {[1 .. n -> Fd] : n \in 0 .. MaxBatch}

\* What add_rights writes: the numbers, and the files they name just now.
Encode(s) == [i \in 1 .. Len(s) |-> [fd |-> s[i], res |-> table[s[i]]]]

\* add_fds: an empty list and every error leave the bytes alone, but the
\* descriptors are borrowed by the buffer's lifetime whatever it returns.
add_fds(b, s) ==
    /\ Usable(b)
    /\ \A i \in 1 .. Len(s) : s[i] \in CallerFds
    /\ Len(wire[b]) + Len(s) <= MaxWire
    /\ borrowed' = [borrowed EXCEPT ![b] = @ \cup {s[i] : i \in 1 .. Len(s)}]
    /\ \/ /\ CanReserve(b, FdSize * Len(s))
          /\ Len(s) > 0
          /\ reserve_cmsg(b, FdSize * Len(s))
          /\ wire' = [wire EXCEPT ![b] = @ \o Encode(s)]
       \/ /\ ~CanReserve(b, FdSize * Len(s)) \/ Len(s) = 0
          /\ UNCHANGED <<length, wire>>
    /\ UNCHANGED <<fdVars, receive_mode, truncated, received, callVars, queue>>

\* add_credentials, where the platform has it.
add_credentials(b) ==
    /\ Linux
    /\ Usable(b)
    /\ CanReserve(b, UcredSize)
    /\ reserve_cmsg(b, UcredSize)
    /\ UNCHANGED <<fdVars, receive_mode, truncated, received, wire, borrowed,
                   callVars, queue>>

\* cmsg_sendmsg, when the kernel accepts it: every number must be open then,
\* and what is queued is whatever the number names then.  Its errors (a
\* received buffer, EBADF, a full queue) change nothing.
cmsg_sendmsg(b) ==
    /\ Usable(b)
    /\ ~receive_mode[b]
    /\ Len(queue) < MaxQueue
    /\ \A i \in 1 .. Len(wire[b]) : wire[b][i].fd \notin Free
    /\ queue' = Append(queue, [i \in 1 .. Len(wire[b]) |->
                                 [res |-> table[wire[b][i].fd],
                                  meant |-> wire[b][i].res]])
    /\ UNCHANGED <<fdVars, bufVars, callVars>>

-----------------------------------------------------------------------------
(* Receiving a message.                                                    *)

\* Mutant of ClearInto: close the numbers found in the received bytes, which
\* may have been handed out since.
ClearReparses(b, mode) ==
    LET Stale == {wire[b][i].fd : i \in {j \in DOMAIN wire[b] : receive_mode[b]}}
    IN  /\ table' = [f \in Fd |-> IF f \in Stale THEN Closed ELSE table[f]]
        /\ cloexec' = cloexec \ Stale
        /\ descs' = descs \ At(b, "held")
        /\ received' = [received EXCEPT ![b] = {}]
        /\ length' = [length EXCEPT ![b] = 0]
        /\ truncated' = [truncated EXCEPT ![b] = FALSE]
        /\ wire' = [wire EXCEPT ![b] = <<>>]
        /\ receive_mode' = [receive_mode EXCEPT ![b] = mode]
        /\ UNCHANGED unseen

\* clear(), and receive_mode as the caller of clear sets it: close what was
\* not drained and forget the bytes.  The borrows stay.
ClearInto(b, mode) ==
    /\ Drop(At(b, "held"))
    /\ received' = [received EXCEPT ![b] = {}]
    /\ length' = [length EXCEPT ![b] = 0]
    /\ truncated' = [truncated EXCEPT ![b] = FALSE]
    /\ wire' = [wire EXCEPT ![b] = <<>>]
    /\ receive_mode' = [receive_mode EXCEPT ![b] = mode]

\* Mutant of RecvBegin: the buffer is not cleared before the system call.
RecvBeginUncleared(b, call) ==
    /\ Usable(b)
    /\ call = "peek" => Linux
    /\ receive_mode' = [receive_mode EXCEPT ![b] = TRUE]
    /\ pc' = [pc EXCEPT ![b] = call]
    /\ outcome' = [outcome EXCEPT ![b] = "none"]
    /\ lost' = [lost EXCEPT ![b] = FALSE]
    /\ UNCHANGED <<fdVars, received, length, truncated, wire, borrowed,
                   control, ret, queue>>

\* recv_into_ancillary up to its system call.  A peek exists on Linux only.
RecvBegin(b, call) ==
    /\ Usable(b)
    /\ call = "peek" => Linux
    /\ ClearInto(b, TRUE)
    /\ pc' = [pc EXCEPT ![b] = call]
    /\ outcome' = [outcome EXCEPT ![b] = "none"]
    /\ lost' = [lost EXCEPT ![b] = FALSE]
    /\ UNCHANGED <<borrowed, control, ret, queue>>

\* The system call fails with anything but EINTR, which is retried inside.
RecvError(b) ==
    /\ pc[b] \in {"recv", "peek"}
    /\ pc' = [pc EXCEPT ![b] = "idle"]
    /\ outcome' = [outcome EXCEPT ![b] = "err"]
    /\ UNCHANGED <<fdVars, bufVars, control, ret, lost, queue>>

\* The numbers of the control messages the kernel writes for `sizes[n]`
\* descriptors in message n, with or without credentials.
Written(creds, sizes) ==
    {n \in MessageNo : IF Kind[n] = "creds" THEN creds ELSE sizes[n] > 0}

\* The control bytes these messages take.
ControlLen(creds, sizes) ==
    (IF creds THEN CMSG_SPACE(UcredSize) ELSE 0)
      + (IF sizes[2] > 0 THEN CMSG_SPACE(FdSize * sizes[2]) ELSE 0)
      + (IF sizes[3] > 0 THEN CMSG_SPACE(FdSize * sizes[3]) ELSE 0)
      + (IF sizes[4] > 0 THEN CMSG_SPACE(FdSize * sizes[4]) ELSE 0)

\* Injections from 1 .. n into the free numbers.
Numbering(n) == {a \in [1 .. n -> Free] :
                   \A i, j \in 1 .. n : a[i] = a[j] => i = j}

\* How many descriptors go into each control message when k are delivered:
\* the rights in one message or, on kernels that keep the sender's headers,
\* in two; then a pidfd where SO_PASSPIDFD asks for one.
Sizes(k) ==
    {<<0, c, k - c, p>> : c \in IF SplitRights THEN 0 .. k ELSE {k},
                          p \in IF Linux THEN {0, 1} ELSE {0}}

\* The file the i-th installed descriptor names, the control message it is
\* in, and its record.
FileOf(k, i) == IF i <= k THEN Head(queue)[i].res ELSE PidFile

MessageOf(k, sizes, i) == IF i <= sizes[2] THEN 2 ELSE IF i <= k THEN 3 ELSE PidfdNo

Raw(b, k, sizes, a, i) ==
    [fd |-> a[i], res |-> FileOf(k, i), at |-> b, stage |-> "raw",
     msg |-> MessageOf(k, sizes, i), pos |-> i]

\* The numbers where the kernel installs, unreported, descriptors of the oldest
\* message beyond the first k: none, except where InstallsOmitted.
Omitted(k, a, n) ==
    IF InstallsOmitted /\ k < Len(Head(queue))
    THEN {U \in SUBSET (Free \ {a[i] : i \in 1 .. n}) :
            Cardinality(U) <= Len(Head(queue)) - k}
    ELSE {{}}

\* The kernel installs k descriptors of the oldest message (and a pidfd) at
\* the free numbers a, others that it does not report at the numbers U, and
\* writes the control messages.
Install(b, k, creds, trunc, sizes, a, U) ==
    LET n == k + sizes[4]
    IN  /\ table' = [f \in Fd |-> IF \E i \in 1 .. n : a[i] = f
                                  THEN FileOf(k, CHOOSE i \in 1 .. n : a[i] = f)
                                  ELSE IF f \in U THEN Head(queue)[k + 1].res
                                  ELSE table[f]]
        /\ cloexec' = IF AtomicCloexec THEN cloexec \cup {a[i] : i \in 1 .. n}
                                       ELSE cloexec
        /\ unseen' = unseen \cup U
        /\ descs' = descs \cup {Raw(b, k, sizes, a, i) : i \in 1 .. n}
        /\ control' = [control EXCEPT ![b] = Written(creds, sizes)]
        /\ ret' = [ret EXCEPT ![b] = [len |-> ControlLen(creds, sizes),
                                      trunc |-> trunc]]
        /\ wire' = [wire EXCEPT ![b] = [i \in 1 .. k |->
                                          [fd |-> a[i], res |-> FileOf(k, i)]]]
        /\ lost' = [lost EXCEPT ![b] = k < Len(Head(queue))]

\* recvmsg succeeds (kernel, external): it delivers the first k descriptors,
\* as far as free numbers and control space go, reports MSG_CTRUNC if one of
\* them (or credentials, or a pidfd) did not fit, and removes the message
\* unless it peeks.  (Which file an unreported number names matters to nobody.)
RecvMsg(b) ==
    /\ pc[b] \in {"recv", "peek"}
    /\ queue # <<>>
    /\ \E k \in 0 .. Len(Head(queue)), creds \in {FALSE, Linux}, trunc \in BOOLEAN :
       \E sizes \in Sizes(k) :
       \E a \in Numbering(k + sizes[4]) :
       \E U \in Omitted(k, a, k + sizes[4]) :
         /\ ControlLen(creds, sizes) <= Capacity
         /\ k < Len(Head(queue)) => trunc
         /\ trunc => \/ k < Len(Head(queue))
                     \/ Linux /\ (~creds \/ sizes[4] = 0)
         /\ Install(b, k, creds, trunc, sizes, a, U)
    /\ queue' = IF pc[b] = "peek" THEN queue ELSE Tail(queue)
    /\ pc' = [pc EXCEPT ![b] = "take"]
    /\ UNCHANGED <<receive_mode, length, truncated, received, borrowed, outcome>>

\* recvmsg reports the end of the stream: no bytes and no control messages.
RecvEof(b) ==
    /\ pc[b] \in {"recv", "peek"}
    /\ queue = <<>>
    /\ control' = [control EXCEPT ![b] = {}]
    /\ ret' = [ret EXCEPT ![b] = NoRet]
    /\ pc' = [pc EXCEPT ![b] = "take"]
    /\ UNCHANGED <<fdVars, bufVars, outcome, lost, queue>>

\* The next control message RawMessages yields.
IsFirst(n, S) == n \in S /\ \A m \in S : n <= m

InMessage(b, stage, n) == {d \in At(b, stage) : d.msg = n}

\* take_received_into, one control message: own its rights and list it ...
TakeRights(b, n) ==
    /\ pc[b] = "take"
    /\ IsFirst(n, control[b])
    /\ Kind[n] = "rights"
    /\ Move(InMessage(b, "raw", n), b, "held")
    /\ received' = [received EXCEPT ![b] = @ \cup {n}]
    /\ control' = [control EXCEPT ![b] = @ \ {n}]
    /\ UNCHANGED <<receive_mode, length, truncated, wire, borrowed, pc, ret,
                   outcome, lost, queue>>

\* Mutant of TakeCredentials: a short message is not stepped over.
TakeCredentialsStuck(b, n) ==
    /\ pc[b] = "take"
    /\ IsFirst(n, control[b])
    /\ Kind[n] = "creds"
    /\ IF ret[b].trunc
       THEN UNCHANGED <<received, control>>
       ELSE /\ received' = [received EXCEPT ![b] = @ \cup {n}]
            /\ control' = [control EXCEPT ![b] = @ \ {n}]
    /\ UNCHANGED <<fdVars, receive_mode, length, truncated, wire, borrowed, pc,
                   ret, outcome, lost, queue>>

\* ... list credentials, unless the kernel cut them short ...
TakeCredentials(b, n) ==
    /\ pc[b] = "take"
    /\ IsFirst(n, control[b])
    /\ Kind[n] = "creds"
    /\ \/ received' = [received EXCEPT ![b] = @ \cup {n}]
       \/ ret[b].trunc /\ UNCHANGED received
    /\ control' = [control EXCEPT ![b] = @ \ {n}]
    /\ UNCHANGED <<fdVars, receive_mode, length, truncated, wire, borrowed, pc,
                   ret, outcome, lost, queue>>

\* ... or close a pidfd, which the crate does not expose.
close_pidfd(b, n) ==
    /\ pc[b] = "take"
    /\ IsFirst(n, control[b])
    /\ Kind[n] = "pidfd"
    /\ Drop(InMessage(b, "raw", n))
    /\ control' = [control EXCEPT ![b] = @ \ {n}]
    /\ UNCHANGED <<bufVars, pc, ret, outcome, lost, queue>>

\* The whole control buffer is parsed.
TakeDone(b) ==
    /\ pc[b] = "take"
    /\ control[b] = {}
    /\ pc' = [pc EXCEPT ![b] = "cloexec"]
    /\ UNCHANGED <<fdVars, bufVars, control, ret, outcome, lost, queue>>

\* Mutant of Unmarked: only the first rights message is marked.
UnmarkedFirstMessage(b) ==
    IF AtomicCloexec THEN {}
    ELSE {d \in At(b, "held") : d.fd \notin cloexec /\ d.msg = 2}

\* Descriptors cloexec_received has still to mark; none where the kernel did.
Unmarked(b) == IF AtomicCloexec THEN {}
               ELSE {d \in At(b, "held") : d.fd \notin cloexec}

\* set_cloexec on the next descriptor of the batch.
set_cloexec(b, d) ==
    /\ pc[b] = "cloexec"
    /\ d \in Unmarked(b)
    /\ \A e \in Unmarked(b) : d.pos <= e.pos
    /\ cloexec' = cloexec \cup {d.fd}
    /\ UNCHANGED <<table, descs, unseen, bufVars, callVars, queue>>

\* Mutant of CloexecFail: only the descriptors not yet marked are closed.
CloexecFailKeepsMarked(b) ==
    /\ pc[b] = "cloexec"
    /\ Unmarked(b) # {}
    /\ table' = [f \in Fd |-> IF f \in FdsOf(Unmarked(b)) THEN Closed ELSE table[f]]
    /\ descs' = descs \ At(b, "held")
    /\ received' = [received EXCEPT ![b] = {}]
    /\ wire' = [wire EXCEPT ![b] = <<>>]
    /\ pc' = [pc EXCEPT ![b] = "idle"]
    /\ outcome' = [outcome EXCEPT ![b] = "err"]
    /\ ret' = [ret EXCEPT ![b] = NoRet]
    /\ UNCHANGED <<cloexec, unseen, receive_mode, length, truncated, borrowed,
                   control, lost, queue>>

\* fcntl fails: the whole batch is closed, marked or not, and the buffer is
\* left empty in receive mode.
CloexecFail(b) ==
    /\ pc[b] = "cloexec"
    /\ Unmarked(b) # {}
    /\ Drop(At(b, "held"))
    /\ received' = [received EXCEPT ![b] = {}]
    /\ wire' = [wire EXCEPT ![b] = <<>>]
    /\ pc' = [pc EXCEPT ![b] = "idle"]
    /\ outcome' = [outcome EXCEPT ![b] = "err"]
    /\ ret' = [ret EXCEPT ![b] = NoRet]
    /\ UNCHANGED <<receive_mode, length, truncated, borrowed, control, lost,
                   queue>>

\* Mutant of Finish: MSG_CTRUNC is not kept.
FinishUnflagged(b) ==
    /\ pc[b] = "cloexec"
    /\ Unmarked(b) = {}
    /\ length' = [length EXCEPT ![b] = ret[b].len]
    /\ ret' = [ret EXCEPT ![b] = NoRet]
    /\ pc' = [pc EXCEPT ![b] = "idle"]
    /\ outcome' = [outcome EXCEPT ![b] = "ok"]
    /\ UNCHANGED <<fdVars, truncated, receive_mode, received, wire, borrowed,
                   control, lost, queue>>

\* recv_into_ancillary returns Ok.
Finish(b) ==
    /\ pc[b] = "cloexec"
    /\ Unmarked(b) = {}
    /\ length' = [length EXCEPT ![b] = ret[b].len]
    /\ truncated' = [truncated EXCEPT ![b] = ret[b].trunc]
    /\ ret' = [ret EXCEPT ![b] = NoRet]
    /\ pc' = [pc EXCEPT ![b] = "idle"]
    /\ outcome' = [outcome EXCEPT ![b] = "ok"]
    /\ UNCHANGED <<fdVars, receive_mode, received, wire, borrowed, control,
                   lost, queue>>

-----------------------------------------------------------------------------
(* Draining the received messages.                                         *)

\* messages(): a draining iterator borrows the buffer.
messages(b) ==
    /\ Usable(b)
    /\ pc' = [pc EXCEPT ![b] = "drain"]
    /\ UNCHANGED <<fdVars, bufVars, control, ret, outcome, lost, queue>>

\* Messages::next: the oldest message leaves the buffer; its descriptors move
\* into a ScmRights.
MessagesNext(b, n) ==
    /\ pc[b] = "drain"
    /\ IsFirst(n, received[b])
    /\ Move(InMessage(b, "held", n), b, "iter")
    /\ received' = [received EXCEPT ![b] = @ \ {n}]
    /\ UNCHANGED <<receive_mode, length, truncated, wire, borrowed, callVars,
                   queue>>

\* Mutant of MessagesDrop: the list is emptied, its descriptors are not.
MessagesDropForgets(b) ==
    /\ pc[b] = "drain"
    /\ received' = [received EXCEPT ![b] = {}]
    /\ pc' = [pc EXCEPT ![b] = "idle"]
    /\ UNCHANGED <<fdVars, receive_mode, length, truncated, wire, borrowed,
                   control, ret, outcome, lost, queue>>

\* Dropping Messages drops what Vec::drain has not yielded.
MessagesDrop(b) ==
    /\ pc[b] = "drain"
    /\ Drop(At(b, "held"))
    /\ received' = [received EXCEPT ![b] = {}]
    /\ pc' = [pc EXCEPT ![b] = "idle"]
    /\ UNCHANGED <<receive_mode, length, truncated, wire, borrowed, control,
                   ret, outcome, lost, queue>>

\* Mutant of ScmRightsNext: the descriptor is yielded and also kept.
ScmRightsNextCopies(d) ==
    /\ d.stage = "iter"
    /\ \A e \in InMessage(d.at, "iter", d.msg) : d.pos <= e.pos
    /\ descs' = descs \cup {Owned(d.fd, d.res)}
    /\ UNCHANGED <<table, cloexec, unseen, bufVars, callVars, queue>>

\* ScmRights::next: the first remaining descriptor becomes the caller's.
ScmRightsNext(d) ==
    /\ d.stage = "iter"
    /\ \A e \in InMessage(d.at, "iter", d.msg) : d.pos <= e.pos
    /\ descs' = (descs \ {d}) \cup {Owned(d.fd, d.res)}
    /\ UNCHANGED <<table, cloexec, unseen, bufVars, callVars, queue>>

\* Dropping a ScmRights closes what it did not yield.
ScmRightsDrop(b, n) ==
    /\ InMessage(b, "iter", n) # {}
    /\ Drop(InMessage(b, "iter", n))
    /\ UNCHANGED <<bufVars, callVars, queue>>

\* clear().
clear(b) ==
    /\ Usable(b)
    /\ ClearInto(b, FALSE)
    /\ outcome' = [outcome EXCEPT ![b] = "none"]
    /\ lost' = [lost EXCEPT ![b] = FALSE]
    /\ UNCHANGED <<borrowed, pc, control, ret, queue>>

\* Mutant of DropAndNew: the buffer closes the descriptors it had borrowed.
DropClosesBorrowed(b) ==
    /\ Usable(b)
    /\ table' = [f \in Fd |-> IF f \in borrowed[b] \cup FdsOf(At(b, "held"))
                              THEN Closed ELSE table[f]]
    /\ cloexec' = cloexec \ FdsOf(At(b, "held"))
    /\ descs' = descs \ At(b, "held")
    /\ received' = [received EXCEPT ![b] = {}]
    /\ length' = [length EXCEPT ![b] = 0]
    /\ truncated' = [truncated EXCEPT ![b] = FALSE]
    /\ wire' = [wire EXCEPT ![b] = <<>>]
    /\ receive_mode' = [receive_mode EXCEPT ![b] = FALSE]
    /\ borrowed' = [borrowed EXCEPT ![b] = {}]
    /\ outcome' = [outcome EXCEPT ![b] = "none"]
    /\ lost' = [lost EXCEPT ![b] = FALSE]
    /\ UNCHANGED <<unseen, pc, control, ret, queue>>

\* The buffer is dropped, which ends its borrows, and another is made by new.
DropAndNew(b) ==
    /\ Usable(b)
    /\ ClearInto(b, FALSE)
    /\ borrowed' = [borrowed EXCEPT ![b] = {}]
    /\ outcome' = [outcome EXCEPT ![b] = "none"]
    /\ lost' = [lost EXCEPT ![b] = FALSE]
    /\ UNCHANGED <<pc, control, ret, queue>>

-----------------------------------------------------------------------------

UserStep ==
    \/ \E f \in Fd, r \in Resource \ {PidFile} : Open(f, r)
    \/ \E d \in descs : CloseOwned(d) \/ ScmRightsNext(d)

\* The calls a caller makes on buffer b.
CallStep(b) ==
    \/ \E s \in Batch : add_fds(b, s)
    \/ add_credentials(b)
    \/ cmsg_sendmsg(b)
    \/ \E call \in {"recv", "peek"} : RecvBegin(b, call)
    \/ messages(b)
    \/ \E n \in MessageNo : MessagesNext(b, n) \/ ScmRightsDrop(b, n)
    \/ MessagesDrop(b)
    \/ clear(b)
    \/ DropAndNew(b)

\* The system call of a receive returns.
KernelStep(b) == RecvError(b) \/ RecvMsg(b) \/ RecvEof(b)

\* The receive runs on after its system call.
ReturnStep(b) ==
    \/ \E n \in MessageNo : TakeRights(b, n) \/ TakeCredentials(b, n)
                              \/ close_pidfd(b, n)
    \/ TakeDone(b)
    \/ \E d \in descs : set_cloexec(b, d)
    \/ CloexecFail(b)
    \/ Finish(b)

Next == \/ UserStep
        \/ \E b \in Buffer : CallStep(b) \/ KernelStep(b) \/ ReturnStep(b)

Spec == Init /\ [][Next]_vars

\* A thread inside recv_into_ancillary keeps running once recvmsg returned:
\* nothing it does after that blocks.
FairSpec == Spec /\ \A b \in Buffer : WF_vars(ReturnStep(b))

-----------------------------------------------------------------------------
(* Properties.                                                             *)

\* No descriptor number has two owners (two OwnedFds, or an OwnedFd and an
\* integer that recvmsg has just installed): each would close it, and the
\* second close would hit whatever reused the number.
SoleOwner == \A d, e \in descs : d.fd = e.fd => d = e

\* Every open descriptor has an owner the crate reaches (the caller, an
\* iterator, or a message in a buffer's list), or is an integer in the control
\* buffer of a receive that is still parsing and will come to it.  "This crate
\* cannot close descriptors it cannot observe": the only others are those a
\* kernel installed without reporting them.
NoLeak ==
    \A f \in Fd : table[f] # Closed =>
        \/ f \in unseen /\ InstallsOmitted
        \/ \E d \in descs : /\ d.fd = f
                            /\ d.stage = "raw" => /\ pc[d.at] = "take"
                                                  /\ d.msg \in control[d.at]
                            /\ d.stage = "held" => d.msg \in received[d.at]

\* A descriptor still names the file it named when its owner got it: nobody
\* else's clear, receive, iterator or drop closed it and let the number be
\* reused.
OwnerIntegrity == \A d \in descs : table[d.fd] = d.res

\* What a message queued on the socket carries is what the sender gave to
\* add_fds, although the buffer kept only numbers in between.
SendIntegrity ==
    \A i \in 1 .. Len(queue) : \A j \in 1 .. Len(queue[i]) :
        queue[i][j].res = queue[i][j].meant

\* Every descriptor the caller can reach, in its hands or through a buffer or
\* an iterator it may use, is close-on-exec, on both families of platforms.
CloexecGuarantee ==
    \A d \in descs :
        \/ d.stage \in {"iter", "owned"}
        \/ d.stage = "held" /\ pc[d.at] \in {"idle", "drain"}
        => d.fd \in cloexec

\* "Even a failed receive replaces the previous message state with an empty
\* state": after an error the buffer holds no descriptor, no message, no
\* length and no truncation flag, and still refuses to be sent.
FailedReceiveIsEmpty ==
    \A b \in Buffer : outcome[b] = "err" =>
        /\ receive_mode[b]
        /\ At(b, "held") = {} /\ At(b, "raw") = {}
        /\ received[b] = {} /\ length[b] = 0 /\ ~truncated[b]

\* A receive that returned Ok and does not report truncation delivered every
\* descriptor of its message.
CompleteOrFlagged ==
    \A b \in Buffer : outcome[b] = "ok" /\ lost[b] => truncated[b]

\* A receive whose system call returned comes back to its caller, and then no
\* installed descriptor is left unowned.
ReceiveReturns == \A b \in Buffer : pc[b] = "take" ~> pc[b] = "idle"

\* The crate's descriptor contract, with the buffers and iterators hidden.
Owner(f) == IF f \in unseen THEN "unseen"
            ELSE IF \E d \in descs : d.fd = f /\ d.at = Caller THEN "caller"
            ELSE IF \E d \in descs : d.fd = f THEN "library"
            ELSE "none"

Contract == INSTANCE FdOwnership WITH owner <- [f \in Fd |-> Owner(f)],
                                      file <- table

\* Buffers, receives and iterators implement the ownership contract.
ImplementsOwnership == Contract!Spec

=============================================================================
