------------------------------ MODULE Receive ------------------------------
(***************************************************************************)
(* The receiving half of the high-level API, which streams, datagrams and  *)
(* seqpacket sockets share: recv_owned_impl, recv_core and cmsg::recv_fds. *)
(* The transport modules extend this one and say what recvmsg(2) takes off *)
(* the socket; Deliver says what becomes of it.                            *)
(*                                                                         *)
(* A right <<s, .., i>> names the i-th descriptor of a send of s, and also *)
(* the descriptor installed for it here: no right is delivered twice.      *)
(*                                                                         *)
(* On Linux the kernel also opens a pidfd of the sender for every message  *)
(* once somebody set SO_PASSPIDFD on the socket.  On Apple it installs the *)
(* rights that do not fit the control storage as well, without reporting   *)
(* them: nobody in the process knows their numbers.                        *)
(*                                                                         *)
(* recvmsg_raw retries EINTR without a change of state: not a step.        *)
(***************************************************************************)
EXTENDS ReceiveBudget, SequencesExt

CONSTANTS
    Receiver,       \* tasks receiving on the socket
    Mode,           \* CountMode: [exact, n]
    SocketKind,     \* "Stream" or "Datagram"
    BufLen,         \* bytes of a receive buffer
    Nofile,         \* values of RLIMIT_NOFILE, NoLimit if it cannot be read
    TableSize,      \* descriptors the receiving process may have open
    AtomicCloexec,  \* MSG_CMSG_CLOEXEC exists
    InstallsOmitted,\* rights are installed before the storage cuts them (Apple)
    Async           \* tokio: a call that would block waits, and may be dropped

ASSUME ReceiveAssumption ==
    /\ Mode \subseteq [exact : BOOLEAN, n : Nat]
    /\ SocketKind \in {"Stream", "Datagram"}
    /\ Nofile \subseteq Nat \cup {NoLimit}
    /\ {BufLen, TableSize} \subseteq Nat \ {0}
    /\ AtomicCloexec \in BOOLEAN /\ Async \in BOOLEAN
    /\ InstallsOmitted \in BOOLEAN /\ (Linux => ~InstallsOmitted)

VARIABLES
    rpc,        \* "idle", "recvmsg", "waiting" (tokio readiness), "parse", "core"
    mode,       \* CountMode of the call
    buf,        \* length of its data buffer
    control,    \* size of its control storage
    msg,        \* what recvmsg returned
    result,     \* what the last call returned
    fdtable,    \* descriptors that were sent and are open in the process
    held,       \* those the application owns
    unseen,     \* those the kernel installed and did not report
    pidfds,     \* receivers whose message's pidfd is open in the process
    passcred,   \* SO_PASSCRED
    passpidfd,  \* SO_PASSPIDFD
    nofile      \* RLIMIT_NOFILE of the process

callVars == <<rpc, mode, buf, control, msg, result>>
optVars == <<passcred, passpidfd, nofile>>
recvVars == <<callVars, fdtable, held, unseen, pidfds, optVars>>

NoMode == [exact |-> FALSE, n |-> 0]
NoMsg == [bytes |-> <<>>, fds |-> <<>>, rights |-> <<>>, ctrunc |-> FALSE,
          trunc |-> FALSE, full |-> FALSE, pidfd |-> FALSE]
NoResult == [ok |-> FALSE, mode |-> NoMode, bytes |-> <<>>, fds |-> <<>>, surplus |-> 0]

RecvTypeOK(Byte, Right) ==
    /\ rpc \in [Receiver -> {"idle", "recvmsg", "waiting", "parse", "core"}]
    /\ mode \in [Receiver -> Mode \cup {NoMode}]
    /\ buf \in [Receiver -> 0 .. BufLen] /\ control \in [Receiver -> Nat]
    /\ msg \in [Receiver -> [bytes : Seq(Byte), fds : Seq(Right), rights : Seq(Right),
                             ctrunc : BOOLEAN, trunc : BOOLEAN, full : BOOLEAN,
                             pidfd : BOOLEAN]]
    /\ result \in [Receiver -> [ok : BOOLEAN, mode : Mode \cup {NoMode}, bytes : Seq(Byte),
                                fds : Seq(Right), surplus : Nat]]
    /\ fdtable \subseteq Right /\ held \subseteq fdtable /\ unseen \subseteq fdtable
    /\ pidfds \subseteq Receiver
    /\ Cardinality(fdtable) + Cardinality(pidfds) <= TableSize
    /\ passcred \in BOOLEAN /\ passpidfd \in BOOLEAN /\ nofile \in Nofile

RecvInit ==
    /\ rpc = [r \in Receiver |-> "idle"]
    /\ mode = [r \in Receiver |-> NoMode]
    /\ buf = [r \in Receiver |-> 0]
    /\ control = [r \in Receiver |-> 0]
    /\ msg = [r \in Receiver |-> NoMsg]
    /\ result = [r \in Receiver |-> NoResult]
    /\ fdtable = {} /\ held = {} /\ unseen = {} /\ pidfds = {}
    /\ passcred = FALSE /\ passpidfd = FALSE
    /\ nofile \in Nofile

-----------------------------------------------------------------------------
(* The call.                                                               *)

\* recv_fds, recv_fds_into, recv_fds_vectored (up to N) or an exact form, as
\* far as the system call.  An N that cannot be represented panics.
RecvCall(r, m) ==
    /\ rpc[r] = "idle"
    /\ ControlSize(m.n, nofile) # NoSpace
    /\ mode' = [mode EXCEPT ![r] = m]
    /\ buf' = [buf EXCEPT ![r] = BufLen]
    /\ control' = [control EXCEPT ![r] = ControlSize(m.n, nofile)]
    /\ rpc' = [rpc EXCEPT ![r] = "recvmsg"]
    /\ result' = [result EXCEPT ![r] = NoResult]
    /\ UNCHANGED <<msg, fdtable, held, unseen, pidfds, optVars>>

\* Descriptors the process may still open.
FreeSlots ==
    LET limit == IF nofile = NoLimit THEN TableSize ELSE MinOf(nofile, TableSize)
    IN MaxOf(limit - Cardinality(fdtable) - Cardinality(pidfds), 0)

\* recvmsg returns (kernel, external): the rights that fit the control storage
\* and the descriptor table are installed and reported, then comes the pidfd if
\* there is room left for it; MSG_CTRUNC says that something is missing.  Where
\* InstallsOmitted, the table alone bounds what is installed.  (An end of file,
\* which has no sender, is treated alike: take_fds closes a pidfd all the same.)
Deliver(r, bytes, rights, trunc) ==
    LET room == Room(control[r], passcred)
        open == SubSeq(rights, 1, MinOf(Len(rights), IF InstallsOmitted THEN FreeSlots
                                                     ELSE MinOf(room, FreeSlots)))
        fds == SubSeq(open, 1, MinOf(Len(open), room))
        pidfd == passpidfd /\ PidfdFits(control[r], passcred, Len(fds))
    IN /\ msg' = [msg EXCEPT ![r] =
                    [bytes |-> bytes, fds |-> fds, rights |-> rights,
                     ctrunc |-> Len(fds) < Len(rights) \/ (passpidfd /\ ~pidfd),
                     trunc |-> trunc, full |-> Len(open) = FreeSlots,
                     pidfd |-> passpidfd]]
       /\ fdtable' = fdtable \cup ToSet(open)
       /\ unseen' = unseen \cup (ToSet(open) \ ToSet(fds))
       /\ pidfds' = IF pidfd /\ Len(open) < FreeSlots THEN pidfds \cup {r} ELSE pidfds
       /\ rpc' = [rpc EXCEPT ![r] = "parse"]
       /\ UNCHANGED <<mode, buf, control, result, held, optVars>>

\* Mutant of take_fds: the pidfd is passed over.
take_fds_only(r) ==
    /\ rpc[r] = "parse"
    /\ rpc' = [rpc EXCEPT ![r] = "core"]
    /\ UNCHANGED <<mode, buf, control, msg, result, fdtable, held, unseen, pidfds, optVars>>

\* take_fds: the call owns what the control storage reports, and closes a pidfd.
take_fds(r) ==
    /\ rpc[r] = "parse"
    /\ rpc' = [rpc EXCEPT ![r] = "core"]
    /\ pidfds' = pidfds \ {r}
    /\ UNCHANGED <<mode, buf, control, msg, result, fdtable, held, unseen, optVars>>

\* The locals of the call of r end with it.
Forget(r) ==
    /\ rpc' = [rpc EXCEPT ![r] = "idle"]
    /\ mode' = [mode EXCEPT ![r] = NoMode]
    /\ buf' = [buf EXCEPT ![r] = 0]
    /\ control' = [control EXCEPT ![r] = 0]
    /\ msg' = [msg EXCEPT ![r] = NoMsg]

\* Mutant of RecvReturn: the surplus is closed but handed out all the same.
RecvReturnAll(r, ok, fds, surplus) ==
    /\ result' = [result EXCEPT ![r] = [ok |-> ok, mode |-> mode[r], bytes |-> msg[r].bytes,
                                        fds |-> fds, surplus |-> surplus]]
    /\ fdtable' = (fdtable \ ToSet(msg[r].fds)) \cup ToSet(fds)
    /\ held' = held \cup ToSet(msg[r].fds)
    /\ Forget(r)
    /\ UNCHANGED <<unseen, pidfds, optVars>>

\* The call of r returns, with an error if ok is FALSE; of the descriptors it
\* owns, the application gets those in fds and the others are closed.
RecvReturn(r, ok, fds, surplus) ==
    /\ result' = [result EXCEPT ![r] = [ok |-> ok, mode |-> mode[r], bytes |-> msg[r].bytes,
                                        fds |-> fds, surplus |-> surplus]]
    /\ fdtable' = (fdtable \ ToSet(msg[r].fds)) \cup ToSet(fds)
    /\ held' = held \cup ToSet(fds)
    /\ Forget(r)
    /\ UNCHANGED <<unseen, pidfds, optVars>>

\* recvmsg fails and nothing was received.
RecvFails(r) ==
    /\ rpc[r] = "recvmsg"
    /\ RecvReturn(r, FALSE, <<>>, 0)

\* Mutant of RecvWouldBlock: recv_owned_impl takes data_buf before it knows
\* that the receive succeeded, and the retry has an empty buffer.
WouldBlockTakes(r) ==
    /\ Async
    /\ rpc[r] = "recvmsg"
    /\ rpc' = [rpc EXCEPT ![r] = "waiting"]
    /\ buf' = [buf EXCEPT ![r] = 0]
    /\ UNCHANGED <<mode, control, msg, result, fdtable, held, unseen, pidfds, optVars>>

\* The closure returns WouldBlock and async_io waits for readiness.  The
\* buffers of the call stay for the retry.
RecvWouldBlock(r) ==
    /\ Async
    /\ rpc[r] = "recvmsg"
    /\ rpc' = [rpc EXCEPT ![r] = "waiting"]
    /\ UNCHANGED <<mode, buf, control, msg, result, fdtable, held, unseen, pidfds, optVars>>

\* async_io runs the closure again; another task may have been faster.
RecvRetry(r) ==
    /\ rpc[r] = "waiting"
    /\ rpc' = [rpc EXCEPT ![r] = "recvmsg"]
    /\ control' = [control EXCEPT ![r] = ControlSize(mode[r].n, nofile)]
    /\ UNCHANGED <<mode, buf, msg, result, fdtable, held, unseen, pidfds, optVars>>

\* The future is dropped at its await.
RecvCancel(r) ==
    /\ rpc[r] = "waiting"
    /\ Forget(r)
    /\ UNCHANGED <<result, fdtable, held, unseen, pidfds, optVars>>

\* cloexec_fds, where the kernel does not set FD_CLOEXEC: an fcntl fails and
\* recv_fds returns the error, dropping every descriptor it owns.
CloexecFails(r) ==
    /\ rpc[r] = "core"
    /\ ~AtomicCloexec
    /\ msg[r].fds # <<>>
    /\ RecvReturn(r, FALSE, <<>>, 0)

\* CountMode once the message is known to be whole: up-to keeps the first n
\* descriptors and closes the others, exact refuses any other number.
Counted(r) ==
    LET fds == msg[r].fds
        n == mode[r].n
    IN \/ /\ ~mode[r].exact
          /\ RecvReturn(r, TRUE, SubSeq(fds, 1, MinOf(Len(fds), n)), MaxOf(Len(fds) - n, 0))
       \/ /\ mode[r].exact /\ Len(fds) = n
          /\ RecvReturn(r, TRUE, fds, 0)
       \/ /\ mode[r].exact /\ Len(fds) # n
          /\ RecvReturn(r, FALSE, <<>>, 0)

\* Mutant of recv_core: an incomplete set of descriptors is returned.
recv_core_unchecked(r) == rpc[r] = "core" /\ Counted(r)

\* Mutant of recv_core: the stream rule, no check for a cut payload.
recv_core_stream(r) ==
    /\ rpc[r] = "core"
    /\ \/ msg[r].ctrunc /\ RecvReturn(r, FALSE, <<>>, 0)
       \/ ~msg[r].ctrunc /\ Counted(r)

\* Mutant of recv_core: a refused message keeps its descriptors open.
recv_core_leaks(r) ==
    /\ rpc[r] = "core"
    /\ Forget(r)
    /\ UNCHANGED <<result, fdtable, held, unseen, pidfds, optVars>>

\* recv_core once the message is owned: lost control data, and on a socket
\* with message boundaries lost payload, are errors.
recv_core(r) ==
    /\ rpc[r] = "core"
    /\ LET lost == msg[r].ctrunc \/ (SocketKind = "Datagram" /\ msg[r].trunc)
       IN \/ lost /\ RecvReturn(r, FALSE, <<>>, 0)
          \/ ~lost /\ Counted(r)

-----------------------------------------------------------------------------
(* The application and its process.                                        *)

\* An OwnedFd it was given is dropped.
CloseHeld(f) ==
    /\ f \in held
    /\ held' = held \ {f}
    /\ fdtable' = fdtable \ {f}
    /\ UNCHANGED <<callVars, unseen, pidfds, optVars>>

\* set_passcred on the receiving socket.
set_passcred(on) ==
    /\ Linux
    /\ passcred' = on
    /\ UNCHANGED <<callVars, fdtable, held, unseen, pidfds, passpidfd, nofile>>

\* SO_PASSPIDFD, which the crate never sets, by whoever configures the socket.
SetPasspidfd(on) ==
    /\ Linux
    /\ passpidfd' = on
    /\ UNCHANGED <<callVars, fdtable, held, unseen, pidfds, passcred, nofile>>

\* setrlimit or prlimit, by anybody, also in the middle of a receive.
setrlimit(limit) ==
    /\ nofile' = limit
    /\ UNCHANGED <<callVars, fdtable, held, unseen, pidfds, passcred, passpidfd>>

\* The steps in which nothing but the receiving process takes part.
ReceiveLocal ==
    \/ \E r \in Receiver :
         RecvRetry(r) \/ RecvCancel(r) \/ take_fds(r) \/ CloexecFails(r) \/ recv_core(r)
    \/ \E f \in held : CloseHeld(f)
    \/ \E on \in BOOLEAN : set_passcred(on) \/ SetPasspidfd(on)
    \/ \E limit \in Nofile : setrlimit(limit)

-----------------------------------------------------------------------------
(* Properties of any transport.                                            *)

\* "closing every descriptor delivered in the control buffer" (lib.rs): every
\* descriptor open in the receiving process is owned by the application or by a
\* receive call still in progress, and a pidfd by the call that is about to
\* close it, through truncation, surplus, count mismatch, failed fcntl and
\* cancellation.  "This crate cannot close descriptors it cannot observe": the
\* exceptions are those a kernel installs without reporting them, which nobody is
\* ever given.
NoDescriptorLeak ==
    /\ fdtable \ unseen = held \cup UNION {ToSet(msg[r].fds) : r \in Receiver}
    /\ \A r \in pidfds : rpc[r] = "parse"
    /\ ~InstallsOmitted => unseen = {}

\* "The ancillary budget covers Linux's 253-fd limit plus automatic
\* credentials" (recv_fds_into_impl), and elsewhere it is never below that nor
\* below N: a receive is truncated only because the process is out of
\* descriptors, or because the message needs more room, besides credentials,
\* than that many descriptors do, be it for rights or for a pidfd that the
\* budget "does not account for" (tests/truncation.rs); whenever SO_PASSCRED was
\* switched on and whatever RLIMIT_NOFILE is or becomes.
BudgetSuffices ==
    \A r \in Receiver :
        msg[r].ctrunc =>
            \/ msg[r].full
            \/ Needed(Len(msg[r].rights), msg[r].pidfd)
                 > Needed(MaxOf(mode[r].n, HardFloor), FALSE)

=============================================================================
