-------------------------- MODULE DatagramTransfer --------------------------
(***************************************************************************)
(* Passing descriptors over a socket that keeps message boundaries:        *)
(* UnixDatagramExt (ext.rs), its tokio form (asyncio.rs) and the seqpacket *)
(* functions (seqpacket.rs).  One call sends one message, bytes and        *)
(* descriptors together, and there is no rule against an empty payload.    *)
(* The receiving half is module Receive with SocketKind "Datagram".        *)
(*                                                                         *)
(* The k-th send of task s makes the message [from |-> s, call |-> k, ..]  *)
(* whose i-th descriptor is <<s, k, i>>.                                   *)
(***************************************************************************)
EXTENDS Receive

CONSTANTS
    Sender,         \* tasks sending on the connected socket
    Parcel,         \* what a call may send: [len, fds]
    Seqpacket,      \* a closed peer is an end of file
    QueueMax,       \* messages the kernel queues
    LenMax,         \* longest payload it accepts
    ScmMaxFd,       \* descriptors it accepts in one message
    MaxSends        \* bound: calls per task

ASSUME DatagramAssumption ==
    /\ Parcel \subseteq [len : Nat, fds : Nat]
    /\ {QueueMax, LenMax, ScmMaxFd, MaxSends} \subseteq Nat \ {0}
    /\ Seqpacket \in BOOLEAN
    /\ SocketKind = "Datagram"

VARIABLES
    parcel,     \* what each task's pending send passes, or Nothing
    outcome,    \* what each task's calls returned, and what they had to pass
    queue,      \* messages in the kernel
    gone,       \* ghost: messages that left it, received or discarded
    took,       \* ghost: what each receiver last took off, or EndOfFile
    ends        \* the ends still open, "tx" and "rx"

sendVars == <<parcel, outcome>>
channelVars == <<sendVars, queue, gone, took, ends>>
vars == <<channelVars, recvVars>>

Nothing == [len |-> -1, fds |-> 0]
Message == [from : Sender, call : 1 .. MaxSends, len : Nat, fds : Nat]
EndOfFile == [len |-> 0, fds |-> 0]

Return == [is : {"ok", "err", "cancelled"}, parcel : Parcel \cup {Nothing}]

Right == Sender \X (1 .. MaxSends) \X Nat
Payload(m, k) == [j \in 1 .. k |-> <<m.from, m.call, j>>]
Rights(m) == [i \in 1 .. m.fds |-> <<m.from, m.call, i>>]

TypeOK ==
    /\ parcel \in [Sender -> Parcel \cup {Nothing}]
    /\ outcome \in [Sender -> Seq(Return)]
    /\ queue \in Seq(Message) /\ Len(queue) <= QueueMax
    /\ gone \in Seq(Message)
    /\ took \in [Receiver -> Message \cup {EndOfFile}]
    /\ ends \subseteq {"tx", "rx"}
    /\ RecvTypeOK(Right, Right)

Init ==
    /\ parcel = [s \in Sender |-> Nothing]
    /\ outcome = [s \in Sender |-> <<>>]
    /\ queue = <<>> /\ gone = <<>>
    /\ took = [r \in Receiver |-> EndOfFile]
    /\ ends = {"tx", "rx"}
    /\ RecvInit

-----------------------------------------------------------------------------
(* Sending.                                                                *)

\* send_fds or send_fds_vectored is called; there is no validate_stream_send.
SendCall(s, p) ==
    /\ parcel[s] = Nothing /\ "tx" \in ends
    /\ Len(outcome[s]) < MaxSends
    /\ parcel' = [parcel EXCEPT ![s] = p]
    /\ UNCHANGED <<outcome, queue, gone, took, ends, recvVars>>

\* The call of s returns, or is dropped.
SendReturn(s, o) ==
    /\ outcome' = [outcome EXCEPT ![s] = Append(@, [is |-> o, parcel |-> parcel[s]])]
    /\ parcel' = [parcel EXCEPT ![s] = Nothing]
    /\ UNCHANGED <<gone, took, ends, recvVars>>

\* What s passes to sendmsg as one message.
Passed(s) == [from |-> s, call |-> Len(outcome[s]) + 1,
              len |-> parcel[s].len, fds |-> parcel[s].fds]

\* sendmsg would refuse the message: a closed peer, a payload or a list of
\* descriptors that is too long.
Refused(s) == "rx" \notin ends \/ parcel[s].len > LenMax \/ parcel[s].fds > ScmMaxFd

\* Mutant of sendmsg: the descriptors travel in a message of their own.
sendmsg_split(s) ==
    /\ parcel[s] # Nothing /\ ~Refused(s)
    /\ Len(queue) < QueueMax
    /\ queue' = (IF parcel[s].fds > 0 /\ parcel[s].len > 0 /\ Len(queue) + 1 < QueueMax
                 THEN queue \o <<[Passed(s) EXCEPT !.fds = 0], [Passed(s) EXCEPT !.len = 0]>>
                 ELSE Append(queue, Passed(s)))
    /\ SendReturn(s, "ok")

\* send_fds_vectored_impl: the message is queued whole, bytes and descriptors.
sendmsg(s) ==
    /\ parcel[s] # Nothing /\ ~Refused(s)
    /\ Len(queue) < QueueMax
    /\ queue' = Append(queue, Passed(s))
    /\ SendReturn(s, "ok")

\* Mutant of SendRefused: every error is retried like EINTR.
SendRetries(s) == FALSE /\ UNCHANGED vars

\* sendmsg fails: refused, or out of memory, or WouldBlock returned to a
\* caller of the blocking API.  Nothing was queued.
SendRefused(s) == Refused(s) /\ parcel[s] # Nothing /\ SendReturn(s, "err") /\ UNCHANGED queue
SendFails(s) == ~Refused(s) /\ parcel[s] # Nothing /\ SendReturn(s, "err") /\ UNCHANGED queue

\* A tokio send waiting for room is dropped.
SendCancel(s) ==
    /\ Async
    /\ parcel[s] # Nothing
    /\ SendReturn(s, "cancelled")
    /\ UNCHANGED queue

\* The sending socket is dropped when no call borrows it.
CloseSender ==
    /\ "tx" \in ends
    /\ \A s \in Sender : parcel[s] = Nothing
    /\ ends' = ends \ {"tx"}
    /\ UNCHANGED <<sendVars, queue, gone, took, recvVars>>

-----------------------------------------------------------------------------
(* Receiving.                                                              *)

\* recvmsg takes exactly one message; what of its payload does not fit the
\* buffer is lost and flagged with MSG_TRUNC.
RecvMsg(r) ==
    /\ rpc[r] = "recvmsg"
    /\ queue # <<>>
    /\ LET m == Head(queue)
       IN /\ Deliver(r, Payload(m, MinOf(m.len, buf[r])), Rights(m), m.len > buf[r])
          /\ took' = [took EXCEPT ![r] = m]
          /\ gone' = Append(gone, m)
    /\ queue' = Tail(queue)
    /\ UNCHANGED <<sendVars, ends>>

\* A seqpacket peer has closed and everything it sent was received: recvmsg
\* returns no bytes.
RecvEof(r) ==
    /\ rpc[r] = "recvmsg"
    /\ Seqpacket /\ queue = <<>> /\ "tx" \notin ends
    /\ Deliver(r, <<>>, <<>>, FALSE)
    /\ took' = [took EXCEPT ![r] = EndOfFile]
    /\ UNCHANGED <<sendVars, queue, gone, ends>>

\* Nothing to read: recvmsg fails, or tokio waits.
RecvNothing(r) ==
    /\ queue = <<>>
    /\ RecvFails(r) \/ RecvWouldBlock(r)
    /\ UNCHANGED channelVars

\* A datagram socket reports the reset of its peer before what it still holds.
RecvReset(r) ==
    /\ ~Seqpacket /\ "tx" \notin ends
    /\ RecvFails(r)
    /\ UNCHANGED channelVars

\* The receiving socket is dropped when no call borrows it.
CloseReceiver ==
    /\ "rx" \in ends
    /\ \A r \in Receiver : rpc[r] = "idle"
    /\ ends' = ends \ {"rx"}
    /\ gone' = gone \o queue
    /\ queue' = <<>>
    /\ UNCHANGED <<sendVars, took, recvVars>>

Receives(r) == \E m \in Mode : "rx" \in ends /\ RecvCall(r, m) /\ UNCHANGED channelVars

Next ==
    \/ \E s \in Sender :
         \/ \E p \in Parcel : SendCall(s, p)
         \/ sendmsg(s) \/ SendRefused(s) \/ SendFails(s) \/ SendCancel(s)
    \/ \E r \in Receiver :
         Receives(r) \/ RecvMsg(r) \/ RecvEof(r) \/ RecvNothing(r) \/ RecvReset(r)
    \/ ReceiveLocal /\ UNCHANGED channelVars
    \/ CloseSender
    \/ CloseReceiver

Spec == Init /\ [][Next]_vars

\* A call that can proceed is scheduled, tokio wakes a task whose socket is
\* ready, and an application goes on receiving until it closes the socket.
FairSpec ==
    /\ Spec
    /\ \A s \in Sender : WF_vars(sendmsg(s) \/ SendRefused(s))
    /\ \A r \in Receiver :
         /\ WF_vars(Receives(r))
         /\ WF_vars(RecvMsg(r))
         /\ WF_vars((RecvRetry(r) \/ take_fds(r) \/ recv_core(r)) /\ UNCHANGED channelVars)

-----------------------------------------------------------------------------
(* Properties.                                                             *)

\* "Each message keeps its boundary and its descriptors" (seqpacket.rs), and the
\* datagram methods fail "rather than returning a short payload" (ReceivedFds):
\* a successful receive returns all the bytes of the one message it took and
\* accounts for all its descriptors, however several receivers share the
\* socket; anything less is an error.
WholeMessage ==
    \A r \in Receiver :
        result[r].ok =>
            LET m == took[r]
            IN /\ result[r].bytes = Payload(m, m.len)
               /\ result[r].fds = SubSeq(Rights(m), 1, Len(result[r].fds))
               /\ Len(result[r].fds) + result[r].surplus = m.fds
               /\ result[r].mode.exact => Len(result[r].fds) = result[r].mode.n

\* A buffer that is long enough is never the reason for an error, also when the
\* receive had to wait (recv_owned_impl: on WouldBlock "data_buf stays in place
\* for a retry"): the payload is cut only if it is longer than the buffer the
\* caller asked for.
FittingIsWhole ==
    \A r \in Receiver : msg[r].trunc => took[r].len > BufLen

\* The calls of s that returned Ok, and the messages that entered the socket, in
\* order.
Succeeded(s) == {k \in DOMAIN outcome[s] : outcome[s][k].is = "ok"}
Entered == gone \o queue

\* A message is all that the call which made it was asked to pass.
AsAsked(m) ==
    LET asked == outcome[m.from][m.call].parcel
    IN m.len = asked.len /\ m.fds = asked.fds

\* A send is one message or none: what entered the socket for a task is one
\* message for each of its calls that returned Ok, in that order, with the whole
\* payload and all the descriptors of the call, and none for a call that failed
\* or was dropped while it waited.
OneMessagePerSend ==
    /\ \A i \in DOMAIN Entered :
         Entered[i].call \in Succeeded(Entered[i].from) /\ AsAsked(Entered[i])
    /\ \A s \in Sender : \A k \in Succeeded(s) :
         \E i \in DOMAIN Entered : Entered[i].from = s /\ Entered[i].call = k
    /\ \A i, j \in DOMAIN Entered :
         i < j /\ Entered[i].from = Entered[j].from => Entered[i].call < Entered[j].call

\* While the receiver goes on receiving, or after it closes, every send returns
\* and every message leaves the socket, empty ones and those that are refused
\* on receipt included.
SentIsTaken ==
    \A s \in Sender : \A k \in 1 .. MaxSends :
        (parcel[s] # Nothing /\ Len(outcome[s]) = k - 1) ~>
            /\ Len(outcome[s]) >= k
            /\ outcome[s][k].is = "ok" =>
                 \E i \in DOMAIN gone : gone[i].from = s /\ gone[i].call = k

=============================================================================
