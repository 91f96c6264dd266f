--------------------------- MODULE StreamTransfer ---------------------------
(***************************************************************************)
(* Passing descriptors over one direction of a Unix stream with the        *)
(* high-level API: UnixStreamExt (ext.rs) and its tokio form (asyncio.rs). *)
(*                                                                         *)
(* Several tasks send on the same socket, several receive from its peer:   *)
(* both ends take &self.  A send is send_fds, one sendmsg, or              *)
(* send_fds_all, which repeats until the payload is accepted; the kernel   *)
(* may accept any part of it, fail, or meet a closed peer.  The receiving  *)
(* half is module Receive; here is what recvmsg takes off a stream.        *)
(*                                                                         *)
(* The stream is a queue of bytes; descriptors ride on the byte they were  *)
(* sent with.  The i-th descriptor of task s's frame is <<s, i>>.          *)
(*                                                                         *)
(* EINTR is retried inside sendmsg_vectored without any change of state,   *)
(* and so is WouldBlock by tokio's async_io: neither is a step here, a     *)
(* send that cannot proceed just waits.                                    *)
(***************************************************************************)
EXTENDS Receive

CONSTANTS
    Sender,         \* tasks sending
    Frame,          \* what a task may send: [all, len, fds]
    SockBuf,        \* bytes the kernel queues
    ScmMaxFd,       \* descriptors sendmsg accepts in one message
    Suppression     \* of SIGPIPE: "MSG_NOSIGNAL", "SO_NOSIGPIPE" (Apple), "none"

ASSUME StreamAssumption ==
    /\ Frame \subseteq [all : BOOLEAN, len : Nat, fds : Nat]
    /\ {SockBuf, ScmMaxFd} \subseteq Nat \ {0}
    /\ Suppression \in {"MSG_NOSIGNAL", "SO_NOSIGPIPE", "none"}
    /\ SocketKind = "Stream"

VARIABLES
    spc,        \* sender: "idle", "prepare", "sendmsg", "ok", "err", "cancelled"
    frame,      \* sender: the arguments of its call
    sent,       \* sender: bytes accepted so far
    error,      \* sender: the error returned
    nosigpipe,  \* SO_NOSIGPIPE of the sending socket
    killed,     \* the sending process got SIGPIPE
    stream,     \* bytes in flight: [src, at, rights]
    drained,    \* ghost: bytes that left the stream, received or discarded
    peer        \* "open", or "closed" once the receiving end is dropped

sendVars == <<spc, frame, sent, error, nosigpipe, killed>>
streamVars == <<sendVars, stream, drained, peer>>
vars == <<streamVars, recvVars>>

Sending == {"prepare", "sendmsg"}
Returned == {"ok", "err", "cancelled"}
Errors == {"none", "InvalidInput", "WriteZero", "BrokenPipe", "kernel"}

NoFrame == [all |-> FALSE, len |-> 0, fds |-> 0]

Right == Sender \X Nat
Byte == [src : Sender, at : Nat, rights : Seq(Right)]

TypeOK ==
    /\ spc \in [Sender -> {"idle"} \cup Sending \cup Returned]
    /\ frame \in [Sender -> Frame \cup {NoFrame}]
    /\ sent \in [Sender -> Nat]
    /\ \A s \in Sender : sent[s] <= frame[s].len
    /\ error \in [Sender -> Errors]
    /\ nosigpipe \in BOOLEAN /\ killed \in BOOLEAN
    /\ stream \in Seq(Byte) /\ drained \in Seq(Byte)
    /\ peer \in {"open", "closed"}
    /\ RecvTypeOK(Byte, Right)

Init ==
    /\ spc = [s \in Sender |-> "idle"]
    /\ frame = [s \in Sender |-> NoFrame]
    /\ sent = [s \in Sender |-> 0]
    /\ error = [s \in Sender |-> "none"]
    /\ nosigpipe = FALSE /\ killed = FALSE
    /\ stream = <<>> /\ drained = <<>>
    /\ peer = "open"
    /\ RecvInit

-----------------------------------------------------------------------------
(* Sending.                                                                *)

\* The call of s returns; e is "none" for Ok.
Return(s, e) ==
    /\ spc' = [spc EXCEPT ![s] = IF e = "none" THEN "ok" ELSE "err"]
    /\ error' = [error EXCEPT ![s] = e]

\* validate_stream_send: descriptors need a payload byte to ride on.
validate_stream_send(f) == f.len # 0 \/ f.fds = 0

\* send_fds, send_fds_vectored or send_fds_all is called.  send_fds_all with
\* nothing to send returns at once; send_fds still makes its sendmsg.
SendCall(s, f) ==
    /\ spc[s] = "idle"
    /\ frame' = [frame EXCEPT ![s] = f]
    /\ IF ~validate_stream_send(f)
       THEN Return(s, "InvalidInput")
       ELSE IF f.all /\ f.len = 0 /\ f.fds = 0
       THEN Return(s, "none")
       ELSE /\ spc' = [spc EXCEPT ![s] = "prepare"]
            /\ UNCHANGED error
    /\ UNCHANGED <<sent, nosigpipe, killed, stream, drained, peer, recvVars>>

\* Mutant of prepare_send: the EINVAL of a shut-down socket is ignored.
prepare_ignores(s) ==
    /\ spc[s] = "prepare"
    /\ nosigpipe' = (nosigpipe \/ (Suppression = "SO_NOSIGPIPE" /\ peer = "open"))
    /\ spc' = [spc EXCEPT ![s] = "sendmsg"]
    /\ UNCHANGED <<frame, sent, error, killed, stream, drained, peer, recvVars>>

\* prepare_send: nothing, where MSG_NOSIGNAL exists and on other Unix systems.
\* On Apple SO_NOSIGPIPE is set before every send; the kernel refuses that with
\* EINVAL once the peer has closed, which nosigpipe_error turns into EPIPE.
prepare_send(s) ==
    /\ spc[s] = "prepare"
    /\ IF Suppression # "SO_NOSIGPIPE" \/ peer = "open"
       THEN /\ nosigpipe' = (nosigpipe \/ Suppression = "SO_NOSIGPIPE")
            /\ spc' = [spc EXCEPT ![s] = "sendmsg"]
            /\ UNCHANGED error
       ELSE /\ Return(s, "BrokenPipe")
            /\ UNCHANGED nosigpipe
    /\ UNCHANGED <<frame, sent, killed, stream, drained, peer, recvVars>>

\* The descriptors of s's frame, in the order given.
Descriptors(s) == [i \in 1 .. frame[s].fds |-> <<s, i>>]

\* Mutant of Attached: every sendmsg of the frame carries the descriptors.
AttachedAlways(s) == Descriptors(s)

\* The rights on the next sendmsg of s: the whole list on the first
\* (send_fds_impl), none on the ones that complete it (send_bytes).
Attached(s) == IF sent[s] = 0 THEN Descriptors(s) ELSE <<>>

\* The next k bytes of s's frame, as sendmsg queues them.
Payload(s, k) ==
    [j \in 1 .. k |-> [src |-> s, at |-> sent[s] + j,
                       rights |-> IF j = 1 THEN Attached(s) ELSE <<>>]]

\* Mutant of Progress: a short first send is taken for the whole frame.
ProgressOnce(s, k) ==
    /\ sent' = [sent EXCEPT ![s] = sent[s] + k]
    /\ IF frame[s].all /\ k = 0 /\ sent[s] < frame[s].len
       THEN Return(s, "WriteZero")
       ELSE Return(s, "none")

\* Mutant of Progress: a short send is counted as the whole frame.
ProgressAssumed(s, k) ==
    /\ sent' = [sent EXCEPT ![s] = IF k = 0 THEN sent[s] ELSE frame[s].len]
    /\ Return(s, "none")

\* sendmsg accepted k bytes.  send_fds returns k; send_fds_all fails with
\* WriteZero if nothing was accepted and goes on until all of it was.
Progress(s, k) ==
    /\ sent' = [sent EXCEPT ![s] = sent[s] + k]
    /\ IF frame[s].all /\ k = 0
       THEN Return(s, "WriteZero")
       ELSE IF frame[s].all /\ sent[s] + k < frame[s].len
       THEN /\ spc' = [spc EXCEPT ![s] = "prepare"]
            /\ UNCHANGED error
       ELSE Return(s, "none")

\* The kernel can take bytes of s: there is a reader, room, and the message
\* has no more descriptors than it allows.
Accepts(s) ==
    peer = "open" /\ Len(stream) < SockBuf /\ Len(Attached(s)) <= ScmMaxFd

\* Mutant of Remaining: the completing sends pass the whole payload again.
RemainingWhole(s) == frame[s].len

\* The bytes passed to the next sendmsg, &data[sent..].
Remaining(s) == frame[s].len - sent[s]

\* sendmsg_vectored succeeds for some of the bytes that are left, or for none
\* of them, which send_fds_all provides for.
sendmsg(s) ==
    /\ spc[s] = "sendmsg"
    /\ Accepts(s)
    /\ \E k \in 0 .. MinOf(Remaining(s), SockBuf - Len(stream)) :
         /\ stream' = stream \o Payload(s, k)
         /\ Progress(s, k)
    /\ UNCHANGED <<frame, nosigpipe, killed, drained, peer, recvVars>>

\* Mutant of SendPeerClosed: EPIPE is retried like EINTR.
SendRetriesPipe(s) == FALSE /\ UNCHANGED vars

\* sendmsg meets a closed peer: EPIPE, and SIGPIPE with it where neither
\* MSG_NOSIGNAL nor SO_NOSIGPIPE suppresses the signal.
SendPeerClosed(s) ==
    /\ spc[s] = "sendmsg"
    /\ peer = "closed"
    /\ killed' = (killed \/ ~(Suppression = "MSG_NOSIGNAL" \/ nosigpipe))
    /\ Return(s, "BrokenPipe")
    /\ UNCHANGED <<frame, sent, nosigpipe, stream, drained, peer, recvVars>>

\* sendmsg refuses a message with too many descriptors.
SendTooMany(s) ==
    /\ spc[s] = "sendmsg"
    /\ peer = "open"
    /\ Len(Attached(s)) > ScmMaxFd
    /\ Return(s, "kernel")
    /\ UNCHANGED <<frame, sent, nosigpipe, killed, stream, drained, peer, recvVars>>

\* sendmsg fails otherwise, at any send of a frame: ENOBUFS, or the WouldBlock
\* that the blocking API returns to its caller.
SendFails(s) ==
    /\ spc[s] = "sendmsg"
    /\ peer = "open"
    /\ Return(s, "kernel")
    /\ UNCHANGED <<frame, sent, nosigpipe, killed, stream, drained, peer, recvVars>>

\* A tokio send waiting for room is dropped: the frame stays as far as it got.
SendCancel(s) ==
    /\ Async
    /\ spc[s] \in Sending
    /\ spc' = [spc EXCEPT ![s] = "cancelled"]
    /\ UNCHANGED <<frame, sent, error, nosigpipe, killed, stream, drained, peer,
                   recvVars>>

-----------------------------------------------------------------------------
(* Receiving.                                                              *)

\* The rights riding on a run of bytes.
Rights(bytes) == FlattenSeq([i \in DOMAIN bytes |-> bytes[i].rights])

\* The kernel takes some bytes off the stream, with the rights riding on them.
\* Linux ends a read at the first segment with rights, others may glue several.
RecvMsg(r) ==
    /\ rpc[r] = "recvmsg"
    /\ stream # <<>>
    /\ \E k \in 1 .. MinOf(buf[r], Len(stream)) :
         LET bytes == SubSeq(stream, 1, k)
         IN /\ Linux => Cardinality({i \in 1 .. k : bytes[i].rights # <<>>}) <= 1
            /\ Deliver(r, bytes, Rights(bytes), FALSE)
            /\ stream' = SubSeq(stream, k + 1, Len(stream))
            /\ drained' = drained \o bytes
    /\ UNCHANGED <<sendVars, peer>>

\* End of stream: every sender is done and has dropped the socket.
RecvEof(r) ==
    /\ rpc[r] = "recvmsg"
    /\ stream = <<>>
    /\ \A s \in Sender : spc[s] \in Returned
    /\ Deliver(r, <<>>, <<>>, FALSE)
    /\ UNCHANGED streamVars

\* Nothing to read: recvmsg fails, or tokio waits.
RecvNothing(r) ==
    /\ stream = <<>>
    /\ RecvFails(r) \/ RecvWouldBlock(r)
    /\ UNCHANGED streamVars

\* The receiving socket is dropped when no call borrows it; what it had not
\* received is discarded.
ClosePeer ==
    /\ peer = "open"
    /\ \A r \in Receiver : rpc[r] = "idle"
    /\ peer' = "closed"
    /\ drained' = drained \o stream
    /\ stream' = <<>>
    /\ UNCHANGED <<sendVars, recvVars>>

SendStep(s) == prepare_send(s) \/ sendmsg(s) \/ SendPeerClosed(s) \/ SendTooMany(s)
Next ==
    \/ \E s \in Sender :
         \/ \E f \in Frame : SendCall(s, f)
         \/ SendStep(s) \/ SendFails(s) \/ SendCancel(s)
    \/ \E r \in Receiver :
         \/ \E m \in Mode : peer = "open" /\ RecvCall(r, m) /\ UNCHANGED streamVars
         \/ RecvMsg(r) \/ RecvEof(r) \/ RecvNothing(r)
    \/ ReceiveLocal /\ UNCHANGED streamVars
    \/ ClosePeer

Spec == Init /\ [][Next]_vars

\* A task that can proceed is scheduled, and a receiving application keeps
\* calling receive until it closes the socket.
FairSpec ==
    /\ Spec
    /\ \A s \in Sender : WF_vars(SendStep(s))
    /\ \A r \in Receiver :
         /\ WF_vars(RecvMsg(r))
         /\ WF_vars((take_fds(r) \/ recv_core(r)) /\ UNCHANGED streamVars)
         /\ WF_vars(\E m \in Mode : peer = "open" /\ RecvCall(r, m) /\ UNCHANGED streamVars)

-----------------------------------------------------------------------------
(* Properties.                                                             *)

\* Everything that was put on the stream, in order, and the places in it of what
\* s put there.
Entered == drained \o stream
Places(s) == {i \in DOMAIN Entered : Entered[i].src = s}

\* "The descriptors are attached to the first successful send and never
\* retransmitted" (send_fds_all): however the sends of several tasks interleave
\* and wherever one stops, what entered the stream for a task is the first
\* `sent` bytes of its frame, once and in order, with the whole descriptor list
\* on the first byte and no descriptor anywhere else.
RightsRideOnce ==
    \A s \in Sender :
        /\ {Entered[i].at : i \in Places(s)} = 1 .. sent[s]
        /\ \A i, j \in Places(s) : i < j => Entered[i].at < Entered[j].at
        /\ \A i \in Places(s) :
             Entered[i].rights = IF Entered[i].at = 1 THEN Descriptors(s) ELSE <<>>

\* What Ok means to the caller of send_fds_all, who drops its own descriptors
\* then: the whole payload and every descriptor are on the stream.  A refused
\* argument has put nothing there.
OkIsComplete ==
    \A s \in Sender :
        /\ spc[s] = "ok" /\ frame[s].all
             => /\ sent[s] = frame[s].len
                /\ \A d \in ToSet(Descriptors(s)) :
                     \E i \in Places(s) : d \in ToSet(Entered[i].rights)
        /\ error[s] = "InvalidInput" => Places(s) = {}

\* "If you observe a successful Ok(ReceivedFds), every fd the kernel deposited
\* has been accounted for": a successful receive returns the first n of the
\* rights that rode on the bytes it consumed and counts all the others as
\* surplus; the exact form returns all of them, exactly n.  No right of the
\* consumed bytes is missing without an error.
ReceiptAccounted ==
    \A r \in Receiver :
        result[r].ok =>
            LET rights == Rights(result[r].bytes)
            IN /\ result[r].fds = SubSeq(rights, 1, Len(result[r].fds))
               /\ Len(result[r].fds) + result[r].surplus = Len(rights)
               /\ Len(result[r].fds) = (IF result[r].mode.exact
                                        THEN result[r].mode.n
                                        ELSE MinOf(Len(rights), result[r].mode.n))

\* A peer that closes at any moment, also between the option call and the send
\* it protects, never raises SIGPIPE in the sender, except on the systems where
\* "sends are not SIGPIPE-safe" (platform.rs) because nothing suppresses it.
NoSigpipe == killed => Suppression = "none"

\* Every send returns while the receiving application goes on receiving, or
\* after it closes the socket.
SendReturns == \A s \in Sender : spc[s] \in Sending ~> spc[s] \in Returned

\* What send_fds_all reported as sent leaves the stream: it is received, or
\* discarded by the peer that closes.
SentIsDrained ==
    \A s \in Sender :
        spc[s] = "ok" ~> Len(SelectSeq(drained, LAMBDA b : b.src = s)) = sent[s]

=============================================================================
