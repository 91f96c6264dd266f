# A TLA+ verification of unix-ancillary

`unix-ancillary` passes file descriptors (and, on Linux, credentials) over Unix
sockets. Its promise is about ownership: a descriptor that the kernel installs in
the process belongs to exactly one owner from the moment it is seen, is closed
exactly once, is close-on-exec before anybody can use it, and a message that lost
descriptors is never mistaken for a whole one. The promise has to hold on every
error path and in every order of legal calls, on kernels that differ in how they
lay out, truncate and glue control messages. This directory models that logic,
model-checks it with TLC and proves its safety with TLAPS.

## Inventory

| Component | State | Operations | Meets |
|---|---|---|---|
| `SocketAncillary` (`ancillary.rs`) | bytes, `length`, `truncated`, `receive_mode`, `received` (messages with their `OwnedFd`s), a lifetime that borrows added descriptors | `new`, `add_fds`, `add_credentials`, `messages` and its two draining iterators, `clear`, drop | the process's descriptor table, the kernel |
| Low-level API (`lib.rs`, `cmsg.rs`) | none of its own | `cmsg_sendmsg`, `cmsg_recvmsg`, `cmsg_recvmsg_peek` | a `SocketAncillary`, the system calls |
| Parser and layout (`ancillary.rs`) | the bytes that remain | `RawMessages::next`, `rights`, `take_received_into`, `take_fds`, `cmsg_space` | kernel-written bytes, arbitrary bytes under fuzzing |
| Platform layer (`platform.rs`) | the socket's `SO_NOSIGPIPE`, descriptor flags | `set_cloexec` and batches, `prepare_send`, `max_recv_fds` | every send and receive; processes forked meanwhile; `RLIMIT_NOFILE` |
| High-level receive (`recv_core` and its callers in `ext.rs`, `asyncio.rs`) | the buffers of a call | sizing, `recvmsg`, the checks, `CountMode` | the platform budget, tokio's readiness |
| Stream API (`ext.rs`, `asyncio.rs`) | a send's position in its payload | `send_fds`, `send_fds_vectored`, `send_fds_all`, `recv_fds` and variants | other tasks on the same socket, the peer |
| Datagram and seqpacket API (`ext.rs`, `asyncio.rs`, `seqpacket.rs`) | none | sends and receives with message boundaries | the same implementation as streams; other tasks on the socket |
| Credentials (`credentials.rs`) | `SO_PASSCRED`, the ids of each process | `set_passcred`, `passcred`, `ScmCredentials` | control messages, the kernel's check of a claim |

What is hard here: partial failure after descriptors are installed (a failing
`fcntl`, a count mismatch, truncation); descriptor numbers that are closed and
reused by other threads while bytes naming them are still around; iterators that
are dropped half-way; short sends and retries of a send that already delivered its
descriptors; futures dropped at an await; peers that close between two calls;
`c_uint` arithmetic that wraps; buffers cut in the middle of a descriptor; messages
that are refused after they were taken off a socket; options and limits that change
between the moment they matter to the sender and to the receiver; processes forked
before a descriptor is marked close-on-exec. The
`hazards` of `PROJECT.json` list each of these at its line, with the properties
that would catch it.

## Modules

`CmsgLayout` — the layout arithmetic as operators. Header size, alignment and
`i32::MAX` are constants, so that a run can make `CMSG_SPACE` wrap with small
numbers. `CmsgLayoutProofs` proves that the guard of `cmsg_space` is enough:
for every layout and payload, no wrap-around happens.

`FdOwnership` — the abstract contract. A descriptor number has no owner, or an
owner and the file the owner means by it. It is opened, installed by the kernel
for a buffer, given by a buffer to the caller, or released by its owner; nothing
else happens to it, except where the kernel installs descriptors it reports to nobody
(`InstallsOmitted`): these stay open, `unseen`.

`Ancillary` — the core. Several `SocketAncillary` values in one process share a
descriptor table. `descs` has one record per live `OwnedFd` (or per installed
number nobody owns yet), whose `stage` says where it is: `raw` in the bytes the
kernel wrote, `held` in `received`, `iter` in a `ScmRights` iterator, `owned` by
the caller. `table` is the kernel's view. `unseen` has the numbers that the kernel
installed and did not report, which it does only where `InstallsOmitted`. The other
variables are the fields of the struct and the locals of the call in progress (`pc`,
`control`, `ret`).

| Action | Code |
|---|---|
| `add_fds`, `add_credentials` | the methods, through `reserve_cmsg`; errors change nothing but the borrow |
| `cmsg_sendmsg` | `lib.rs`; numbers are resolved by the kernel at that moment |
| `RecvBegin` | `recv_into_ancillary` up to the system call: `clear`, `receive_mode` |
| `RecvMsg`, `RecvEof`, `RecvError` | `recvmsg(2)`: what it may deliver, and its failure |
| `TakeRights`, `TakeCredentials`, `close_pidfd`, `TakeDone` | `take_received_into`, one control message per step |
| `set_cloexec`, `CloexecFail`, `Finish` | `cloexec_received` and the two ways the call returns |
| `messages`, `MessagesNext`, `MessagesDrop`, `ScmRightsNext`, `ScmRightsDrop` | the draining iterators |
| `clear`, `DropAndNew`, `Open`, `CloseOwned` | the caller |

Steps of one buffer interleave with those of the others, which is how other
threads come to reuse a number. Rust's borrow rules appear as guards: `Usable`
(`&mut self`: no call or iterator is live) and `Lent` (a descriptor passed to
`add_fds` cannot be dropped while the buffer lives).

`CmsgParse` — the parser against its writers at byte granularity. A buffer is a set
of headers at offsets. `reserve_cmsg` writes them; `Deliver` is the kernel cutting
them at any length, with Linux's rewriting of `cmsg_len` or Apple's keeping of it:
`reported` are the descriptors whose number lies in the buffer whole, `installed` all
those the process now has open, which on Apple includes the ones that were cut off.
`Scramble` is arbitrary bytes. A header read where none was written can be
anything, so a parser that falls out of step shows.

`ReceiveBudget` — how large a receive makes its control storage: `clamp_nofile`,
`max_recv_fds`, `buffer_size_for_rights`, `buffer_size_for_credentials` and the sum
`recv_core` asks for (`ControlSize`), as operators over the widths of `rlim_t` and
`usize`; and what the kernel can put there: the credentials of `SO_PASSCRED` first, in
what is `Left` as many descriptors as have `Room`, and last the pidfd of `SO_PASSPIDFD`,
if it still fits (`PidfdFits`). `Needed` is what a set of descriptors with or without a
pidfd takes.

`Receive` — the receiving half that streams, datagrams and seqpacket sockets share.

| Action | Code |
|---|---|
| `RecvCall` | a receive method up to the system call: data buffer, `CountMode`, control storage |
| `Deliver` | what `recvmsg` installs, reports and flags, pidfd included |
| `take_fds` | the call owns the descriptors reported, and closes the pidfd |
| `RecvFails` | an error of `recvmsg` |
| `RecvWouldBlock`, `RecvRetry`, `RecvCancel` | tokio's `async_io`: wait for readiness, run the closure again with the same data buffer, or be dropped |
| `CloexecFails` | `cloexec_fds` |
| `recv_core` | truncation, `SocketKind`, `CountMode`; `RecvReturn` closes what is not returned |
| `CloseHeld`, `set_passcred`, `SetPasspidfd`, `setrlimit` | the application, at any moment; the crate itself never sets `SO_PASSPIDFD` |

Two facts about kernels that `tests/truncation.rs` records are part of `Deliver`. On
Linux a pidfd takes room the budget does not account for: it displaces no descriptor,
since it comes last, but a message that fills the storage with rights arrives with
`MSG_CTRUNC`, and `recv_core` refuses it. On Apple (`InstallsOmitted`) the descriptors
that do not fit the storage are open in the process all the same; they are in `unseen`,
count against the descriptor table, and no code can close them.

`StreamTransfer` — one direction of a stream, on top of `Receive`. Sender tasks run
`send_fds` or `send_fds_all`; the kernel accepts any part, fails or meets a closed peer.
`Suppression` says what keeps SIGPIPE away: `MSG_NOSIGNAL`, Apple's `SO_NOSIGPIPE`, or
nothing on other Unix systems. The stream is a queue of bytes with the descriptors
riding on the byte they were sent with. `prepare_send` and `sendmsg` are separate steps,
because the peer may close in between. tokio's calls are the same actions plus
`SendCancel`.

`DatagramTransfer` — a connected datagram or seqpacket socket, on top of `Receive`.
A send queues one message or fails (`sendmsg`, `SendRefused`, `SendFails`,
`SendCancel`); an option call that fails in `prepare_send` is a `SendFails`.
`RecvMsg` takes one message and loses what does not fit the buffer. `Seqpacket` says
whether a closed peer is an end of file or, on a datagram socket, at most an error.

`PeerCredentials` — the values of credentials. Processes fill a `SocketAncillary` with
or without a claim, send it any number of times (the same buffer again if they like), and
may drop their privileges in
between; the kernel judges a claim, attaches the sender's ids or, if `SO_PASSCRED` was
off, nothing; the receiver reads through `cmsg_recvmsg`, with storage that may be too
small, or through `recv_fds`.

`ForkExec` — received descriptors against processes spawned by other threads of the
same process. The child of a fork copies the descriptors and their flags; exec closes
the flagged ones. The lock is the application's: the crate's README and documentation
ask for it where `MSG_CMSG_CLOEXEC` does not exist. `locking` says whether the
application follows the advice.

The proofs are in modules of their own: `CmsgLayoutProofs`, `CmsgParseProofs`,
`AncillaryProofs` (with the refinement), `ReceiveProofs` (what both transports have in
common), `StreamTransferProofs`, `DatagramTransferProofs`, `PeerCredentialsProofs` and
`ForkExecProofs`.

## What the runs check

| Run | Instance | Properties |
|---|---|---|
| `ancillary_linux` | 2 buffers, 2 numbers, 1 descriptor per message, credentials, pidfds, peeks | `TypeOK`, `SoleOwner`, `NoLeak`, `OwnerIntegrity`, `SendIntegrity`, `FailedReceiveIsEmpty` |
| `ancillary_batch` | 1 buffer, 3 numbers, 2 descriptors per message, fairness | `CompleteOrFlagged`, `ReceiveReturns` |
| `ancillary_fallback` | 2 buffers, 2 numbers, no `MSG_CMSG_CLOEXEC`, several rights messages, unreported descriptors, 12/4 layout | `NoLeak`, `CloexecGuarantee`, `ImplementsOwnership` |
| `parse_linux` | 16/8 layout, 72 bytes, `i32::MAX` = 40, payloads of 4 to 12 bytes and one of 72 | `WithinBuffer`, `NoOverlap`, `InStep`, `RoundTrip`, `OwnsExactlyReported`, `WalkProgresses` |
| `parse_apple` | 12/4 layout, 48 bytes, `cmsg_len` kept when cut, the rest installed unreported | `OwnsExactlyReported` |
| `stream_linux` | 2 senders, 1 receiver, frames of 0 to 3 bytes with 0 to 3 descriptors (2 allowed), cancellation, `SO_PASSCRED` and `SO_PASSPIDFD` toggled | `TypeOK`, `RightsRideOnce`, `OkIsComplete`, `ReceiptAccounted`, `NoDescriptorLeak`, `BudgetSuffices` |
| `stream_apple` | 2 senders, 2 receivers, up to 4 glued rights for room of 3, the fourth installed unreported, 4-entry table, failing `fcntl`, `SO_NOSIGPIPE` | `ReceiptAccounted`, `NoDescriptorLeak`, `NoSigpipe` |
| `stream_live` | 2 senders, 1 receiver, socket buffer smaller than a frame, a BSD-like kernel (`MSG_NOSIGNAL`, no options to toggle), fairness | `SendReturns`, `SentIsDrained` |
| `datagram_fallback` | 1 sender, 2 receivers, messages of 0 to 3 bytes and 0 to 3 descriptors, a buffer of 1 byte, 3-entry table, `RLIMIT_NOFILE` unreadable, 0 or unlimited, unreported descriptors, tokio | `TypeOK`, `WholeMessage`, `FittingIsWhole`, `OneMessagePerSend`, `NoDescriptorLeak`, `BudgetSuffices` |
| `seqpacket_live` | 2 senders, 2 receivers, a queue of one message, both ends may close, fairness | `SentIsTaken` |
| `peer_credentials` | 2 processes, each privileged or not, two messages in all, claims and none, two sizes of storage | `NoImpersonation`, `AttributedInTime` |
| `fork_exec` | 2 receiving threads, 1 spawning thread, 3 descriptors, messages of up to 2, no atomic close-on-exec, with and without the lock | `NothingInherited`, `InheritedWasInFlight` |

All of them hold. The bounds are the smallest at which the hazards occur: two numbers
are enough for one to be closed and reused while another path still knows it; two
descriptors in a message for a batch to fail half-way or be cut; three numbers for a
pidfd beside them; a control buffer that holds one message with credentials but not
everything at once; frames longer than the socket buffer, so that a send is short; two
tasks per end. `Capacity`, `MaxBatch`, `MaxWire`, `MaxQueue`, `MaxLen`, `SockBuf` and
`TableSize` name the bounds. For datagrams a queue of two messages and two sends
(`QueueMax`, `MaxSends`) are enough for a second message to be taken by another
receiver, or left behind, while the first is being refused; `HardFloor` 2 and
`HardCeiling` 4 stand for 253 and 2^20, with messages below, at and above the floor and
limits on both sides of it. Two processes with two messages in all
(`PeerCredentials!MaxSends`) let one fill a buffer, send it, drop its privileges and
send the same buffer again, with the option switched before and after, or each send one.
`Fd` has three numbers so that two receives of two can compete for them and reuse one
that was closed; the reuse is what tells a descriptor in flight at the fork from one
that arrived later. The reduced `I32Max` of `parse_linux` keeps the relation between
`i32::MAX` and the width of `c_uint`, here 82: for the payload of 72 bytes `CMSG_SPACE`
wraps, so that a `cmsg_space` without its guard writes headers over one another. That
payload is beyond `i32::MAX` and the guard refuses it. Symmetry is used only where no
liveness property is checked.

Deadlock is not checked where a run may rightly end: the parser stops at the end
of the buffer, a stream is finished when its tasks are and the peer is closed, and the
sends of the other transports are counted. In `fork_exec` it is checked: the lock never
leaves the threads waiting for one another.

### Fairness

`Ancillary!FairSpec` is weakly fair for the steps between a successful `recvmsg`
and the return of the call: they are straight-line code with no wait. Nothing is
assumed of `recvmsg` itself or of the caller. `StreamTransfer!FairSpec` is weakly
fair for the steps of a send that can proceed and of a receive that has data, and
assumes an application that keeps receiving until it closes the socket: without a
reader a full stream blocks a sender for ever, as it should. The run excludes
cancellation, which could otherwise drop every receive before it starts.
`DatagramTransfer!FairSpec` is weakly fair for a send the kernel can answer
(`sendmsg` or `SendRefused`), for a receive that has a message, for the return of a
call, and for the retry of a call that waits: tokio wakes a task when its socket is
ready, and a task that finds nothing waits again. Cancellation stays possible in that
run: the application calls receive again. No fairness is assumed of failures,
cancellation or closing.

## What is proved

Every safety invariant of every run, `WalkProgresses` and the refinement of
`FdOwnership` are theorems: they hold for every number of buffers, tasks, processes
and descriptors, every capacity, and every layout and width that the named
assumptions of the modules allow.

### Layout and parser (`CmsgLayoutProofs`, `CmsgParseProofs`)

`CmsgSpaceExact`: `cmsg_space` is exact, no wrap-around passes its guard.

On any bytes whatsoever the walk stays in the buffer (`ParserStaysInside`), yields no
byte twice (`MessagesAreDisjoint`) and moves on by at least a header
(`ParserMakesProgress`). The invariant is that every message yielded ends where the
walk stands, or before; the step rests on `CmsgSpaceExact`.

On bytes that `reserve_cmsg` or the kernel wrote, cut anywhere, the walk also yields
exactly what was written: `WalkStaysInStep` (`InStep`), `WholeMessagesArrive`
(`RoundTrip`) and `ReportedAreOwned` (`OwnsExactlyReported`: the descriptors taken are
those whose number lies in the buffer whole; where the kernel corrects `cmsg_len`, these
are all it installed, so that none leaks there). The invariant
`TrustedInv` has one part per phase. While writing, headers are laid end to end from 0
(`Laid`), and inside the buffer (`Fits`). The kernel's cut keeps the first and gives up
the second: at most the last message is partial. During the walk (`Walked`) the parser
stands at a header or at the end, what it yielded is what the headers behind it say, cut
to the buffer, and the reported descriptors are the whole slots of each cut message.

### `SocketAncillary` (`AncillaryProofs`)

`TypeCorrect`, `SoleOwnership`, `NothingLeaks`, `OwnersKeepTheirFiles`,
`SendsWhatWasAdded`, `CloexecHolds`, `FailureLeavesNothing` and `LossIsFlagged` rest on
one inductive invariant, `IInv`. None of the properties is inductive alone. That no
number has two owners needs to know that a number the kernel hands out is free, hence
that every open number is tracked (`Tracked`) by a descriptor that names its file
(`OwnerIntegrity`), or is one of the `unseen` that nobody can name; that what is sent is
what was added needs the descriptors on the wire to be borrowed (`WireIsLent`) and the
borrowed ones to be still the caller's (`LentIsOwned`); that clearing disposes of
everything needs each stage to occur only in the phase of the call that creates it
(`Placed`, `Phases`); close-on-exec needs the marks of the batch so far (`Marked`). Each
action has its lemma; `Invariance` combines them.

`NoLeak` says more than that somebody owns a number: a descriptor held by a buffer must
be in a message the buffer lists, from which `messages` can still drain it.

`Refinement`: `Ancillary` implements `FdOwnership`. Opening, installing, giving out
and releasing map to the actions of the same name; every other step, the moves of a
descriptor inside a buffer included, is a stutter.

### The receiving half (`ReceiveProofs`)

`BudgetBounded`, `RoomForAll`, `AdditionNeverOverflows`: for every resource limit the
budget lies between the floor and the ceiling; the storage a receive asks for holds `N`
and at least `HARD_FLOOR` descriptors with or without automatic credentials, and besides
these all the bytes that many descriptors take; and the sum
of its two parts never exceeds `usize`, so that the overflow error of `recv_core` cannot
occur. They assume a `usize` of 32 bits or more and rest on `CmsgSpaceExact`.

`RecvInv` is proved to be preserved by each operation of `Receive`, whatever the bytes
and rights of the transport. It holds `NoDescriptorLeak` and `BudgetSuffices` together
with what they need: every open descriptor has one owner, a receive or the application
(`SoleOwner`) or is one the kernel did not report; the storage of a receive about to
call the kernel was computed from a limit the process had (`Sized`), so that
`RoomForAll` applies; and what the receive holds after it is a prefix of what was sent,
flagged if it is shorter (`Installed`).

`NoDescriptorLeak` is exact about its exceptions: a descriptor nobody owns was never
reported, and there is none where the kernel reports everything it installs; a pidfd is
open only until `take_fds` closes it. `BudgetSuffices` is exact about the pidfd: a
receive is truncated only if the table was full, or if rights and pidfd together need
more bytes than the larger of `N` and `HARD_FLOOR` descriptors do; 253 descriptors and a
pidfd, as in `tests/truncation.rs`, are such a message, one descriptor and a pidfd are
not.

The one thing asked of the transport is that a message's rights are new to the process
and distinct.

### Transports (`StreamTransferProofs`, `DatagramTransferProofs`)

Each has `NothingLeaks` and `StorageSuffices` from `RecvInv`, `TypeCorrect`, and its own
properties:

* Streams: `DescriptorsRideOnce`, `OkMeansSent`, `RightsAreAccounted`, `NoSignal`
  (`RightsRideOnce`, `OkIsComplete`, `ReceiptAccounted`, `NoSigpipe`). The invariant
  says of each sender that its bytes entered the stream once and in order, with the
  descriptors on the first (`Rides`) and that its position fits its phase (`Called`);
  that a descriptor is open at the receiver only after the byte it rode on has left the
  stream (`FreshRights`), which makes the rights of the bytes still queued new ones, as
  `RecvInv` asks; that a receive holds the rights of the bytes it consumed (`Taken`);
  and that `prepare_send` has done its work before `sendmsg` (`Suppressed`).
* Datagrams and seqpacket: `BoundariesKept`, `FittingIsNotCut`, `SendsAreMessages`
  (`WholeMessage`, `FittingIsWhole`, `OneMessagePerSend`). Here one message per
  successful send, of the length and with the descriptors the call was given, makes the
  rights of each message new (`FreshRights`), and what a
  receive took off the socket decides its bytes, rights and flags (`Taken`).

What a concatenation of rights consists of (`FlattenSeq`, a recursive function) is
obtained from the least length at which a claim fails, with the well-ordering of the
natural numbers as a lemma (`LeastElement`).

### Credentials and fork (`PeerCredentialsProofs`, `ForkExecProofs`)

`CredentialsAreGenuine` and `CredentialsArriveInTime` (`NoImpersonation`,
`AttributedInTime`): the invariant is that every message in the kernel is `Genuine`, that
is, carries its sender's ids at the moment of the send or a claim the kernel allowed,
whatever its sender became since; a message is without credentials only if neither side
asked for them.

`RaceClosed`, `RaceBounded` (`NothingInherited`, `InheritedWasInFlight`): the invariant
adds that a descriptor without its mark is on the list of a receive in progress
(`UnmarkedIsListed`), that such lists belong to that receive's batch (`CallsOwn`), that
under the lock one receive or one fork is in progress (`OneAtATime`), and relates what a
child will keep to the batches at its fork (`KeptIsInFlight`).

### Checked before proved, and only checked

TLC checked each inductive invariant on the instances of the runs before it was proved.

Only model-checked: liveness (`ReceiveReturns`, `SendReturns`, `SentIsDrained`,
`SentIsTaken`), which rests on fairness and so on ENABLED, and the absence of deadlock
in `fork_exec`. The prover treats neither.

## Abstractions

* Payload bytes and error texts are data that the properties do not tell apart; bytes
  of a stream or message keep their origin and position. Values of credentials occur
  in `PeerCredentials` only.
* In `Receive` a right also names the descriptor installed for it: numbers and their
  reuse are `Ancillary`'s subject.
* The kernel is external: `recvmsg` may deliver any prefix of a message's
  descriptors that fits, with the truncation flag set when one is missing; a read of
  a stream may return any prefix.
* `PeerCredentials` has no pidfds, which say nothing about ids; they occur in `Ancillary`
  and `Receive`. `ForkExec` is about descriptors that were reported: one that a kernel
  installs without reporting it cannot be marked by anybody.
* An end of file with `SO_PASSPIDFD` is treated like a message, although it has no
  sender: `take_fds` closes what it is given.
* A bulk drop of several `OwnedFd`s is one step. Other threads can act before and
  after it, not between two of its `close` calls: each of those concerns a number that
  nobody else can name.
* EINTR retries change no state and are not steps. A tokio receive that would block is
  (`RecvWouldBlock`); a send that would block is one not yet scheduled.
* The overflow branch of `recv_core` is left out, being proved unreachable.
* A process has one set of ids in `PeerCredentials`; real, effective and saved ids
  differ in what the kernel allows to claim, not in what the crate does with it.
* `mem::forget` of an iterator, and code that closes a descriptor it does not own,
  break the rules the crate relies on and are not modelled.
* Zero-length receive buffers and the documented panic for an unrepresentable `N`
  are left out.

## Not modelled, and the plan

`with_control` chooses stack or heap storage and zeroes it: what could go wrong there
is memory safety, which these models do not express. The examples, tests and fuzz
drivers are clients of the crate. `passcred()` reads an option and changes nothing.

The other components are modelled within the abstractions above, and every safety
property the runs check is proved. What remains:

1. Abstract specifications of the transports, as there is one of descriptor ownership:
   a stream as a queue of bytes whose rights are handed over or closed exactly once, a
   datagram socket as a queue of whole messages; and that `StreamTransfer` and
   `DatagramTransfer` implement them.
2. That `Receive` is what `Ancillary`'s callers see: a receive of the high-level API
   as a buffer of capacity `ControlSize` that is drained and dropped in one call.
