----------------------------- MODULE CmsgParse ------------------------------
(***************************************************************************)
(* The byte parser of ancillary.rs (RawMessages) against what writes the   *)
(* bytes: reserve_cmsg on the sending side and the kernel, which lays out  *)
(* control messages the same way and may cut them off anywhere.            *)
(*                                                                         *)
(* A control buffer is its length and the headers in it, each at a byte    *)
(* offset.  Reading a header where none was written yields any value, so   *)
(* that a parser out of step with the writer is a wrong behaviour of the   *)
(* model, and so that the same walk covers the arbitrary bytes that        *)
(* __fuzz_parse feeds it.                                                  *)
(***************************************************************************)
EXTENDS CmsgLayout, Sequences, FiniteSets

CONSTANTS
    Capacity,     \* bytes of the control buffer
    Payloads,     \* payload sizes that are written
    RewritesLen,  \* descriptors are installed as they fit and a cut message's
                  \* cmsg_len says how many (Linux), or all are and it is kept (Apple)
    MaxLen        \* bound: the largest cmsg_len found in arbitrary bytes

ASSUME ParseAssumption ==
    /\ Capacity \in Nat
    /\ Payloads \subseteq Nat
    /\ RewritesLen \in BOOLEAN
    /\ MaxLen \in Nat

VARIABLES
    phase,      \* "write", "walk", "done"
    trusted,    \* the bytes come from reserve_cmsg or the kernel
    hdrs,       \* messages written: [off, kind, len, payload], len being the
                \* cmsg_len in the header and payload the bytes there are
    total,      \* bytes written, then the control length delivered
    pos,        \* where `remaining` starts; `remaining` ends at total
    out,        \* the messages yielded: [off, kind, data], data a byte count
    installed   \* ghost: the descriptors the kernel installed, by the offset
                \* their bytes were written at

vars == <<phase, trusted, hdrs, total, pos, out, installed>>

KindName == {"rights", "creds"}
Header == [off : Nat, kind : KindName, len : Nat, payload : Nat]
Message == [off : Nat, kind : KindName, data : Nat]

TypeOK ==
    /\ phase \in {"write", "walk", "done"}
    /\ trusted \in BOOLEAN
    /\ hdrs \subseteq Header
    /\ total \in 0 .. Capacity
    /\ pos \in 0 .. total
    /\ out \in Seq(Message)
    /\ installed \subseteq Nat

Init ==
    /\ phase = "write"
    /\ trusted = TRUE
    /\ hdrs = {}
    /\ total = 0
    /\ pos = 0
    /\ out = <<>>
    /\ installed = {}

MinOf(a, b) == IF a <= b THEN a ELSE b

-----------------------------------------------------------------------------
(* The writers.                                                            *)

\* Mutant of reserve_cmsg: cmsg_len counts the padding after the payload.
reserve_padded(kind, payload) ==
    /\ phase = "write"
    /\ cmsg_space(payload) # NoSpace
    /\ total + cmsg_space(payload) <= Capacity
    /\ hdrs' = hdrs \cup {[off |-> total, kind |-> kind, payload |-> payload,
                           len |-> cmsg_space(payload)]}
    /\ total' = total + cmsg_space(payload)
    /\ UNCHANGED <<phase, trusted, pos, out, installed>>

\* reserve_cmsg: append a message, if its whole space fits.
reserve_cmsg(kind, payload) ==
    /\ phase = "write"
    /\ cmsg_space(payload) # NoSpace
    /\ total + cmsg_space(payload) <= Capacity
    /\ hdrs' = hdrs \cup {[off |-> total, kind |-> kind, payload |-> payload,
                           len |-> header_len + payload]}
    /\ total' = total + cmsg_space(payload)
    /\ UNCHANGED <<phase, trusted, pos, out, installed>>

\* Byte offsets of the n descriptors of a message at off.
Slots(off, n) == {off + header_len + FdSize * j : j \in 0 .. n - 1}

\* Whole descriptors in n bytes of payload (chunks_exact ignores a rest).
Whole(n) == IF n < 0 THEN 0 ELSE n \div FdSize

\* The receiver's control buffer has only `room` bytes (kernel, external).
\* The messages that begin in it are delivered; of the one that straddles its
\* end, the bytes that fit.  Linux rewrites cmsg_len to the whole descriptors
\* it installed and writes no message at all if there is none.  Apple installs
\* every descriptor before it copies the messages out, and keeps cmsg_len.
Straddles(h, room) == h.off + header_len + h.payload > room

Delivered(h, room) ==
    LET fit == IF h.kind = "rights"
               THEN FdSize * Whole(room - h.off - header_len)
               ELSE room - h.off - header_len
    IN  IF RewritesLen /\ Straddles(h, room)
        THEN [off |-> h.off, kind |-> h.kind, payload |-> fit,
              len |-> header_len + fit]
        ELSE h

IsDelivered(h, room) ==
    IF RewritesLen /\ Straddles(h, room)
    THEN room - h.off >= header_len + (IF h.kind = "rights" THEN FdSize ELSE 0)
    ELSE h.off < room

\* The control length the kernel reports: what it wrote, padded if it fits.
EndOf(h, room) == MinOf(room, h.off + CMSG_SPACE(h.payload))

\* The descriptors of a set of messages.
Descriptors(H) ==
    UNION {Slots(h.off, Whole(h.payload)) : h \in {g \in H : g.kind = "rights"}}

Deliver(room) ==
    LET got == {Delivered(h, room) : h \in {g \in hdrs : IsDelivered(g, room)}}
        ends == {EndOf(h, room) : h \in got} \cup {0}
    IN  /\ phase = "write"
        /\ phase' = "walk"
        /\ hdrs' = got
        /\ \E len \in 0 .. room :
             /\ len \in ends /\ \A x \in ends : x <= len
             /\ total' = len
        /\ installed' = Descriptors(IF RewritesLen THEN got ELSE hdrs)
        /\ UNCHANGED <<trusted, pos, out>>

\* __fuzz_parse: n arbitrary bytes.
Scramble(n) ==
    /\ phase = "write"
    /\ hdrs = {}
    /\ phase' = "walk"
    /\ trusted' = FALSE
    /\ total' = n
    /\ UNCHANGED <<hdrs, pos, out, installed>>

-----------------------------------------------------------------------------
(* The walk.                                                               *)

\* The headers a read at pos may see.
HeaderAt(p) ==
    IF \E h \in hdrs : h.off = p
    THEN {h \in hdrs : h.off = p}
    ELSE [off : {p}, kind : KindName, len : 0 .. MaxLen]

remaining == total - pos

\* Mutant of Extent: cmsg_len is trusted beyond the bytes there are.
ExtentUnchecked(h) == h.len

\* Mutant of Extent: a message longer than the bytes there are is malformed.
ExtentStrict(h) == IF h.len <= remaining THEN h.len ELSE 0

\* The end of the message within `remaining`: a message cut short, whose
\* cmsg_len still says its full length, ends where the bytes do.
Extent(h) == MinOf(h.len, remaining)

\* RawMessages::next returns None; `remaining` was taken and stays empty.
WalkEnds ==
    /\ phase = "walk"
    /\ \/ remaining < CmsgHdrSize
       \/ /\ remaining >= CmsgHdrSize
          /\ \E h \in HeaderAt(pos) : Extent(h) < header_len
    /\ phase' = "done"
    /\ UNCHANGED <<trusted, hdrs, total, pos, out, installed>>

\* Mutant of Advance: the padding after the payload is not skipped.
AdvanceUnaligned(data) == MinOf(total, pos + header_len + data)

\* Mutant of Advance: the payload is not skipped.
AdvanceHeaderOnly(data) == MinOf(total, pos + header_len)

\* Mutant of Advance: `remaining` is kept when no further message fits.
AdvanceKeeps(data) ==
    IF cmsg_space(data) # NoSpace /\ cmsg_space(data) <= remaining
    THEN pos + cmsg_space(data)
    ELSE pos

\* Where `remaining` starts after a message with this much data: after its
\* space, or nowhere if the space is unrepresentable or exceeds the bytes.
Advance(data) ==
    IF cmsg_space(data) # NoSpace /\ cmsg_space(data) <= remaining
    THEN pos + cmsg_space(data)
    ELSE total

\* RawMessages::next yields a message.
WalkYields ==
    /\ phase = "walk"
    /\ remaining >= CmsgHdrSize
    /\ \E h \in HeaderAt(pos) :
         LET end == Extent(h)
         IN  /\ end >= header_len
             /\ out' = Append(out, [off |-> pos, kind |-> h.kind,
                                    data |-> end - header_len])
             /\ pos' = Advance(end - header_len)
    /\ UNCHANGED <<phase, trusted, hdrs, total, installed>>

Write == \E kind \in KindName, n \in Payloads : reserve_cmsg(kind, n)
Hand == \E n \in 0 .. Capacity : Deliver(n) \/ Scramble(n)

Next == Write \/ Hand \/ WalkEnds \/ WalkYields

Spec == Init /\ [][Next]_vars

-----------------------------------------------------------------------------
(* Properties.                                                             *)

\* rights(): the descriptors the loops of take_received_into and take_fds
\* turn into OwnedFds, by the offset of their bytes.
rights(m) == Slots(m.off, Whole(m.data))
Taken == UNION {rights(out[i]) : i \in {j \in DOMAIN out : out[j].kind = "rights"}}

\* Every payload slice lies inside the delivered bytes, whatever they hold:
\* no read past the buffer and no slice panic.
WithinBuffer ==
    \A i \in DOMAIN out : out[i].off + header_len + out[i].data <= total

\* Messages are yielded in order and their bytes never overlap, whatever the
\* buffer holds: no descriptor is owned twice.
NoOverlap ==
    \A i, j \in DOMAIN out : i < j =>
        out[i].off + header_len + out[i].data <= out[j].off

\* On bytes that reserve_cmsg or the kernel laid out, the walk reads headers
\* only where headers were written: it never takes padding or payload for a
\* message.
InStep ==
    trusted => /\ \A i \in DOMAIN out : \E h \in hdrs : h.off = out[i].off
               /\ phase = "walk" /\ remaining >= CmsgHdrSize =>
                    \E h \in hdrs : h.off = pos

\* The descriptors whose bytes are all in the buffer.
Reported == {s \in installed : s + FdSize <= total}

\* When the walk of a kernel-written buffer ends, the descriptors taken are
\* exactly those the kernel reported, wherever the buffer was cut: no reported
\* descriptor leaks and no unrelated number is owned.  On Linux those are all it
\* installed; "Apple installs descriptors it could not report; only Linux can be
\* exact" (tests/truncation.rs).
OwnsExactlyReported ==
    trusted /\ phase = "done" =>
        Taken = Reported /\ (RewritesLen => Reported = installed)

\* Every message delivered whole is yielded with its own payload length.
RoundTrip ==
    trusted /\ phase = "done" =>
        \A h \in hdrs : h.off + header_len + h.payload <= total =>
            \E i \in DOMAIN out : out[i] = [off |-> h.off, kind |-> h.kind,
                                            data |-> h.payload]

\* Every message yielded brings the walk at least a header further, whatever the
\* bytes are: no cmsg_len makes RawMessages::next loop.
WalkProgresses ==
    [][out' # out => pos' >= pos + header_len]_vars

=============================================================================
