-------------------------- MODULE AncillaryProofs ---------------------------
(***************************************************************************)
(* The safety properties of Ancillary, for any number of descriptors,      *)
(* files, buffers and queued messages, any buffer capacity and any layout, *)
(* on platforms with and without MSG_CMSG_CLOEXEC.                         *)
(***************************************************************************)
EXTENDS Ancillary, CmsgLayoutProofs, TLAPS

-----------------------------------------------------------------------------
(* The inductive invariant.                                                *)

\* Every open descriptor is somebody's, except those a kernel did not report;
\* these stay open and nobody else gets their numbers.
Tracked ==
    /\ \A f \in Fd : table[f] # Closed => f \in unseen \/ \E d \in descs : d.fd = f
    /\ \A f \in unseen : /\ InstallsOmitted /\ table[f] # Closed
                          /\ \A d \in descs : d.fd # f

\* Where a descriptor may be, given what the thread using the buffer does.
Placed ==
    \A d \in descs :
        /\ d.stage = "owned" <=> d.at = Caller
        /\ d.stage = "raw" => /\ pc[d.at] = "take"
                              /\ d.msg \in control[d.at]
                              /\ Kind[d.msg] # "creds"
        /\ d.stage = "held" => /\ receive_mode[d.at]
                               /\ d.msg \in received[d.at]
                               /\ pc[d.at] \notin {"recv", "peek"}
        /\ d.stage = "iter" => pc[d.at] \in {"idle", "drain"}

\* A borrowed descriptor stays the caller's.
LentIsOwned ==
    \A b \in Buffer : \A f \in borrowed[b] :
        \E d \in descs : d.fd = f /\ d.at = Caller

\* The bytes of a send buffer name borrowed descriptors, which still name the
\* files they named when they were added.
WireIsLent ==
    \A b \in Buffer : ~receive_mode[b] =>
        \A i \in 1 .. Len(wire[b]) : /\ wire[b][i].fd \in borrowed[b]
                                     /\ table[wire[b][i].fd] = wire[b][i].res

\* Where the kernel marks descriptors, all are marked; elsewhere the ones
\* that have left the receive are.
Marked ==
    \A d \in descs :
        \/ AtomicCloexec
        \/ d.stage \in {"iter", "owned"}
        \/ d.stage = "held" /\ pc[d.at] \in {"idle", "drain"}
        => d.fd \in cloexec

\* What the flags of a buffer say during and after a receive.
Phases ==
    \A b \in Buffer :
        /\ pc[b] \in {"recv", "peek", "take", "cloexec"} =>
             /\ receive_mode[b] /\ outcome[b] = "none"
             /\ length[b] = 0 /\ ~truncated[b]
        /\ pc[b] \in {"recv", "peek"} => received[b] = {} /\ ~lost[b]
        /\ pc[b] \in {"take", "cloexec"} /\ lost[b] => ret[b].trunc
        /\ outcome[b] = "err" => /\ receive_mode[b] /\ received[b] = {}
                                 /\ length[b] = 0 /\ ~truncated[b]

IInv ==
    /\ TypeOK
    /\ SoleOwner
    /\ OwnerIntegrity
    /\ Tracked
    /\ Placed
    /\ LentIsOwned
    /\ WireIsLent
    /\ Marked
    /\ Phases
    /\ SendIntegrity
    /\ CompleteOrFlagged

-----------------------------------------------------------------------------
(* What closing and moving descriptors preserves.                          *)

\* Dropping OwnedFds frees their numbers and disturbs no other descriptor.
LEMMA DropFacts ==
    ASSUME TypeOK, SoleOwner, OwnerIntegrity, Tracked,
           NEW S \in SUBSET descs, Drop(S)
    PROVE  /\ table' \in [Fd -> Resource \cup {Closed}]
           /\ cloexec' \subseteq Fd
           /\ descs' \subseteq descs /\ unseen' = unseen
           /\ SoleOwner' /\ OwnerIntegrity' /\ Tracked'
           /\ \A d \in descs' : d.fd \in cloexec => d.fd \in cloexec'
           /\ \A d \in descs' : table'[d.fd] = table[d.fd]
<1>1. \A d \in descs : d.fd \in Fd /\ d.res \in Resource
  BY DEF TypeOK, Desc
<1>2. /\ table' \in [Fd -> Resource \cup {Closed}]
      /\ cloexec' \subseteq Fd
      /\ descs' = descs \ S /\ unseen' = unseen
  BY DEF Drop, TypeOK
<1>3. \A d \in descs' : d.fd \notin FdsOf(S)
  BY <1>2 DEF SoleOwner, FdsOf
<1>4. \A d \in descs' : table'[d.fd] = table[d.fd]
  BY <1>1, <1>2, <1>3 DEF Drop
<1>5. SoleOwner' /\ OwnerIntegrity'
  BY <1>2, <1>4 DEF SoleOwner, OwnerIntegrity
<1>6. \A d \in descs' : d.fd \in cloexec => d.fd \in cloexec'
  BY <1>3 DEF Drop
<1>7. Tracked'
  <2>1. ASSUME NEW f \in Fd, table'[f] # Closed, f \notin unseen
        PROVE  \E d \in descs' : d.fd = f
    <3>1. f \notin FdsOf(S) /\ table[f] # Closed
      BY <2>1 DEF Drop
    <3>2. PICK d \in descs : d.fd = f
      BY <2>1, <3>1 DEF Tracked
    <3>3. d \notin S
      BY <3>1, <3>2 DEF FdsOf
    <3> QED
      BY <1>2, <3>2, <3>3
  <2>2. ASSUME NEW f \in unseen
        PROVE  /\ InstallsOmitted /\ table'[f] # Closed
               /\ \A d \in descs' : d.fd # f
    <3>1. /\ f \in Fd /\ f \notin FdsOf(S) /\ table[f] # Closed
          /\ InstallsOmitted /\ \A d \in descs : d.fd # f
      BY DEF Tracked, TypeOK, FdsOf
    <3> QED
      BY <1>2, <3>1 DEF Drop
  <2> QED
    BY <1>2, <2>1, <2>2 DEF Tracked
<1> QED
  BY <1>2, <1>4, <1>5, <1>6, <1>7

\* Where the descriptors are once those of S have been moved.
Moved(S, at, stage) ==
    /\ \A d \in descs' :
         \/ d \in descs \ S
         \/ \E e \in S : /\ d.fd = e.fd /\ d.msg = e.msg
                         /\ d.at = at /\ d.stage = stage
    /\ descs \ S \subseteq descs'

\* Moving OwnedFds changes neither the numbers nor the files they name.
LEMMA MoveFacts ==
    ASSUME TypeOK, SoleOwner, OwnerIntegrity, Tracked,
           NEW S \in SUBSET descs, NEW at \in Buffer \cup {Caller},
           NEW stage \in Stage, Move(S, at, stage)
    PROVE  /\ descs' \subseteq Desc /\ unseen' = unseen
           /\ SoleOwner' /\ OwnerIntegrity' /\ Tracked'
           /\ Moved(S, at, stage)
<1> DEFINE M(e) == InPlace(e, at, stage)
<1>1. \A e \in S : /\ M(e) \in Desc
                   /\ M(e).fd = e.fd /\ M(e).res = e.res /\ M(e).msg = e.msg
                   /\ M(e).at = at /\ M(e).stage = stage
  BY DEF TypeOK, Desc, InPlace
<1>2. /\ descs' = (descs \ S) \cup {M(e) : e \in S}
      /\ table' = table /\ unseen' = unseen
  BY DEF Move
<1> HIDE DEF M
<1>3. descs' \subseteq Desc
  BY <1>1, <1>2 DEF TypeOK
<1>4. OwnerIntegrity'
  BY <1>1, <1>2 DEF OwnerIntegrity
<1>5. SoleOwner'
  BY <1>1, <1>2 DEF SoleOwner
<1>6. Tracked'
  BY <1>1, <1>2 DEF Tracked
<1> QED
  BY <1>1, <1>2, <1>3, <1>4, <1>5, <1>6 DEF Moved

-----------------------------------------------------------------------------
(* Each action preserves the invariant.                                    *)

LEMMA OpenStep ==
    ASSUME IInv, NEW f \in Fd, NEW r \in Resource \ {PidFile}, Open(f, r)
    PROVE  IInv'
<1> USE DEF IInv, bufVars, callVars, Open, Free
<1>1. \A d \in descs : d.fd \in Fd /\ d.fd # f
  BY AncillaryAssumption DEF TypeOK, Desc, OwnerIntegrity
<1>2. /\ Owned(f, r) \in Desc
      /\ Owned(f, r).fd = f /\ Owned(f, r).res = r
      /\ Owned(f, r).at = Caller /\ Owned(f, r).stage = "owned"
  BY DEF Owned, Desc, Stage, MessageNo, Kind
<1>3. TypeOK'
  BY <1>2 DEF TypeOK
<1>4. SoleOwner' /\ OwnerIntegrity' /\ Tracked'
  BY <1>1, <1>2, AncillaryAssumption DEF SoleOwner, OwnerIntegrity, Tracked, TypeOK
<1>5. Placed' /\ LentIsOwned' /\ Marked'
  BY <1>2 DEF Placed, LentIsOwned, Marked
<1>6. WireIsLent'
  <2>1. \A b \in Buffer : \A g \in borrowed[b] : g \in Fd /\ g # f
    BY <1>1 DEF LentIsOwned
  <2>2. \A g \in Fd : g # f => table'[g] = table[g]
    BY DEF TypeOK
  <2>3. \A b \in Buffer : \A g \in borrowed[b] : table'[g] = table[g]
    BY <2>1, <2>2
  <2>4. UNCHANGED <<receive_mode, wire, borrowed>>
    OBVIOUS
  <2> QED
    BY <2>3, <2>4 DEF WireIsLent
<1>7. Phases' /\ SendIntegrity' /\ CompleteOrFlagged'
  BY DEF Phases, SendIntegrity, CompleteOrFlagged
<1> QED
  BY <1>3, <1>4, <1>5, <1>6, <1>7

LEMMA CloseOwnedStep ==
    ASSUME IInv, NEW d \in descs, CloseOwned(d)
    PROVE  IInv'
<1> USE DEF IInv, bufVars, callVars
<1>0. Drop({d}) /\ d.fd \notin Lent /\ UNCHANGED <<bufVars, callVars, queue>>
  BY DEF CloseOwned
<1>1. /\ table' \in [Fd -> Resource \cup {Closed}]
      /\ cloexec' \subseteq Fd
      /\ descs' = descs \ {d} /\ unseen' = unseen
      /\ SoleOwner' /\ OwnerIntegrity' /\ Tracked'
      /\ \A e \in descs' : e.fd \in cloexec => e.fd \in cloexec'
      /\ \A e \in descs' : table'[e.fd] = table[e.fd]
  BY <1>0, DropFacts DEF Drop
<1>2. TypeOK'
  BY <1>0, <1>1 DEF TypeOK
<1>3. Placed' /\ Marked'
  BY <1>0, <1>1 DEF Placed, Marked
<1>4. LentIsOwned'
  BY <1>0, <1>1 DEF LentIsOwned, Lent
<1>5. WireIsLent'
  BY <1>0, <1>1, <1>4 DEF WireIsLent, LentIsOwned
<1>6. Phases' /\ SendIntegrity' /\ CompleteOrFlagged'
  BY <1>0 DEF Phases, SendIntegrity, CompleteOrFlagged
<1> QED
  BY <1>1, <1>2, <1>3, <1>4, <1>5, <1>6

\* A reservation that succeeds keeps the length inside the buffer.
LEMMA ReserveFits ==
    ASSUME TypeOK, NEW b \in Buffer, NEW n \in Nat,
           CanReserve(b, n), reserve_cmsg(b, n)
    PROVE  length' \in [Buffer -> 0 .. Capacity]
<1>1. n \in 0 .. I32Max /\ cmsg_space(n) \in Nat
  BY CmsgSpaceExact, LayoutAssumption DEF CanReserve, cmsg_space, NoSpace
<1>2. length[b] + cmsg_space(n) \in 0 .. Capacity
  BY <1>1, AncillaryAssumption DEF CanReserve, TypeOK
<1> QED
  BY <1>2 DEF reserve_cmsg, TypeOK

LEMMA AddFdsStep ==
    ASSUME IInv, NEW b \in Buffer, NEW s \in Batch, add_fds(b, s)
    PROVE  IInv'
<1> USE DEF IInv, fdVars, callVars
<1>1. s \in Seq(Fd)
  BY AncillaryAssumption DEF Batch
<1>2. /\ pc[b] = "idle" /\ UNCHANGED <<fdVars, receive_mode, truncated, received,
                                        callVars, queue>>
      /\ \A i \in 1 .. Len(s) : s[i] \in CallerFds
      /\ borrowed' = [borrowed EXCEPT ![b] = @ \cup {s[i] : i \in 1 .. Len(s)}]
  BY DEF add_fds, Usable
<1>3. \A i \in 1 .. Len(s) : /\ s[i] \in Fd
                             /\ \E d \in descs : d.fd = s[i] /\ d.at = Caller
                             /\ table[s[i]] \in Resource
  BY <1>1, <1>2 DEF CallerFds, FdsOf, OwnerIntegrity, TypeOK, Desc
<1>4. /\ borrowed' \in [Buffer -> SUBSET Fd]
      /\ \A c \in Buffer : borrowed[c] \subseteq borrowed'[c]
      /\ \A c \in Buffer : c # b => borrowed'[c] = borrowed[c]
      /\ borrowed'[b] = borrowed[b] \cup {s[i] : i \in 1 .. Len(s)}
  BY <1>2, <1>3 DEF TypeOK
<1>5. LentIsOwned'
  <2> SUFFICES ASSUME NEW c \in Buffer, NEW f \in borrowed'[c]
               PROVE  \E d \in descs : d.fd = f /\ d.at = Caller
    BY <1>2 DEF LentIsOwned
  <2> QED
    BY <1>3, <1>4 DEF LentIsOwned
<1>6. Encode(s) \in Seq(WireFd)
  BY <1>1, <1>3 DEF Encode, WireFd
<1>7. CASE /\ UNCHANGED <<length, wire>>
  <2>1. TypeOK'
    BY <1>2, <1>7, <1>4 DEF TypeOK
  <2>2. WireIsLent'
    BY <1>2, <1>7, <1>4 DEF WireIsLent
  <2>3. SoleOwner' /\ OwnerIntegrity' /\ Tracked' /\ Placed' /\ Marked'
    BY <1>2 DEF SoleOwner, OwnerIntegrity, Tracked, Placed, Marked
  <2>4. Phases' /\ SendIntegrity' /\ CompleteOrFlagged'
    BY <1>2, <1>7 DEF Phases, SendIntegrity, CompleteOrFlagged
  <2> QED
    BY <1>5, <2>1, <2>2, <2>3, <2>4
<1>8. CASE /\ CanReserve(b, FdSize * Len(s))
           /\ reserve_cmsg(b, FdSize * Len(s))
           /\ wire' = [wire EXCEPT ![b] = @ \o Encode(s)]
  <2>0. FdSize * Len(s) \in Nat
    BY <1>1, LayoutAssumption
  <2>1. TypeOK'
    <3>1. length' \in [Buffer -> 0 .. Capacity]
      BY <1>8, <2>0, ReserveFits
    <3>2. wire' \in [Buffer -> Seq(WireFd)]
      BY <1>6, <1>8 DEF TypeOK
    <3> QED
      BY <1>2, <1>4, <3>1, <3>2 DEF TypeOK
  <2>3. WireIsLent'
    <3> SUFFICES ASSUME NEW c \in Buffer, ~receive_mode[c],
                        NEW i \in 1 .. Len(wire'[c])
                 PROVE  /\ wire'[c][i].fd \in borrowed'[c]
                        /\ table[wire'[c][i].fd] = wire'[c][i].res
      BY <1>2 DEF WireIsLent
    <3>1. CASE c # b
      BY <3>1, <1>2, <1>8, <1>4 DEF WireIsLent, TypeOK
    <3>2. CASE c = b
      <4>1. wire'[b] = wire[b] \o Encode(s) /\ wire[b] \in Seq(WireFd)
        BY <1>8 DEF TypeOK
      <4>2. CASE i <= Len(wire[b])
        <5>1. wire'[b][i] = wire[b][i] /\ i \in 1 .. Len(wire[b])
          BY <1>6, <3>2, <4>1, <4>2
        <5> QED
          BY <1>2, <1>4, <3>2, <5>1 DEF WireIsLent
      <4>3. CASE i > Len(wire[b])
        <5>1. /\ i - Len(wire[b]) \in 1 .. Len(s)
              /\ wire'[b][i] = Encode(s)[i - Len(wire[b])]
          BY <1>1, <1>6, <3>2, <4>1, <4>3 DEF Encode
        <5>2. \A j \in 1 .. Len(s) : /\ Encode(s)[j].fd = s[j]
                                     /\ Encode(s)[j].res = table[s[j]]
          BY DEF Encode
        <5>3. \A j \in 1 .. Len(s) : s[j] \in borrowed'[b]
          BY <1>4
        <5> QED
          BY <3>2, <5>1, <5>2, <5>3
      <4> QED
        BY <4>1, <4>2, <4>3, <3>2, <1>6
    <3> QED
      BY <3>1, <3>2
  <2>4. SoleOwner' /\ OwnerIntegrity' /\ Tracked' /\ Placed' /\ Marked'
    BY <1>2 DEF SoleOwner, OwnerIntegrity, Tracked, Placed, Marked
  <2>5. Phases'
    <3>1. ~receive_mode[b]
      BY <1>8 DEF CanReserve
    <3>2. \A c \in Buffer : c # b => length'[c] = length[c]
      BY <1>8 DEF reserve_cmsg, TypeOK
    <3> QED
      BY <1>2, <3>1, <3>2 DEF Phases
  <2>6. SendIntegrity' /\ CompleteOrFlagged'
    BY <1>2 DEF SendIntegrity, CompleteOrFlagged
  <2> QED
    BY <1>5, <2>1, <2>3, <2>4, <2>5, <2>6
<1> QED
  BY <1>7, <1>8 DEF add_fds

LEMMA AddCredentialsStep ==
    ASSUME IInv, NEW b \in Buffer, add_credentials(b)
    PROVE  IInv'
<1> USE DEF IInv, fdVars, callVars, add_credentials
<1>1. length' \in [Buffer -> 0 .. Capacity]
  BY ReserveFits, LayoutAssumption
<1>2. TypeOK'
  BY <1>1 DEF TypeOK
<1>3. Phases'
  <2>1. ~receive_mode[b] /\ \A c \in Buffer : c # b => length'[c] = length[c]
    BY DEF CanReserve, reserve_cmsg, TypeOK
  <2> QED
    BY <2>1 DEF Phases
<1>4. /\ SoleOwner' /\ OwnerIntegrity' /\ Tracked' /\ Placed' /\ Marked'
      /\ LentIsOwned' /\ WireIsLent' /\ SendIntegrity' /\ CompleteOrFlagged'
  BY DEF SoleOwner, OwnerIntegrity, Tracked, Placed, Marked, LentIsOwned,
         WireIsLent, SendIntegrity, CompleteOrFlagged
<1> QED
  BY <1>2, <1>3, <1>4

LEMMA SendStep ==
    ASSUME IInv, NEW b \in Buffer, cmsg_sendmsg(b)
    PROVE  IInv'
<1> USE DEF IInv, fdVars, bufVars, callVars
<1> DEFINE m == [i \in 1 .. Len(wire[b]) |-> [res |-> table[wire[b][i].fd],
                                              meant |-> wire[b][i].res]]
<1>1. /\ ~receive_mode[b] /\ queue' = Append(queue, m)
      /\ UNCHANGED <<fdVars, bufVars, callVars>>
  BY DEF cmsg_sendmsg
<1>2. wire[b] \in Seq(WireFd) /\ queue \in Seq(Seq(Passed))
  BY DEF TypeOK
<1>3. \A i \in 1 .. Len(wire[b]) : /\ wire[b][i].res \in Resource
                                   /\ table[wire[b][i].fd] = wire[b][i].res
  <2>1. \A i \in 1 .. Len(wire[b]) : wire[b][i] \in WireFd
    BY <1>2
  <2> QED
    BY <1>1, <2>1 DEF WireIsLent, WireFd
<1>4. /\ m \in Seq(Passed)
      /\ \A j \in 1 .. Len(m) : m[j].res = m[j].meant
  BY <1>2, <1>3 DEF Passed
<1> HIDE DEF m
<1>5. TypeOK'
  BY <1>1, <1>4 DEF TypeOK
<1>6. SendIntegrity'
  BY <1>1, <1>2, <1>4 DEF SendIntegrity
<1>7. /\ SoleOwner' /\ OwnerIntegrity' /\ Tracked' /\ Placed' /\ Marked'
      /\ LentIsOwned' /\ WireIsLent' /\ Phases' /\ CompleteOrFlagged'
  BY <1>1 DEF SoleOwner, OwnerIntegrity, Tracked, Placed, Marked, LentIsOwned,
              WireIsLent, Phases, CompleteOrFlagged
<1> QED
  BY <1>5, <1>6, <1>7

\* Clearing a buffer that no iterator borrows, in whichever mode it is left.
LEMMA ClearFacts ==
    ASSUME IInv, NEW b \in Buffer, NEW mode \in BOOLEAN,
           Usable(b), ClearInto(b, mode)
    PROVE  /\ table' \in [Fd -> Resource \cup {Closed}]
           /\ cloexec' \subseteq Fd
           /\ descs' \subseteq descs /\ unseen' = unseen
           /\ SoleOwner' /\ OwnerIntegrity' /\ Tracked'
           /\ \A d \in descs' : d.fd \in cloexec => d.fd \in cloexec'
           /\ \A d \in descs' : d.at # b
           /\ receive_mode' \in [Buffer -> BOOLEAN]
           /\ length' \in [Buffer -> 0 .. Capacity]
           /\ truncated' \in [Buffer -> BOOLEAN]
           /\ received' \in [Buffer -> SUBSET MessageNo]
           /\ wire' \in [Buffer -> Seq(WireFd)]
           /\ \A c \in Buffer : borrowed'[c] \subseteq borrowed[c] =>
                \A f \in borrowed'[c] : \E d \in descs' : d.fd = f /\ d.at = Caller
           /\ \A c \in Buffer : c # b /\ ~receive_mode[c] =>
                \A i \in 1 .. Len(wire[c]) :
                    table'[wire[c][i].fd] = table[wire[c][i].fd]
           /\ received'[b] = {} /\ length'[b] = 0 /\ ~truncated'[b]
           /\ receive_mode'[b] = mode /\ wire'[b] = <<>>
           /\ \A c \in Buffer : c # b =>
                /\ received'[c] = received[c] /\ length'[c] = length[c]
                /\ truncated'[c] = truncated[c] /\ wire'[c] = wire[c]
                /\ receive_mode'[c] = receive_mode[c]
<1> USE DEF IInv
<1>1. At(b, "held") \in SUBSET descs
  BY DEF At
<1>2. /\ table' \in [Fd -> Resource \cup {Closed}]
      /\ cloexec' \subseteq Fd
      /\ descs' \subseteq descs /\ unseen' = unseen
      /\ SoleOwner' /\ OwnerIntegrity' /\ Tracked'
      /\ \A d \in descs' : d.fd \in cloexec => d.fd \in cloexec'
      /\ \A d \in descs' : table'[d.fd] = table[d.fd]
  BY <1>1, DropFacts DEF ClearInto
<1>3. descs' = descs \ At(b, "held")
  BY DEF ClearInto, Drop
<1>4. \A d \in descs : d.at = b => d \in At(b, "held")
  <2> SUFFICES ASSUME NEW d \in descs, d.at = b
               PROVE  d.stage = "held"
    BY DEF At
  <2>1. d.stage \in Stage
    BY DEF TypeOK, Desc
  <2>2. d.stage # "owned" /\ d.stage # "raw" /\ d.stage # "iter"
    BY AncillaryAssumption DEF Placed, Usable, At
  <2> QED
    BY <2>1, <2>2 DEF Stage
<1>5. \A d \in descs' : d.at # b
  BY <1>3, <1>4
<1>6. \A d \in descs : d.at = Caller => d \in descs'
  BY <1>3, AncillaryAssumption DEF At
<1>7. /\ receive_mode' \in [Buffer -> BOOLEAN]
      /\ length' \in [Buffer -> 0 .. Capacity]
      /\ truncated' \in [Buffer -> BOOLEAN]
      /\ received' \in [Buffer -> SUBSET MessageNo]
      /\ wire' \in [Buffer -> Seq(WireFd)]
  BY AncillaryAssumption DEF ClearInto, TypeOK
<1>8. \A c \in Buffer : borrowed'[c] \subseteq borrowed[c] =>
        \A f \in borrowed'[c] : \E d \in descs' : d.fd = f /\ d.at = Caller
  BY <1>6 DEF LentIsOwned
<1>9. \A c \in Buffer : c # b /\ ~receive_mode[c] =>
        \A i \in 1 .. Len(wire[c]) :
            table'[wire[c][i].fd] = table[wire[c][i].fd]
  <2>1. \A c \in Buffer : \A f \in borrowed[c] : table'[f] = table[f]
    BY <1>2, <1>6 DEF LentIsOwned
  <2> QED
    BY <2>1 DEF WireIsLent
<1>10. /\ received'[b] = {} /\ length'[b] = 0 /\ ~truncated'[b]
       /\ receive_mode'[b] = mode /\ wire'[b] = <<>>
       /\ \A c \in Buffer : c # b =>
            /\ received'[c] = received[c] /\ length'[c] = length[c]
            /\ truncated'[c] = truncated[c] /\ wire'[c] = wire[c]
            /\ receive_mode'[c] = receive_mode[c]
  BY DEF ClearInto, TypeOK
<1> QED
  BY <1>2, <1>5, <1>7, <1>8, <1>9, <1>10

\* The parts of the invariant that RecvBegin, clear and DropAndNew have in
\* common.
LEMMA ClearStep ==
    ASSUME IInv, NEW b \in Buffer, NEW mode \in BOOLEAN, NEW next \in {"idle", "recv", "peek"},
           Usable(b), ClearInto(b, mode),
           pc' = [pc EXCEPT ![b] = next],
           next # "idle" => mode,
           outcome' = [outcome EXCEPT ![b] = "none"],
           lost' = [lost EXCEPT ![b] = FALSE],
           borrowed' \in [Buffer -> SUBSET Fd],
           \A c \in Buffer : borrowed'[c] \subseteq borrowed[c],
           \A c \in Buffer : c # b => borrowed'[c] = borrowed[c],
           UNCHANGED <<control, ret, queue>>
    PROVE  IInv'
<1> USE DEF IInv
<1>1. TypeOK'
  BY ClearFacts DEF TypeOK
<1>2. SoleOwner' /\ OwnerIntegrity' /\ Tracked'
  BY ClearFacts
<1>3. \A c \in Buffer : c # b => /\ pc'[c] = pc[c] /\ outcome'[c] = outcome[c]
                                 /\ lost'[c] = lost[c]
  BY DEF TypeOK
<1>4. pc'[b] = next /\ outcome'[b] = "none" /\ lost'[b] = FALSE
  BY DEF TypeOK
<1>5. \A d \in descs' : /\ d \in descs
                        /\ d.at # Caller => d.at \in Buffer \ {b}
                        /\ d.stage # "owned" => d.at # Caller
  BY ClearFacts DEF TypeOK, Desc, Placed
<1>6. \A d \in descs' : d.stage # "owned" =>
        /\ pc'[d.at] = pc[d.at] /\ received'[d.at] = received[d.at]
        /\ receive_mode'[d.at] = receive_mode[d.at]
  BY <1>3, <1>5, ClearFacts
<1>7. Placed'
  BY <1>5, <1>6 DEF Placed
<1>8. Marked'
  <2>1. \A d \in descs' : d.fd \in cloexec => d.fd \in cloexec'
    BY ClearFacts
  <2> QED
    BY <1>5, <1>6, <2>1 DEF Marked
<1>9. LentIsOwned'
  <2>1. \A c \in Buffer : \A f \in borrowed'[c] :
          \E d \in descs' : d.fd = f /\ d.at = Caller
    BY ClearFacts
  <2> QED
    BY <2>1 DEF LentIsOwned
<1>10. WireIsLent'
  <2> SUFFICES ASSUME NEW c \in Buffer, ~receive_mode'[c],
                      NEW i \in 1 .. Len(wire'[c])
               PROVE  /\ wire'[c][i].fd \in borrowed'[c]
                      /\ table'[wire'[c][i].fd] = wire'[c][i].res
    BY DEF WireIsLent
  <2>1. c # b
    BY ClearFacts
  <2>2. wire'[c] = wire[c] /\ ~receive_mode[c]
    BY <2>1, ClearFacts
  <2>3. table'[wire[c][i].fd] = table[wire[c][i].fd]
    BY <2>1, <2>2, ClearFacts
  <2> QED
    BY <2>1, <2>2, <2>3 DEF WireIsLent
<1>11. /\ received'[b] = {} /\ length'[b] = 0 /\ ~truncated'[b]
       /\ receive_mode'[b] = mode
       /\ \A c \in Buffer : c # b =>
            /\ received'[c] = received[c] /\ length'[c] = length[c]
            /\ truncated'[c] = truncated[c] /\ receive_mode'[c] = receive_mode[c]
  BY ClearFacts
<1>12. Phases'
  BY <1>3, <1>4, <1>11 DEF Phases
<1>13. SendIntegrity' /\ CompleteOrFlagged'
  BY <1>3, <1>4, <1>11 DEF SendIntegrity, CompleteOrFlagged
<1> QED
  BY <1>1, <1>2, <1>7, <1>8, <1>9, <1>10, <1>12, <1>13

LEMMA RecvBeginStep ==
    ASSUME IInv, NEW b \in Buffer, NEW call \in {"recv", "peek"},
           RecvBegin(b, call)
    PROVE  IInv'
BY ClearStep DEF RecvBegin, IInv, TypeOK

LEMMA ClearCallStep ==
    ASSUME IInv, NEW b \in Buffer, clear(b)
    PROVE  IInv'
<1>1. pc' = [pc EXCEPT ![b] = "idle"]
  BY DEF clear, Usable, IInv, TypeOK
<1> QED
  BY <1>1, ClearStep DEF clear, IInv, TypeOK

LEMMA DropAndNewStep ==
    ASSUME IInv, NEW b \in Buffer, DropAndNew(b)
    PROVE  IInv'
<1>1. pc' = [pc EXCEPT ![b] = "idle"]
  BY DEF DropAndNew, Usable, IInv, TypeOK
<1>2. /\ borrowed' \in [Buffer -> SUBSET Fd]
      /\ \A c \in Buffer : borrowed'[c] \subseteq borrowed[c]
      /\ \A c \in Buffer : c # b => borrowed'[c] = borrowed[c]
  BY DEF DropAndNew, IInv, TypeOK
<1> QED
  BY <1>1, <1>2, ClearStep DEF DropAndNew, IInv, TypeOK

LEMMA RecvErrorStep ==
    ASSUME IInv, NEW b \in Buffer, RecvError(b)
    PROVE  IInv'
<1> USE DEF IInv, fdVars, bufVars, RecvError
<1>1. TypeOK'
  BY AncillaryAssumption DEF TypeOK, NoRet
<1>2. SoleOwner' /\ OwnerIntegrity' /\ Tracked' /\ LentIsOwned' /\ WireIsLent'
      /\ SendIntegrity'
  BY DEF SoleOwner, OwnerIntegrity, Tracked, LentIsOwned, WireIsLent,
         SendIntegrity
<1>3. \A d \in descs : d.at # Caller => d.at \in Buffer
  BY DEF TypeOK, Desc
<1>4. Placed' /\ Marked'
  BY <1>3, AncillaryAssumption DEF Placed, Marked, TypeOK
<1>5. Phases' /\ CompleteOrFlagged'
  BY DEF Phases, CompleteOrFlagged, TypeOK, NoRet
<1> QED
  BY <1>1, <1>2, <1>4, <1>5

LEMMA RecvEofStep ==
    ASSUME IInv, NEW b \in Buffer, RecvEof(b)
    PROVE  IInv'
<1> USE DEF IInv, fdVars, bufVars, RecvEof
<1>1. TypeOK'
  BY AncillaryAssumption DEF TypeOK, NoRet
<1>2. SoleOwner' /\ OwnerIntegrity' /\ Tracked' /\ LentIsOwned' /\ WireIsLent'
      /\ SendIntegrity'
  BY DEF SoleOwner, OwnerIntegrity, Tracked, LentIsOwned, WireIsLent,
         SendIntegrity
<1>3. \A d \in descs : d.at # Caller => d.at \in Buffer
  BY DEF TypeOK, Desc
<1>4. Placed' /\ Marked'
  BY <1>3, AncillaryAssumption DEF Placed, Marked, TypeOK
<1>5. Phases' /\ CompleteOrFlagged'
  BY DEF Phases, CompleteOrFlagged, TypeOK, NoRet
<1> QED
  BY <1>1, <1>2, <1>4, <1>5

LEMMA TakeDoneStep ==
    ASSUME IInv, NEW b \in Buffer, TakeDone(b)
    PROVE  IInv'
<1> USE DEF IInv, fdVars, bufVars, TakeDone
<1>1. TypeOK'
  BY AncillaryAssumption DEF TypeOK, NoRet
<1>2. SoleOwner' /\ OwnerIntegrity' /\ Tracked' /\ LentIsOwned' /\ WireIsLent'
      /\ SendIntegrity'
  BY DEF SoleOwner, OwnerIntegrity, Tracked, LentIsOwned, WireIsLent,
         SendIntegrity
<1>3. \A d \in descs : d.at # Caller => d.at \in Buffer
  BY DEF TypeOK, Desc
<1>4. Placed' /\ Marked'
  BY <1>3, AncillaryAssumption DEF Placed, Marked, TypeOK
<1>5. Phases' /\ CompleteOrFlagged'
  BY DEF Phases, CompleteOrFlagged, TypeOK, NoRet
<1> QED
  BY <1>1, <1>2, <1>4, <1>5

LEMMA FinishStep ==
    ASSUME IInv, NEW b \in Buffer, Finish(b)
    PROVE  IInv'
<1> USE DEF IInv, fdVars, bufVars, Finish
<1>1. TypeOK'
  BY AncillaryAssumption DEF TypeOK, NoRet
<1>2. SoleOwner' /\ OwnerIntegrity' /\ Tracked' /\ LentIsOwned' /\ WireIsLent'
      /\ SendIntegrity'
  BY DEF SoleOwner, OwnerIntegrity, Tracked, LentIsOwned, WireIsLent,
         SendIntegrity
<1>3. \A d \in descs : d.at # Caller => d.at \in Buffer
  BY DEF TypeOK, Desc
<1>4. Placed' /\ Marked'
  BY <1>3, AncillaryAssumption DEF Placed, Marked, TypeOK, Unmarked, At
<1>5. Phases' /\ CompleteOrFlagged'
  BY DEF Phases, CompleteOrFlagged, TypeOK, NoRet
<1> QED
  BY <1>1, <1>2, <1>4, <1>5

LEMMA MessagesStep ==
    ASSUME IInv, NEW b \in Buffer, messages(b)
    PROVE  IInv'
<1> USE DEF IInv, fdVars, bufVars, messages
<1>1. TypeOK'
  BY AncillaryAssumption DEF TypeOK, NoRet
<1>2. SoleOwner' /\ OwnerIntegrity' /\ Tracked' /\ LentIsOwned' /\ WireIsLent'
      /\ SendIntegrity'
  BY DEF SoleOwner, OwnerIntegrity, Tracked, LentIsOwned, WireIsLent,
         SendIntegrity
<1>3. \A d \in descs : d.at # Caller => d.at \in Buffer
  BY DEF TypeOK, Desc
<1>4. Placed' /\ Marked'
  BY <1>3, AncillaryAssumption DEF Placed, Marked, TypeOK, Usable
<1>5. Phases' /\ CompleteOrFlagged'
  BY DEF Phases, CompleteOrFlagged, TypeOK, NoRet
<1> QED
  BY <1>1, <1>2, <1>4, <1>5

\* Closing descriptors that are not the caller's leaves every borrow intact.
LEMMA DropKeepsLent ==
    ASSUME IInv, NEW S \in SUBSET descs, \A d \in S : d.at # Caller,
           Drop(S), borrowed' = borrowed
    PROVE  /\ LentIsOwned'
           /\ \A c \in Buffer : \A f \in borrowed[c] : table'[f] = table[f]
<1> USE DEF IInv
<1>1. \A d \in descs : d.at = Caller => d \in descs'
  BY DEF Drop
<1>2. \A d \in descs' : table'[d.fd] = table[d.fd]
  BY DropFacts
<1> QED
  BY <1>1, <1>2 DEF LentIsOwned

LEMMA ClosePidfdStep ==
    ASSUME IInv, NEW b \in Buffer, NEW n \in MessageNo, close_pidfd(b, n)
    PROVE  IInv'
<1> USE DEF IInv, bufVars
<1> DEFINE S == InMessage(b, "raw", n)
<1>1. /\ S \in SUBSET descs /\ \A d \in S : d.at # Caller
      /\ Drop(S) /\ descs' = descs \ S /\ borrowed' = borrowed
  BY AncillaryAssumption DEF close_pidfd, InMessage, At, Drop
<1>2. \A d \in descs' : d.stage = "raw" /\ d.at = b => d.msg # n
  BY <1>1 DEF InMessage, At
<1> HIDE DEF S
<1>3. TypeOK'
  BY <1>1, DropFacts DEF close_pidfd, TypeOK
<1>4. SoleOwner' /\ OwnerIntegrity' /\ Tracked'
  BY <1>1, DropFacts
<1>5. LentIsOwned' /\ WireIsLent'
  BY <1>1, DropKeepsLent DEF close_pidfd, WireIsLent
<1>6. Placed'
  BY <1>1, <1>2 DEF close_pidfd, Placed, TypeOK
<1>7. Marked'
  BY <1>1, DropFacts DEF close_pidfd, Marked
<1>8. Phases' /\ SendIntegrity' /\ CompleteOrFlagged'
  BY DEF close_pidfd, Phases, SendIntegrity, CompleteOrFlagged
<1> QED
  BY <1>3, <1>4, <1>5, <1>6, <1>7, <1>8

LEMMA CloexecFailStep ==
    ASSUME IInv, NEW b \in Buffer, CloexecFail(b)
    PROVE  IInv'
<1> USE DEF IInv
<1> DEFINE S == At(b, "held")
<1>1. /\ S \in SUBSET descs /\ \A d \in S : d.at # Caller
      /\ Drop(S) /\ descs' = descs \ S /\ borrowed' = borrowed
  BY AncillaryAssumption DEF CloexecFail, At, Drop
<1>2. \A d \in descs' : /\ d \in descs
                        /\ d.at # Caller => d.at \in Buffer
                        /\ d.at # b
  <2> SUFFICES ASSUME NEW d \in descs'
               PROVE  /\ d \in descs
                      /\ d.at # Caller => d.at \in Buffer
                      /\ d.at # b
    OBVIOUS
  <2>1. d \in descs /\ d \notin S /\ d.stage \in Stage
        /\ (d.at # Caller => d.at \in Buffer)
    BY <1>1 DEF TypeOK, Desc
  <2>2. d.at = b => d.stage \notin {"raw", "iter", "owned", "held"}
    BY <2>1, AncillaryAssumption DEF Placed, CloexecFail, At
  <2> QED
    BY <2>1, <2>2 DEF Stage
<1> HIDE DEF S
<1>3. TypeOK'
  BY <1>1, DropFacts, AncillaryAssumption DEF CloexecFail, TypeOK, NoRet
<1>4. SoleOwner' /\ OwnerIntegrity' /\ Tracked'
  BY <1>1, DropFacts
<1>5. LentIsOwned'
  BY <1>1, DropKeepsLent
<1>6. WireIsLent'
  <2>1. receive_mode[b]
    BY DEF CloexecFail, Phases
  <2>2. QED
    <3>1. \A c \in Buffer : c # b => wire'[c] = wire[c]
      BY DEF CloexecFail, TypeOK
    <3>2. receive_mode' = receive_mode
      BY DEF CloexecFail
    <3> QED
      BY <1>1, <2>1, <3>1, <3>2, DropKeepsLent DEF WireIsLent
<1>7. Placed'
  BY <1>2, AncillaryAssumption DEF CloexecFail, Placed, TypeOK
<1>8. Marked'
  <2>1. \A d \in descs' : d.fd \in cloexec => d.fd \in cloexec'
    BY <1>1, DropFacts
  <2> QED
    BY <1>2, <2>1, AncillaryAssumption DEF CloexecFail, Marked, Placed, TypeOK
<1>9. Phases' /\ SendIntegrity' /\ CompleteOrFlagged'
  BY DEF CloexecFail, Phases, SendIntegrity, CompleteOrFlagged, TypeOK
<1> QED
  BY <1>3, <1>4, <1>5, <1>6, <1>7, <1>8, <1>9

LEMMA MessagesDropStep ==
    ASSUME IInv, NEW b \in Buffer, MessagesDrop(b)
    PROVE  IInv'
<1> USE DEF IInv
<1> DEFINE S == At(b, "held")
<1>1. /\ S \in SUBSET descs /\ \A d \in S : d.at # Caller
      /\ Drop(S) /\ descs' = descs \ S /\ borrowed' = borrowed
  BY AncillaryAssumption DEF MessagesDrop, At, Drop
<1>2. \A d \in descs' : /\ d \in descs
                        /\ d.at # Caller => d.at \in Buffer
                        /\ ~(d.at = b /\ d.stage = "held")
  BY <1>1 DEF TypeOK, Desc, At
<1> HIDE DEF S
<1>3. TypeOK'
  BY <1>1, DropFacts DEF MessagesDrop, TypeOK
<1>4. SoleOwner' /\ OwnerIntegrity' /\ Tracked'
  BY <1>1, DropFacts
<1>5. LentIsOwned' /\ WireIsLent'
  BY <1>1, DropKeepsLent DEF MessagesDrop, WireIsLent
<1>6. Placed'
  BY <1>2, AncillaryAssumption DEF MessagesDrop, Placed, TypeOK
<1>7. Marked'
  <2>1. \A d \in descs' : d.fd \in cloexec => d.fd \in cloexec'
    BY <1>1, DropFacts
  <2> QED
    BY <1>2, <2>1, AncillaryAssumption DEF MessagesDrop, Marked, Placed, TypeOK
<1>8. Phases' /\ SendIntegrity' /\ CompleteOrFlagged'
  BY DEF MessagesDrop, Phases, SendIntegrity, CompleteOrFlagged, TypeOK
<1> QED
  BY <1>3, <1>4, <1>5, <1>6, <1>7, <1>8

LEMMA ScmRightsDropStep ==
    ASSUME IInv, NEW b \in Buffer, NEW n \in MessageNo, ScmRightsDrop(b, n)
    PROVE  IInv'
<1> USE DEF IInv, bufVars, callVars
<1> DEFINE S == InMessage(b, "iter", n)
<1>1. /\ S \in SUBSET descs /\ \A d \in S : d.at # Caller
      /\ Drop(S) /\ descs' = descs \ S
      /\ UNCHANGED <<bufVars, callVars, queue>>
  BY AncillaryAssumption DEF ScmRightsDrop, InMessage, At, Drop
<1> HIDE DEF S
<1>2. TypeOK'
  BY <1>1, DropFacts DEF TypeOK
<1>3. SoleOwner' /\ OwnerIntegrity' /\ Tracked'
  BY <1>1, DropFacts
<1>4. LentIsOwned' /\ WireIsLent'
  BY <1>1, DropKeepsLent DEF WireIsLent
<1>5. Placed' /\ Marked'
  BY <1>1, DropFacts DEF Placed, Marked
<1>6. Phases' /\ SendIntegrity' /\ CompleteOrFlagged'
  BY <1>1 DEF Phases, SendIntegrity, CompleteOrFlagged
<1> QED
  BY <1>2, <1>3, <1>4, <1>5, <1>6

LEMMA TakeRightsStep ==
    ASSUME IInv, NEW b \in Buffer, NEW n \in MessageNo, TakeRights(b, n)
    PROVE  IInv'
<1> USE DEF IInv
<1> DEFINE S == InMessage(b, "raw", n)
<1>1. /\ S \in SUBSET descs /\ \A d \in S : d.at = b /\ d.msg = n
      /\ Move(S, b, "held") /\ "held" \in Stage
      /\ table' = table /\ cloexec' = cloexec
  BY DEF TakeRights, InMessage, At, Move, Stage
<1>2. \A d \in descs : d.stage = "raw" /\ d.at = b /\ d \notin S => d.msg # n
  BY DEF InMessage, At
<1> HIDE DEF S
<1>3. \A d \in descs' : \/ d \in descs \ S
                        \/ /\ d.at = b /\ d.stage = "held" /\ d.msg = n
                           /\ \E e \in S : d.fd = e.fd
  <2>1. Moved(S, b, "held")
    BY <1>1, MoveFacts
  <2> QED
    BY <1>1, <2>1 DEF Moved
<1>4. /\ pc' = pc /\ receive_mode' = receive_mode /\ pc[b] = "take"
      /\ received'[b] = received[b] \cup {n} /\ control'[b] = control[b] \ {n}
      /\ \A c \in Buffer : c # b => /\ received'[c] = received[c]
                                    /\ control'[c] = control[c]
  BY DEF TakeRights, TypeOK
<1>5. \A d \in descs : d.at # Caller => d.at \in Buffer
  BY DEF TypeOK, Desc
<1>6. TypeOK'
  <2>1. descs' \subseteq Desc /\ unseen' = unseen
    BY <1>1, MoveFacts
  <2> QED
    BY <1>1, <2>1 DEF TakeRights, TypeOK
<1>7. SoleOwner' /\ OwnerIntegrity' /\ Tracked'
  BY <1>1, MoveFacts
<1>8. Placed'
  <2> SUFFICES ASSUME NEW d \in descs' PROVE Placed!(d)'
    BY DEF Placed
  <2>1. CASE d \in descs \ S
    BY <1>2, <1>4, <1>5, <2>1 DEF Placed
  <2>2. CASE d.at = b /\ d.stage = "held" /\ d.msg = n
    BY <1>4, <2>2, AncillaryAssumption DEF Phases
  <2> QED
    BY <1>3, <2>1, <2>2
<1>9. Marked'
  BY <1>1, <1>3, <1>4 DEF Marked
<1>10. LentIsOwned'
  <2>1. \A d \in descs : d.at = Caller => d \in descs'
    BY <1>1, MoveFacts, AncillaryAssumption DEF Moved
  <2> QED
    BY <2>1 DEF LentIsOwned, TakeRights
<1>11. WireIsLent' /\ SendIntegrity' /\ CompleteOrFlagged'
  BY <1>1 DEF TakeRights, WireIsLent, SendIntegrity, CompleteOrFlagged
<1>12. Phases'
  BY <1>4 DEF TakeRights, Phases
<1> QED
  BY <1>6, <1>7, <1>8, <1>9, <1>10, <1>11, <1>12

LEMMA TakeCredentialsStep ==
    ASSUME IInv, NEW b \in Buffer, NEW n \in MessageNo, TakeCredentials(b, n)
    PROVE  IInv'
<1> USE DEF IInv, fdVars
<1>1. /\ pc' = pc /\ receive_mode' = receive_mode /\ pc[b] = "take"
      /\ received[b] \subseteq received'[b] /\ control'[b] = control[b] \ {n}
      /\ \A c \in Buffer : c # b => /\ received'[c] = received[c]
                                    /\ control'[c] = control[c]
      /\ Kind[n] = "creds" /\ UNCHANGED fdVars
  BY DEF TakeCredentials, TypeOK
<1>2. \A d \in descs : d.at # Caller => d.at \in Buffer
  BY DEF TypeOK, Desc
<1>3. TypeOK'
  <2>1. received' \in [Buffer -> SUBSET MessageNo]
    <3>1. CASE received' = [received EXCEPT ![b] = @ \cup {n}]
      BY <3>1 DEF TypeOK
    <3>2. CASE UNCHANGED received
      BY <3>2 DEF TypeOK
    <3> QED
      BY <3>1, <3>2 DEF TakeCredentials
  <2>2. control' \in [Buffer -> SUBSET MessageNo]
    BY DEF TakeCredentials, TypeOK
  <2> QED
    BY <2>1, <2>2 DEF TakeCredentials, TypeOK
<1>4. Placed'
  BY <1>1, <1>2 DEF Placed
<1>5. Phases'
  BY <1>1 DEF TakeCredentials, Phases
<1>6. /\ SoleOwner' /\ OwnerIntegrity' /\ Tracked' /\ LentIsOwned' /\ Marked'
      /\ WireIsLent' /\ SendIntegrity' /\ CompleteOrFlagged'
  BY DEF TakeCredentials, SoleOwner, OwnerIntegrity, Tracked, LentIsOwned,
         Marked, WireIsLent, SendIntegrity, CompleteOrFlagged
<1> QED
  BY <1>3, <1>4, <1>5, <1>6

LEMMA SetCloexecStep ==
    ASSUME IInv, NEW b \in Buffer, NEW d \in descs, set_cloexec(b, d)
    PROVE  IInv'
<1> USE DEF IInv, bufVars, callVars, set_cloexec
<1>1. d.fd \in Fd
  BY DEF TypeOK, Desc
<1>2. TypeOK' /\ Marked'
  BY <1>1 DEF TypeOK, Marked
<1>3. /\ SoleOwner' /\ OwnerIntegrity' /\ Tracked' /\ Placed' /\ LentIsOwned'
      /\ WireIsLent' /\ Phases' /\ SendIntegrity' /\ CompleteOrFlagged'
  BY DEF SoleOwner, OwnerIntegrity, Tracked, Placed, LentIsOwned, WireIsLent,
         Phases, SendIntegrity, CompleteOrFlagged
<1> QED
  BY <1>2, <1>3

LEMMA MessagesNextStep ==
    ASSUME IInv, NEW b \in Buffer, NEW n \in MessageNo, MessagesNext(b, n)
    PROVE  IInv'
<1> USE DEF IInv, callVars
<1> DEFINE S == InMessage(b, "held", n)
<1>1. /\ S \in SUBSET descs
      /\ \A d \in S : d.at = b /\ d.msg = n /\ d.stage = "held"
      /\ Move(S, b, "iter") /\ "iter" \in Stage
      /\ table' = table /\ cloexec' = cloexec
  BY DEF MessagesNext, InMessage, At, Move, Stage
<1>2. \A d \in descs : d.stage = "held" /\ d.at = b /\ d \notin S => d.msg # n
  BY DEF InMessage, At
<1> HIDE DEF S
<1>3. \A d \in descs' : \/ d \in descs \ S
                        \/ /\ d.at = b /\ d.stage = "iter"
                           /\ \E e \in S : d.fd = e.fd
  <2>1. Moved(S, b, "iter")
    BY <1>1, MoveFacts
  <2> QED
    BY <1>1, <2>1 DEF Moved
<1>4. /\ pc' = pc /\ receive_mode' = receive_mode /\ pc[b] = "drain"
      /\ control' = control
      /\ received'[b] = received[b] \ {n}
      /\ \A c \in Buffer : c # b => received'[c] = received[c]
  BY DEF MessagesNext, TypeOK
<1>5. \A d \in descs : d.at # Caller => d.at \in Buffer
  BY DEF TypeOK, Desc
<1>6. TypeOK'
  BY <1>1, MoveFacts DEF MessagesNext, TypeOK
<1>7. SoleOwner' /\ OwnerIntegrity' /\ Tracked'
  BY <1>1, MoveFacts
<1>8. Placed'
  <2> SUFFICES ASSUME NEW d \in descs' PROVE Placed!(d)'
    BY DEF Placed
  <2>1. CASE d \in descs \ S
    BY <1>2, <1>4, <1>5, <2>1 DEF Placed
  <2>2. CASE d.at = b /\ d.stage = "iter"
    BY <1>4, <2>2, AncillaryAssumption
  <2> QED
    BY <1>3, <2>1, <2>2
<1>9. Marked'
  BY <1>1, <1>3, <1>4 DEF Marked
<1>10. LentIsOwned'
  <2>1. \A d \in descs : d.at = Caller => d \in descs'
    BY <1>1, MoveFacts, AncillaryAssumption DEF Moved
  <2> QED
    BY <2>1 DEF LentIsOwned, MessagesNext
<1>11. WireIsLent' /\ SendIntegrity' /\ CompleteOrFlagged'
  BY <1>1 DEF MessagesNext, WireIsLent, SendIntegrity, CompleteOrFlagged
<1>12. Phases'
  BY <1>4 DEF MessagesNext, Phases
<1> QED
  BY <1>6, <1>7, <1>8, <1>9, <1>10, <1>11, <1>12

LEMMA ScmRightsNextStep ==
    ASSUME IInv, NEW d \in descs, ScmRightsNext(d)
    PROVE  IInv'
<1> USE DEF IInv, bufVars, callVars
<1> DEFINE o == Owned(d.fd, d.res)
<1>1. /\ o \in Desc /\ o.fd = d.fd /\ o.res = d.res
      /\ o.at = Caller /\ o.stage = "owned"
  BY DEF Owned, TypeOK, Desc, Stage, MessageNo, Kind
<1>2. /\ descs' = (descs \ {d}) \cup {o} /\ d.stage = "iter"
      /\ UNCHANGED <<table, cloexec, unseen, bufVars, callVars, queue>>
  BY DEF ScmRightsNext
<1> HIDE DEF o
<1>3. TypeOK'
  BY <1>1, <1>2 DEF TypeOK
<1>4. SoleOwner' /\ OwnerIntegrity' /\ Tracked'
  BY <1>1, <1>2 DEF SoleOwner, OwnerIntegrity, Tracked
<1>5. Placed' /\ Marked'
  BY <1>1, <1>2 DEF Placed, Marked
<1>6. LentIsOwned'
  BY <1>1, <1>2 DEF LentIsOwned
<1>7. WireIsLent' /\ Phases' /\ SendIntegrity' /\ CompleteOrFlagged'
  BY <1>2 DEF WireIsLent, Phases, SendIntegrity, CompleteOrFlagged
<1> QED
  BY <1>3, <1>4, <1>5, <1>6, <1>7

\* The control bytes of a receive are a natural number.
LEMMA ControlLenNat ==
    ASSUME NEW creds \in BOOLEAN, NEW c \in Nat, NEW e \in Nat, NEW p \in Nat
    PROVE  ControlLen(creds, <<0, c, e, p>>) \in Nat
<1>1. \A n \in Nat : FdSize * n \in Nat
  BY LayoutAssumption
<1>2. \A n \in Nat : CMSG_SPACE(FdSize * n) \in Nat
  BY <1>1, CmsgSpaceNat
<1>3. CMSG_SPACE(UcredSize) \in Nat
  BY CmsgSpaceNat, LayoutAssumption
<1> QED
  BY <1>2, <1>3 DEF ControlLen

\* What recvmsg installs: new numbers, those it reports each naming the file
\* its record says and each in a control message of W, and the unreported U.
Installed(b, W, U) ==
    /\ table' \in [Fd -> Resource \cup {Closed}]
    /\ descs' \subseteq Desc
    /\ unseen' \subseteq Fd /\ unseen' = unseen \cup U
    /\ U # {} => InstallsOmitted
    /\ \A f \in U : f \in Fd /\ table[f] = Closed /\ table'[f] \in Resource
    /\ \A f \in unseen : table'[f] = table[f]
    /\ SoleOwner' /\ OwnerIntegrity' /\ Tracked'
    /\ descs \subseteq descs'
    /\ \A d \in descs : table'[d.fd] = table[d.fd]
    /\ \A d \in descs' \ descs :
         /\ d.at = b /\ d.stage = "raw" /\ Kind[d.msg] # "creds"
         /\ d.msg \in W
         /\ AtomicCloexec => d.fd \in cloexec'

LEMMA InstallFacts ==
    ASSUME IInv, NEW b \in Buffer, queue # <<>>,
           NEW k \in 0 .. Len(Head(queue)), NEW creds \in BOOLEAN,
           NEW trunc \in BOOLEAN, NEW z \in Sizes(k),
           NEW a \in Numbering(k + z[4]), NEW U \in Omitted(k, a, k + z[4]),
           Install(b, k, creds, trunc, z, a, U)
    PROVE  Installed(b, Written(creds, z), U)
<1> USE DEF IInv
<1> DEFINE n == k + z[4]
           R(i) == Raw(b, k, z, a, i)
<1>1. /\ z[2] \in 0 .. k /\ z[3] = k - z[2] /\ z[4] \in {0, 1}
      /\ n \in Nat /\ k \in Nat /\ Head(queue) \in Seq(Passed)
      /\ a \in [1 .. n -> Free] /\ \A i, j \in 1 .. n : a[i] = a[j] => i = j
  <2>1. z[2] \in 0 .. k /\ z[3] = k - z[2] /\ z[4] \in {0, 1}
    <3>1. PICK c \in 0 .. k, p \in {0, 1} : z = <<0, c, k - c, p>>
      BY DEF Sizes
    <3> QED
      BY <3>1
  <2>2. Head(queue) \in Seq(Passed) /\ k \in Nat
    BY DEF TypeOK
  <2>3. n \in Nat
    BY <2>1, <2>2
  <2> QED
    BY <2>1, <2>2, <2>3 DEF Numbering
<1>2. \A i \in 1 .. n : FileOf(k, i) \in Resource
  <2>1. \A i \in 1 .. k : Head(queue)[i] \in Passed
    BY <1>1
  <2> QED
    BY <1>1, <2>1, AncillaryAssumption DEF FileOf, Passed
<1>3. /\ \A i \in 1 .. n : a[i] \in Fd /\ table[a[i]] = Closed
      /\ \A f \in U : /\ f \in Fd /\ table[f] = Closed
                       /\ \A i \in 1 .. n : a[i] # f
      /\ U # {} => InstallsOmitted /\ k < Len(Head(queue))
  BY <1>1 DEF Free, Omitted
<1>20. U # {} => Head(queue)[k + 1].res \in Resource
  <2> SUFFICES ASSUME U # {} PROVE Head(queue)[k + 1].res \in Resource
    OBVIOUS
  <2>1. k + 1 \in 1 .. Len(Head(queue))
    BY <1>1, <1>3
  <2>2. Head(queue)[k + 1] \in Passed
    BY <1>1, <2>1
  <2> QED
    BY <2>2 DEF Passed
<1>4. \A d \in descs : d.fd \in Fd /\ table[d.fd] # Closed
  BY AncillaryAssumption DEF OwnerIntegrity, TypeOK, Desc
<1>5. \A i \in 1 .. n :
        /\ MessageOf(k, z, i) \in MessageNo
        /\ MessageOf(k, z, i) \in Written(creds, z)
        /\ Kind[MessageOf(k, z, i)] # "creds"
  BY <1>1 DEF MessageOf, Written, MessageNo, Kind, PidfdNo
<1>6. \A i \in 1 .. n : /\ R(i) \in Desc /\ R(i).fd = a[i]
                        /\ R(i).res = FileOf(k, i) /\ R(i).at = b
                        /\ R(i).stage = "raw" /\ R(i).msg = MessageOf(k, z, i)
  BY <1>1, <1>2, <1>3, <1>5 DEF Raw, Desc, Stage
<1> HIDE DEF R, n
<1>7. /\ descs' = descs \cup {R(i) : i \in 1 .. n}
      /\ table' = [f \in Fd |-> IF \E i \in 1 .. n : a[i] = f
                                THEN FileOf(k, CHOOSE i \in 1 .. n : a[i] = f)
                                ELSE IF f \in U THEN Head(queue)[k + 1].res
                                ELSE table[f]]
      /\ unseen' = unseen \cup U
      /\ AtomicCloexec => \A i \in 1 .. n : a[i] \in cloexec'
  BY <1>1 DEF Install, R, n
<1>8. \A i \in 1 .. n : (CHOOSE j \in 1 .. n : a[j] = a[i]) = i
  BY <1>1
<1>9. /\ \A i \in 1 .. n : table'[a[i]] = FileOf(k, i)
      /\ \A f \in Fd \ U : (\A i \in 1 .. n : a[i] # f) => table'[f] = table[f]
      /\ \A f \in U : table'[f] = Head(queue)[k + 1].res
  BY <1>3, <1>7, <1>8
<1>10. \A d \in descs : d.fd \notin U /\ \A i \in 1 .. n : d.fd # a[i]
  BY <1>3, <1>4
<1>11. \A d \in descs : table'[d.fd] = table[d.fd]
  BY <1>4, <1>9, <1>10
<1>12. table' \in [Fd -> Resource \cup {Closed}]
  <2>1. \A f \in Fd : table'[f] \in Resource \cup {Closed}
    <3> SUFFICES ASSUME NEW f \in Fd PROVE table'[f] \in Resource \cup {Closed}
      OBVIOUS
    <3>1. CASE \E i \in 1 .. n : a[i] = f
      BY <1>2, <1>9, <3>1
    <3>2. CASE f \notin U /\ \A i \in 1 .. n : a[i] # f
      BY <1>9, <3>2 DEF TypeOK
    <3>3. CASE f \in U
      BY <1>9, <1>20, <3>3
    <3> QED
      BY <3>1, <3>2, <3>3
  <2> QED
    BY <1>7, <2>1
<1>13. descs' \subseteq Desc /\ descs \subseteq descs'
  BY <1>6, <1>7 DEF TypeOK
<1>14. OwnerIntegrity'
  <2> SUFFICES ASSUME NEW d \in descs' PROVE table'[d.fd] = d.res
    BY DEF OwnerIntegrity
  <2>1. CASE d \in descs
    BY <1>11, <2>1 DEF OwnerIntegrity
  <2>2. CASE d \notin descs
    <3>1. PICK i \in 1 .. n : d = R(i)
      BY <1>7, <2>2
    <3> QED
      BY <1>6, <1>9, <3>1
  <2> QED
    BY <2>1, <2>2
<1>15. SoleOwner'
  <2> SUFFICES ASSUME NEW d \in descs', NEW e \in descs', d.fd = e.fd
               PROVE  d = e
    BY DEF SoleOwner
  <2>1. CASE d \in descs /\ e \in descs
    BY <2>1 DEF SoleOwner
  <2>2. CASE d \in descs /\ e \notin descs
    BY <1>6, <1>7, <1>10, <2>2
  <2>3. CASE d \notin descs /\ e \in descs
    BY <1>6, <1>7, <1>10, <2>3
  <2>4. CASE d \notin descs /\ e \notin descs
    <3>1. PICK i \in 1 .. n : d = R(i)
      BY <1>7, <2>4
    <3>2. PICK j \in 1 .. n : e = R(j)
      BY <1>7, <2>4
    <3>3. a[i] = a[j]
      BY <1>6, <3>1, <3>2
    <3>4. i = j
      BY <1>1, <3>3
    <3> QED
      BY <3>1, <3>2, <3>4
  <2> QED
    BY <2>1, <2>2, <2>3, <2>4
<1>16. Tracked'
  <2>1. ASSUME NEW f \in Fd, table'[f] # Closed, f \notin unseen'
        PROVE  \E d \in descs' : d.fd = f
    <3>1. CASE \E i \in 1 .. n : a[i] = f
      BY <1>6, <1>7, <3>1
    <3>2. CASE \A i \in 1 .. n : a[i] # f
      BY <1>7, <1>9, <2>1, <3>2 DEF Tracked
    <3> QED
      BY <3>1, <3>2
  <2>2. ASSUME NEW f \in unseen'
        PROVE  /\ InstallsOmitted /\ table'[f] # Closed
               /\ \A d \in descs' : d.fd # f
    <3>1. CASE f \in U
      <4>1. InstallsOmitted /\ table'[f] # Closed
        BY <1>3, <1>9, <1>20, <3>1, AncillaryAssumption
      <4>2. \A d \in descs' : d.fd # f
        BY <1>3, <1>6, <1>7, <1>10, <3>1
      <4> QED
        BY <4>1, <4>2
    <3>2. CASE f \notin U
      <4>1. /\ f \in unseen /\ f \in Fd /\ InstallsOmitted /\ table[f] # Closed
            /\ \A d \in descs : d.fd # f
        BY <1>7, <2>2, <3>2 DEF Tracked, TypeOK
      <4>2. \A i \in 1 .. n : a[i] # f
        BY <1>3, <4>1
      <4>3. table'[f] # Closed
        BY <1>9, <3>2, <4>1, <4>2
      <4>4. \A d \in descs' : d.fd # f
        BY <1>6, <1>7, <4>1, <4>2
      <4> QED
        BY <4>1, <4>3, <4>4
    <3> QED
      BY <3>1, <3>2
  <2> QED
    BY <2>1, <2>2 DEF Tracked
<1>17. \A d \in descs' \ descs :
         /\ d.at = b /\ d.stage = "raw" /\ Kind[d.msg] # "creds"
         /\ d.msg \in Written(creds, z)
         /\ AtomicCloexec => d.fd \in cloexec'
  BY <1>5, <1>6, <1>7
<1>18. /\ unseen' \subseteq Fd /\ unseen' = unseen \cup U
       /\ U # {} => InstallsOmitted
       /\ \A f \in U : f \in Fd /\ table[f] = Closed /\ table'[f] \in Resource
  BY <1>3, <1>7, <1>9, <1>20 DEF TypeOK
<1>19. \A f \in unseen : table'[f] = table[f]
  <2> SUFFICES ASSUME NEW f \in unseen PROVE table'[f] = table[f]
    OBVIOUS
  <2>1. f \in Fd /\ table[f] # Closed
    BY DEF Tracked, TypeOK
  <2> QED
    BY <1>3, <1>9, <2>1
<1> QED
  BY <1>11, <1>12, <1>13, <1>14, <1>15, <1>16, <1>17, <1>18, <1>19 DEF Installed

LEMMA RecvMsgStep ==
    ASSUME IInv, NEW b \in Buffer, RecvMsg(b)
    PROVE  IInv'
<1> USE DEF IInv
<1>1. PICK k \in 0 .. Len(Head(queue)), creds \in {FALSE, Linux}, trunc \in BOOLEAN :
      \E sizes \in Sizes(k) : \E a \in Numbering(k + sizes[4]) :
      \E U \in Omitted(k, a, k + sizes[4]) :
         /\ ControlLen(creds, sizes) <= Capacity
         /\ k < Len(Head(queue)) => trunc
         /\ Install(b, k, creds, trunc, sizes, a, U)
  BY DEF RecvMsg
<1>2. PICK z \in Sizes(k) : \E a \in Numbering(k + z[4]) :
      \E U \in Omitted(k, a, k + z[4]) :
         /\ ControlLen(creds, z) <= Capacity
         /\ k < Len(Head(queue)) => trunc
         /\ Install(b, k, creds, trunc, z, a, U)
  BY <1>1
<1>3. PICK c \in 0 .. k, p \in {0, 1} : z = <<0, c, k - c, p>>
  BY DEF Sizes
<1>4. z[4] = p
  BY <1>3
<1>20. PICK a \in Numbering(k + z[4]) : \E U \in Omitted(k, a, k + z[4]) :
         /\ ControlLen(creds, z) <= Capacity
         /\ k < Len(Head(queue)) => trunc
         /\ Install(b, k, creds, trunc, z, a, U)
  BY <1>2
<1>5. PICK U \in Omitted(k, a, k + z[4]) :
         /\ ControlLen(creds, z) <= Capacity
         /\ k < Len(Head(queue)) => trunc
         /\ Install(b, k, creds, trunc, z, a, U)
  BY <1>20
<1>6. a \in [1 .. k + p -> Free] /\ creds \in BOOLEAN /\ queue # <<>>
  BY <1>4, AncillaryAssumption DEF Numbering, RecvMsg
<1>7. /\ pc[b] \in {"recv", "peek"} /\ pc' = [pc EXCEPT ![b] = "take"]
      /\ queue' = queue \/ queue' = Tail(queue)
      /\ UNCHANGED <<receive_mode, length, truncated, received, borrowed, outcome>>
  BY DEF RecvMsg
<1>8. /\ table' \in [Fd -> Resource \cup {Closed}]
      /\ descs' \subseteq Desc /\ unseen' \subseteq Fd
      /\ SoleOwner' /\ OwnerIntegrity' /\ Tracked'
      /\ descs \subseteq descs'
      /\ \A d \in descs : table'[d.fd] = table[d.fd]
      /\ \A d \in descs' \ descs :
           /\ d.at = b /\ d.stage = "raw" /\ Kind[d.msg] # "creds"
           /\ d.msg \in Written(creds, z)
           /\ AtomicCloexec => d.fd \in cloexec'
  BY <1>5, <1>6, InstallFacts DEF Installed
<1>9. /\ cloexec \subseteq cloexec' /\ cloexec' \subseteq Fd
      /\ control' = [control EXCEPT ![b] = Written(creds, z)]
      /\ ret' = [ret EXCEPT ![b] = [len |-> ControlLen(creds, z), trunc |-> trunc]]
      /\ wire' = [wire EXCEPT ![b] = [i \in 1 .. k |->
                                          [fd |-> a[i], res |-> FileOf(k, i)]]]
      /\ lost' = [lost EXCEPT ![b] = k < Len(Head(queue))]
  <2>1. \A i \in 1 .. k + p : a[i] \in Fd
    BY <1>6 DEF Free
  <2> QED
    BY <1>4, <1>5, <2>1 DEF Install, TypeOK
<1>10. TypeOK'
  <2>1. ControlLen(creds, z) \in 0 .. Capacity
    BY <1>3, <1>5, <1>6, ControlLenNat, AncillaryAssumption
  <2>2. wire' \in [Buffer -> Seq(WireFd)]
    <3>1. \A i \in 1 .. k : Head(queue)[i] \in Passed
      BY <1>6 DEF TypeOK
    <3>2. \A i \in 1 .. k : a[i] \in Fd /\ FileOf(k, i) \in Resource
      BY <1>6, <3>1 DEF Free, FileOf, Passed
    <3>3. [i \in 1 .. k |-> [fd |-> a[i], res |-> FileOf(k, i)]] \in Seq(WireFd)
      BY <3>2 DEF WireFd
    <3> QED
      BY <1>9, <3>3 DEF TypeOK
  <2>3. queue' \in Seq(Seq(Passed))
    <3>1. queue \in Seq(Seq(Passed)) /\ Tail(queue) \in Seq(Seq(Passed))
      BY <1>6 DEF TypeOK
    <3> QED
      BY <1>7, <3>1
  <2>4. Written(creds, z) \subseteq MessageNo
    BY DEF Written
  <2>5. /\ control' \in [Buffer -> SUBSET MessageNo]
        /\ ret' \in [Buffer -> [len : 0 .. Capacity, trunc : BOOLEAN]]
        /\ lost' \in [Buffer -> BOOLEAN]
    <3>1. /\ control \in [Buffer -> SUBSET MessageNo]
          /\ ret \in [Buffer -> [len : 0 .. Capacity, trunc : BOOLEAN]]
          /\ lost \in [Buffer -> BOOLEAN]
      BY DEF TypeOK
    <3>2. [len |-> ControlLen(creds, z), trunc |-> trunc]
            \in [len : 0 .. Capacity, trunc : BOOLEAN]
      BY <2>1
    <3>3. (k < Len(Head(queue))) \in BOOLEAN
      OBVIOUS
    <3>4. control' \in [Buffer -> SUBSET MessageNo]
      BY <1>9, <2>4, <3>1
    <3>5. ret' \in [Buffer -> [len : 0 .. Capacity, trunc : BOOLEAN]]
      BY <1>9, <3>1, <3>2
    <3>6. lost' \in [Buffer -> BOOLEAN]
      BY <1>9, <3>1, <3>3
    <3> QED
      BY <3>4, <3>5, <3>6
  <2> QED
    BY <1>7, <1>8, <1>9, <2>2, <2>3, <2>5 DEF TypeOK
<1>11. \A d \in descs : d.at = b => d.stage # "raw" /\ d.stage # "held" /\ d.stage # "iter"
  BY <1>7 DEF Placed
<1>12. /\ pc'[b] = "take" /\ control'[b] = Written(creds, z)
       /\ \A c2 \in Buffer : c2 # b => pc'[c2] = pc[c2] /\ control'[c2] = control[c2]
  BY <1>7, <1>9 DEF TypeOK
<1>13. Placed'
  <2> SUFFICES ASSUME NEW d \in descs' PROVE Placed!(d)'
    BY DEF Placed
  <2>1. CASE d \in descs
    <3>1. d.stage = "owned" \/ d.at \in Buffer \ {b}
      <4>1. d.stage \in Stage /\ (d.at = Caller \/ d.at \in Buffer)
        BY <2>1 DEF TypeOK, Desc
      <4> QED
        BY <1>11, <2>1, <4>1 DEF Placed, Stage
    <3> QED
      BY <1>7, <1>12, <2>1, <3>1 DEF Placed
  <2>2. CASE d \notin descs
    BY <1>8, <1>12, <2>2, AncillaryAssumption
  <2> QED
    BY <2>1, <2>2
<1>14. LentIsOwned'
  BY <1>7, <1>8 DEF LentIsOwned
<1>15. WireIsLent'
  <2>1. receive_mode[b]
    BY <1>7 DEF Phases
  <2>2. \A c2 \in Buffer : \A f \in borrowed[c2] : table'[f] = table[f]
    BY <1>8 DEF LentIsOwned
  <2>3. \A c2 \in Buffer : c2 # b => wire'[c2] = wire[c2]
    BY <1>9 DEF TypeOK
  <2> QED
    BY <1>7, <2>1, <2>2, <2>3 DEF WireIsLent
<1>16. Marked'
  <2> SUFFICES ASSUME NEW d \in descs'
               PROVE  Marked!(d)'
    BY DEF Marked
  <2>1. CASE d \in descs
    <3>1. d.stage = "held" => d.at \in Buffer \ {b}
      BY <1>11, <2>1 DEF TypeOK, Desc, Placed
    <3> QED
      BY <1>9, <1>12, <2>1, <3>1 DEF Marked
  <2>2. CASE d \notin descs
    BY <1>8, <2>2
  <2> QED
    BY <2>1, <2>2
<1>17. Phases'
  <2>1. ret'[b].trunc = trunc /\ lost'[b] = (k < Len(Head(queue)))
    BY <1>9 DEF TypeOK
  <2>2. \A c2 \in Buffer : c2 # b => ret'[c2] = ret[c2] /\ lost'[c2] = lost[c2]
    BY <1>9 DEF TypeOK
  <2> QED
    BY <1>5, <1>7, <1>12, <2>1, <2>2 DEF Phases
<1>18. SendIntegrity'
  <2>1. CASE queue' = queue
    BY <2>1 DEF SendIntegrity
  <2>2. CASE queue' = Tail(queue)
    <3>1. /\ queue \in Seq(Seq(Passed)) /\ Len(Tail(queue)) = Len(queue) - 1
          /\ \A i \in 1 .. Len(queue) - 1 : Tail(queue)[i] = queue[i + 1]
      BY <1>6 DEF TypeOK
    <3>2. QED
      <4> SUFFICES ASSUME NEW i \in 1 .. Len(queue'), NEW j \in 1 .. Len(queue'[i])
                   PROVE  queue'[i][j].res = queue'[i][j].meant
        BY DEF SendIntegrity
      <4>1. i + 1 \in 1 .. Len(queue) /\ queue'[i] = queue[i + 1]
        BY <2>2, <3>1
      <4> QED
        BY <4>1 DEF SendIntegrity
  <2> QED
    BY <1>7, <2>1, <2>2
<1>19. CompleteOrFlagged'
  <2>1. outcome'[b] = "none" /\ \A c2 \in Buffer : c2 # b => lost'[c2] = lost[c2]
    BY <1>7, <1>9 DEF Phases, TypeOK
  <2> QED
    BY <1>7, <2>1 DEF CompleteOrFlagged
<1> QED
  BY <1>8, <1>10, <1>13, <1>14, <1>15, <1>16, <1>17, <1>18, <1>19

-----------------------------------------------------------------------------
(* The theorems.                                                           *)

LEMMA InitIInv == Init => IInv
<1> SUFFICES ASSUME Init PROVE IInv
  OBVIOUS
<1> USE DEF Init
<1>1. TypeOK
  BY AncillaryAssumption DEF TypeOK, NoRet
<1>2. /\ SoleOwner /\ OwnerIntegrity /\ Tracked /\ Placed /\ LentIsOwned
      /\ Marked /\ Phases /\ CompleteOrFlagged
  BY DEF SoleOwner, OwnerIntegrity, Tracked, Placed, LentIsOwned, Marked,
         Phases, CompleteOrFlagged
<1>3. WireIsLent /\ SendIntegrity
  BY DEF WireIsLent, SendIntegrity
<1> QED
  BY <1>1, <1>2, <1>3 DEF IInv

LEMMA NextIInv == IInv /\ [Next]_vars => IInv'
<1> SUFFICES ASSUME IInv, [Next]_vars PROVE IInv'
  OBVIOUS
<1>1. CASE UserStep
  BY <1>1, OpenStep, CloseOwnedStep, ScmRightsNextStep DEF UserStep
<1>2. ASSUME NEW b \in Buffer, CallStep(b) PROVE IInv'
  BY <1>2, AddFdsStep, AddCredentialsStep, SendStep, RecvBeginStep,
     MessagesStep, MessagesNextStep, ScmRightsDropStep, MessagesDropStep,
     ClearCallStep, DropAndNewStep DEF CallStep
<1>3. ASSUME NEW b \in Buffer, KernelStep(b) PROVE IInv'
  BY <1>3, RecvErrorStep, RecvMsgStep, RecvEofStep DEF KernelStep
<1>4. ASSUME NEW b \in Buffer, ReturnStep(b) PROVE IInv'
  BY <1>4, TakeRightsStep, TakeCredentialsStep, ClosePidfdStep, TakeDoneStep,
     SetCloexecStep, CloexecFailStep, FinishStep DEF ReturnStep
<1>5. CASE UNCHANGED vars
  BY <1>5 DEF vars, fdVars, bufVars, callVars, IInv, TypeOK, SoleOwner,
     OwnerIntegrity, Tracked, Placed, LentIsOwned, WireIsLent, Marked, Phases,
     SendIntegrity, CompleteOrFlagged
<1> QED
  BY <1>1, <1>2, <1>3, <1>4, <1>5 DEF Next

\* The inductive invariant holds of every execution.
THEOREM Invariance == Spec => []IInv
BY InitIInv, NextIInv, PTL DEF Spec

\* The buffers, the table and the queue keep their types; in particular the
\* length add_fds and the receives record never exceeds the buffer.
THEOREM TypeCorrect == Spec => []TypeOK
<1>1. IInv => TypeOK
  BY DEF IInv
<1> QED
  BY <1>1, Invariance, PTL

\* No descriptor ever has two owners.
THEOREM SoleOwnership == Spec => []SoleOwner
<1>1. IInv => SoleOwner
  BY DEF IInv
<1> QED
  BY <1>1, Invariance, PTL

\* No descriptor the crate can observe is ever lost: each open one has an
\* owner it reaches or is about to be parsed, or the kernel reported it to
\* nobody, which happens only where InstallsOmitted.
THEOREM NothingLeaks == Spec => []NoLeak
<1>1. IInv => NoLeak
  <2> SUFFICES ASSUME IInv, NEW f \in Fd, table[f] # Closed,
                      ~(f \in unseen /\ InstallsOmitted)
               PROVE  \E d \in descs : /\ d.fd = f
                                       /\ d.stage = "raw" =>
                                            /\ pc[d.at] = "take"
                                            /\ d.msg \in control[d.at]
                                       /\ d.stage = "held" =>
                                            d.msg \in received[d.at]
    BY DEF NoLeak
  <2>1. PICK d \in descs : d.fd = f
    BY DEF IInv, Tracked
  <2> QED
    BY <2>1 DEF IInv, Placed
<1> QED
  BY <1>1, Invariance, PTL

\* No descriptor is closed or replaced behind its owner's back.
THEOREM OwnersKeepTheirFiles == Spec => []OwnerIntegrity
<1>1. IInv => OwnerIntegrity
  BY DEF IInv
<1> QED
  BY <1>1, Invariance, PTL

\* The files that arrive are the files that were passed to add_fds.
THEOREM SendsWhatWasAdded == Spec => []SendIntegrity
<1>1. IInv => SendIntegrity
  BY DEF IInv
<1> QED
  BY <1>1, Invariance, PTL

\* Every descriptor in the caller's reach is close-on-exec.
THEOREM CloexecHolds == Spec => []CloexecGuarantee
<1>1. IInv => CloexecGuarantee
  BY DEF IInv, Marked, CloexecGuarantee
<1> QED
  BY <1>1, Invariance, PTL

\* A failed receive leaves the buffer empty and unfit for sending.
THEOREM FailureLeavesNothing == Spec => []FailedReceiveIsEmpty
<1>1. IInv => FailedReceiveIsEmpty
  <2> SUFFICES ASSUME IInv, NEW b \in Buffer, outcome[b] = "err"
               PROVE  /\ receive_mode[b]
                      /\ At(b, "held") = {} /\ At(b, "raw") = {}
                      /\ received[b] = {} /\ length[b] = 0 /\ ~truncated[b]
    BY DEF FailedReceiveIsEmpty
  <2>1. /\ receive_mode[b] /\ received[b] = {} /\ length[b] = 0
        /\ ~truncated[b] /\ pc[b] # "take"
    BY DEF IInv, Phases
  <2>2. At(b, "held") = {} /\ At(b, "raw") = {}
    BY <2>1 DEF IInv, Placed, At
  <2> QED
    BY <2>1, <2>2
<1> QED
  BY <1>1, Invariance, PTL

\* Losing a descriptor is always reported.
THEOREM LossIsFlagged == Spec => []CompleteOrFlagged
<1>1. IInv => CompleteOrFlagged
  BY DEF IInv
<1> QED
  BY <1>1, Invariance, PTL

-----------------------------------------------------------------------------
(* The ownership contract of FdOwnership.  Every step of a buffer, a receive *)
(* or an iterator is a step of the contract or invisible to it.             *)

\* Who owns each descriptor, as the contract sees it.
own == [f \in Fd |-> Owner(f)]

\* Under the invariant the refinement mapping reads off the one record of a
\* descriptor.
LEMMA OwnerOfDesc ==
    ASSUME IInv, NEW d \in descs
    PROVE  /\ d.fd \in Fd
           /\ Owner(d.fd) = IF d.at = Caller THEN "caller" ELSE "library"
<1>1. d.fd \in Fd /\ d.fd \notin unseen
  BY DEF IInv, TypeOK, Desc, Tracked
<1>2. \A e \in descs : e.fd = d.fd => e = d
  BY DEF IInv, SoleOwner
<1> QED
  BY <1>1, <1>2 DEF Owner

\* Closing descriptors of one owner is a Release of the contract.
LEMMA DropIsRelease ==
    ASSUME IInv, NEW S \in SUBSET descs, Drop(S),
           \/ \A d \in S : d.at = Caller
           \/ \A d \in S : d.at # Caller
    PROVE  Contract!Next
<1> DEFINE F == FdsOf(S)
<1>1. F \in SUBSET Fd
  BY OwnerOfDesc DEF FdsOf
<1>2. \E w \in {"library", "caller"} : \A f \in F : own[f] = w
  BY OwnerOfDesc DEF FdsOf, own
<1>3. descs' = descs \ S /\ unseen' = unseen
  BY DEF Drop
<1>11. \A f \in F : f \notin unseen
  BY DEF IInv, Tracked, FdsOf
<1>4. \A f \in F : ~ \E d \in descs' : d.fd = f
  BY <1>3 DEF IInv, SoleOwner, FdsOf
<1>5. \A f \in Fd \ F : \A d \in descs : d.fd = f => d \in descs'
  BY <1>3 DEF FdsOf
<1>6. \A f \in F : own'[f] = "none"
  BY <1>1, <1>3, <1>4, <1>11 DEF own, Owner
<1>7. \A f \in Fd \ F : own'[f] = own[f]
  BY <1>3, <1>5 DEF own, Owner
<1>8. own' = [f \in Fd |-> IF f \in F THEN "none" ELSE own[f]]
  BY <1>6, <1>7 DEF own
<1>9. table' = [f \in Fd |-> IF f \in F THEN Closed ELSE table[f]]
  BY DEF Drop
<1>10. Contract!Release(F)
  BY <1>2, <1>8, <1>9 DEF Contract!Release, own
<1> QED
  BY <1>1, <1>10 DEF Contract!Next

\* Moving library descriptors between the library's own places is invisible.
LEMMA MoveIsInvisible ==
    ASSUME IInv, NEW S \in SUBSET descs, NEW b \in Buffer, NEW stage \in Stage,
           \A d \in S : d.at # Caller, Move(S, b, stage)
    PROVE  UNCHANGED Contract!vars
<1> DEFINE M(e) == InPlace(e, b, stage)
<1>1. \A e \in S : M(e).fd = e.fd /\ M(e).at = b
  BY DEF InPlace
<1>2. /\ descs' = (descs \ S) \cup {M(e) : e \in S}
      /\ table' = table /\ unseen' = unseen
  BY DEF Move
<1>3. b # Caller
  BY AncillaryAssumption
<1> HIDE DEF M
<1>4. \A f \in Fd : (\E d \in descs' : d.fd = f /\ d.at = Caller)
                      <=> (\E d \in descs : d.fd = f /\ d.at = Caller)
  BY <1>1, <1>2, <1>3
<1>5. \A f \in Fd : (\E d \in descs' : d.fd = f) <=> (\E d \in descs : d.fd = f)
  BY <1>1, <1>2
<1>6. own' = own
  BY <1>2, <1>4, <1>5 DEF own, Owner
<1> QED
  BY <1>2, <1>6 DEF Contract!vars, own

LEMMA OpenIsOpen ==
    ASSUME IInv, NEW f \in Fd, NEW r \in Resource \ {PidFile}, Open(f, r)
    PROVE  Contract!Next
<1>1. f \notin unseen /\ \A d \in descs : d.fd # f
  BY AncillaryAssumption DEF Open, Free, IInv, Tracked, OwnerIntegrity, TypeOK, Desc
<1>2. /\ descs' = descs \cup {Owned(f, r)}
      /\ table' = [table EXCEPT ![f] = r] /\ unseen' = unseen
      /\ Owned(f, r).fd = f /\ Owned(f, r).at = Caller
  BY DEF Open, Owned
<1>3. own[f] = "none" /\ own'[f] = "caller"
  BY <1>1, <1>2 DEF own, Owner
<1>4. \A g \in Fd : g # f => own'[g] = own[g]
  BY <1>2 DEF own, Owner
<1>5. own' = [own EXCEPT ![f] = "caller"]
  BY <1>3, <1>4 DEF own
<1>6. Contract!Open(f, r)
  BY <1>2, <1>3, <1>5 DEF Contract!Open, own
<1> QED
  BY <1>6 DEF Contract!Next

LEMMA YieldIsGive ==
    ASSUME IInv, NEW d \in descs, ScmRightsNext(d)
    PROVE  Contract!Next
<1> DEFINE o == Owned(d.fd, d.res)
<1>1. /\ descs' = (descs \ {d}) \cup {o} /\ table' = table /\ unseen' = unseen
      /\ o.fd = d.fd /\ o.at = Caller
  BY DEF ScmRightsNext, Owned
<1>2. d.fd \in Fd /\ own[d.fd] = "library" /\ d.fd \notin unseen
  BY OwnerOfDesc DEF ScmRightsNext, IInv, Placed, Tracked, own
<1> HIDE DEF o
<1>3. own'[d.fd] = "caller"
  BY <1>1, <1>2 DEF own, Owner
<1>4. \A g \in Fd : g # d.fd => own'[g] = own[g]
  BY <1>1 DEF own, Owner
<1>5. own' = [own EXCEPT ![d.fd] = "caller"]
  BY <1>2, <1>3, <1>4 DEF own
<1>6. Contract!Give(d.fd)
  BY <1>1, <1>2, <1>5 DEF Contract!Give, own
<1> QED
  BY <1>2, <1>6 DEF Contract!Next

LEMMA RecvMsgIsInstall ==
    ASSUME IInv, NEW b \in Buffer, RecvMsg(b)
    PROVE  Contract!Next
<1>1. PICK k \in 0 .. Len(Head(queue)), creds \in {FALSE, Linux}, trunc \in BOOLEAN :
      \E sizes \in Sizes(k) : \E a \in Numbering(k + sizes[4]) :
      \E U \in Omitted(k, a, k + sizes[4]) : Install(b, k, creds, trunc, sizes, a, U)
  BY DEF RecvMsg
<1>2. PICK z \in Sizes(k) : \E a \in Numbering(k + z[4]) :
      \E U \in Omitted(k, a, k + z[4]) : Install(b, k, creds, trunc, z, a, U)
  BY <1>1
<1>20. PICK a \in Numbering(k + z[4]) : \E U \in Omitted(k, a, k + z[4]) :
         Install(b, k, creds, trunc, z, a, U)
  BY <1>2
<1>3. PICK U \in Omitted(k, a, k + z[4]) : Install(b, k, creds, trunc, z, a, U)
  BY <1>20
<1>4. creds \in BOOLEAN /\ queue # <<>>
  BY AncillaryAssumption DEF RecvMsg
<1>22. Installed(b, Written(creds, z), U)
  BY <1>3, <1>4, InstallFacts
<1>5. /\ table' \in [Fd -> Resource \cup {Closed}]
      /\ descs' \subseteq Desc /\ unseen' = unseen \cup U
      /\ SoleOwner' /\ OwnerIntegrity' /\ Tracked'
      /\ descs \subseteq descs'
      /\ \A d \in descs : table'[d.fd] = table[d.fd]
      /\ \A d \in descs' \ descs : d.at = b
  BY <1>22 DEF Installed
<1>21. /\ U # {} => InstallsOmitted
       /\ \A f \in U : f \in Fd /\ table[f] = Closed /\ table'[f] \in Resource
       /\ \A f \in unseen : table'[f] = table[f]
  BY <1>22 DEF Installed
<1> DEFINE F == {d.fd : d \in descs' \ descs}
<1>6. F \in SUBSET Fd /\ \A d \in descs' : d.fd \in Fd /\ d.res \in Resource
  BY <1>5 DEF Desc
<1>7. /\ \A f \in F : \A d \in descs : d.fd # f
      /\ \A f \in F : f \notin unseen'
  BY <1>5 DEF SoleOwner, Tracked
<1>8. \A f \in F : own[f] = "none" /\ own'[f] = "library"
  <2>1. \A f \in F : \A d \in descs' : d.fd = f => d.at = b
    BY <1>5, <1>7
  <2> QED
    BY <1>5, <1>6, <1>7, <2>1, AncillaryAssumption DEF own, Owner
<1>14. \A f \in U : own[f] = "none" /\ own'[f] = "unseen"
  <2>1. \A d \in descs : table[d.fd] \in Resource
    BY DEF IInv, OwnerIntegrity, TypeOK, Desc
  <2>2. \A f \in U : f \notin unseen /\ \A d \in descs : d.fd # f
    BY <1>21, <2>1, AncillaryAssumption DEF IInv, Tracked
  <2> QED
    BY <1>5, <1>21, <2>2 DEF own, Owner
<1>9. \A f \in Fd \ (F \cup U) : own'[f] = own[f]
  BY <1>5 DEF own, Owner
<1>10. own' = [f \in Fd |-> IF f \in U THEN "unseen"
                           ELSE IF f \in F THEN "library" ELSE own[f]]
  BY <1>8, <1>9, <1>14 DEF own
<1>11. \A f \in F \cup U : table'[f] \in Resource
  BY <1>5, <1>6, <1>21 DEF OwnerIntegrity
<1>12. \A f \in Fd \ (F \cup U) : table'[f] = table[f]
  <2> SUFFICES ASSUME NEW f \in Fd \ (F \cup U) PROVE table'[f] = table[f]
    OBVIOUS
  <2>1. CASE \E d \in descs : d.fd = f
    BY <1>5, <2>1
  <2>2. CASE f \in unseen
    BY <1>21, <2>2
  <2>3. CASE f \notin unseen /\ ~ \E d \in descs : d.fd = f
    <3>1. table[f] = Closed
      BY <2>3 DEF IInv, Tracked
    <3>2. f \notin unseen' /\ ~ \E d \in descs' : d.fd = f
      BY <1>5, <2>3
    <3>3. table'[f] = Closed
      BY <1>5, <3>2 DEF Tracked
    <3> QED
      BY <3>1, <3>3
  <2> QED
    BY <2>1, <2>2, <2>3
<1> HIDE DEF F
<1>13. Contract!Install(F, U)
  BY <1>5, <1>8, <1>10, <1>11, <1>12, <1>14, <1>21 DEF Contract!Install, own
<1> QED
  BY <1>6, <1>13, <1>21 DEF Contract!Next

LEMMA StepRefines ==
    ASSUME IInv, [Next]_vars
    PROVE  [Contract!Next]_(Contract!vars)
<1> DEFINE Goal == [Contract!Next]_(Contract!vars)
<1> USE DEF fdVars, bufVars, callVars
<1>1. ASSUME UNCHANGED <<table, descs, unseen>> PROVE Goal
  <2>1. own' = own
    BY <1>1 DEF own, Owner
  <2> QED
    BY <1>1, <2>1 DEF Contract!vars, own
<1>2. \A b \in Buffer, st \in Stage : /\ At(b, st) \in SUBSET descs
                                      /\ \A d \in At(b, st) : d.at # Caller
  BY AncillaryAssumption DEF At
<1>3. \A b \in Buffer, st \in Stage, n \in MessageNo :
        /\ InMessage(b, st, n) \in SUBSET descs
        /\ \A d \in InMessage(b, st, n) : d.at # Caller
  BY <1>2 DEF InMessage
<1>4. {"raw", "held", "iter"} \subseteq Stage
  BY DEF Stage
<1>5. CASE UserStep
  <2>1. ASSUME NEW f \in Fd, NEW r \in Resource \ {PidFile}, Open(f, r) PROVE Goal
    BY <2>1, OpenIsOpen
  <2>2. ASSUME NEW d \in descs, CloseOwned(d) PROVE Goal
    <3>1. {d} \in SUBSET descs /\ Drop({d}) /\ \A e \in {d} : e.at = Caller
      BY <2>2 DEF CloseOwned
    <3> QED
      BY <3>1, DropIsRelease
  <2>3. ASSUME NEW d \in descs, ScmRightsNext(d) PROVE Goal
    BY <2>3, YieldIsGive
  <2> QED
    BY <1>5, <2>1, <2>2, <2>3 DEF UserStep
<1>6. ASSUME NEW b \in Buffer, CallStep(b) PROVE Goal
  <2>1. CASE Drop(At(b, "held"))
    BY <1>2, <1>4, <2>1, DropIsRelease
  <2>2. ASSUME NEW n \in MessageNo, MessagesNext(b, n) PROVE Goal
    BY <1>3, <1>4, <2>2, MoveIsInvisible DEF MessagesNext
  <2>3. ASSUME NEW n \in MessageNo, ScmRightsDrop(b, n) PROVE Goal
    BY <1>3, <1>4, <2>3, DropIsRelease DEF ScmRightsDrop
  <2>4. ASSUME NEW s \in Batch, add_fds(b, s) PROVE Goal
    BY <1>1, <2>4 DEF add_fds
  <2>5. CASE add_credentials(b) \/ cmsg_sendmsg(b) \/ messages(b)
    BY <1>1, <2>5 DEF add_credentials, cmsg_sendmsg, messages
  <2>6. CASE \/ \E call \in {"recv", "peek"} : RecvBegin(b, call)
             \/ MessagesDrop(b) \/ clear(b) \/ DropAndNew(b)
    BY <2>1, <2>6 DEF RecvBegin, MessagesDrop, clear, DropAndNew, ClearInto
  <2> QED
    BY <1>6, <2>2, <2>3, <2>4, <2>5, <2>6 DEF CallStep
<1>7. ASSUME NEW b \in Buffer, KernelStep(b) PROVE Goal
  BY <1>1, <1>7, RecvMsgIsInstall DEF KernelStep, RecvError, RecvEof
<1>8. ASSUME NEW b \in Buffer, ReturnStep(b) PROVE Goal
  <2>1. ASSUME NEW n \in MessageNo, TakeRights(b, n) PROVE Goal
    BY <1>3, <1>4, <2>1, MoveIsInvisible DEF TakeRights
  <2>2. ASSUME NEW n \in MessageNo, TakeCredentials(b, n) PROVE Goal
    BY <1>1, <2>2 DEF TakeCredentials
  <2>3. ASSUME NEW n \in MessageNo, close_pidfd(b, n) PROVE Goal
    BY <1>3, <1>4, <2>3, DropIsRelease DEF close_pidfd
  <2>4. CASE CloexecFail(b)
    BY <1>2, <1>4, <2>4, DropIsRelease DEF CloexecFail
  <2>5. CASE TakeDone(b) \/ Finish(b) \/ \E d \in descs : set_cloexec(b, d)
    BY <1>1, <2>5 DEF TakeDone, Finish, set_cloexec
  <2> QED
    BY <1>8, <2>1, <2>2, <2>3, <2>4, <2>5 DEF ReturnStep
<1>9. CASE UNCHANGED vars
  BY <1>1, <1>9 DEF vars
<1> QED
  BY <1>5, <1>6, <1>7, <1>8, <1>9 DEF Next

\* Every execution of the buffers, receives and iterators, on any instance, is
\* an execution of the ownership contract.
THEOREM Refinement == Spec => ImplementsOwnership
<1>1. Init => Contract!Init
  BY DEF Init, Contract!Init, Owner
<1>2. IInv /\ [Next]_vars => [Contract!Next]_(Contract!vars)
  BY StepRefines
<1> QED
  BY <1>1, <1>2, Invariance, PTL DEF Spec, Contract!Spec, ImplementsOwnership

=============================================================================
