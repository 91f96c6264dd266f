----------------------- MODULE DatagramTransferProofs -----------------------
(***************************************************************************)
(* Message boundaries and descriptors on datagram and seqpacket sockets,   *)
(* for any number of senders, receivers, messages and descriptors, any     *)
(* queue, buffer and table, on platforms with and without                  *)
(* MSG_CMSG_CLOEXEC.                                                       *)
(***************************************************************************)
EXTENDS DatagramTransfer, ReceiveProofs

\* A task does not send more often than it is bounded to.
Bounded ==
    \A s \in Sender : parcel[s] # Nothing => Len(outcome[s]) < MaxSends

\* No descriptor of a message that is still queued, or is yet to be sent, is
\* open in the receiving process.
FreshRights ==
    \A f \in fdtable :
        /\ f[2] <= Len(outcome[f[1]])
        /\ \A i \in DOMAIN queue : ~(queue[i].from = f[1] /\ queue[i].call = f[2])

\* What a receive holds is what it took off the socket.
Taken(r) ==
    rpc[r] \in {"parse", "core"} =>
        /\ msg[r].bytes = Payload(took[r], MinOf(took[r].len, BufLen))
        /\ msg[r].rights = Rights(took[r])
        /\ msg[r].trunc = (took[r].len > BufLen)

\* The inductive invariant.  One message per send makes the descriptors of each
\* message new to the receiving process, so that no two receives own the same;
\* what each holds of the message it took makes its return whole.
IInv ==
    /\ TypeOK
    /\ RecvInv(Right, Right)
    /\ Bounded
    /\ OneMessagePerSend
    /\ FreshRights
    /\ \A r \in Receiver : Taken(r)
    /\ WholeMessage

-----------------------------------------------------------------------------
(* Messages.                                                               *)

LEMMA MessageFacts ==
    ASSUME NEW m \in Message
    PROVE  /\ m.from \in Sender /\ m.call \in 1 .. MaxSends /\ m.call \in Nat
           /\ m.len \in Nat /\ m.fds \in Nat
           /\ \A k \in Nat : /\ Payload(m, k) \in Seq(Right)
                             /\ Len(Payload(m, k)) = k
           /\ Rights(m) \in Seq(Right) /\ Len(Rights(m)) = m.fds
           /\ \A f \in ToSet(Rights(m)) : f[1] = m.from /\ f[2] = m.call
<1>1. m.from \in Sender /\ m.call \in 1 .. MaxSends /\ m.len \in Nat /\ m.fds \in Nat
  BY DEF Message
<1>2. ASSUME NEW k \in Nat PROVE Payload(m, k) \in Seq(Right) /\ Len(Payload(m, k)) = k
  <2>1. \A j \in 1 .. k : <<m.from, m.call, j>> \in Right
    BY <1>1 DEF Right
  <2> QED
    BY <2>1 DEF Payload
<1>3. Rights(m) \in Seq(Right) /\ Len(Rights(m)) = m.fds
  <2>1. \A j \in 1 .. m.fds : <<m.from, m.call, j>> \in Right
    BY <1>1 DEF Right
  <2> QED
    BY <1>1, <2>1 DEF Rights
<1>4. \A f \in ToSet(Rights(m)) : f[1] = m.from /\ f[2] = m.call
  <2> SUFFICES ASSUME NEW f \in ToSet(Rights(m)) PROVE f[1] = m.from /\ f[2] = m.call
    OBVIOUS
  <2>1. DOMAIN Rights(m) = 1 .. m.fds
        /\ \A i \in 1 .. m.fds : Rights(m)[i] = <<m.from, m.call, i>>
    BY DEF Rights
  <2>2. PICK i \in 1 .. m.fds : f = <<m.from, m.call, i>>
    BY <2>1 DEF ToSet
  <2> QED
    BY <2>2
<1>5. m.call \in Nat
  BY <1>1, DatagramAssumption
<1> QED
  BY <1>1, <1>2, <1>3, <1>4, <1>5

LEMMA EndOfFileFacts ==
    /\ EndOfFile.len = 0 /\ EndOfFile.fds = 0
    /\ Payload(EndOfFile, 0) = <<>> /\ Rights(EndOfFile) = <<>>
BY DEF EndOfFile, Payload, Rights

LEMMA EnteredFacts ==
    ASSUME TypeOK
    PROVE  /\ Len(gone) \in Nat /\ Len(queue) \in Nat
           /\ DOMAIN gone = 1 .. Len(gone) /\ DOMAIN queue = 1 .. Len(queue)
           /\ Entered \in Seq(Message)
           /\ Len(Entered) = Len(gone) + Len(queue)
           /\ DOMAIN Entered = 1 .. Len(gone) + Len(queue)
           /\ \A i \in DOMAIN Entered : Entered[i] \in Message
           /\ \A i \in 1 .. Len(gone) : Entered[i] = gone[i]
           /\ \A i \in 1 .. Len(queue) : Entered[Len(gone) + i] = queue[i]
<1>1. gone \in Seq(Message) /\ queue \in Seq(Message)
  BY DEF TypeOK
<1>2. /\ Entered \in Seq(Message)
      /\ Len(Entered) = Len(gone) + Len(queue)
      /\ \A i \in 1 .. Len(gone) + Len(queue) :
           Entered[i] = IF i <= Len(gone) THEN gone[i] ELSE queue[i - Len(gone)]
  BY <1>1, ConcatProperties DEF Entered
<1>3. /\ Len(gone) \in Nat /\ Len(queue) \in Nat
      /\ DOMAIN gone = 1 .. Len(gone) /\ DOMAIN queue = 1 .. Len(queue)
      /\ DOMAIN Entered = 1 .. Len(Entered)
  BY <1>1, <1>2, LenProperties
<1>4. \A i \in DOMAIN Entered : Entered[i] \in Message
  BY <1>2, <1>3, ElementOfSeq
<1>5. \A i \in 1 .. Len(gone) : Entered[i] = gone[i]
  BY <1>2, <1>3
<1>6. \A i \in 1 .. Len(queue) : Entered[Len(gone) + i] = queue[i]
  <2> SUFFICES ASSUME NEW i \in 1 .. Len(queue) PROVE Entered[Len(gone) + i] = queue[i]
    OBVIOUS
  <2>1. /\ Len(gone) + i \in 1 .. Len(gone) + Len(queue)
        /\ ~(Len(gone) + i <= Len(gone)) /\ Len(gone) + i - Len(gone) = i
    BY <1>3
  <2> QED
    BY <1>2, <2>1
<1> QED
  BY <1>2, <1>3, <1>4, <1>5, <1>6

\* A message is queued behind all the others.
LEMMA EnteredAppend ==
    ASSUME TypeOK, NEW m \in Message, queue' = Append(queue, m), gone' = gone
    PROVE  /\ DOMAIN Entered' = 1 .. Len(Entered) + 1
           /\ \A i \in 1 .. Len(Entered) : Entered'[i] = Entered[i]
           /\ Entered'[Len(Entered) + 1] = m
<1>1. gone \in Seq(Message) /\ queue \in Seq(Message)
  BY DEF TypeOK
<1>2. Append(queue, m) = queue \o <<m>> /\ <<m>> \in Seq(Message)
  BY <1>1, AppendIsConcat
<1>3. Entered' = (gone \o queue) \o <<m>>
  BY <1>1, <1>2, ConcatAssociative DEF Entered
<1>4. Entered \in Seq(Message)
  BY EnteredFacts
<1>5. Entered' = Append(Entered, m)
  BY <1>2, <1>3, <1>4, AppendIsConcat DEF Entered
<1>6. Append(Entered, m) \in Seq(Message) /\ Len(Append(Entered, m)) = Len(Entered) + 1
  BY <1>4, AppendProperties
<1> QED
  BY <1>4, <1>5, <1>6, AppendProperties, LenProperties

\* A message that leaves the queue keeps its place.
LEMMA EnteredShift ==
    ASSUME TypeOK, queue # <<>>, gone' = Append(gone, Head(queue)), queue' = Tail(queue)
    PROVE  Entered' = Entered
<1>1. gone \in Seq(Message) /\ queue \in Seq(Message)
  BY DEF TypeOK
<1>2. Head(queue) \in Message /\ Tail(queue) \in Seq(Message)
  BY <1>1, HeadTailProperties
<1>3. queue = <<Head(queue)>> \o Tail(queue)
  <2>1. Len(queue) \in Nat \ {0}
    BY <1>1, EmptySeq
  <2>2. SubSeq(queue, 1, Len(queue)) = <<queue[1]>> \o SubSeq(queue, 1 + 1, Len(queue))
    BY <1>1, <2>1, SubSeqRecursiveFirst
  <2>3. Head(queue) = queue[1]
    BY <1>1, <2>1
  <2> QED
    BY <1>1, <2>2, <2>3, SubSeqFull, TailIsSubSeq
<1>4. gone' = gone \o <<Head(queue)>> /\ <<Head(queue)>> \in Seq(Message)
  BY <1>1, <1>2, AppendIsConcat
<1>5. (gone \o <<Head(queue)>>) \o Tail(queue) = gone \o (<<Head(queue)>> \o Tail(queue))
  BY <1>1, <1>2, <1>4, ConcatAssociative
<1> QED
  BY <1>3, <1>4, <1>5 DEF Entered

-----------------------------------------------------------------------------
(* One message per send.                                                   *)

\* The calls that returned and the messages depend on each other only through
\* outcome and Entered.
LEMMA SameMessages ==
    ASSUME OneMessagePerSend, outcome' = outcome, Entered' = Entered
    PROVE  OneMessagePerSend'
BY DEF OneMessagePerSend, Succeeded, AsAsked

LEMMA ReturnFacts ==
    ASSUME TypeOK, NEW s \in Sender, NEW o \in {"ok", "err", "cancelled"}, SendReturn(s, o)
    PROVE  /\ outcome' \in [Sender -> Seq(Return)]
           /\ \A t \in Sender : Len(outcome[t]) \in Nat /\ DOMAIN outcome[t] = 1 .. Len(outcome[t])
           /\ Len(outcome'[s]) = Len(outcome[s]) + 1
           /\ \A t \in Sender : t # s => outcome'[t] = outcome[t]
           /\ \A t \in Sender : t # s => Succeeded(t)' = Succeeded(t)
           /\ Succeeded(s)' = Succeeded(s) \cup (IF o = "ok" THEN {Len(outcome[s]) + 1} ELSE {})
           /\ \A t \in Sender : \A c \in DOMAIN outcome[t] : outcome'[t][c] = outcome[t][c]
           /\ outcome'[s][Len(outcome[s]) + 1].parcel = parcel[s]
           /\ parcel' \in [Sender -> Parcel \cup {Nothing}]
           /\ parcel'[s] = Nothing
           /\ \A t \in Sender : t # s => parcel'[t] = parcel[t]
<1> DEFINE O == Return
           e == [is |-> o, parcel |-> parcel[s]]
<1>1. outcome \in [Sender -> Seq(O)] /\ parcel \in [Sender -> Parcel \cup {Nothing}]
  BY DEF TypeOK
<1>2. /\ outcome' = [outcome EXCEPT ![s] = Append(outcome[s], e)]
      /\ parcel' = [parcel EXCEPT ![s] = Nothing]
  BY DEF SendReturn
<1>4. e \in O /\ e.is = o /\ e.parcel = parcel[s]
  BY <1>1 DEF Return
<1> HIDE DEF O, e
<1>3. \A t \in Sender : Len(outcome[t]) \in Nat /\ DOMAIN outcome[t] = 1 .. Len(outcome[t])
  BY <1>1, LenProperties
<1>5. /\ Append(outcome[s], e) \in Seq(O)
      /\ Len(Append(outcome[s], e)) = Len(outcome[s]) + 1
      /\ \A i \in 1 .. Len(outcome[s]) : Append(outcome[s], e)[i] = outcome[s][i]
      /\ Append(outcome[s], e)[Len(outcome[s]) + 1] = e
  BY <1>1, <1>4, AppendProperties
<1>6. outcome'[s] = Append(outcome[s], e) /\ \A t \in Sender : t # s => outcome'[t] = outcome[t]
  BY <1>1, <1>2
<1>7. outcome' \in [Sender -> Seq(O)]
  BY <1>1, <1>2, <1>5
<1>8. DOMAIN outcome'[s] = 1 .. Len(outcome[s]) + 1
  BY <1>5, <1>6, LenProperties
<1>9. Succeeded(s)' = Succeeded(s) \cup (IF o = "ok" THEN {Len(outcome[s]) + 1} ELSE {})
  <2>1. \A k : k \in Succeeded(s)'
                 <=> k \in 1 .. Len(outcome[s]) + 1 /\ outcome'[s][k].is = "ok"
    BY <1>8 DEF Succeeded
  <2>2. \A k : k \in Succeeded(s) <=> k \in 1 .. Len(outcome[s]) /\ outcome[s][k].is = "ok"
    BY <1>3 DEF Succeeded
  <2>3. Len(outcome[s]) \in Nat
    BY <1>3
  <2>4. \A k \in 1 .. Len(outcome[s]) : outcome'[s][k] = outcome[s][k]
    BY <1>5, <1>6
  <2>5. outcome'[s][Len(outcome[s]) + 1].is = o
    BY <1>4, <1>5, <1>6
  <2>6. \A k : k \in 1 .. Len(outcome[s]) + 1
                 <=> k \in 1 .. Len(outcome[s]) \/ k = Len(outcome[s]) + 1
    BY <2>3
  <2> QED
    BY <2>1, <2>2, <2>4, <2>5, <2>6
<1>10. \A t \in Sender : t # s => Succeeded(t)' = Succeeded(t)
  BY <1>6 DEF Succeeded
<1>11. /\ \A t \in Sender : \A c \in DOMAIN outcome[t] : outcome'[t][c] = outcome[t][c]
       /\ outcome'[s][Len(outcome[s]) + 1].parcel = parcel[s]
  BY <1>3, <1>4, <1>5, <1>6
<1> QED
  BY <1>1, <1>2, <1>3, <1>5, <1>6, <1>7, <1>9, <1>10, <1>11 DEF O

\* A call that fails or is dropped makes no message.
LEMMA FailureMakesNone ==
    ASSUME TypeOK, OneMessagePerSend, NEW s \in Sender, NEW o \in {"err", "cancelled"},
           SendReturn(s, o), UNCHANGED queue
    PROVE  OneMessagePerSend'
<1>1. \A t \in Sender : Succeeded(t)' = Succeeded(t)
  BY ReturnFacts
<1>2. Entered' = Entered
  BY DEF SendReturn, Entered
<1>3. \A i \in DOMAIN Entered : Entered[i].from \in Sender
  BY EnteredFacts, MessageFacts
<1>4. \A t \in Sender : \A c \in Succeeded(t) : outcome'[t][c] = outcome[t][c]
  BY ReturnFacts DEF Succeeded
<1>5. ASSUME NEW i \in DOMAIN Entered PROVE AsAsked(Entered[i])'
  <2>1. Entered[i].call \in Succeeded(Entered[i].from) /\ AsAsked(Entered[i])
    BY DEF OneMessagePerSend
  <2>2. Entered'[i] = Entered[i]
    BY <1>2
  <2>3. outcome'[Entered[i].from][Entered[i].call] = outcome[Entered[i].from][Entered[i].call]
    BY <1>3, <1>4, <2>1
  <2> QED
    BY <2>1, <2>2, <2>3 DEF AsAsked
<1> QED
  BY <1>1, <1>2, <1>3, <1>5 DEF OneMessagePerSend

\* A call that succeeds makes one, behind those of the earlier calls.
LEMMA SuccessMakesOne ==
    ASSUME TypeOK, OneMessagePerSend, NEW s \in Sender, SendReturn(s, "ok"),
           NEW m \in Message, m.from = s, m.call = Len(outcome[s]) + 1,
           m.len = parcel[s].len, m.fds = parcel[s].fds,
           queue' = Append(queue, m)
    PROVE  OneMessagePerSend'
<1> DEFINE n == Len(Entered)
           k == Len(outcome[s]) + 1
           Now(t) == {c \in DOMAIN outcome'[t] : outcome'[t][c].is = "ok"}
<1>1. /\ DOMAIN Entered' = 1 .. n + 1
      /\ \A i \in 1 .. n : Entered'[i] = Entered[i]
      /\ Entered'[n + 1] = m
  BY EnteredAppend DEF SendReturn
<1>2. /\ n \in Nat /\ DOMAIN Entered = 1 .. n
      /\ \A i \in DOMAIN Entered : Entered[i].from \in Sender
  <2>1. n \in Nat /\ DOMAIN Entered = 1 .. n
    BY EnteredFacts
  <2>2. \A i \in DOMAIN Entered : Entered[i] \in Message
    BY EnteredFacts
  <2> QED
    BY <2>1, <2>2, MessageFacts
<1>3. /\ \A t \in Sender : t # s => Now(t) = Succeeded(t)
      /\ Now(s) = Succeeded(s) \cup {k}
      /\ Len(outcome[s]) \in Nat /\ DOMAIN outcome[s] = 1 .. Len(outcome[s])
  <2>1. \A t \in Sender : Succeeded(t)' = Now(t)
    BY DEF Succeeded
  <2> QED
    BY <2>1, ReturnFacts
<1>4. \A c \in Succeeded(s) : c \in Nat /\ c < k
  BY <1>3 DEF Succeeded
<1>5. \A i \in 1 .. n + 1 : i \in 1 .. n \/ i = n + 1
  BY <1>2
<1>6. n + 1 \in 1 .. n + 1 /\ \A i \in 1 .. n : i \in 1 .. n + 1 /\ i < n + 1
  BY <1>2
<1> HIDE DEF n, k, Now
<1>7. \A i \in DOMAIN Entered' : Entered'[i].call \in Now(Entered'[i].from)
  <2> SUFFICES ASSUME NEW i \in 1 .. n + 1
               PROVE  Entered'[i].call \in Now(Entered'[i].from)
    BY <1>1
  <2>1. CASE i \in 1 .. n
    <3>1. Entered[i].call \in Succeeded(Entered[i].from) /\ Entered'[i] = Entered[i]
      BY <1>1, <1>2, <2>1 DEF OneMessagePerSend
    <3> DEFINE t == Entered[i].from
    <3>2. t \in Sender
      BY <1>2, <2>1
    <3> HIDE DEF t
    <3>3. Succeeded(t) \subseteq Now(t)
      BY <1>3, <3>2
    <3> QED
      BY <3>1, <3>3 DEF t
  <2>2. CASE i = n + 1
    BY <1>1, <1>3, <2>2 DEF k
  <2> QED
    BY <1>5, <2>1, <2>2
<1>8. \A t \in Sender : \A c \in Now(t) :
        \E i \in DOMAIN Entered' : Entered'[i].from = t /\ Entered'[i].call = c
  <2> SUFFICES ASSUME NEW t \in Sender, NEW c \in Now(t)
               PROVE  \E i \in 1 .. n + 1 : Entered'[i].from = t /\ Entered'[i].call = c
    BY <1>1
  <2>1. CASE c \in Succeeded(t)
    <3>1. PICK i \in 1 .. n : Entered[i].from = t /\ Entered[i].call = c
      BY <1>2, <2>1 DEF OneMessagePerSend
    <3> QED
      BY <1>1, <1>6, <3>1
  <2>2. CASE t = s /\ c = k
    BY <1>1, <1>6, <2>2 DEF k
  <2> QED
    BY <1>3, <2>1, <2>2
<1>9. \A i, j \in DOMAIN Entered' :
        i < j /\ Entered'[i].from = Entered'[j].from => Entered'[i].call < Entered'[j].call
  <2> SUFFICES ASSUME NEW i \in 1 .. n + 1, NEW j \in 1 .. n + 1, i < j,
                      Entered'[i].from = Entered'[j].from
               PROVE  Entered'[i].call < Entered'[j].call
    BY <1>1
  <2>1. i \in 1 .. n /\ Entered'[i] = Entered[i]
    BY <1>1, <1>2
  <2>2. CASE j \in 1 .. n
    BY <1>1, <1>2, <2>1, <2>2 DEF OneMessagePerSend
  <2>3. CASE j = n + 1
    <3>1. Entered[i].from = s /\ Entered'[j].call = k
      BY <1>1, <2>1, <2>3 DEF k
    <3>2. Entered[i].call \in Succeeded(s)
      BY <1>2, <2>1, <3>1 DEF OneMessagePerSend
    <3> QED
      BY <1>4, <2>1, <3>1, <3>2
  <2> QED
    BY <1>5, <2>2, <2>3
<1>10. ASSUME NEW i \in DOMAIN Entered' PROVE AsAsked(Entered[i])'
  <2>1. CASE i \in 1 .. n
    <3>1. /\ Entered[i].call \in Succeeded(Entered[i].from) /\ AsAsked(Entered[i])
          /\ Entered'[i] = Entered[i] /\ Entered[i].from \in Sender
      BY <1>1, <1>2, <2>1 DEF OneMessagePerSend
    <3>2. \A t \in Sender : \A c \in Succeeded(t) : outcome'[t][c] = outcome[t][c]
      BY ReturnFacts DEF Succeeded
    <3>3. outcome'[Entered[i].from][Entered[i].call]
            = outcome[Entered[i].from][Entered[i].call]
      BY <3>1, <3>2
    <3> QED
      BY <3>1, <3>3 DEF AsAsked
  <2>2. CASE i = n + 1
    <3>1. outcome'[s][Len(outcome[s]) + 1].parcel = parcel[s]
      BY ReturnFacts
    <3> QED
      BY <1>1, <2>2, <3>1 DEF AsAsked
  <2> QED
    BY <1>1, <1>5, <2>1, <2>2
<1> QED
  BY <1>7, <1>8, <1>9, <1>10 DEF OneMessagePerSend, Succeeded, Now

-----------------------------------------------------------------------------
(* Sends.                                                                  *)

\* What a step leaves alone on the receiving side.
LEMMA ReceiverUntouched ==
    ASSUME IInv, UNCHANGED <<took, recvVars>>
    PROVE  RecvInv(Right, Right)' /\ (\A r \in Receiver : Taken(r)') /\ WholeMessage'
<1>1. RecvInv(Right, Right)'
  BY UnchangedPreserves DEF IInv
<1>2. UNCHANGED <<rpc, mode, msg, result, took>>
  BY DEF recvVars, callVars
<1> QED
  BY <1>1, <1>2 DEF IInv, Taken, WholeMessage

LEMMA PassedFacts ==
    ASSUME IInv, NEW s \in Sender, parcel[s] # Nothing
    PROVE  /\ Passed(s) \in Message
           /\ Passed(s).from = s /\ Passed(s).call = Len(outcome[s]) + 1
           /\ Passed(s).len = parcel[s].len /\ Passed(s).fds = parcel[s].fds
<1>1. parcel[s] \in Parcel /\ parcel[s].len \in Nat /\ parcel[s].fds \in Nat
  BY DatagramAssumption DEF IInv, TypeOK
<1>2. Len(outcome[s]) \in Nat /\ Len(outcome[s]) < MaxSends
  BY LenProperties DEF IInv, TypeOK, Bounded
<1>3. Len(outcome[s]) + 1 \in 1 .. MaxSends
  BY <1>2, DatagramAssumption
<1> QED
  BY <1>1, <1>3 DEF Passed, Message

\* The queue after one more message.
LEMMA QueueAppend ==
    ASSUME queue \in Seq(Message), Len(queue) < QueueMax, NEW m \in Message,
           queue' = Append(queue, m)
    PROVE  /\ queue' \in Seq(Message) /\ Len(queue') <= QueueMax
           /\ \A i \in DOMAIN queue' : \/ i \in DOMAIN queue /\ queue'[i] = queue[i]
                                       \/ queue'[i] = m
<1>1. Len(queue) \in Nat /\ DOMAIN queue = 1 .. Len(queue) /\ QueueMax \in Nat
  BY LenProperties, DatagramAssumption
<1>2. /\ queue' \in Seq(Message) /\ Len(queue') = Len(queue) + 1
      /\ \A i \in 1 .. Len(queue) : queue'[i] = queue[i]
      /\ queue'[Len(queue) + 1] = m
  BY AppendProperties
<1>3. DOMAIN queue' = 1 .. Len(queue) + 1
  BY <1>2, LenProperties
<1>4. \A i \in 1 .. Len(queue) + 1 : i \in 1 .. Len(queue) \/ i = Len(queue) + 1
  BY <1>1
<1>5. Len(queue) + 1 <= QueueMax
  BY <1>1
<1> QED
  BY <1>1, <1>2, <1>3, <1>4, <1>5

\* A step that closes nothing and queues at most messages that are still to be
\* sent keeps every right fresh.
LEMMA SendPreserves ==
    ASSUME IInv, NEW s \in Sender, NEW o \in {"ok", "err", "cancelled"},
           SendReturn(s, o), parcel[s] # Nothing,
           \/ o = "ok" /\ Len(queue) < QueueMax /\ queue' = Append(queue, Passed(s))
           \/ o # "ok" /\ UNCHANGED queue
    PROVE  IInv'
<1> DEFINE m == Passed(s)
           n == Len(outcome[s])
<1>1. /\ m \in Message /\ m.from = s /\ m.call = n + 1
      /\ m.len = parcel[s].len /\ m.fds = parcel[s].fds
  BY PassedFacts
<1>2. TypeOK /\ OneMessagePerSend
  BY DEF IInv
<1>3. /\ outcome' \in [Sender -> Seq(Return)]
      /\ \A t \in Sender : Len(outcome[t]) \in Nat
      /\ Len(outcome'[s]) = n + 1
      /\ \A t \in Sender : t # s => outcome'[t] = outcome[t]
      /\ parcel' \in [Sender -> Parcel \cup {Nothing}]
      /\ parcel'[s] = Nothing
      /\ \A t \in Sender : t # s => parcel'[t] = parcel[t]
  BY <1>2, ReturnFacts
<1>4. UNCHANGED <<gone, took, ends, recvVars>>
  BY DEF SendReturn
<1>5. RecvInv(Right, Right)' /\ (\A r \in Receiver : Taken(r)') /\ WholeMessage'
  BY <1>4, ReceiverUntouched
<1>6. OneMessagePerSend'
  BY <1>1, <1>2, FailureMakesNone, SuccessMakesOne
<1> HIDE DEF m
<1>7. /\ queue' \in Seq(Message) /\ Len(queue') <= QueueMax
      /\ \A i \in DOMAIN queue' : \/ i \in DOMAIN queue /\ queue'[i] = queue[i]
                                  \/ queue'[i] = m
  <2>1. queue \in Seq(Message) /\ Len(queue) \in Nat /\ Len(queue) <= QueueMax
        /\ DOMAIN queue = 1 .. Len(queue)
    BY <1>2, LenProperties DEF TypeOK
  <2>2. CASE queue' = Append(queue, m) /\ Len(queue) < QueueMax
    BY <1>1, <1>2, <2>2, QueueAppend DEF TypeOK
  <2>3. CASE UNCHANGED queue
    BY <2>1, <2>3
  <2> QED
    BY <2>2, <2>3 DEF m
<1>8. TypeOK'
  <2>1. /\ gone' \in Seq(Message) /\ took' \in [Receiver -> Message \cup {EndOfFile}]
        /\ ends' \subseteq {"tx", "rx"}
    BY <1>2, <1>4 DEF TypeOK
  <2>2. RecvTypeOK(Right, Right)'
    BY <1>5 DEF RecvInv
  <2> QED
    BY <1>3, <1>7, <2>1, <2>2 DEF TypeOK
<1>9. Bounded'
  <2>1. \A t \in Sender : parcel'[t] # Nothing =>
            t # s /\ parcel[t] # Nothing /\ outcome'[t] = outcome[t]
    BY <1>3
  <2> QED
    BY <2>1 DEF IInv, Bounded
<1>10. FreshRights'
  <2>1. fdtable' = fdtable /\ \A f \in fdtable : f[1] \in Sender /\ f[2] \in Nat
    <3>1. fdtable' = fdtable
      BY <1>4 DEF recvVars
    <3>2. \A f \in Right : f[1] \in Sender /\ f[2] \in Nat
      BY DatagramAssumption DEF Right
    <3>3. fdtable \subseteq Right
      BY DEF IInv, RecvInv, RecvTypeOK
    <3> QED
      BY <3>1, <3>2, <3>3
  <2> SUFFICES ASSUME NEW f \in fdtable
               PROVE  /\ f[2] <= Len(outcome'[f[1]])
                      /\ \A i \in DOMAIN queue' :
                           ~(queue'[i].from = f[1] /\ queue'[i].call = f[2])
    BY <2>1 DEF FreshRights
  <2>2. f[2] <= Len(outcome[f[1]]) /\ f[1] \in Sender /\ f[2] \in Nat
    BY <2>1 DEF IInv, FreshRights
  <2>3. f[2] <= Len(outcome'[f[1]])
    <3>1. CASE f[1] = s
      BY <1>3, <2>2, <3>1
    <3>2. CASE f[1] # s
      BY <1>3, <2>2, <3>2
    <3> QED
      BY <3>1, <3>2
  <2>4. ~(m.from = f[1] /\ m.call = f[2])
    BY <1>1, <1>3, <2>2
  <2>5. \A i \in DOMAIN queue : ~(queue[i].from = f[1] /\ queue[i].call = f[2])
    BY DEF IInv, FreshRights
  <2> QED
    BY <1>7, <2>3, <2>4, <2>5
<1> QED
  BY <1>5, <1>6, <1>8, <1>9, <1>10 DEF IInv

LEMMA SendCallPreserves ==
    ASSUME IInv, NEW s \in Sender, NEW p \in Parcel, SendCall(s, p)
    PROVE  IInv'
<1>1. /\ Len(outcome[s]) < MaxSends /\ parcel' = [parcel EXCEPT ![s] = p]
      /\ UNCHANGED <<outcome, queue, gone, took, ends, recvVars>>
  BY DEF SendCall
<1>2. RecvInv(Right, Right)' /\ (\A r \in Receiver : Taken(r)') /\ WholeMessage'
  BY <1>1, ReceiverUntouched
<1>3. OneMessagePerSend'
  BY <1>1, SameMessages DEF IInv, Entered
<1>4. parcel \in [Sender -> Parcel \cup {Nothing}]
  BY DEF IInv, TypeOK
<1>5. parcel' \in [Sender -> Parcel \cup {Nothing}] /\ Bounded'
  BY <1>1, <1>4 DEF IInv, Bounded
<1>6. TypeOK'
  BY <1>1, <1>2, <1>5 DEF IInv, TypeOK, RecvInv
<1>7. FreshRights'
  BY <1>1 DEF IInv, FreshRights, recvVars
<1> QED
  BY <1>2, <1>3, <1>5, <1>6, <1>7 DEF IInv

\* The sending socket is dropped.
LEMMA CloseSenderPreserves ==
    ASSUME IInv, CloseSender
    PROVE  IInv'
<1>1. ends' \subseteq {"tx", "rx"} /\ UNCHANGED <<parcel, outcome, queue, gone, took, recvVars>>
  BY DEF CloseSender, sendVars, IInv, TypeOK
<1>2. RecvInv(Right, Right)' /\ (\A r \in Receiver : Taken(r)') /\ WholeMessage'
  BY <1>1, ReceiverUntouched
<1>3. OneMessagePerSend'
  BY <1>1, SameMessages DEF IInv, Entered
<1>4. TypeOK' /\ Bounded'
  BY <1>1, <1>2 DEF IInv, TypeOK, RecvInv, Bounded
<1>5. FreshRights'
  BY <1>1 DEF IInv, FreshRights, recvVars
<1> QED
  BY <1>2, <1>3, <1>4, <1>5 DEF IInv

-----------------------------------------------------------------------------
(* Receives.                                                               *)

\* A step of one receive that neither delivers nor returns successfully, and
\* the steps of the process around them.
LEMMA FrameFacts ==
    ASSUME IInv, RecvInv(Right, Right)', UNCHANGED channelVars,
           fdtable' \subseteq fdtable
    PROVE  /\ TypeOK' /\ Bounded' /\ OneMessagePerSend' /\ FreshRights'
<1>1. UNCHANGED <<parcel, outcome, queue, gone, took, ends>>
  BY DEF channelVars, sendVars
<1>2. TypeOK' /\ Bounded'
  BY <1>1 DEF IInv, TypeOK, Bounded, RecvInv
<1>3. OneMessagePerSend'
  BY <1>1, SameMessages DEF IInv, Entered
<1>4. FreshRights'
  BY <1>1 DEF IInv, FreshRights
<1> QED
  BY <1>2, <1>3, <1>4

\* Calls that a step leaves alone.
LEMMA CallUntouched ==
    ASSUME IInv, NEW q \in Receiver, rpc'[q] = rpc[q], msg'[q] = msg[q],
           took'[q] = took[q]
    PROVE  Taken(q)'
BY DEF IInv, Taken

\* The result of one call.
Whole(r) ==
    result[r].ok =>
        /\ result[r].bytes = Payload(took[r], took[r].len)
        /\ result[r].fds = SubSeq(Rights(took[r]), 1, Len(result[r].fds))
        /\ Len(result[r].fds) + result[r].surplus = took[r].fds
        /\ result[r].mode.exact => Len(result[r].fds) = result[r].mode.n

LEMMA WholeIsWhole == WholeMessage <=> \A r \in Receiver : Whole(r)
BY DEF WholeMessage, Whole

LEMMA ReturnWhole ==
    ASSUME IInv, UNCHANGED took, NEW r \in Receiver, NEW ok, NEW fds, NEW surplus,
           RecvReturn(r, ok, fds, surplus),
           ok => /\ msg[r].bytes = Payload(took[r], took[r].len)
                 /\ fds = SubSeq(Rights(took[r]), 1, Len(fds))
                 /\ Len(fds) + surplus = took[r].fds
                 /\ mode[r].exact => Len(fds) = mode[r].n
    PROVE  (\A q \in Receiver : Taken(q)') /\ WholeMessage'
<1>1. /\ rpc \in [Receiver -> {"idle", "recvmsg", "waiting", "parse", "core"}]
      /\ msg \in [Receiver -> Received(Right, Right)]
      /\ result \in [Receiver -> Outcome(Right, Right)]
  BY RecvTypes DEF IInv, RecvInv
<1>2. /\ rpc' = [rpc EXCEPT ![r] = "idle"] /\ msg' = [msg EXCEPT ![r] = NoMsg]
      /\ result' = [result EXCEPT ![r] =
                      [ok |-> ok, mode |-> mode[r], bytes |-> msg[r].bytes,
                       fds |-> fds, surplus |-> surplus]]
  BY DEF RecvReturn, Forget
<1>3. rpc'[r] = "idle" /\ \A q \in Receiver : q # r => rpc'[q] = rpc[q] /\ msg'[q] = msg[q]
  BY <1>1, <1>2
<1>4. /\ result'[r].ok = ok /\ result'[r].bytes = msg[r].bytes /\ result'[r].fds = fds
      /\ result'[r].surplus = surplus /\ result'[r].mode = mode[r]
      /\ \A q \in Receiver : q # r => result'[q] = result[q]
  BY <1>1, <1>2
<1>5. ASSUME NEW q \in Receiver PROVE Taken(q)'
  <2>1. CASE q = r
    BY <1>3, <2>1 DEF Taken
  <2>2. CASE q # r
    BY <1>3, <2>2, CallUntouched
  <2> QED
    BY <2>1, <2>2
<1>6. ASSUME NEW q \in Receiver PROVE Whole(q)'
  <2>1. CASE q = r
    BY <1>4, <2>1 DEF Whole
  <2>2. CASE q # r
    BY <1>4, <2>2, WholeIsWhole DEF IInv, Whole
  <2> QED
    BY <2>1, <2>2
<1>7. WholeMessage'
  BY <1>6 DEF WholeMessage, Whole
<1> QED
  BY <1>5, <1>7

\* An error says nothing about the message.
LEMMA ErrorKeeps ==
    ASSUME IInv, UNCHANGED channelVars, NEW r \in Receiver, rpc[r] # "parse",
           RecvReturn(r, FALSE, <<>>, 0)
    PROVE  IInv'
<1>1. RecvInv(Right, Right)'
  BY ErrorPreserves DEF IInv
<1>2. fdtable' \subseteq fdtable
  <2>1. ToSet(<<>>) = {}
    BY DEF ToSet
  <2> QED
    BY <2>1, ReturnOpensNothing DEF IInv
<1>3. took' = took
  BY DEF channelVars
<1>4. (\A q \in Receiver : Taken(q)') /\ WholeMessage'
  BY <1>3, ReturnWhole
<1> QED
  BY <1>1, <1>2, <1>4, FrameFacts DEF IInv

\* recv_core on a message that was taken whole.
LEMMA CoreKeeps ==
    ASSUME IInv, UNCHANGED channelVars, NEW r \in Receiver, recv_core(r)
    PROVE  IInv'
<1>1. CASE RecvReturn(r, FALSE, <<>>, 0)
  <2>1. rpc[r] # "parse"
    BY DEF recv_core
  <2> QED
    BY <1>1, <2>1, ErrorKeeps
<1>2. CASE \E k \in 0 .. Len(msg[r].rights) :
              /\ RecvReturn(r, TRUE, SubSeq(msg[r].rights, 1, k), Len(msg[r].rights) - k)
              /\ msg[r].fds = msg[r].rights
              /\ k = IF mode[r].exact THEN mode[r].n
                     ELSE MinOf(Len(msg[r].rights), mode[r].n)
              /\ SocketKind = "Datagram" => ~msg[r].trunc
  <2>1. PICK k \in 0 .. Len(msg[r].rights) :
              /\ RecvReturn(r, TRUE, SubSeq(msg[r].rights, 1, k), Len(msg[r].rights) - k)
              /\ msg[r].fds = msg[r].rights
              /\ mode[r].exact => k = mode[r].n
              /\ ~msg[r].trunc
    BY <1>2, DatagramAssumption
  <2> DEFINE fds == SubSeq(msg[r].rights, 1, k)
  <2>2. /\ msg[r].bytes = Payload(took[r], MinOf(took[r].len, BufLen))
        /\ msg[r].rights = Rights(took[r])
        /\ msg[r].trunc = (took[r].len > BufLen)
    BY DEF recv_core, IInv, Taken
  <2>3. took[r] \in Message \/ took[r] = EndOfFile
    BY DEF IInv, TypeOK
  <2>4. took[r].len \in Nat /\ took[r].fds \in Nat /\ Rights(took[r]) \in Seq(Right)
        /\ Len(Rights(took[r])) = took[r].fds
    <3>1. CASE took[r] \in Message
      BY <3>1, MessageFacts
    <3>2. CASE took[r] = EndOfFile
      <4>1. <<>> \in Seq(Right) /\ Len(<<>>) = 0
        OBVIOUS
      <4> QED
        BY <3>2, <4>1, EndOfFileFacts
    <3> QED
      BY <2>3, <3>1, <3>2
  <2>5. MinOf(took[r].len, BufLen) = took[r].len
    <3>1. ~(took[r].len > BufLen)
      BY <2>1, <2>2
    <3>2. BufLen \in Nat
      BY ConstantsTyped
    <3> QED
      BY <2>4, <3>1, <3>2 DEF MinOf
  <2>6. k \in Nat /\ k <= Len(msg[r].rights) /\ Len(fds) = k
        /\ fds \in Seq(Right) /\ ToSet(fds) \subseteq ToSet(msg[r].fds)
    <3>1. msg[r].rights \in Seq(Right) /\ Len(msg[r].rights) \in Nat
      BY <2>2, <2>4, LenProperties
    <3>2. k \in Nat /\ k <= Len(msg[r].rights)
      BY <3>1
    <3> QED
      BY <2>1, <3>1, <3>2, PrefixFacts
  <2>7. Len(msg[r].rights) - k \in Nat /\ Len(fds) + (Len(msg[r].rights) - k) = took[r].fds
    <3>1. Len(msg[r].rights) = took[r].fds
      BY <2>2, <2>4
    <3> HIDE DEF fds
    <3> QED
      BY <2>4, <2>6, <3>1
  <2>8. RecvInv(Right, Right)'
    BY CorePreserves DEF IInv
  <2>9. fdtable' \subseteq fdtable
    BY <2>1, <2>6, ReturnOpensNothing DEF IInv
  <2>10. took' = took
    BY DEF channelVars
  <2>11. fds = SubSeq(Rights(took[r]), 1, Len(fds))
    BY <2>2, <2>6
  <2> HIDE DEF fds
  <2>12. (\A q \in Receiver : Taken(q)') /\ WholeMessage'
    <3>1. RecvReturn(r, TRUE, fds, Len(msg[r].rights) - k)
      BY <2>1 DEF fds
    <3>2. msg[r].bytes = Payload(took[r], took[r].len)
      BY <2>2, <2>5
    <3>3. mode[r].exact => Len(fds) = mode[r].n
      BY <2>1, <2>6
    <3> QED
      BY <2>7, <2>10, <2>11, <3>1, <3>2, <3>3, ReturnWhole
  <2> QED
    BY <2>8, <2>9, <2>12, FrameFacts DEF IInv
<1>3. RecvInv(Right, Right)
  BY DEF IInv
<1> QED
  BY <1>1, <1>2, <1>3, CoreReturns

\* A call begins: it has no result yet.
LEMMA ReceivesPreserves ==
    ASSUME IInv, NEW r \in Receiver, Receives(r)
    PROVE  IInv'
<1>1. PICK m \in Mode : RecvCall(r, m) /\ UNCHANGED channelVars
  BY DEF Receives
<1>2. RecvInv(Right, Right)'
  BY <1>1, RecvCallPreserves DEF IInv
<1>3. /\ result \in [Receiver -> Outcome(Right, Right)]
      /\ rpc \in [Receiver -> {"idle", "recvmsg", "waiting", "parse", "core"}]
  BY RecvTypes DEF IInv, RecvInv
<1>4. /\ rpc' = [rpc EXCEPT ![r] = "recvmsg"] /\ result' = [result EXCEPT ![r] = NoResult]
      /\ msg' = msg /\ fdtable' = fdtable /\ took' = took
  BY <1>1 DEF RecvCall, channelVars
<1>5. ASSUME NEW q \in Receiver PROVE Taken(q)'
  <2>1. CASE q = r
    BY <1>3, <1>4, <2>1 DEF Taken
  <2>2. CASE q # r
    BY <1>3, <1>4, <2>2, CallUntouched
  <2> QED
    BY <2>1, <2>2
<1>6. ASSUME NEW q \in Receiver PROVE Whole(q)'
  <2>1. CASE q = r
    BY <1>3, <1>4, <2>1 DEF Whole, NoResult
  <2>2. CASE q # r
    BY <1>3, <1>4, <2>2, WholeIsWhole DEF IInv, Whole
  <2> QED
    BY <2>1, <2>2
<1>7. WholeMessage'
  BY <1>6 DEF WholeMessage, Whole
<1> QED
  BY <1>1, <1>2, <1>4, <1>5, <1>7, FrameFacts DEF IInv

\* What the receive r sees of a delivery.
LEMMA Delivered ==
    ASSUME IInv, NEW r \in Receiver, rpc[r] = "recvmsg", NEW trunc \in BOOLEAN,
           NEW bytes \in Seq(Right), NEW rights \in Seq(Right),
           Deliver(r, bytes, rights, trunc), ToSet(rights) \cap fdtable = {}
    PROVE  /\ RecvInv(Right, Right)'
           /\ \A q \in Receiver : q # r => msg'[q] = msg[q]
           /\ msg'[r].bytes = bytes /\ msg'[r].rights = rights /\ msg'[r].trunc = trunc
           /\ fdtable' \subseteq fdtable \cup ToSet(rights)
<1>1. RecvInv(Right, Right)
  BY DEF IInv
<1>2. /\ \A q \in Receiver : q # r => msg'[q] = msg[q]
      /\ msg'[r].bytes = bytes /\ msg'[r].rights = rights /\ msg'[r].trunc = trunc
      /\ \E open \in Seq(Right) : Opens(r, rights, open)
  BY <1>1, DeliverFacts
<1>3. fdtable' \subseteq fdtable \cup ToSet(rights)
  <2>1. PICK open \in Seq(Right) : Opens(r, rights, open)
    BY <1>2
  <2> QED
    BY <2>1 DEF Opens
<1>4. RecvInv(Right, Right)'
  BY <1>1, DeliverPreserves
<1> QED
  BY <1>2, <1>3, <1>4

\* What a delivery changes outside the receiving half.
LEMMA DeliverKeeps ==
    ASSUME IInv, NEW r \in Receiver, rpc[r] = "recvmsg",
           NEW m \in Message \cup {EndOfFile}, took' = [took EXCEPT ![r] = m],
           NEW bytes \in Seq(Right), bytes = Payload(m, MinOf(m.len, BufLen)),
           NEW rights \in Seq(Right), rights = Rights(m),
           NEW trunc \in BOOLEAN, trunc <=> m.len > BufLen,
           Deliver(r, bytes, rights, trunc),
           ToSet(rights) \cap fdtable = {}
    PROVE  /\ RecvInv(Right, Right)'
           /\ took' \in [Receiver -> Message \cup {EndOfFile}]
           /\ fdtable' \subseteq fdtable \cup ToSet(rights)
           /\ (\A q \in Receiver : Taken(q)') /\ WholeMessage'
<1>1. /\ RecvInv(Right, Right)'
      /\ \A q \in Receiver : q # r => msg'[q] = msg[q]
      /\ msg'[r].bytes = bytes /\ msg'[r].rights = rights /\ msg'[r].trunc = trunc
      /\ fdtable' \subseteq fdtable \cup ToSet(rights)
  BY Delivered
<1>2. RecvInv(Right, Right)'
  BY <1>1
<1>3. rpc' = [rpc EXCEPT ![r] = "parse"] /\ result' = result
  BY DEF Deliver
<1>4. /\ rpc \in [Receiver -> {"idle", "recvmsg", "waiting", "parse", "core"}]
      /\ took \in [Receiver -> Message \cup {EndOfFile}]
  BY RecvTypes DEF IInv, RecvInv, TypeOK
<1>5. took'[r] = m /\ took' \in [Receiver -> Message \cup {EndOfFile}]
      /\ \A q \in Receiver : q # r => took'[q] = took[q] /\ rpc'[q] = rpc[q]
  BY <1>3, <1>4
<1>6. ASSUME NEW q \in Receiver PROVE Taken(q)'
  <2>1. CASE q = r
    BY <1>1, <1>5, <2>1 DEF Taken
  <2>2. CASE q # r
    BY <1>1, <1>5, <2>2, CallUntouched
  <2> QED
    BY <2>1, <2>2
<1>7. ASSUME NEW q \in Receiver PROVE Whole(q)'
  <2>1. CASE q = r
    <3>1. ~result[r].ok
      BY DEF IInv, RecvInv, Phase
    <3> QED
      BY <1>3, <2>1, <3>1 DEF Whole
  <2>2. CASE q # r
    BY <1>3, <1>5, <2>2, WholeIsWhole DEF IInv, Whole
  <2> QED
    BY <2>1, <2>2
<1>8. WholeMessage'
  BY <1>7 DEF WholeMessage, Whole
<1> QED
  BY <1>1, <1>2, <1>5, <1>6, <1>8

\* The message at the head of the queue is none of those behind it, and none of
\* its descriptors is open yet.
LEMMA HeadFacts ==
    ASSUME IInv, queue # <<>>
    PROVE  /\ Head(queue) \in Message /\ Tail(queue) \in Seq(Message)
           /\ Len(Tail(queue)) <= QueueMax
           /\ \A i \in DOMAIN Tail(queue) : i + 1 \in DOMAIN queue /\ Tail(queue)[i] = queue[i + 1]
           /\ Head(queue) = queue[1]
           /\ \A i \in DOMAIN Tail(queue) :
                ~(Tail(queue)[i].from = Head(queue).from /\ Tail(queue)[i].call = Head(queue).call)
           /\ ToSet(Rights(Head(queue))) \cap fdtable = {}
           /\ Head(queue).call <= Len(outcome[Head(queue).from])
<1>1. queue \in Seq(Message) /\ Len(queue) <= QueueMax /\ QueueMax \in Nat /\ TypeOK
  BY DatagramAssumption DEF IInv, TypeOK
<1>2. /\ Head(queue) \in Message /\ Tail(queue) \in Seq(Message)
      /\ Len(Tail(queue)) = Len(queue) - 1
      /\ \A i \in 1 .. Len(Tail(queue)) : Tail(queue)[i] = queue[i + 1]
      /\ Len(queue) \in Nat \ {0} /\ DOMAIN queue = 1 .. Len(queue)
      /\ DOMAIN Tail(queue) = 1 .. Len(Tail(queue))
      /\ Head(queue) = queue[1]
  BY <1>1, HeadTailProperties, LenProperties, EmptySeq
<1>3. \A i \in DOMAIN Tail(queue) : i + 1 \in DOMAIN queue /\ i + 1 > 1 /\ Tail(queue)[i] = queue[i + 1]
  BY <1>2
<1>4. 1 \in DOMAIN queue /\ Len(Tail(queue)) <= QueueMax
  BY <1>1, <1>2
<1>5. /\ Len(gone) \in Nat
      /\ \A i \in DOMAIN queue : Len(gone) + i \in DOMAIN Entered /\ Entered[Len(gone) + i] = queue[i]
  BY <1>1, <1>2, EnteredFacts
<1>6. ASSUME NEW i \in DOMAIN Tail(queue), Tail(queue)[i].from = Head(queue).from
      PROVE  Head(queue).call < Tail(queue)[i].call
  <2> DEFINE a == Len(gone) + 1
             b == Len(gone) + (i + 1)
  <2>1. a \in DOMAIN Entered /\ b \in DOMAIN Entered /\ a < b
        /\ Entered[a] = Head(queue) /\ Entered[b] = Tail(queue)[i]
    BY <1>2, <1>3, <1>4, <1>5
  <2> HIDE DEF a, b
  <2> QED
    BY <1>6, <2>1 DEF IInv, OneMessagePerSend
<1>7. Head(queue).call \in Nat /\ Head(queue).from \in Sender
      /\ \A f \in ToSet(Rights(Head(queue))) : f[1] = Head(queue).from /\ f[2] = Head(queue).call
  BY <1>2, MessageFacts
<1>8. \A i \in DOMAIN Tail(queue) :
        ~(Tail(queue)[i].from = Head(queue).from /\ Tail(queue)[i].call = Head(queue).call)
  BY <1>6, <1>7
<1>9. ToSet(Rights(Head(queue))) \cap fdtable = {}
  BY <1>2, <1>4, <1>7 DEF IInv, FreshRights
<1>10. Head(queue).call <= Len(outcome[Head(queue).from])
  <2> DEFINE t == Head(queue).from
  <2>1. Head(queue).call \in Succeeded(t)
    <3>1. Len(gone) + 1 \in DOMAIN Entered /\ Entered[Len(gone) + 1] = Head(queue)
      BY <1>2, <1>4, <1>5
    <3> QED
      BY <3>1 DEF IInv, OneMessagePerSend
  <2>2. DOMAIN outcome[t] = 1 .. Len(outcome[t])
    BY <1>1, <1>7, LenProperties DEF TypeOK
  <2> QED
    BY <2>1, <2>2 DEF Succeeded
<1> QED
  BY <1>2, <1>3, <1>4, <1>8, <1>9, <1>10

LEMMA RecvMsgPreserves ==
    ASSUME IInv, NEW r \in Receiver, RecvMsg(r)
    PROVE  IInv'
<1> DEFINE m == Head(queue)
           k == MinOf(m.len, buf[r])
<1>1. /\ rpc[r] = "recvmsg" /\ queue # <<>>
      /\ Deliver(r, Payload(m, k), Rights(m), m.len > buf[r])
      /\ took' = [took EXCEPT ![r] = m] /\ gone' = Append(gone, m)
      /\ queue' = Tail(queue) /\ UNCHANGED <<parcel, outcome, ends>>
  BY DEF RecvMsg, sendVars
<1>2. m \in Message /\ m \in Message \cup {EndOfFile} /\ m.len \in Nat
  BY <1>1, HeadFacts, MessageFacts
<1>3. buf[r] = BufLen /\ BufLen \in Nat
  BY <1>1, ConstantsTyped DEF IInv, RecvInv, Phase
<1>4. k \in Nat /\ k = MinOf(m.len, BufLen)
  BY <1>2, <1>3 DEF MinOf
<1>5. Payload(m, k) \in Seq(Right) /\ Rights(m) \in Seq(Right)
      /\ \A f \in ToSet(Rights(m)) : f[1] = m.from /\ f[2] = m.call
  BY <1>2, <1>4, MessageFacts
<1>6. ToSet(Rights(m)) \cap fdtable = {}
  BY <1>1, HeadFacts
<1> DEFINE trunc == m.len > BufLen
<1>7. Deliver(r, Payload(m, k), Rights(m), trunc) /\ trunc \in BOOLEAN
  BY <1>1, <1>3
<1> HIDE DEF m, k
<1>8. /\ RecvInv(Right, Right)'
      /\ took' \in [Receiver -> Message \cup {EndOfFile}]
      /\ fdtable' \subseteq fdtable \cup ToSet(Rights(m))
      /\ (\A q \in Receiver : Taken(q)') /\ WholeMessage'
  <2>1. trunc <=> m.len > BufLen
    OBVIOUS
  <2> HIDE DEF trunc
  <2> QED
    BY <1>1, <1>2, <1>4, <1>5, <1>6, <1>7, <2>1, DeliverKeeps
<1>9. TypeOK
  BY DEF IInv
<1>10. Entered' = Entered
  BY <1>1, <1>9, EnteredShift DEF m
<1>11. OneMessagePerSend'
  BY <1>1, <1>10, SameMessages DEF IInv
<1>12. gone' \in Seq(Message)
  BY <1>1, <1>2, <1>9, AppendProperties DEF TypeOK
<1>13. queue' \in Seq(Message) /\ Len(queue') <= QueueMax
  BY <1>1, HeadFacts
<1>14. TypeOK'
  BY <1>1, <1>8, <1>9, <1>12, <1>13 DEF TypeOK, RecvInv
<1>15. Bounded'
  BY <1>1 DEF IInv, Bounded
<1>16. FreshRights'
  <2> SUFFICES ASSUME NEW f \in fdtable'
               PROVE  /\ f[2] <= Len(outcome[f[1]])
                      /\ \A i \in DOMAIN queue' :
                           ~(queue'[i].from = f[1] /\ queue'[i].call = f[2])
    BY <1>1 DEF FreshRights
  <2>1. CASE f \in fdtable
    <3>1. \A i \in DOMAIN queue' : i + 1 \in DOMAIN queue /\ queue'[i] = queue[i + 1]
      BY <1>1, HeadFacts
    <3> QED
      BY <2>1, <3>1 DEF IInv, FreshRights
  <2>2. CASE f \in ToSet(Rights(m))
    <3>1. f[1] = m.from /\ f[2] = m.call
      BY <1>5, <2>2
    <3>2. /\ m.call <= Len(outcome[m.from])
          /\ \A i \in DOMAIN queue' : ~(queue'[i].from = m.from /\ queue'[i].call = m.call)
      BY <1>1, HeadFacts DEF m
    <3> QED
      BY <3>1, <3>2
  <2> QED
    BY <1>8, <2>1, <2>2
<1> QED
  BY <1>8, <1>11, <1>14, <1>15, <1>16 DEF IInv

LEMMA RecvEofPreserves ==
    ASSUME IInv, NEW r \in Receiver, RecvEof(r)
    PROVE  IInv'
<1> DEFINE m == EndOfFile
           k == 0
           trunc == FALSE
<1>1. /\ rpc[r] = "recvmsg" /\ Deliver(r, <<>>, <<>>, FALSE)
      /\ took' = [took EXCEPT ![r] = m]
      /\ UNCHANGED <<parcel, outcome, queue, gone, ends>>
  BY DEF RecvEof, sendVars
<1>2. m.len = 0 /\ Payload(m, k) = <<>> /\ Rights(m) = <<>>
  BY EndOfFileFacts
<1>3. <<>> \in Seq(Right) /\ ToSet(<<>>) = {}
  BY DEF ToSet
<1>4. k \in Nat /\ k = MinOf(m.len, BufLen) /\ (trunc <=> m.len > BufLen) /\ trunc \in BOOLEAN
  BY <1>2, ConstantsTyped DEF MinOf
<1>5. m \in Message \cup {EndOfFile}
  OBVIOUS
<1>6. Deliver(r, Payload(m, k), Rights(m), trunc)
  BY <1>1, <1>2
<1>7. /\ Payload(m, k) \in Seq(Right) /\ Rights(m) \in Seq(Right)
      /\ ToSet(Rights(m)) \cap fdtable = {} /\ ToSet(Rights(m)) = {}
  BY <1>2, <1>3
<1>8. took' = [took EXCEPT ![r] = m] /\ rpc[r] = "recvmsg"
  BY <1>1
<1> HIDE DEF m, k, trunc
<1>9. /\ RecvInv(Right, Right)'
      /\ took' \in [Receiver -> Message \cup {EndOfFile}]
      /\ fdtable' \subseteq fdtable
      /\ (\A q \in Receiver : Taken(q)') /\ WholeMessage'
  BY <1>4, <1>5, <1>6, <1>7, <1>8, DeliverKeeps
<1>10. OneMessagePerSend'
  BY <1>1, SameMessages DEF IInv, Entered
<1>11. TypeOK' /\ Bounded'
  BY <1>1, <1>9 DEF IInv, TypeOK, Bounded, RecvInv
<1>12. FreshRights'
  BY <1>1, <1>9 DEF IInv, FreshRights
<1> QED
  BY <1>9, <1>10, <1>11, <1>12 DEF IInv

\* A step that does not end a call leaves what each holds and returned.
LEMMA CallsUntouched ==
    ASSUME IInv, UNCHANGED <<took, msg, result>>,
           \A q \in Receiver : rpc'[q] \in {"parse", "core"} => rpc[q] \in {"parse", "core"}
    PROVE  (\A q \in Receiver : Taken(q)') /\ WholeMessage'
BY DEF IInv, Taken, WholeMessage

LEMMA WouldBlockKeeps ==
    ASSUME IInv, UNCHANGED channelVars, NEW r \in Receiver, RecvWouldBlock(r)
    PROVE  IInv'
<1>1. RecvInv(Right, Right)'
  BY WouldBlockPreserves DEF IInv
<1>2. rpc \in [Receiver -> {"idle", "recvmsg", "waiting", "parse", "core"}]
  BY RecvTypes DEF IInv, RecvInv
<1>3. /\ rpc' = [rpc EXCEPT ![r] = "waiting"] /\ UNCHANGED <<took, msg, result, fdtable>>
  BY DEF RecvWouldBlock, channelVars
<1>4. \A q \in Receiver : rpc'[q] \in {"parse", "core"} => rpc[q] \in {"parse", "core"}
  BY <1>2, <1>3
<1> QED
  BY <1>1, <1>3, <1>4, CallsUntouched, FrameFacts DEF IInv

LEMMA RetryKeeps ==
    ASSUME IInv, UNCHANGED channelVars, NEW r \in Receiver, RecvRetry(r)
    PROVE  IInv'
<1>1. RecvInv(Right, Right)'
  BY RetryPreserves DEF IInv
<1>2. rpc \in [Receiver -> {"idle", "recvmsg", "waiting", "parse", "core"}]
  BY RecvTypes DEF IInv, RecvInv
<1>3. /\ rpc' = [rpc EXCEPT ![r] = "recvmsg"] /\ UNCHANGED <<took, msg, result, fdtable>>
  BY DEF RecvRetry, channelVars
<1>4. \A q \in Receiver : rpc'[q] \in {"parse", "core"} => rpc[q] \in {"parse", "core"}
  BY <1>2, <1>3
<1> QED
  BY <1>1, <1>3, <1>4, CallsUntouched, FrameFacts DEF IInv

LEMMA CancelKeeps ==
    ASSUME IInv, UNCHANGED channelVars, NEW r \in Receiver, RecvCancel(r)
    PROVE  IInv'
<1>1. RecvInv(Right, Right)'
  BY CancelPreserves DEF IInv
<1>2. /\ rpc \in [Receiver -> {"idle", "recvmsg", "waiting", "parse", "core"}]
      /\ msg \in [Receiver -> Received(Right, Right)]
  BY RecvTypes DEF IInv, RecvInv
<1>3. /\ rpc[r] = "waiting" /\ rpc' = [rpc EXCEPT ![r] = "idle"]
      /\ msg' = [msg EXCEPT ![r] = NoMsg] /\ UNCHANGED <<took, result, fdtable>>
  BY DEF RecvCancel, Forget, channelVars
<1>4. msg' = msg
  <2>1. msg[r] = NoMsg
    BY <1>3 DEF IInv, RecvInv, Phase
  <2> QED
    BY <1>2, <1>3, <2>1
<1>5. \A q \in Receiver : rpc'[q] \in {"parse", "core"} => rpc[q] \in {"parse", "core"}
  BY <1>2, <1>3
<1> QED
  BY <1>1, <1>3, <1>4, <1>5, CallsUntouched, FrameFacts DEF IInv

\* The steps of the receiving process alone.
LEMMA LocalKeeps ==
    ASSUME IInv, UNCHANGED channelVars, ReceiveLocal
    PROVE  IInv'
<1>1. ASSUME NEW r \in Receiver, CloexecFails(r) PROVE IInv'
  <2>1. RecvReturn(r, FALSE, <<>>, 0) /\ rpc[r] # "parse"
    BY <1>1 DEF CloexecFails
  <2> QED
    BY <2>1, ErrorKeeps
<1>2. ASSUME \/ \E f \in held : CloseHeld(f)
             \/ \E on \in BOOLEAN : set_passcred(on) \/ SetPasspidfd(on)
             \/ \E limit \in Nofile : setrlimit(limit)
      PROVE  IInv'
  <2>1. RecvInv(Right, Right)' /\ fdtable' \subseteq fdtable
    BY LocalPreserves DEF IInv
  <2>2. UNCHANGED <<rpc, msg, result>>
    BY <1>2 DEF CloseHeld, set_passcred, SetPasspidfd, setrlimit, callVars
  <2>3. took' = took
    BY DEF channelVars
  <2> QED
    BY <2>1, <2>2, <2>3, CallsUntouched, FrameFacts DEF IInv
<1>3. ASSUME NEW r \in Receiver, take_fds(r) PROVE IInv'
  <2>1. RecvInv(Right, Right)'
    BY <1>3, TakeFdsPreserves DEF IInv
  <2>2. rpc \in [Receiver -> {"idle", "recvmsg", "waiting", "parse", "core"}]
    BY RecvTypes DEF IInv, RecvInv
  <2>3. /\ rpc[r] = "parse" /\ rpc' = [rpc EXCEPT ![r] = "core"]
        /\ UNCHANGED <<took, msg, result, fdtable>>
    BY <1>3 DEF take_fds, channelVars
  <2>4. \A q \in Receiver : rpc'[q] \in {"parse", "core"} => rpc[q] \in {"parse", "core"}
    BY <2>2, <2>3
  <2> QED
    BY <2>1, <2>3, <2>4, CallsUntouched, FrameFacts DEF IInv
<1> QED
  BY <1>1, <1>2, <1>3, RetryKeeps, CancelKeeps, CoreKeeps DEF ReceiveLocal

\* The receiving socket is dropped with what it still holds.
LEMMA CloseReceiverPreserves ==
    ASSUME IInv, CloseReceiver
    PROVE  IInv'
<1>1. /\ ends' \subseteq {"tx", "rx"} /\ gone' = gone \o queue /\ queue' = <<>>
      /\ UNCHANGED <<parcel, outcome, took, recvVars>>
  BY DEF CloseReceiver, sendVars, IInv, TypeOK
<1>2. gone \in Seq(Message) /\ queue \in Seq(Message)
  BY DEF IInv, TypeOK
<1>3. gone' \in Seq(Message) /\ Entered' = Entered
  BY <1>1, <1>2, ConcatProperties, ConcatEmptySeq DEF Entered
<1>4. queue' \in Seq(Message) /\ Len(queue') <= QueueMax /\ DOMAIN queue' = {}
  BY <1>1, DatagramAssumption
<1>5. RecvInv(Right, Right)' /\ (\A r \in Receiver : Taken(r)') /\ WholeMessage'
  BY <1>1, ReceiverUntouched
<1>6. OneMessagePerSend'
  BY <1>1, <1>3, SameMessages DEF IInv
<1>7. TypeOK' /\ Bounded'
  BY <1>1, <1>3, <1>4, <1>5 DEF IInv, TypeOK, RecvInv, Bounded
<1>8. FreshRights'
  BY <1>1, <1>4 DEF IInv, FreshRights, recvVars
<1> QED
  BY <1>5, <1>6, <1>7, <1>8 DEF IInv

-----------------------------------------------------------------------------
(* The invariant.                                                          *)

LEMMA InitEstablishes ==
    ASSUME Init
    PROVE  IInv
<1>1. RecvInv(Right, Right)
  BY RecvInitEstablishes DEF Init
<1>2. TypeOK
  <2>1. <<>> \in Seq(Message) /\ Len(<<>>) = 0 /\ <<>> \in Seq({"ok", "err", "cancelled"})
    OBVIOUS
  <2> QED
    BY <1>1, <2>1, DatagramAssumption DEF Init, TypeOK, RecvInv
<1>3. Bounded
  BY DEF Init, Bounded
<1>4. FreshRights
  BY DEF Init, RecvInit, FreshRights
<1>5. OneMessagePerSend
  <2>1. <<>> \o <<>> = <<>> /\ DOMAIN <<>> = {}
    OBVIOUS
  <2>2. Entered = <<>> /\ \A s \in Sender : DOMAIN outcome[s] = {}
    BY <2>1 DEF Init, Entered
  <2> QED
    BY <2>1, <2>2 DEF OneMessagePerSend, Succeeded
<1>6. \A r \in Receiver : Taken(r)
  BY DEF Init, RecvInit, Taken
<1>7. WholeMessage
  BY DEF Init, RecvInit, WholeMessage, NoResult
<1> QED
  BY <1>1, <1>2, <1>3, <1>4, <1>5, <1>6, <1>7 DEF IInv

LEMMA NextPreserves ==
    ASSUME IInv, [Next]_vars
    PROVE  IInv'
<1>1. ASSUME NEW s \in Sender, NEW p \in Parcel, SendCall(s, p) PROVE IInv'
  BY <1>1, SendCallPreserves
<1>2. ASSUME NEW s \in Sender,
             sendmsg(s) \/ SendRefused(s) \/ SendFails(s) \/ SendCancel(s)
      PROVE  IInv'
  BY <1>2, SendPreserves DEF sendmsg, SendRefused, SendFails, SendCancel
<1>3. ASSUME NEW r \in Receiver, Receives(r) \/ RecvMsg(r) \/ RecvEof(r) PROVE IInv'
  BY <1>3, ReceivesPreserves, RecvMsgPreserves, RecvEofPreserves
<1>4. ASSUME NEW r \in Receiver, RecvNothing(r) \/ RecvReset(r) PROVE IInv'
  <2>1. UNCHANGED channelVars
    BY <1>4 DEF RecvNothing, RecvReset
  <2>2. (rpc[r] # "parse" /\ RecvReturn(r, FALSE, <<>>, 0)) \/ RecvWouldBlock(r)
    BY <1>4 DEF RecvNothing, RecvReset, RecvFails
  <2> QED
    BY <2>1, <2>2, ErrorKeeps, WouldBlockKeeps
<1>5. ASSUME ReceiveLocal, UNCHANGED channelVars PROVE IInv'
  BY <1>5, LocalKeeps
<1>6. ASSUME CloseSender \/ CloseReceiver PROVE IInv'
  BY <1>6, CloseSenderPreserves, CloseReceiverPreserves
<1>7. ASSUME UNCHANGED vars PROVE IInv'
  <2>1. UNCHANGED <<channelVars, recvVars>>
    BY <1>7 DEF vars
  <2>2. UNCHANGED <<took, recvVars>> /\ fdtable' = fdtable
    BY <2>1 DEF channelVars, recvVars
  <2> QED
    BY <2>1, <2>2, ReceiverUntouched, FrameFacts DEF IInv
<1> QED
  BY <1>1, <1>2, <1>3, <1>4, <1>5, <1>6, <1>7 DEF Next

\* The inductive invariant holds in every reachable state.
THEOREM Invariance == Spec => []IInv
<1>1. Init => IInv
  BY InitEstablishes
<1>2. IInv /\ [Next]_vars => IInv'
  BY NextPreserves
<1> QED
  BY <1>1, <1>2, PTL DEF Spec

\* Type correctness of both ends and of what is between them (TypeOK).
THEOREM TypeCorrect == Spec => []TypeOK
<1>1. IInv => TypeOK
  BY DEF IInv
<1> QED
  BY <1>1, Invariance, PTL

\* Whichever of its returns a receive on a datagram or seqpacket socket takes,
\* no descriptor it was told of and no pidfd stays open without an owner; only
\* where the kernel installs descriptors it does not report may others be open
\* (NoDescriptorLeak).
THEOREM NothingLeaks == Spec => []NoDescriptorLeak
<1>1. IInv => NoDescriptorLeak
  BY DEF IInv, RecvInv
<1> QED
  BY <1>1, Invariance, PTL

\* A receive is truncated only because the process is out of descriptors, or
\* because the message needs more room besides credentials than the larger of N
\* and HARD_FLOOR descriptors do, a pidfd counted, whatever SO_PASSCRED,
\* SO_PASSPIDFD and RLIMIT_NOFILE become during the receive (BudgetSuffices).
THEOREM StorageSuffices == Spec => []BudgetSuffices
<1>1. IInv => BudgetSuffices
  BY DEF IInv, RecvInv
<1> QED
  BY <1>1, Invariance, PTL

\* Each message keeps its boundary: a successful receive returns the bytes of
\* one message, all of them, and accounts for all its descriptors, however
\* several receivers share the socket (WholeMessage).
THEOREM BoundariesKept == Spec => []WholeMessage
<1>1. IInv => WholeMessage
  BY DEF IInv
<1> QED
  BY <1>1, Invariance, PTL

\* A buffer that is long enough is never the reason for an error, also after a
\* wait for readiness and a retry (FittingIsWhole).
THEOREM FittingIsNotCut == Spec => []FittingIsWhole
<1>1. IInv => FittingIsWhole
  <2> SUFFICES ASSUME IInv, NEW r \in Receiver, msg[r].trunc PROVE took[r].len > BufLen
    BY DEF FittingIsWhole
  <2>1. rpc[r] \in {"parse", "core"}
    BY NoMsgFacts DEF IInv, RecvInv, Phase
  <2> QED
    BY <2>1 DEF IInv, Taken
<1> QED
  BY <1>1, Invariance, PTL

\* A send is one message or none: the messages that entered the socket are
\* exactly those of the calls that returned Ok, in the order of the calls, each with
\* all the bytes and descriptors of its call, and a call that failed or was
\* dropped while it waited made none (OneMessagePerSend).
THEOREM SendsAreMessages == Spec => []OneMessagePerSend
<1>1. IInv => OneMessagePerSend
  BY DEF IInv
<1> QED
  BY <1>1, Invariance, PTL

=============================================================================
