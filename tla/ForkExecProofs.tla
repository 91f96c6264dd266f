--------------------------- MODULE ForkExecProofs ---------------------------
(***************************************************************************)
(* How far the fork race reaches, for any number of receiving and spawning *)
(* threads, descriptors and message sizes.                                 *)
(***************************************************************************)
EXTENDS ForkExec, TLAPS

-----------------------------------------------------------------------------
(* The inductive invariant.                                                *)

\* Only a call that has received owns descriptors, and it marks its own.
CallsOwn ==
    \A r \in Receiver :
        /\ todo[r] \subseteq batch[r]
        /\ rpc[r] # "received" => batch[r] = {}
        /\ AtomicCloexec => todo[r] = {}

\* A descriptor without FD_CLOEXEC is on the list of a call in progress.
UnmarkedIsListed ==
    \A d \in open \ cloexec : \E r \in Receiver : d \in todo[r]

\* Under the application's lock one receive or one fork is in progress.
OneAtATime ==
    locking =>
        /\ \A r \in Receiver : rpc[r] # "idle" => lock = {r}
        /\ \A s \in Spawner : cpc[s] = "forked" => lock = {s}

\* What a child will keep was in flight when it was forked, and is nothing
\* where the race is closed.
KeptIsInFlight ==
    \A s \in Spawner :
        /\ kept[s] \subseteq inflight[s]
        /\ AtomicCloexec \/ locking => kept[s] = {}
        /\ cpc[s] = "execed" => child[s] = kept[s]

IInv == TypeOK /\ CallsOwn /\ UnmarkedIsListed /\ OneAtATime /\ KeptIsInFlight

LEMMA InitIInv == Init => IInv
BY DEF Init, IInv, TypeOK, CallsOwn, UnmarkedIsListed, OneAtATime, KeptIsInFlight

-----------------------------------------------------------------------------
(* The receivers' steps.                                                   *)

LEMMA RecvCallStep ==
    ASSUME IInv, NEW r \in Receiver, RecvCall(r)
    PROVE  IInv'
<1> USE DEF RecvCall, Acquire, IInv, recvVars, childVars
<1>1. TypeOK'
  BY DEF TypeOK
<1>2. CallsOwn' /\ UnmarkedIsListed' /\ KeptIsInFlight'
  BY DEF TypeOK, CallsOwn, UnmarkedIsListed, KeptIsInFlight
<1>3. OneAtATime'
  BY DEF TypeOK, OneAtATime
<1> QED
  BY <1>1, <1>2, <1>3

LEMMA RecvmsgStep ==
    ASSUME IInv, NEW r \in Receiver, recvmsg(r)
    PROVE  IInv'
<1>1. PICK new \in SUBSET (Fd \ open) :
         /\ open' = open \cup new
         /\ cloexec' = IF AtomicCloexec THEN cloexec \cup new ELSE cloexec
         /\ batch' = [batch EXCEPT ![r] = new]
         /\ todo' = [todo EXCEPT ![r] = IF AtomicCloexec THEN {} ELSE new]
  BY DEF recvmsg
<1>2. /\ rpc[r] = "recvmsg" /\ rpc' = [rpc EXCEPT ![r] = "received"]
      /\ UNCHANGED <<locking, lock, cpc, child, kept, inflight>>
  BY DEF recvmsg, childVars
<1>3. todo[r] = {}
  BY <1>2 DEF IInv, CallsOwn
<1>4. TypeOK'
  BY <1>1, <1>2 DEF IInv, TypeOK
<1>5. CallsOwn'
  BY <1>1, <1>2 DEF IInv, TypeOK, CallsOwn
<1>6. UnmarkedIsListed'
  <2> SUFFICES ASSUME NEW d \in open' \ cloexec'
               PROVE  \E q \in Receiver : d \in todo'[q]
    BY DEF UnmarkedIsListed
  <2>1. CASE d \in new
    BY <1>1, <2>1 DEF IInv, TypeOK
  <2>2. CASE d \notin new
    <3>1. PICK q \in Receiver : d \in todo[q]
      BY <1>1, <2>2 DEF IInv, UnmarkedIsListed
    <3> QED
      BY <1>1, <1>3, <3>1 DEF IInv, TypeOK
  <2> QED
    BY <2>1, <2>2
<1>7. OneAtATime'
  BY <1>2 DEF IInv, TypeOK, OneAtATime
<1>8. KeptIsInFlight'
  BY <1>2 DEF IInv, KeptIsInFlight
<1> QED
  BY <1>4, <1>5, <1>6, <1>7, <1>8 DEF IInv

LEMMA SetCloexecStep ==
    ASSUME IInv, NEW r \in Receiver, NEW d \in Fd, set_cloexec(r, d)
    PROVE  IInv'
<1> USE DEF set_cloexec, IInv, childVars
<1>1. TypeOK'
  BY DEF TypeOK
<1>2. CallsOwn'
  BY DEF TypeOK, CallsOwn
<1>3. UnmarkedIsListed'
  BY DEF TypeOK, UnmarkedIsListed
<1>4. OneAtATime' /\ KeptIsInFlight'
  BY DEF OneAtATime, KeptIsInFlight
<1> QED
  BY <1>1, <1>2, <1>3, <1>4

\* A call that returns with nothing left to mark, after closing the
\* descriptors in gone if any.
LEMMA ReturnStep ==
    ASSUME IInv, NEW r \in Receiver, Return(r), rpc[r] # "idle",
           NEW gone, todo[r] \subseteq gone,
           open' = open \ gone, cloexec' = cloexec \ gone
    PROVE  IInv'
<1>1. /\ rpc' = [rpc EXCEPT ![r] = "idle"]
      /\ batch' = [batch EXCEPT ![r] = {}]
      /\ todo' = [todo EXCEPT ![r] = {}]
      /\ lock' = lock \ {r}
      /\ UNCHANGED <<locking, cpc, child, kept, inflight>>
  BY DEF Return, Release, childVars
<1>2. TypeOK'
  BY <1>1 DEF IInv, TypeOK
<1>3. CallsOwn'
  BY <1>1 DEF IInv, TypeOK, CallsOwn
<1>4. UnmarkedIsListed'
  <2> SUFFICES ASSUME NEW d \in open' \ cloexec'
               PROVE  \E q \in Receiver : d \in todo'[q]
    BY DEF UnmarkedIsListed
  <2>1. d \in open \ cloexec /\ d \notin todo[r]
    OBVIOUS
  <2>2. PICK q \in Receiver : d \in todo[q]
    BY <2>1 DEF IInv, UnmarkedIsListed
  <2> QED
    BY <1>1, <2>1, <2>2 DEF IInv, TypeOK
<1>5. OneAtATime'
  <2> SUFFICES ASSUME locking
               PROVE  /\ \A q \in Receiver : rpc'[q] = "idle"
                      /\ \A s \in Spawner : cpc'[s] # "forked"
    BY <1>1 DEF OneAtATime
  <2>1. lock = {r}
    BY DEF IInv, OneAtATime
  <2> QED
    BY <1>1, <2>1, ForkAssumption DEF IInv, TypeOK, OneAtATime
<1>6. KeptIsInFlight'
  BY <1>1 DEF IInv, KeptIsInFlight
<1> QED
  BY <1>2, <1>3, <1>4, <1>5, <1>6 DEF IInv

LEMMA CloexecFailsStep ==
    ASSUME IInv, NEW r \in Receiver, CloexecFails(r)
    PROVE  IInv'
<1>1. todo[r] \subseteq batch[r] /\ rpc[r] # "idle"
  BY DEF IInv, CallsOwn, CloexecFails
<1> QED
  BY <1>1, ReturnStep DEF CloexecFails

LEMMA RecvEndsStep ==
    ASSUME IInv, NEW r \in Receiver, RecvFails(r) \/ RecvReturns(r)
    PROVE  IInv'
<1>1. todo[r] \subseteq {} /\ rpc[r] # "idle" /\ Return(r)
  BY DEF IInv, CallsOwn, RecvFails, RecvReturns
<1>2. open' = open \ {} /\ cloexec' = cloexec \ {}
  BY DEF RecvFails, RecvReturns
<1> QED
  BY <1>1, <1>2, ReturnStep

LEMMA CloseStep ==
    ASSUME IInv, NEW d \in Fd, Close(d)
    PROVE  IInv'
<1> USE DEF Close, IInv, childVars
<1>1. TypeOK' /\ CallsOwn'
  BY DEF TypeOK, CallsOwn
<1>2. UnmarkedIsListed'
  BY DEF UnmarkedIsListed
<1>3. OneAtATime' /\ KeptIsInFlight'
  BY DEF OneAtATime, KeptIsInFlight
<1> QED
  BY <1>1, <1>2, <1>3

-----------------------------------------------------------------------------
(* The spawners' steps.                                                    *)

LEMMA ForkStep ==
    ASSUME IInv, NEW s \in Spawner, Fork(s)
    PROVE  IInv'
<1>1. /\ cpc[s] = "none" /\ cpc' = [cpc EXCEPT ![s] = "forked"]
      /\ child' = [child EXCEPT ![s] = open]
      /\ kept' = [kept EXCEPT ![s] = open \ cloexec]
      /\ inflight' = [inflight EXCEPT ![s] = UNION {batch[r] : r \in Receiver}]
      /\ UNCHANGED <<locking, rpc, batch, todo, open, cloexec>>
      /\ IF locking THEN lock = {} /\ lock' = {s} ELSE UNCHANGED lock
  BY DEF Fork, Acquire, recvVars
<1>2. TypeOK'
  <2>1. UNION {batch[r] : r \in Receiver} \in SUBSET Fd
    BY DEF IInv, TypeOK
  <2>2. open \in SUBSET Fd /\ open \ cloexec \in SUBSET Fd
    BY DEF IInv, TypeOK
  <2>3. lock' \subseteq Receiver \cup Spawner
    BY <1>1 DEF IInv, TypeOK
  <2> QED
    BY <1>1, <2>1, <2>2, <2>3 DEF IInv, TypeOK
<1>3. CallsOwn' /\ UnmarkedIsListed'
  BY <1>1 DEF IInv, CallsOwn, UnmarkedIsListed
<1>4. OneAtATime'
  BY <1>1 DEF IInv, TypeOK, OneAtATime
<1>5. open \ cloexec \subseteq UNION {batch[r] : r \in Receiver}
  BY DEF IInv, UnmarkedIsListed, CallsOwn
<1>6. AtomicCloexec \/ locking => open \ cloexec = {}
  <2>1. CASE AtomicCloexec
    BY <2>1 DEF IInv, UnmarkedIsListed, CallsOwn
  <2>2. CASE locking
    <3>1. \A r \in Receiver : rpc[r] = "idle"
      BY <1>1, <2>2 DEF IInv, OneAtATime
    <3> QED
      BY <3>1 DEF IInv, UnmarkedIsListed, CallsOwn
  <2> QED
    BY <2>1, <2>2
<1>7. KeptIsInFlight'
  <2> SUFFICES ASSUME NEW t \in Spawner
               PROVE  /\ kept'[t] \subseteq inflight'[t]
                      /\ AtomicCloexec \/ locking => kept'[t] = {}
                      /\ cpc'[t] = "execed" => child'[t] = kept'[t]
    BY <1>1 DEF KeptIsInFlight
  <2>1. CASE t = s
    BY <1>1, <1>5, <1>6, <2>1 DEF IInv, TypeOK
  <2>2. CASE t # s
    BY <1>1, <2>2 DEF IInv, TypeOK, KeptIsInFlight
  <2> QED
    BY <2>1, <2>2
<1> QED
  BY <1>2, <1>3, <1>4, <1>7 DEF IInv

LEMMA ExecStep ==
    ASSUME IInv, NEW s \in Spawner, Exec(s)
    PROVE  IInv'
<1> USE DEF Exec, Release, IInv, recvVars
<1>1. TypeOK'
  BY DEF TypeOK
<1>2. CallsOwn' /\ UnmarkedIsListed'
  BY DEF CallsOwn, UnmarkedIsListed
<1>3. OneAtATime'
  BY ForkAssumption DEF TypeOK, OneAtATime
<1>4. KeptIsInFlight'
  BY DEF TypeOK, KeptIsInFlight
<1> QED
  BY <1>1, <1>2, <1>3, <1>4

LEMMA ExitStep ==
    ASSUME IInv, NEW s \in Spawner, Exit(s)
    PROVE  IInv'
<1> USE DEF Exit, IInv, recvVars
<1>1. TypeOK'
  BY DEF TypeOK
<1>2. CallsOwn' /\ UnmarkedIsListed'
  BY DEF CallsOwn, UnmarkedIsListed
<1>3. OneAtATime'
  BY DEF TypeOK, OneAtATime
<1>4. KeptIsInFlight'
  BY DEF TypeOK, KeptIsInFlight
<1> QED
  BY <1>1, <1>2, <1>3, <1>4

-----------------------------------------------------------------------------
(* The theorems.                                                           *)

LEMMA StepIInv == IInv /\ [Next]_vars => IInv'
<1> SUFFICES ASSUME IInv, [Next]_vars PROVE IInv'
  OBVIOUS
<1>1. CASE UNCHANGED vars
  BY <1>1 DEF vars, recvVars, childVars, IInv, TypeOK, CallsOwn,
              UnmarkedIsListed, OneAtATime, KeptIsInFlight
<1>2. CASE \E r \in Receiver : RecvCall(r) \/ recvmsg(r)
  BY <1>2, RecvCallStep, RecvmsgStep
<1>3. CASE \E r \in Receiver : RecvFails(r) \/ RecvReturns(r) \/ CloexecFails(r)
  BY <1>3, RecvEndsStep, CloexecFailsStep
<1>4. CASE \E r \in Receiver : \E d \in Fd : set_cloexec(r, d)
  BY <1>4, SetCloexecStep
<1>5. CASE \E d \in Fd : Close(d)
  BY <1>5, CloseStep
<1>6. CASE \E s \in Spawner : Fork(s) \/ Exec(s) \/ Exit(s)
  BY <1>6, ForkStep, ExecStep, ExitStep
<1> QED
  BY <1>1, <1>2, <1>3, <1>4, <1>5, <1>6 DEF Next

\* The inductive invariant holds in every reachable state.
THEOREM Invariance == Spec => []IInv
BY InitIInv, StepIInv, PTL DEF Spec

\* Type correctness of the descriptor table, the calls and the children.
THEOREM TypeCorrect == Spec => []TypeOK
BY Invariance, PTL DEF IInv

\* Where the kernel marks descriptors atomically, or the application holds one
\* lock around receives and process creation, no program started by the process
\* holds a received descriptor.
THEOREM RaceClosed == Spec => []NothingInherited
<1>1. IInv => NothingInherited
  BY DEF IInv, KeptIsInFlight, NothingInherited
<1> QED
  BY <1>1, Invariance, PTL

\* Elsewhere the race reaches the receives in progress at the fork, and no
\* descriptor that a receive has returned.
THEOREM RaceBounded == Spec => []InheritedWasInFlight
<1>1. IInv => InheritedWasInFlight
  BY DEF IInv, KeptIsInFlight, InheritedWasInFlight
<1> QED
  BY <1>1, Invariance, PTL

=============================================================================
