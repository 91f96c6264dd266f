------------------------------ MODULE ForkExec ------------------------------
(***************************************************************************)
(* Received descriptors and processes spawned at the same time             *)
(* (platform.rs, lib.rs "macOS fork race").  Threads of one process        *)
(* receive descriptors while others fork and exec.  A child gets a copy of *)
(* the descriptor table with its close-on-exec flags; exec closes what is  *)
(* flagged.  Where MSG_CMSG_CLOEXEC does not exist the flags are set after *)
(* the receive, and the documentation asks the application to hold one     *)
(* lock around both receiving and process creation.                        *)
(***************************************************************************)
EXTENDS Naturals, FiniteSets

CONSTANTS
    Receiver, Spawner,  \* threads
    Fd,                 \* descriptor numbers, reused when closed
    MaxBatch,           \* bound: descriptors of one message
    AtomicCloexec       \* RECV_FLAGS is MSG_CMSG_CLOEXEC, not 0

ASSUME ForkAssumption ==
    /\ Receiver \cap Spawner = {}
    /\ MaxBatch \in Nat
    /\ AtomicCloexec \in BOOLEAN

VARIABLES
    locking,    \* the application follows the advice
    lock,       \* the threads that hold the lock: one at most
    rpc,        \* receiver: "idle", "recvmsg", "received"
    batch,      \* receiver: descriptors its call owns
    todo,       \* receiver: those it has not marked yet
    open,       \* received descriptors open in the process
    cloexec,    \* those with FD_CLOEXEC
    cpc,        \* child of each spawner: "none", "forked", "execed"
    child,      \* its copies of received descriptors
    kept,       \* those exec will not close
    inflight    \* ghost: batches of calls in progress when it was forked

recvVars == <<rpc, batch, todo, open, cloexec>>
childVars == <<cpc, child, kept, inflight>>
vars == <<locking, lock, recvVars, childVars>>

TypeOK ==
    /\ locking \in BOOLEAN /\ lock \subseteq Receiver \cup Spawner
    /\ rpc \in [Receiver -> {"idle", "recvmsg", "received"}]
    /\ batch \in [Receiver -> SUBSET Fd] /\ todo \in [Receiver -> SUBSET Fd]
    /\ open \subseteq Fd /\ cloexec \subseteq Fd
    /\ cpc \in [Spawner -> {"none", "forked", "execed"}]
    /\ child \in [Spawner -> SUBSET Fd] /\ kept \in [Spawner -> SUBSET Fd]
    /\ inflight \in [Spawner -> SUBSET Fd]

Init ==
    /\ locking \in BOOLEAN /\ lock = {}
    /\ rpc = [r \in Receiver |-> "idle"]
    /\ batch = [r \in Receiver |-> {}] /\ todo = [r \in Receiver |-> {}]
    /\ open = {} /\ cloexec = {}
    /\ cpc = [s \in Spawner |-> "none"]
    /\ child = [s \in Spawner |-> {}] /\ kept = [s \in Spawner |-> {}]
    /\ inflight = [s \in Spawner |-> {}]

Acquire(t) == IF locking THEN lock = {} /\ lock' = {t} ELSE UNCHANGED lock
Release(t) == lock' = lock \ {t}

-----------------------------------------------------------------------------
(* Receiving.                                                              *)

\* A receive of the crate is called, under the lock if there is one.
RecvCall(r) ==
    /\ rpc[r] = "idle"
    /\ Acquire(r)
    /\ rpc' = [rpc EXCEPT ![r] = "recvmsg"]
    /\ UNCHANGED <<locking, batch, todo, open, cloexec, childVars>>

\* recvmsg with RECV_FLAGS: the kernel installs new descriptors.
recvmsg(r) ==
    /\ rpc[r] = "recvmsg"
    /\ \E new \in SUBSET (Fd \ open) :
         /\ Cardinality(new) <= MaxBatch
         /\ open' = open \cup new
         /\ cloexec' = IF AtomicCloexec THEN cloexec \cup new ELSE cloexec
         /\ batch' = [batch EXCEPT ![r] = new]
         /\ todo' = [todo EXCEPT ![r] = IF AtomicCloexec THEN {} ELSE new]
    /\ rpc' = [rpc EXCEPT ![r] = "received"]
    /\ UNCHANGED <<locking, lock, childVars>>

\* set_cloexec of the next descriptor succeeds.
set_cloexec(r, d) ==
    /\ d \in todo[r]
    /\ cloexec' = cloexec \cup {d}
    /\ todo' = [todo EXCEPT ![r] = @ \ {d}]
    /\ UNCHANGED <<locking, lock, rpc, batch, open, childVars>>

\* The call of r is over.
Return(r) ==
    /\ rpc' = [rpc EXCEPT ![r] = "idle"]
    /\ batch' = [batch EXCEPT ![r] = {}]
    /\ todo' = [todo EXCEPT ![r] = {}]
    /\ Release(r)
    /\ UNCHANGED <<locking, childVars>>

\* Mutant of CloexecFails: the error of fcntl is ignored.
CloexecIgnored(r) ==
    /\ todo[r] # {}
    /\ \E d \in todo[r] : todo' = [todo EXCEPT ![r] = @ \ {d}]
    /\ UNCHANGED <<locking, lock, rpc, batch, open, cloexec, childVars>>

\* set_cloexec fails: the whole batch is closed.
CloexecFails(r) ==
    /\ todo[r] # {}
    /\ open' = open \ batch[r]
    /\ cloexec' = cloexec \ batch[r]
    /\ Return(r)

\* recvmsg failed, or there is nothing left to mark: the caller has its
\* descriptors, or the error.
RecvFails(r) == rpc[r] = "recvmsg" /\ Return(r) /\ UNCHANGED <<open, cloexec>>

\* Mutant of RecvReturns: the descriptors are handed out before the loop.
RecvReturnsEarly(r) ==
    rpc[r] = "received" /\ Return(r) /\ UNCHANGED <<open, cloexec>>

RecvReturns(r) ==
    rpc[r] = "received" /\ todo[r] = {} /\ Return(r) /\ UNCHANGED <<open, cloexec>>

\* The application, or another path of a call, closes one of its descriptors.
Close(d) ==
    /\ d \in open
    /\ \A r \in Receiver : d \notin batch[r]
    /\ open' = open \ {d}
    /\ cloexec' = cloexec \ {d}
    /\ UNCHANGED <<locking, lock, rpc, batch, todo, childVars>>

-----------------------------------------------------------------------------
(* Spawning: the application and the kernel.                               *)

\* fork, under the lock if there is one.
Fork(s) ==
    /\ cpc[s] = "none"
    /\ Acquire(s)
    /\ cpc' = [cpc EXCEPT ![s] = "forked"]
    /\ child' = [child EXCEPT ![s] = open]
    /\ kept' = [kept EXCEPT ![s] = open \ cloexec]
    /\ inflight' = [inflight EXCEPT ![s] = UNION {batch[r] : r \in Receiver}]
    /\ UNCHANGED <<locking, recvVars>>

\* exec in the child closes the descriptors with FD_CLOEXEC.
Exec(s) ==
    /\ cpc[s] = "forked"
    /\ cpc' = [cpc EXCEPT ![s] = "execed"]
    /\ child' = [child EXCEPT ![s] = kept[s]]
    /\ Release(s)
    /\ UNCHANGED <<locking, recvVars, kept, inflight>>

\* The child exits.
Exit(s) ==
    /\ cpc[s] = "execed"
    /\ cpc' = [cpc EXCEPT ![s] = "none"]
    /\ child' = [child EXCEPT ![s] = {}]
    /\ kept' = [kept EXCEPT ![s] = {}]
    /\ inflight' = [inflight EXCEPT ![s] = {}]
    /\ UNCHANGED <<locking, lock, recvVars>>

Next ==
    \/ \E r \in Receiver :
         \/ RecvCall(r) \/ recvmsg(r) \/ RecvFails(r) \/ RecvReturns(r) \/ CloexecFails(r)
         \/ \E d \in Fd : set_cloexec(r, d)
    \/ \E d \in Fd : Close(d)
    \/ \E s \in Spawner : Fork(s) \/ Exec(s) \/ Exit(s)

Spec == Init /\ [][Next]_vars

-----------------------------------------------------------------------------
(* Properties.                                                             *)

\* With MSG_CMSG_CLOEXEC, or with "the same lock" around receiving and process
\* creation (README, platform limitations), no program that the process starts
\* holds a descriptor it received, whatever fails in between.
NothingInherited ==
    AtomicCloexec \/ locking =>
        \A s \in Spawner : cpc[s] = "execed" => child[s] = {}

\* Without both, the race reaches exactly as far as documented: a program can
\* inherit a descriptor of a receive that was in progress when it was forked,
\* never one that a receive has returned.
InheritedWasInFlight ==
    \A s \in Spawner : cpc[s] = "execed" => child[s] \subseteq inflight[s]

=============================================================================
