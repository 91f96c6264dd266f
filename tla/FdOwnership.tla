---------------------------- MODULE FdOwnership -----------------------------
(***************************************************************************)
(* What the crate promises about descriptors, with nothing about control   *)
(* buffers, messages or iterators: each open descriptor of the process has *)
(* exactly one owner, the library or the caller, and it names the same     *)
(* open file from the moment it is installed until its owner closes it.    *)
(* The library installs descriptors, gives them to the caller one at a     *)
(* time, or closes them; it never closes one that the caller owns, and it  *)
(* never takes one back.  Where the kernel installs descriptors that it    *)
(* reports to nobody, these stay open without an owner.                    *)
(***************************************************************************)
CONSTANTS Fd, Resource, Closed,
          InstallsOmitted   \* the kernel may install descriptors it does not report

VARIABLES owner,   \* [Fd -> {"none", "library", "caller", "unseen"}]
          file     \* [Fd -> Resource \cup {Closed}], the descriptor table

vars == <<owner, file>>

TypeOK == /\ owner \in [Fd -> {"none", "library", "caller", "unseen"}]
          /\ file \in [Fd -> Resource \cup {Closed}]

Init == /\ owner = [f \in Fd |-> "none"]
        /\ file = [f \in Fd |-> Closed]

\* The caller opens a file of its own.
Open(f, r) == /\ owner[f] = "none"
              /\ owner' = [owner EXCEPT ![f] = "caller"]
              /\ file' = [file EXCEPT ![f] = r]

\* A receive installs descriptors at numbers that were free: those in S are the
\* library's, those in U are reported to nobody.
Install(S, U) == /\ \A f \in S \cup U : owner[f] = "none"
                 /\ U # {} => InstallsOmitted
                 /\ owner' = [f \in Fd |-> IF f \in U THEN "unseen"
                                           ELSE IF f \in S THEN "library"
                                           ELSE owner[f]]
                 /\ file' \in [Fd -> Resource \cup {Closed}]
                 /\ \A f \in S \cup U : file'[f] \in Resource
                 /\ \A f \in Fd \ (S \cup U) : file'[f] = file[f]

\* An iterator yields one descriptor: its owner changes, its file does not.
Give(f) == /\ owner[f] = "library"
           /\ owner' = [owner EXCEPT ![f] = "caller"]
           /\ UNCHANGED file

\* One owner closes descriptors: all of them its own.
Release(S) == /\ \E w \in {"library", "caller"} : \A f \in S : owner[f] = w
              /\ owner' = [f \in Fd |-> IF f \in S THEN "none" ELSE owner[f]]
              /\ file' = [f \in Fd |-> IF f \in S THEN Closed ELSE file[f]]

Next == \/ \E f \in Fd, r \in Resource : Open(f, r)
        \/ \E S, U \in SUBSET Fd : Install(S, U)
        \/ \E f \in Fd : Give(f)
        \/ \E S \in SUBSET Fd : Release(S)

Spec == Init /\ [][Next]_vars

=============================================================================
