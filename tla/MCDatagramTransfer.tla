------------------------- MODULE MCDatagramTransfer -------------------------
(* DatagramTransfer for TLC: what is sent, the receive modes, symmetry.    *)
EXTENDS DatagramTransfer, TLC

P(len, fds) == [len |-> len, fds |-> fds]
M(exact, n) == [exact |-> exact, n |-> n]

\* Empty with and without descriptors, fitting, too long to receive, with
\* more descriptors than any budget.
Parcels == {P(0, 0), P(0, 1), P(1, 1), P(2, 2), P(1, 3), P(3, 0)}
Modes == {M(FALSE, 1), M(TRUE, 3)}
LiveParcels == {P(0, 1), P(2, 1), P(3, 0), P(1, 3)}
LiveModes == {M(FALSE, 1)}

\* RLIMIT_NOFILE: unreadable, zero and unlimited.
Limits == {NoLimit, 0, RlimInfinity}

Symmetry == Permutations(Sender) \cup Permutations(Receiver)

=============================================================================
