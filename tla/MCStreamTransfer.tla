-------------------------- MODULE MCStreamTransfer --------------------------
(* StreamTransfer for TLC: the frames, the receive modes, symmetry.        *)
EXTENDS StreamTransfer, TLC

F(all, len, fds) == [all |-> all, len |-> len, fds |-> fds]
M(exact, n) == [exact |-> exact, n |-> n]

\* Whole and partial sends with no, some and too many descriptors.
AllFrames == {F(TRUE, 0, 0), F(TRUE, 0, 1), F(TRUE, 2, 0), F(TRUE, 3, 2), F(TRUE, 2, 3),
              F(FALSE, 0, 0), F(FALSE, 2, 1)}
TwoModes == {M(FALSE, 1), M(TRUE, 2)}
FewFrames == {F(TRUE, 3, 1), F(FALSE, 2, 1), F(TRUE, 1, 3)}
OneMode == {M(FALSE, 1)}
AppleFrames == {F(TRUE, 2, 2), F(FALSE, 1, 2)}
AppleModes == {M(FALSE, 1), M(TRUE, 4)}

Symmetry == Permutations(Sender) \cup Permutations(Receiver)

=============================================================================
