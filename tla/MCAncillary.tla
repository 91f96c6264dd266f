---------------------------- MODULE MCAncillary -----------------------------
(* Model values and symmetry for checking Ancillary with TLC.              *)
EXTENDS Ancillary, TLC

CONSTANTS File1, File2

Files == {File1, File2, PidFile}

Symmetry == Permutations(Fd) \cup Permutations(Buffer)
              \cup Permutations({File1, File2})
=============================================================================
