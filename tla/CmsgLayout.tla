----------------------------- MODULE CmsgLayout -----------------------------
(***************************************************************************)
(* The arithmetic of control-message layout that ancillary.rs does through *)
(* libc: the length of a cmsghdr with its padding, the space a payload     *)
(* takes in a control buffer, and the checked form of that computation.    *)
(* The layout differs between platforms, so its numbers are parameters     *)
(* (64-bit Linux: header 16, alignment 8; Apple: header 12, alignment 4).  *)
(***************************************************************************)
EXTENDS Integers

CONSTANTS
    CmsgHdrSize,   \* size_of::<libc::cmsghdr>()
    CmsgAlign,     \* alignment used by CMSG_ALIGN on this platform
    FdSize,        \* size_of::<RawFd>()
    UcredSize,     \* ScmCredentials::SIZE
    I32Max         \* i32::MAX; u32 arithmetic is modulo 2 * (I32Max + 1)

ASSUME LayoutAssumption ==
    /\ CmsgHdrSize \in Nat \ {0}
    /\ CmsgAlign \in Nat \ {0}
    /\ FdSize \in Nat \ {0}
    /\ UcredSize \in Nat \ {0}
    /\ I32Max \in Nat
    /\ CmsgHdrSize + 2 * CmsgAlign <= I32Max

-----------------------------------------------------------------------------

\* The padding that brings n up to the next multiple of the alignment.
Padding(n) == (CmsgAlign - (n % CmsgAlign)) % CmsgAlign

\* libc's CMSG_ALIGN.
CMSG_ALIGN(n) == n + Padding(n)

\* CMSG_LEN(0): the header with its padding, where the payload starts.
header_len == CMSG_ALIGN(CmsgHdrSize)

\* The number of values of libc's c_uint, in which CMSG_SPACE computes.
U32 == 2 * (I32Max + 1)

\* libc's CMSG_SPACE, in c_uint arithmetic: it wraps silently.
CMSG_SPACE(n) == (header_len + CMSG_ALIGN(n)) % U32

\* The None of cmsg_space.
NoSpace == -1

\* Mutant of cmsg_space: no payload is too long.
cmsg_space_unchecked(n) == CMSG_SPACE(n)

\* cmsg_space: the space of a payload, refused above i32::MAX because
\* CMSG_SPACE could wrap there.
cmsg_space(n) == IF n <= I32Max THEN CMSG_SPACE(n) ELSE NoSpace

=============================================================================
