--------------------------- MODULE ReceiveBudget ---------------------------
(***************************************************************************)
(* How much control storage a high-level receive asks for: the budget of   *)
(* platform.rs (a constant where MSG_CMSG_CLOEXEC exists, otherwise        *)
(* RLIMIT_NOFILE clamped to a range) and the size recv_core derives from   *)
(* it with ancillary.rs.  rlim_t and usize may differ in width.            *)
(***************************************************************************)
EXTENDS CmsgLayout

CONSTANTS
    HardFloor,      \* fallback::HARD_FLOOR, also the fixed budget
    HardCeiling,    \* fallback::HARD_CEILING
    RlimInfinity,   \* libc::RLIM_INFINITY, the largest rlim_t
    UsizeMax,       \* usize::MAX
    FixedBudget,    \* the platforms with MSG_CMSG_CLOEXEC
    Linux           \* Linux or Android: credentials exist

ASSUME BudgetAssumption ==
    /\ {HardFloor, HardCeiling, RlimInfinity, UsizeMax} \subseteq Nat
    /\ HardFloor <= HardCeiling
    /\ HardCeiling <= UsizeMax
    /\ U32 - 1 <= UsizeMax      \* usize has 32 bits or more
    /\ FdSize * HardCeiling <= I32Max
    /\ UcredSize + 2 * (CmsgHdrSize + 2 * CmsgAlign) <= I32Max
    /\ FixedBudget \in BOOLEAN /\ Linux \in BOOLEAN

MinOf(a, b) == IF a <= b THEN a ELSE b
MaxOf(a, b) == IF a >= b THEN a ELSE b

\* What getrlimit reports when it fails.
NoLimit == -1

\* Mutant of clamp_nofile: no floor under a small limit.
clamp_without_floor(cur) ==
    IF cur = RlimInfinity \/ cur > UsizeMax THEN HardCeiling ELSE MinOf(cur, HardCeiling)

\* clamp_nofile: RLIM_INFINITY and what usize cannot hold mean the ceiling.
clamp_nofile(cur) ==
    LET n == IF cur = RlimInfinity \/ cur > UsizeMax THEN HardCeiling ELSE cur
    IN MaxOf(HardFloor, MinOf(n, HardCeiling))

\* max_recv_fds under the soft limit rlim.
max_recv_fds(rlim) ==
    IF FixedBudget THEN HardFloor
    ELSE IF rlim = NoLimit THEN HardCeiling
    ELSE clamp_nofile(rlim)

\* buffer_size_for_rights: NoSpace stands for its panic.
buffer_size_for_rights(n) ==
    IF FdSize * n > UsizeMax THEN NoSpace ELSE cmsg_space(FdSize * n)

\* buffer_size_for_credentials.
buffer_size_for_credentials == cmsg_space(UcredSize)

\* Mutant of ControlSize: no room for the credentials the kernel puts first.
ControlSizeRights(n, rlim) == buffer_size_for_rights(MaxOf(n, max_recv_fds(rlim)))

\* The control storage recv_core asks for to receive n descriptors.  Its
\* overflow error is left out: AdditionNeverOverflows proves it unreachable.
ControlSize(n, rlim) ==
    LET rights == buffer_size_for_rights(MaxOf(n, max_recv_fds(rlim)))
    IN IF rights # NoSpace /\ Linux
       THEN rights + buffer_size_for_credentials
       ELSE rights

\* What a control message takes in the kernel, where nothing wraps.
Space(n) == header_len + CMSG_ALIGN(n)

\* The bytes of that storage left to rights and a pidfd: on a socket with
\* SO_PASSCRED the credentials go first.
Left(size, passcred) == size - (IF passcred THEN CMSG_SPACE(UcredSize) ELSE 0)

\* How many descriptors the kernel can report there.
Room(size, passcred) == MaxOf(0, (Left(size, passcred) - header_len) \div FdSize)

\* What k rights and a pidfd take.
Needed(k, pidfd) ==
    (IF k > 0 THEN Space(FdSize * k) ELSE 0) + (IF pidfd THEN Space(FdSize) ELSE 0)

\* A pidfd goes after the n descriptors reported; its padding may be missing.
PidfdFits(size, passcred, n) ==
    Left(size, passcred) - Needed(n, FALSE) >= header_len + FdSize

=============================================================================
