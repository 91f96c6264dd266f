------------------------- MODULE MCPeerCredentials -------------------------
(* PeerCredentials for TLC: two processes, one starting privileged or not. *)
EXTENDS PeerCredentials, TLC

CONSTANTS p1, p2

Pids == p1 :> 11 @@ p2 :> 12
Root == [uid |-> 0, gid |-> 1]
User == [uid |-> 2, gid |-> 3]

\* p2 as a user: true of nobody else, valid for p2 after it dropped privileges.
SomeClaim == {new(12, 2, 3)}

\* Room for one descriptor, with and without credentials.
Sizes == {buffer_size_for_rights(1),
          buffer_size_for_rights(1) + buffer_size_for_credentials}

=============================================================================
