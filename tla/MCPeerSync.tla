----------------------------- MODULE MCPeerSync -----------------------------
(* Small instances of PeerSync for TLC: a peer with one item, a sync on request. *)
EXTENDS PeerSync

CONSTANTS a, m1
=============================================================================
