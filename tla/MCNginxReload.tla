---------------------------- MODULE MCNginxReload ---------------------------
(* Small instances of NginxReload for TLC. *)
EXTENDS NginxReload, TLC

CONSTANTS h1, h2, srv, vs

HandlerSymmetry == Permutations(Handler)
=============================================================================
