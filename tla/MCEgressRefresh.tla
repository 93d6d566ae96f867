--------------------------- MODULE MCEgressRefresh --------------------------
(* Small instances of EgressRefresh for TLC. *)
EXTENDS EgressRefresh, TLC

CONSTANTS p1, p2, v1, v2, v3, c1, c2, c3, s1, s2

\* Two vends of one replica and one of another, or one on each.
Siblings == v1 :> p1 @@ v2 :> p1 @@ v3 :> p2 @@ c1 :> p1 @@ c2 :> p2 @@ c3 :> p2
Apart    == v1 :> p1 @@ v2 :> p2 @@ c1 :> p1 @@ c2 :> p2 @@ c3 :> p2

\* The callback of the first consent is delivered twice, the second consent
\* brings no refresh token.
FirstTwice == c1 :> s1 @@ c2 :> s1 @@ c3 :> s2
=============================================================================
