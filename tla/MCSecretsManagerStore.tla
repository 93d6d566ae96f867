----------------------- MODULE MCSecretsManagerStore ------------------------
(* Small instances of SecretsManagerStore for TLC. *)
EXTENDS SecretsManagerStore, TLC

CONSTANTS k1, k2, t1, t2, w1, w2, r1, p1, p2

\* k1 is stored in plaintext; one write needs shards, the other makes room.
TwoHashes   == k1 :> 0 @@ k2 :> 1
OldK1       == k1 :> t1 @@ k2 :> NoToken
AddThenDrop == w1 :> t2 @@ w2 :> NoToken
OnK2K1      == w1 :> k2 @@ w2 :> k1
Spread      == w1 :> p1 @@ w2 :> p2 @@ r1 :> p2
OneOrAll    == {{k1}, {k2}, Key}
=============================================================================
