-------------------------- MODULE MCWhitelistCache --------------------------
(* Three digests in two buckets: d1 and d2 share a bucket, and each bit of d2 *)
(* is also a bit of d1 or of d3.                                             *)
EXTENDS WhitelistCache, TLC

CONSTANTS d1, d2, d3

MCHashes == {d1, d2, d3}
MCIndex == (d1 :> 1) @@ (d2 :> 1) @@ (d3 :> 2)
MCBloom == (d1 :> {1, 2}) @@ (d2 :> {2, 3}) @@ (d3 :> {3, 4})
=============================================================================
