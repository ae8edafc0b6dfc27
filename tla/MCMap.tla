-------------------------------- MODULE MCMap --------------------------------
(***************************************************************************)
(* Model checking of Map and of the multilookup over it: the hash and the  *)
(* ranges of keys.                                                         *)
(***************************************************************************)
EXTENDS InterleavedLookup, TLC

CONSTANTS k1, k2, k3, k4

\* All share a bucket of a table of 4; k2 leaves it in a table of 8.
HashOfKey == k1 :> 0 @@ k2 :> 4 @@ k3 :> 8 @@ k4 :> 16

\* Three keys for two streams: the last one is spawned at the limit.
Ranges == {<<k2, k4, k1>>}
=============================================================================
