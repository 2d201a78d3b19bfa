-------------------------- MODULE MCCacheMetadata --------------------------
(* Instances of CacheMetadata for TLC. *)
EXTENDS CacheMetadata

CONSTANTS w1, w2
=============================================================================
