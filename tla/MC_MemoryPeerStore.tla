------------------------- MODULE MC_MemoryPeerStore -------------------------
(***************************************************************************)
(* Instance of MemoryPeerStore for TLC: the family of each peer and the    *)
(* first four bytes of each info-hash.  The cfgs use h1 only, with prefix  *)
(* 7, which a modulus of the full shard count would put in the other half; *)
(* p1 and p2 are IPv4 peers and p3 an IPv6 peer.                           *)
(***************************************************************************)
EXTENDS MemoryPeerStore

CONSTANTS h1, h2, p1, p2, p3

MCFamily == (p1 :> "v4") @@ (p2 :> "v4") @@ (p3 :> "v6")
MCPrefix == (h1 :> 7) @@ (h2 :> 2)
=============================================================================
