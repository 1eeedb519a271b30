-------------------------- MODULE PeerStoreConfig --------------------------
(***************************************************************************)
(* The configuration path of storage/memory/storage.go and the shard       *)
(* selection it feeds: Builder decodes a shard_count, Config.Validate      *)
(* replaces an out-of-range one by the default, NewPeerStorage allocates   *)
(* 2*ShardCount shards, and peerStore.shardIndex picks a shard from the    *)
(* first four bytes of the info-hash and the peer's address family.        *)
(*                                                                         *)
(* Go's int has IntBits bits (64 on the targets mochi is built for) and    *)
(* shardIndex computes in uint32 (UintBits = 32).  Both are smaller here,  *)
(* with IntBits - 2 > UintBits as in the code, so that every value         *)
(* Validate accepts, the four-byte prefixes and the wrap of the uint32     *)
(* conversion are all in reach.                                            *)
(***************************************************************************)
EXTENDS Integers

CONSTANTS
  IntBits,             \* width of Go's int
  UintBits,            \* width of uint32
  DefaultShardCount,   \* defaultShardCount (1024 in the code)
  DecodeError          \* a map config that icfg.Unmarshal rejects

ASSUME IntBits - 2 > UintBits /\ UintBits \in Nat \ {0}

MaxInt == 2 ^ (IntBits - 1) - 1
Ints == -(MaxInt + 1) .. MaxInt
Uint(n) == n % (2 ^ UintBits)   \* uint32(n), and uint32 addition

ASSUME DefaultShardCount \in 1 .. MaxInt \div 2

\* Config.Validate: "cfg.ShardCount <= 0 || cfg.ShardCount > (math.MaxInt/2)"
\* falls back to defaultShardCount.
Validate(shardCount) ==
  IF shardCount <= 0 \/ shardCount > MaxInt \div 2
  THEN DefaultShardCount ELSE shardCount

\* NewPeerStorage: "make([]*peerShard, cfg.ShardCount*2)"; len(ps.shards).
NewPeerStorage(provided) == 2 * Validate(provided)

\* Builder: an Unmarshal error is returned, otherwise NewPeerStorage.
Builder(icfg) ==
  IF icfg = DecodeError THEN [err |-> TRUE, numShards |-> 0]
  ELSE [err |-> FALSE, numShards |-> NewPeerStorage(icfg)]

\* peerStore.shardIndex on a store of numShards shards:
\*   idx := prefix % (uint32(len(ps.shards)) / 2)
\*   if addr.Is6() { idx += uint32(len(ps.shards) / 2) }
\* A zero divisor is Go's run-time panic "integer divide by zero".
Panic == -1
ShardIndex(numShards, prefix, is6) ==
  LET half == Uint(numShards) \div 2
  IN IF half = 0 THEN Panic
     ELSE LET idx == prefix % half
          IN IF is6 THEN Uint(idx + Uint(numShards \div 2)) ELSE idx

----------------------------------------------------------------------------
(* Every configuration, info-hash prefix and address family.               *)

VARIABLES icfg, prefix, is6
vars == <<icfg, prefix, is6>>

Init ==
  /\ icfg \in Ints \cup {DecodeError}
  /\ prefix \in 0 .. 2 ^ UintBits - 1
  /\ is6 \in BOOLEAN

Spec == Init /\ [][UNCHANGED vars]_vars

\* spec.md section 3: for every store Builder builds, the shard is
\* "(u32_be(infohash[0..4]) mod shardCount) + (isIPv6 ? shardCount : 0)",
\* so that IPv4 and IPv6 swarms never share a shard.
ShardIndexMatchesSpec ==
  LET built == Builder(icfg)
      count == built.numShards \div 2
  IN ~built.err =>
       ShardIndex(built.numShards, prefix, is6)
         = (prefix % count) + (IF is6 THEN count ELSE 0)
=============================================================================
