----------------------------- MODULE PeerStore -----------------------------
(***************************************************************************)
(* What the peer store promises its callers (the operation table of        *)
(* spec.md section 4.3 and the GC rule of section 4.4), with no shards,    *)
(* locks, counters or goroutines: for every torrent, a map of seeders and  *)
(* a map of leechers from peer to last-seen time.                          *)
(*   - PutSeeder / PutLeecher upsert the peer with the current time;       *)
(*   - DeleteSeeder / DeleteLeecher remove a present peer (an absent one   *)
(*     is ErrResourceDoesNotExist and changes nothing);                    *)
(*   - GraduateLeecher removes the peer from the leechers and upserts it   *)
(*     into the seeders;                                                   *)
(*   - the GC removes, from one torrent at a time, peers whose last-seen   *)
(*     time is at least PeerLifeTime in the past, and nothing else;        *)
(*   - Stop releases every swarm.                                          *)
(* A peer may be in both maps: the store's Puts do not take a peer out of  *)
(* the other map (MemoryPeerStore's SeedersLeechersDisjoint run), and this *)
(* specification states what the store does keep.                          *)
(***************************************************************************)
EXTENDS Integers, Functions, TLC

CONSTANTS InfoHashes, Peers, PeerLifeTime, MaxClock

VARIABLES
  seeders,   \* seeders[ih]: peer -> last-seen time
  leechers,  \* leechers[ih]: peer -> last-seen time
  clock,     \* the current time
  released   \* Stop has released the swarms

vars == <<seeders, leechers, clock, released>>

NoPeers == [x \in {} |-> 0]
Upsert(f, k, v) == (k :> v) @@ f
Without(f, k) == Restrict(f, DOMAIN f \ {k})

\* The peers of f last seen at least PeerLifeTime ago.
StaleIn(f) == {p \in DOMAIN f : f[p] <= clock - PeerLifeTime}

Init ==
  /\ seeders = [ih \in InfoHashes |-> NoPeers]
  /\ leechers = [ih \in InfoHashes |-> NoPeers]
  /\ clock = 0
  /\ released = FALSE

PutSeeder(ih, p) ==
  /\ seeders' = [seeders EXCEPT ![ih] = Upsert(@, p, clock)]
  /\ UNCHANGED <<leechers, clock, released>>

PutLeecher(ih, p) ==
  /\ leechers' = [leechers EXCEPT ![ih] = Upsert(@, p, clock)]
  /\ UNCHANGED <<seeders, clock, released>>

DeleteSeeder(ih, p) ==
  /\ p \in DOMAIN seeders[ih]
  /\ seeders' = [seeders EXCEPT ![ih] = Without(@, p)]
  /\ UNCHANGED <<leechers, clock, released>>

DeleteLeecher(ih, p) ==
  /\ p \in DOMAIN leechers[ih]
  /\ leechers' = [leechers EXCEPT ![ih] = Without(@, p)]
  /\ UNCHANGED <<seeders, clock, released>>

GraduateLeecher(ih, p) ==
  /\ seeders' = [seeders EXCEPT ![ih] = Upsert(@, p, clock)]
  /\ leechers' = [leechers EXCEPT ![ih] = Without(@, p)]
  /\ UNCHANGED <<clock, released>>

\* The GC takes some of the stale seeders and stale leechers of one torrent.
Purge(ih, ss, sl) ==
  /\ ss \subseteq StaleIn(seeders[ih])
  /\ sl \subseteq StaleIn(leechers[ih])
  /\ seeders' = [seeders EXCEPT ![ih] = Restrict(@, DOMAIN @ \ ss)]
  /\ leechers' = [leechers EXCEPT ![ih] = Restrict(@, DOMAIN @ \ sl)]
  /\ UNCHANGED <<clock, released>>

Release ==
  /\ seeders' = [ih \in InfoHashes |-> NoPeers]
  /\ leechers' = [ih \in InfoHashes |-> NoPeers]
  /\ released' = TRUE
  /\ UNCHANGED clock

Tick ==
  /\ clock < MaxClock
  /\ clock' = clock + 1
  /\ UNCHANGED <<seeders, leechers, released>>

Next ==
  \/ \E ih \in InfoHashes, p \in Peers:
       \/ PutSeeder(ih, p) \/ PutLeecher(ih, p)
       \/ DeleteSeeder(ih, p) \/ DeleteLeecher(ih, p)
       \/ GraduateLeecher(ih, p)
  \/ \E ih \in InfoHashes, ss, sl \in SUBSET Peers: Purge(ih, ss, sl)
  \/ Release
  \/ Tick

Spec == Init /\ [][Next]_vars
=============================================================================
