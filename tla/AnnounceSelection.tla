------------------------- MODULE AnnounceSelection -------------------------
(***************************************************************************)
(* The two read paths of storage/memory/storage.go over one swarm: the    *)
(* peer selection of peerStore.AnnouncePeers, checked against a reference  *)
(* definition of what a reply may contain, and the counts of ScrapeSwarm,  *)
(* over every small swarm, announcer and numWant.  An empty swarm is a     *)
(* missing one: the store deletes a swarm it empties.                      *)
(*                                                                         *)
(* Go's map iteration order is unspecified, so the code can return any of  *)
(* several lists; AnnouncePeers below is the set of all of them.  The     *)
(* swarm's seeders and leechers may share a peer: PutSeeder does not       *)
(* remove a peer from the leechers (see MemoryPeerStore).                  *)
(***************************************************************************)
EXTENDS Integers, FiniteSets, Sequences, SequencesExt

CONSTANTS
  Peers,     \* peer keys (model values)
  NumWants,  \* numWant values
  NoPeer     \* a model value that is not a peer

ASSUME NumWants \subseteq Int /\ NoPeer \notin Peers

\* One map loop of AnnouncePeers over the keys in iteration order `order`:
\* "for pk := range m { if pk == skip { continue }; if numWant == 0 { break };
\*  peers = append(peers, p); numWant-- }".  The seeders loop has no skip.
RECURSIVE Collect(_, _, _)
Collect(order, n, skip) ==
  IF order = <<>> THEN <<>>
  ELSE IF Head(order) = skip THEN Collect(Tail(order), n, skip)
  ELSE IF n = 0 THEN <<>>
  ELSE <<Head(order)>> \o Collect(Tail(order), n - 1, skip)

\* Mutant: the leecher fill does not skip the announcer.
AnnouncePeersSelfInclusive(seeders, leechers, seeder, numWant, announcer) ==
  IF seeder
  THEN {Collect(o, numWant, NoPeer) : o \in SetToSeqs(leechers)}
  ELSE {LET s == Collect(os, numWant, NoPeer)
        IN IF numWant - Len(s) > 0
           THEN s \o Collect(ol, numWant - Len(s), NoPeer)
           ELSE s
        : os \in SetToSeqs(seeders), ol \in SetToSeqs(leechers)}

\* Every list AnnouncePeers can return for a swarm with these seeders and
\* leechers: a seeder gets leechers; a leecher gets seeders first, then, if
\* numWant is not used up, leechers other than itself.
AnnouncePeers(seeders, leechers, seeder, numWant, announcer) ==
  IF seeder
  THEN {Collect(o, numWant, NoPeer) : o \in SetToSeqs(leechers)}
  ELSE {LET s == Collect(os, numWant, NoPeer)
        IN IF numWant - Len(s) > 0
           THEN s \o Collect(ol, numWant - Len(s), announcer)
           ELSE s
        : os \in SetToSeqs(seeders), ol \in SetToSeqs(leechers)}

\* Mutant: the seeders are reported as the incomplete peers.
ScrapeSwarmSwapped(seeders, leechers) ==
  IF seeders \cup leechers = {} THEN [complete |-> 0, incomplete |-> 0]
  ELSE [complete |-> Cardinality(leechers), incomplete |-> Cardinality(seeders)]

\* ScrapeSwarm: zeros for a missing swarm, else "resp.Incomplete =
\* uint32(len(swarm.leechers)); resp.Complete = uint32(len(swarm.seeders))"
\* (the counts of a swarm in this model are far below 2^32).
ScrapeSwarm(seeders, leechers) ==
  IF seeders \cup leechers = {} THEN [complete |-> 0, incomplete |-> 0]
  ELSE [complete |-> Cardinality(seeders), incomplete |-> Cardinality(leechers)]

----------------------------------------------------------------------------
(* The reference: the selection rule of the peer-store contract.           *)

Least(a, b) == IF a < b THEN a ELSE b
Distinct(r) == \A i, j \in DOMAIN r: i # j => r[i] # r[j]

\* A list of k distinct members of S.
IsPick(r, S, k) == Len(r) = k /\ Distinct(r) /\ ToSet(r) \subseteq S

\* A seeder gets up to numWant leechers; a leecher gets up to numWant
\* seeders and, if there are fewer than numWant, is filled up with
\* leechers, excluding the announcer itself.
IsValidReply(r, seeders, leechers, seeder, numWant, announcer) ==
  IF seeder
  THEN IsPick(r, leechers, Least(numWant, Cardinality(leechers)))
  ELSE LET k == Least(numWant, Cardinality(seeders))
           others == leechers \ {announcer}
       IN /\ Len(r) >= k
          /\ IsPick(SubSeq(r, 1, k), seeders, k)
          /\ IsPick(SubSeq(r, k + 1, Len(r)), others,
                    Least(numWant - k, Cardinality(others)))

----------------------------------------------------------------------------
(* A constant-state specification that enumerates the inputs.             *)

VARIABLES seeders, leechers, seeder, numWant, announcer
vars == <<seeders, leechers, seeder, numWant, announcer>>

Init ==
  /\ seeders \in SUBSET Peers
  /\ leechers \in SUBSET Peers
  /\ seeder \in BOOLEAN
  /\ numWant \in NumWants
  /\ announcer \in Peers

Spec == Init /\ [][UNCHANGED vars]_vars

TypeOK ==
  /\ seeders \subseteq Peers /\ leechers \subseteq Peers
  /\ seeder \in BOOLEAN /\ numWant \in NumWants /\ announcer \in Peers

\* The lists AnnouncePeers can return are exactly the replies the contract
\* allows: none is too long or too short, none returns a leecher announcer
\* to itself from the leechers, and every allowed reply is possible.
AnnounceMatchesReference ==
  AnnouncePeers(seeders, leechers, seeder, numWant, announcer)
    = {r \in BoundedSeq(Peers, numWant):
         IsValidReply(r, seeders, leechers, seeder, numWant, announcer)}

\* A client that scrapes a torrent and then announces to it (under the same
\* shard lock state) gets as many peers as the scrape counted that it may
\* be sent, up to numWant: a seeder the incomplete peers, a leecher the
\* complete and incomplete peers less itself.  The two handlers count the
\* same maps, even when a peer is in both.
ScrapeMatchesAnnounce ==
  LET sc == ScrapeSwarm(seeders, leechers)
      sendable == IF seeder THEN sc.incomplete
                  ELSE sc.complete + sc.incomplete
                         - (IF announcer \in leechers THEN 1 ELSE 0)
  IN \A r \in AnnouncePeers(seeders, leechers, seeder, numWant, announcer):
       Len(r) = Least(numWant, sendable)
=============================================================================
