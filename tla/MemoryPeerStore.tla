-------------------------- MODULE MemoryPeerStore --------------------------
(***************************************************************************)
(* The in-memory peer store of storage/memory/storage.go.                  *)
(*                                                                         *)
(* ps.shards is a vector of 2*ShardCount shards (the first half for IPv4   *)
(* swarms, the second for IPv6); each shard maps an info-hash to a swarm   *)
(* (seeders and leechers, each a map from peer key to last-seen time) and  *)
(* caches the numbers of seeders and leechers.  Every store operation      *)
(* holds its shard's lock for its whole read or mutation, so each          *)
(* critical section is one atomic step here; what is not atomic is what   *)
(* happens around it:                                                      *)
(*   - a request handler samples ps.closed, then reads ps.shards, locks    *)
(*     the shard and runs (two steps);                                     *)
(*   - the GC goroutine snapshots a shard's info-hashes under the read     *)
(*     lock, releases it, and then sweeps each swarm under the write lock; *)
(*   - the statistics goroutine sums the shards one read lock at a time;   *)
(*   - Stop closes ps.closed, joins the two goroutines and replaces        *)
(*     ps.shards by fresh empty shards without holding any lock.           *)
(***************************************************************************)
EXTENDS Integers, FiniteSets, FiniteSetsExt, Functions, TLC

CONSTANTS
  InfoHashes,     \* torrents (model values)
  Peers,          \* peer keys p.RawString() (model values)
  Family,         \* Family[p] \in {"v4", "v6"}: p.Addr().Is6()
  IHPrefix,       \* IHPrefix[ih] = binary.BigEndian.Uint32(ih[:4])
  ShardCount,     \* cfg.ShardCount after Validate
  Workers,        \* concurrent request handlers (model values)
  PeerLifeTime,   \* peerLifeTime argument of ScheduleGC, in clock ticks
  MaxClock,       \* bound on the clock (timecache.NowUnixNano)
  MetricsEnabled, \* metrics.Enabled()
  Nil             \* a model value that is no torrent and no peer

ASSUME ShardCount \in Nat \ {0}
ASSUME \A p \in Peers: Family[p] \in {"v4", "v6"}
ASSUME \A ih \in InfoHashes: IHPrefix[ih] \in Nat
ASSUME PeerLifeTime \in Nat \ {0} /\ MaxClock \in Nat
ASSUME MetricsEnabled \in BOOLEAN /\ Nil \notin Peers \cup InfoHashes

VARIABLES
  shards,   \* ps.shards: shard index -> [swarms, numSeeders, numLeechers]
  closed,   \* ps.closed has been closed
  clock,    \* the clock read by getClock and time.Now
  worker,   \* request handler goroutines
  gcPc, gcTimer, gcShard, gcTodo, gcCutoff,     \* the ScheduleGC goroutine
  statsPc, statsShard, statsSums,              \* the statistics goroutine
  stopPc,   \* the goroutine started by Stop
  statsDirty  \* history: a shard changed since the statistics walk began

GcVars == <<gcPc, gcTimer, gcShard, gcTodo, gcCutoff>>
StatsVars == <<statsPc, statsShard, statsSums>>
ImplVars == <<shards, closed, clock, worker, GcVars, StatsVars, stopPc>>
vars == <<ImplVars, statsDirty>>

NumShards == 2 * ShardCount
ShardIds == 0 .. NumShards - 1

\* Mutant: the IPv6 offset is forgotten.
ShardIndexNoFamily(ih, fam) == IHPrefix[ih] % (NumShards \div 2)

\* ps.shardIndex: the first half of the shards serves IPv4, the second IPv6.
ShardIndex(ih, fam) ==
  (IHPrefix[ih] % (NumShards \div 2))
    + (IF fam = "v6" THEN NumShards \div 2 ELSE 0)

----------------------------------------------------------------------------
(* Maps with a growing domain: a Go map[string]int64 or map[InfoHash]swarm *)

EmptyMap == [x \in {} |-> 0]
Upsert(f, k, v) == (k :> v) @@ f
Without(f, k) == Restrict(f, DOMAIN f \ {k})

NewSwarm == [seeders |-> EmptyMap, leechers |-> EmptyMap]
EmptyShard == [swarms |-> EmptyMap, numSeeders |-> 0, numLeechers |-> 0]

\* "if _, ok := shard.swarms[ih]; !ok { shard.swarms[ih] = swarm{...} }"
WithSwarm(sh, ih) ==
  IF ih \in DOMAIN sh.swarms THEN sh.swarms ELSE Upsert(sh.swarms, ih, NewSwarm)

\* "if len(seeders)|len(leechers) == 0 { delete(shard.swarms, ih) }"
DropIfEmpty(sws, ih) ==
  IF DOMAIN sws[ih].seeders = {} /\ DOMAIN sws[ih].leechers = {}
  THEN Without(sws, ih) ELSE sws

\* Mutant: "mtime < cutoffUnix" instead of "<=".
ExpiredStrict(mtime, cutoff) == mtime < cutoff

\* A peer is expired when its last-seen time is at or before the cutoff.
Expired(mtime, cutoff) == mtime <= cutoff

----------------------------------------------------------------------------
(* The critical sections of the store operations, as shard transformers.   *)

\* Mutant: numSeeders++ without checking that pk was not a seeder yet.
PutSeederCountAlways(sh, ih, pk, now) ==
  LET sws == WithSwarm(sh, ih) IN
  [sh EXCEPT !.swarms = [sws EXCEPT ![ih].seeders = Upsert(@, pk, now)],
             !.numSeeders = @ + 1]

PutSeeder(sh, ih, pk, now) ==
  LET sws == WithSwarm(sh, ih) IN
  [sh EXCEPT !.swarms = [sws EXCEPT ![ih].seeders = Upsert(@, pk, now)],
             !.numSeeders = IF pk \in DOMAIN sws[ih].seeders THEN @ ELSE @ + 1]

PutLeecher(sh, ih, pk, now) ==
  LET sws == WithSwarm(sh, ih) IN
  [sh EXCEPT !.swarms = [sws EXCEPT ![ih].leechers = Upsert(@, pk, now)],
             !.numLeechers = IF pk \in DOMAIN sws[ih].leechers THEN @ ELSE @ + 1]

\* The early returns of DeleteSeeder / DeleteLeecher: ErrResourceDoesNotExist.
SeederMissing(sh, ih, pk) ==
  ih \notin DOMAIN sh.swarms \/ pk \notin DOMAIN sh.swarms[ih].seeders
LeecherMissing(sh, ih, pk) ==
  ih \notin DOMAIN sh.swarms \/ pk \notin DOMAIN sh.swarms[ih].leechers

DeleteSeeder(sh, ih, pk) ==
  IF SeederMissing(sh, ih, pk) THEN sh
  ELSE [sh EXCEPT !.numSeeders = @ - 1,
         !.swarms = DropIfEmpty([@ EXCEPT ![ih].seeders = Without(@, pk)], ih)]

\* Mutant: only the swarm's existence is checked before the decrement.
DeleteLeecherNoPeerCheck(sh, ih, pk) ==
  IF ih \notin DOMAIN sh.swarms THEN sh
  ELSE [sh EXCEPT !.numLeechers = @ - 1,
         !.swarms = DropIfEmpty([@ EXCEPT ![ih].leechers = Without(@, pk)], ih)]

DeleteLeecher(sh, ih, pk) ==
  IF LeecherMissing(sh, ih, pk) THEN sh
  ELSE [sh EXCEPT !.numLeechers = @ - 1,
         !.swarms = DropIfEmpty([@ EXCEPT ![ih].leechers = Without(@, pk)], ih)]

GraduateLeecher(sh, ih, pk, now) ==
  LET sws == WithSwarm(sh, ih)
      wasLeecher == pk \in DOMAIN sws[ih].leechers
      wasSeeder == pk \in DOMAIN sws[ih].seeders
  IN [sh EXCEPT
        !.swarms = [sws EXCEPT ![ih] = [seeders |-> Upsert(@.seeders, pk, now),
                                        leechers |-> Without(@.leechers, pk)]],
        !.numLeechers = IF wasLeecher THEN @ - 1 ELSE @,
        !.numSeeders = IF wasSeeder THEN @ ELSE @ + 1]

\* Mutant: gc expires peers but never deletes a swarm it empties.
GcSwarmKeepEmpty(sh, ih, cutoff) ==
  IF ih \notin DOMAIN sh.swarms THEN sh
  ELSE LET sw == sh.swarms[ih]
           liveL == {pk \in DOMAIN sw.leechers : ~Expired(sw.leechers[pk], cutoff)}
           liveS == {pk \in DOMAIN sw.seeders : ~Expired(sw.seeders[pk], cutoff)}
       IN [sh EXCEPT
             !.numLeechers = @ - (Cardinality(DOMAIN sw.leechers) - Cardinality(liveL)),
             !.numSeeders = @ - (Cardinality(DOMAIN sw.seeders) - Cardinality(liveS)),
             !.swarms[ih] = [seeders |-> Restrict(sw.seeders, liveS),
                             leechers |-> Restrict(sw.leechers, liveL)]]

\* One per-swarm pass of gc, under the shard's write lock.
GcSwarm(sh, ih, cutoff) ==
  IF ih \notin DOMAIN sh.swarms THEN sh
  ELSE LET sw == sh.swarms[ih]
           liveL == {pk \in DOMAIN sw.leechers : ~Expired(sw.leechers[pk], cutoff)}
           liveS == {pk \in DOMAIN sw.seeders : ~Expired(sw.seeders[pk], cutoff)}
       IN [sh EXCEPT
             !.numLeechers = @ - (Cardinality(DOMAIN sw.leechers) - Cardinality(liveL)),
             !.numSeeders = @ - (Cardinality(DOMAIN sw.seeders) - Cardinality(liveS)),
             !.swarms = DropIfEmpty(
                 [@ EXCEPT ![ih] = [seeders |-> Restrict(sw.seeders, liveS),
                                    leechers |-> Restrict(sw.leechers, liveL)]], ih)]

----------------------------------------------------------------------------
(* Requests and the request handlers.                                      *)

MutatingOps == {"PutSeeder", "DeleteSeeder", "PutLeecher", "DeleteLeecher",
                "GraduateLeecher"}
Requests ==
  [op: MutatingOps \cup {"AnnouncePeers", "ScrapeSwarm"}, ih: InfoHashes,
   peer: Peers]
NoReq == [op |-> "none", ih |-> Nil, peer |-> Nil]
Idle == [pc |-> "idle", req |-> NoReq]

\* Every operation starts with "select { case <-ps.closed: panic(...) }".
Invoke(w) ==
  /\ worker[w].pc = "idle"
  /\ \E r \in Requests:
       worker' = [worker EXCEPT ![w] = [pc |-> IF closed THEN "panicked"
                                                         ELSE "checked",
                                          req |-> r]]
  /\ UNCHANGED <<shards, closed, clock, GcVars, StatsVars, stopPc>>

\* "shard := ps.shards[ps.shardIndex(ih, p.Addr())]; shard.Lock()" and the
\* critical section.  ps.shards is read without synchronisation, so it is
\* the vector Stop installed if Stop ran since the closed check.  The
\* read-only operations (AnnouncePeers, ScrapeSwarm) leave the shard as it
\* is; their results are modelled in AnnounceSelection.
Apply(sh, r) ==
  CASE r.op = "PutSeeder" -> PutSeeder(sh, r.ih, r.peer, clock)
    [] r.op = "PutLeecher" -> PutLeecher(sh, r.ih, r.peer, clock)
    [] r.op = "DeleteSeeder" -> DeleteSeeder(sh, r.ih, r.peer)
    [] r.op = "DeleteLeecher" -> DeleteLeecher(sh, r.ih, r.peer)
    [] r.op = "GraduateLeecher" -> GraduateLeecher(sh, r.ih, r.peer, clock)
    [] OTHER -> sh

Execute(w) ==
  LET r == worker[w].req
      i == ShardIndex(r.ih, Family[r.peer])
  IN /\ worker[w].pc = "checked"
     /\ shards' = [shards EXCEPT ![i] = Apply(@, r)]
     /\ worker' = [worker EXCEPT ![w] = Idle]
     /\ UNCHANGED <<closed, clock, GcVars, StatsVars, stopPc>>

----------------------------------------------------------------------------
(* The ScheduleGC goroutine.  The timer is created once with               *)
(* time.NewTimer(gcInterval) and never reset.                              *)

GcTimerFires ==
  /\ gcTimer = "armed"
  /\ gcTimer' = "fired"
  /\ UNCHANGED <<shards, closed, clock, worker, gcPc, gcShard, gcTodo,
                 gcCutoff, StatsVars, stopPc>>

\* "case <-ps.closed: return"
GcExit ==
  /\ gcPc = "wait" /\ closed
  /\ gcPc' = "exited"
  /\ UNCHANGED <<shards, closed, clock, worker, gcTimer, gcShard, gcTodo,
                 gcCutoff, StatsVars, stopPc>>

\* Mutant: the cutoff is time.Now(), without ".Add(-peerLifeTime)".
GcStartNoLifetime ==
  /\ gcPc = "wait" /\ gcTimer = "fired"
  /\ gcTimer' = "spent"
  /\ gcPc' = IF closed THEN "wait" ELSE "snapshot"
  /\ gcCutoff' = IF closed THEN 0 ELSE clock
  /\ UNCHANGED <<shards, closed, clock, worker, gcShard, gcTodo,
                 StatsVars, stopPc>>

\* "case <-t.C: before := time.Now().Add(-peerLifeTime); ps.gc(before)";
\* gc returns at once if ps.closed is closed.
GcStart ==
  /\ gcPc = "wait" /\ gcTimer = "fired"
  /\ gcTimer' = "spent"
  /\ gcPc' = IF closed THEN "wait" ELSE "snapshot"
  /\ gcCutoff' = IF closed THEN 0 ELSE clock - PeerLifeTime
  /\ UNCHANGED <<shards, closed, clock, worker, gcShard, gcTodo,
                 StatsVars, stopPc>>

\* Under shard.RLock: collect the info-hashes of the shard.
GcSnapshot ==
  /\ gcPc = "snapshot"
  /\ gcTodo' = DOMAIN shards[gcShard].swarms
  /\ gcPc' = "sweep"
  /\ UNCHANGED <<shards, closed, clock, worker, gcTimer, gcShard,
                 gcCutoff, StatsVars, stopPc>>

\* Under shard.Lock: re-check the swarm and expire its peers.
GcSweep ==
  /\ gcPc = "sweep"
  /\ \E ih \in gcTodo:
       /\ shards' = [shards EXCEPT ![gcShard] = GcSwarm(@, ih, gcCutoff)]
       /\ gcTodo' = gcTodo \ {ih}
  /\ UNCHANGED <<closed, clock, worker, gcPc, gcTimer, gcShard, gcCutoff,
                 StatsVars, stopPc>>

\* Mutant: after the last shard the sweep starts over instead of returning
\* to the select.
GcNextShardWrap ==
  /\ gcPc = "sweep" /\ gcTodo = {}
  /\ gcShard' = (gcShard + 1) % NumShards
  /\ gcPc' = "snapshot"
  /\ UNCHANGED <<shards, closed, clock, worker, gcTimer, gcTodo, gcCutoff,
                 StatsVars, stopPc>>

\* The next shard, or the end of the sweep (recordGCDuration).
GcNextShard ==
  /\ gcPc = "sweep" /\ gcTodo = {}
  /\ IF gcShard < NumShards - 1
     THEN /\ gcShard' = gcShard + 1
          /\ gcPc' = "snapshot"
          /\ UNCHANGED gcCutoff
     ELSE /\ gcShard' = 0
          /\ gcPc' = "wait"
          /\ gcCutoff' = 0
  /\ UNCHANGED <<shards, closed, clock, worker, gcTimer, gcTodo,
                 StatsVars, stopPc>>

----------------------------------------------------------------------------
(* The ScheduleStatisticsCollection goroutine (a time.Ticker).             *)

StatsExit ==
  /\ statsPc = "wait" /\ closed
  /\ statsPc' = "exited"
  /\ UNCHANGED <<shards, closed, clock, worker, GcVars, statsShard, statsSums,
                 stopPc>>

NoSums == [infohashes |-> 0, seeders |-> 0, leechers |-> 0]

\* A tick with metrics.Enabled(): "var numInfohashes, numSeeders,
\* numLeechers uint64"; without metrics a tick changes nothing.
StatsTick ==
  /\ statsPc = "wait" /\ MetricsEnabled
  /\ statsPc' = "collect"
  /\ statsShard' = 0
  /\ statsSums' = NoSums
  /\ UNCHANGED <<shards, closed, clock, worker, GcVars, stopPc>>

\* What one shard adds to the sums under s.RLock.
AddShard(sums, sh) ==
  [infohashes |-> sums.infohashes + Cardinality(DOMAIN sh.swarms),
   seeders |-> sums.seeders + sh.numSeeders,
   leechers |-> sums.leechers + sh.numLeechers]

\* Mutant: the walk stops one shard short of the end.
StatsCollectSkipLast ==
  /\ statsPc = "collect"
  /\ IF statsShard < NumShards - 2
     THEN /\ statsShard' = statsShard + 1
          /\ statsSums' = AddShard(statsSums, shards[statsShard])
          /\ UNCHANGED statsPc
     ELSE /\ statsPc' = "wait"
          /\ statsShard' = 0
          /\ statsSums' = NoSums
  /\ UNCHANGED <<shards, closed, clock, worker, GcVars, stopPc>>

\* What the last iteration of the walk sets the three Prometheus gauges to.
Published == AddShard(statsSums, shards[statsShard])

\* One iteration of "for _, s := range ps.shards"; after the last shard
\* the sums are published and the goroutine's locals go out of scope.
StatsCollect ==
  /\ statsPc = "collect"
  /\ IF statsShard < NumShards - 1
     THEN /\ statsShard' = statsShard + 1
          /\ statsSums' = AddShard(statsSums, shards[statsShard])
          /\ UNCHANGED statsPc
     ELSE /\ statsPc' = "wait"
          /\ statsShard' = 0
          /\ statsSums' = NoSums
  /\ UNCHANGED <<shards, closed, clock, worker, GcVars, stopPc>>

----------------------------------------------------------------------------
(* Stop: close(ps.closed); ps.wg.Wait(); replace ps.shards.                *)

StopClose ==
  /\ stopPc = "running"
  /\ closed' = TRUE
  /\ stopPc' = "closing"
  /\ UNCHANGED <<shards, clock, worker, GcVars, StatsVars>>

StopRelease ==
  /\ stopPc = "closing"
  /\ gcPc = "exited" /\ statsPc = "exited"
  /\ shards' = [s \in ShardIds |-> EmptyShard]
  /\ stopPc' = "stopped"
  /\ UNCHANGED <<closed, clock, worker, GcVars, StatsVars>>

Tick ==
  /\ clock < MaxClock
  /\ clock' = clock + 1
  /\ UNCHANGED <<shards, closed, worker, GcVars, StatsVars, stopPc>>

\* Everything has returned: the process may stay here forever.
Terminated ==
  /\ stopPc = "stopped" /\ clock = MaxClock
  /\ \A w \in Workers: worker[w].pc = "panicked"
  /\ UNCHANGED vars

----------------------------------------------------------------------------

\* The store after NewPeerStorage, ScheduleGC and ScheduleStatisticsCollection.
Init ==
  /\ shards = [s \in ShardIds |-> EmptyShard]
  /\ closed = FALSE
  /\ clock = 0
  /\ worker = [w \in Workers |-> Idle]
  /\ gcPc = "wait" /\ gcTimer = "armed" /\ gcShard = 0 /\ gcTodo = {}
  /\ gcCutoff = 0
  /\ statsPc = "wait" /\ statsShard = 0 /\ statsSums = NoSums
  /\ stopPc = "running"
  /\ statsDirty = FALSE

\* The history variable: while a walk runs, whether any step since it began
\* changed a shard.
Dirtied ==
  /\ statsPc' = "collect"
  /\ statsDirty \/ (statsPc = "collect" /\ shards' # shards)

Next ==
  /\ \/ \E w \in Workers: Invoke(w) \/ Execute(w)
     \/ GcTimerFires \/ GcExit \/ GcStart \/ GcSnapshot \/ GcSweep \/ GcNextShard
     \/ StatsExit \/ StatsTick \/ StatsCollect
     \/ StopClose \/ StopRelease
     \/ Tick
     \/ Terminated
  /\ statsDirty' = Dirtied

\* The runtime schedules runnable goroutines, timers fire and time passes;
\* clients and the caller of Stop are under no obligation to act.  A select
\* with several ready cases picks one uniformly at random, so a goroutine
\* whose "case <-ps.closed" is ready again and again eventually takes it.
\* The history variable statsDirty is not part of the implementation.
Fairness ==
  /\ WF_ImplVars(GcTimerFires) /\ SF_ImplVars(GcExit) /\ WF_ImplVars(GcStart)
  /\ WF_ImplVars(GcSnapshot) /\ WF_ImplVars(GcSweep) /\ WF_ImplVars(GcNextShard)
  /\ SF_ImplVars(StatsExit) /\ WF_ImplVars(StatsCollect)
  /\ WF_ImplVars(StopRelease) /\ WF_ImplVars(Tick)

Spec == Init /\ [][Next]_vars /\ Fairness

----------------------------------------------------------------------------
(* Properties                                                              *)


\* Every variable has the type of its Go counterpart; the cached counters
\* are unsigned (uint64), so a decrement below zero is a type error.
TypeOK ==
  /\ \A s \in ShardIds:
       /\ DOMAIN shards[s].swarms \subseteq InfoHashes
       /\ \A ih \in DOMAIN shards[s].swarms:
            /\ DOMAIN shards[s].swarms[ih].seeders \subseteq Peers
            /\ DOMAIN shards[s].swarms[ih].leechers \subseteq Peers
       /\ shards[s].numSeeders \in Nat /\ shards[s].numLeechers \in Nat
  /\ DOMAIN shards = ShardIds
  /\ closed \in BOOLEAN /\ clock \in 0..MaxClock
  /\ \A w \in Workers:
       /\ worker[w].pc \in {"idle", "checked", "panicked"}
       /\ worker[w].req \in Requests \cup {NoReq}
  /\ gcPc \in {"wait", "snapshot", "sweep", "exited"}
  /\ gcTimer \in {"armed", "fired", "spent"}
  /\ gcShard \in ShardIds /\ gcTodo \subseteq InfoHashes
  /\ statsPc \in {"wait", "collect", "exited"} /\ statsShard \in ShardIds
  /\ statsSums \in [{"infohashes", "seeders", "leechers"} -> Nat]
  /\ statsDirty \in BOOLEAN
  /\ stopPc \in {"running", "closing", "stopped"}

SwarmsOf(s) == {shards[s].swarms[ih] : ih \in DOMAIN shards[s].swarms}
SumOver(S, F(_)) == MapThenSumSet(F, S)

\* The counters each shard caches (numSeeders, numLeechers), which
\* PutSeeder, DeleteSeeder, PutLeecher, DeleteLeecher, GraduateLeecher and
\* gc each adjust by hand, equal the sizes of the shard's swarms.
CountersMatchSwarms ==
  \A s \in ShardIds:
    /\ shards[s].numSeeders =
         SumOver(DOMAIN shards[s].swarms,
                 LAMBDA ih: Cardinality(DOMAIN shards[s].swarms[ih].seeders))
    /\ shards[s].numLeechers =
         SumOver(DOMAIN shards[s].swarms,
                 LAMBDA ih: Cardinality(DOMAIN shards[s].swarms[ih].leechers))

\* The numbers of swarms, seeders and leechers in the store, counted from
\* the swarms themselves.
StoreTotals ==
  [infohashes |-> SumOver(ShardIds, LAMBDA s: Cardinality(DOMAIN shards[s].swarms)),
   seeders |-> SumOver(ShardIds, LAMBDA s: SumOver(DOMAIN shards[s].swarms,
                 LAMBDA ih: Cardinality(DOMAIN shards[s].swarms[ih].seeders))),
   leechers |-> SumOver(ShardIds, LAMBDA s: SumOver(DOMAIN shards[s].swarms,
                  LAMBDA ih: Cardinality(DOMAIN shards[s].swarms[ih].leechers)))]

\* A statistics walk that no handler, gc pass or Stop overlapped publishes
\* exactly the store's numbers of swarms, seeders and leechers: the loop
\* visits every shard once and sums the cached counters, which agree with
\* the swarms.  (A walk that overlaps writes may publish a total the store
\* never had, which the spec accepts.)
QuietWalkPublishesTotals ==
  [][(statsPc = "collect" /\ statsPc' = "wait" /\ ~statsDirty)
       => Published = StoreTotals]_vars

\* No swarm in the store is empty: every path that removes a peer (the two
\* Deletes, GraduateLeecher, the gc pass) deletes a swarm it empties.
NoEmptySwarm ==
  \A s \in ShardIds: \A ih \in DOMAIN shards[s].swarms:
    DOMAIN shards[s].swarms[ih].seeders \cup DOMAIN shards[s].swarms[ih].leechers # {}

\* Every peer is stored in an IPv4 shard (the first ShardCount) if it has
\* an IPv4 address and in an IPv6 shard otherwise, at the position its
\* info-hash's first four bytes select: an announce from an IPv4 peer only
\* ever sees IPv4 peers and the other way round, and all peers of one
\* torrent and family are in one swarm.
SwarmsInTheirShard ==
  \A s \in ShardIds: \A ih \in DOMAIN shards[s].swarms:
    /\ IHPrefix[ih] % ShardCount = s % ShardCount
    /\ \A p \in DOMAIN shards[s].swarms[ih].seeders \cup DOMAIN shards[s].swarms[ih].leechers:
         (s < ShardCount) <=> (Family[p] = "v4")

\* When a gc sweep ends, no peer whose last-seen time is at or before the
\* sweep's cutoff is left in the store, although the sweep worked from
\* per-shard snapshots that handlers changed while it ran.
SweepRemovesExpired ==
  [][(gcPc = "sweep" /\ gcPc' = "wait") =>
       \A s \in ShardIds: \A sw \in SwarmsOf(s):
         /\ \A p \in DOMAIN sw.seeders: sw.seeders[p] > gcCutoff
         /\ \A q \in DOMAIN sw.leechers: sw.leechers[q] > gcCutoff]_vars

\* Stop's goroutine completes once it has closed ps.closed: the gc and
\* statistics goroutines notice the closed channel and return, so
\* ps.wg.Wait() returns.
StopCompletes == stopPc = "closing" ~> stopPc = "stopped"

\* No peer is both a seeder and a leecher of a swarm (the data model of
\* the spec, and its testable property 3).
SeedersLeechersDisjoint ==
  \A s \in ShardIds: \A sw \in SwarmsOf(s):
    DOMAIN sw.seeders \cap DOMAIN sw.leechers = {}

\* While the store is open, a peer that has gone unannounced for longer
\* than peerLifeTime is eventually removed by the periodic gc sweep
\* (ScheduleGC: "sweep expired peers every gcInterval").
ExpiredPeersPurged ==
  \A ih \in InfoHashes, p \in Peers:
    LET s == ShardIndex(ih, Family[p])
        Stale == /\ ih \in DOMAIN shards[s].swarms
                 /\ \/ /\ p \in DOMAIN shards[s].swarms[ih].seeders
                       /\ shards[s].swarms[ih].seeders[p] <= clock - PeerLifeTime
                    \/ /\ p \in DOMAIN shards[s].swarms[ih].leechers
                       /\ shards[s].swarms[ih].leechers[p] <= clock - PeerLifeTime
    IN [](Stale => <>(~Stale \/ closed))

----------------------------------------------------------------------------
(* Refinement: the store implements PeerStore.  The abstract maps of a     *)
(* torrent are the union of its swarms in the IPv4 and the IPv6 shards.    *)

\* The shards that hold a swarm of ih with p in its map r.
Holders(ih, r, p) ==
  {s \in ShardIds : ih \in DOMAIN shards[s].swarms
                    /\ p \in DOMAIN shards[s].swarms[ih][r]}

StoredMap(ih, r) ==
  LET held == {p \in Peers : Holders(ih, r, p) # {}}
  IN [p \in held |-> shards[CHOOSE s \in Holders(ih, r, p): TRUE].swarms[ih][r][p]]

Abstract == INSTANCE PeerStore WITH
  seeders <- [ih \in InfoHashes |-> StoredMap(ih, "seeders")],
  leechers <- [ih \in InfoHashes |-> StoredMap(ih, "leechers")],
  released <- stopPc = "stopped"

\* Every step of the handlers, the gc sweep over its stale snapshot, and
\* Stop is a step the peer-store contract allows: a put records the current
\* time, a delete or graduation removes only the named peer, and a gc pass
\* removes only peers last seen at least peerLifeTime before the time the
\* pass runs at.
RefinesPeerStore == Abstract!Spec

\* Once Stop has completed, the store holds no swarm: Stop releases all
\* swarm memory.
StoreEmptyAfterStop ==
  stopPc = "stopped" => \A s \in ShardIds: shards[s].swarms = EmptyMap

=============================================================================
