------------------------------- MODULE Tracker -------------------------------
(***************************************************************************)
(* The announce pipeline of spec.md section 2: a frontend decodes a        *)
(* request, runs the approval hooks (client approval, then torrent         *)
(* approval), and only then mutates or reads the peer store.  Requests are *)
(* handled concurrently, and the directory-watcher container changes its   *)
(* set of approved info-hashes while they run.                             *)
(*                                                                         *)
(* The hooks are the operators of ClientApproval and TorrentApproval; the  *)
(* store is the PeerStore specification, which MemoryPeerStore refines.    *)
(* The configuration of both hooks is any of those the options can give:  *)
(* any whitelist and blacklist of client IDs and malformed entries, and    *)
(* any initial_source (empty, registered or not) with or without a         *)
(* configuration.  When either NewHook fails, the tracker does not start   *)
(* and no request is handled.                                              *)
(* The frontends, the hook chain and the container are not in this         *)
(* repository and follow the spec: a hook that rejects ends the request    *)
(* with no store change, and a container update is atomic.                 *)
(***************************************************************************)
EXTENDS Integers, FiniteSets

CONSTANTS
  InfoHashes, Peers, ClientIDs,  \* model values
  Workers,                       \* concurrent request handlers
  BadEntries,                    \* configured strings that are not client IDs
  Containers, StoppableContainers, NoSource,
  Unregistered,                  \* an initial_source no container has
  InitiallyApproved,             \* info-hashes the container starts with
  Nil

VARIABLES
  seeders, leechers, clock, released,  \* the peer store
  approved,   \* the info-hashes the torrent container approves
  watching,   \* the directory watcher is running
  worker,     \* request handlers: [pc, req]
  whitelist, blacklist,     \* the client approval configuration
  torrentSource, configured \* the torrent approval configuration

storeVars == <<seeders, leechers, clock, released>>
configVars == <<whitelist, blacklist, torrentSource, configured>>
vars == <<storeVars, approved, watching, worker, configVars>>

Store == INSTANCE PeerStore WITH PeerLifeTime <- 1, MaxClock <- 0
CA(cid) == INSTANCE ClientApproval
TA == INSTANCE TorrentApproval

ClientHook == CA(Nil)!NewHook(whitelist, blacklist)
TorrentHook == TA!NewHook(torrentSource, configured)
Started == ~ClientHook.err /\ ~TorrentHook.err

ASSUME Unregistered \notin Containers \cup {NoSource}
ASSUME InitiallyApproved \subseteq InfoHashes

StoreOps == {"PutSeeder", "PutLeecher", "GraduateLeecher",
             "DeleteSeeder", "DeleteLeecher"}
Requests == [op: StoreOps \cup {"ScrapeSwarm"}, ih: InfoHashes,
             peer: Peers, client: ClientIDs]
Idle == [pc |-> "idle", req |-> Nil]

Init ==
  /\ whitelist \in SUBSET CA(Nil)!Entries
  /\ blacklist \in SUBSET CA(Nil)!Entries
  /\ torrentSource \in Containers \cup {NoSource, Unregistered}
  /\ configured \in BOOLEAN
  /\ Store!Init
  /\ approved = InitiallyApproved
  /\ watching = (TorrentHook.container \in StoppableContainers)
  /\ worker = [w \in Workers |-> Idle]

\* A frontend has decoded a request.
Receive(w) ==
  /\ worker[w].pc = "idle"
  /\ \E r \in Requests: worker' = [worker EXCEPT ![w] = [pc |-> "client", req |-> r]]
  /\ UNCHANGED <<configVars, storeVars, approved, watching>>

\* The client approval hook; a rejection ends the request.
RunClientHook(w) ==
  LET r == worker[w].req
      verdict == IF r.op = "ScrapeSwarm" THEN CA(Nil)!HandleScrape
                 ELSE CA(Nil)!HandleAnnounce(ClientHook, r.client)
  IN /\ worker[w].pc = "client"
     /\ worker' = [worker EXCEPT ![w] = IF verdict = "ok"
                                        THEN [@ EXCEPT !.pc = "torrent"]
                                        ELSE Idle]
     /\ UNCHANGED <<configVars, storeVars, approved, watching>>

\* The torrent approval hook reads the container once; a rejection ends the
\* request.
RunTorrentHook(w) ==
  LET r == worker[w].req
      verdict == IF r.op = "ScrapeSwarm" THEN TA!HandleScrape
                 ELSE TA!HandleAnnounce(approved, r.ih)
  IN /\ worker[w].pc = "torrent"
     /\ worker' = [worker EXCEPT ![w] = IF verdict = "ok"
                                        THEN [@ EXCEPT !.pc = "store"]
                                        ELSE Idle]
     /\ UNCHANGED <<configVars, storeVars, approved, watching>>

\* The store call the request maps to; deleting an absent peer is
\* ErrResourceDoesNotExist and a scrape only reads.
StoreCall(r) ==
  CASE r.op = "PutSeeder" -> Store!PutSeeder(r.ih, r.peer)
    [] r.op = "PutLeecher" -> Store!PutLeecher(r.ih, r.peer)
    [] r.op = "GraduateLeecher" -> Store!GraduateLeecher(r.ih, r.peer)
    [] r.op = "DeleteSeeder" /\ r.peer \in DOMAIN seeders[r.ih] ->
         Store!DeleteSeeder(r.ih, r.peer)
    [] r.op = "DeleteLeecher" /\ r.peer \in DOMAIN leechers[r.ih] ->
         Store!DeleteLeecher(r.ih, r.peer)
    [] OTHER -> UNCHANGED storeVars

WriteStore(w) ==
  /\ worker[w].pc = "store"
  /\ StoreCall(worker[w].req)
  /\ worker' = [worker EXCEPT ![w] = Idle]
  /\ UNCHANGED <<configVars, approved, watching>>

\* The directory watcher sees a file created or deleted.
WatcherAdd(ih) ==
  /\ watching /\ ih \notin approved
  /\ approved' = approved \cup {ih}
  /\ UNCHANGED <<configVars, storeVars, watching, worker>>

WatcherRemove(ih) ==
  /\ watching /\ ih \in approved
  /\ approved' = approved \ {ih}
  /\ UNCHANGED <<configVars, storeVars, watching, worker>>

\* Shutdown stops the hook, which stops a Stopper container.
StopTorrentHook ==
  /\ watching /\ TA!StopHook(TorrentHook) = "ContainerStopped"
  /\ watching' = FALSE
  /\ UNCHANGED <<configVars, storeVars, approved, worker>>

\* The tracker runs only when both NewHooks accepted their configuration.
Next ==
  /\ Started
  /\ \/ \E w \in Workers: Receive(w) \/ RunClientHook(w) \/ RunTorrentHook(w)
                          \/ WriteStore(w)
     \/ \E ih \in InfoHashes: WatcherAdd(ih) \/ WatcherRemove(ih)
     \/ StopTorrentHook

Spec == Init /\ [][Next]_vars

----------------------------------------------------------------------------
(* Properties                                                              *)

\* NewHook fails exactly for the configurations the contract calls errors,
\* and a built hook admits an announce iff its client is whitelisted (when
\* there is a whitelist) and not blacklisted, for every client.
ClientHookMatchesConfig ==
  \A c \in ClientIDs: CA(c)!ClientDecisionMatchesConfig

=============================================================================
