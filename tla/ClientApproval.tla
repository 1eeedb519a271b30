--------------------------- MODULE ClientApproval ---------------------------
(***************************************************************************)
(* The client approval hook of middleware/clientapproval/clientapproval.go:*)
(* NewHook builds the approved and unapproved client-ID sets from the      *)
(* configured whitelist and blacklist, HandleAnnounce admits or rejects an *)
(* announce by the client ID of its peer ID, HandleScrape always admits.   *)
(* A configured entry is a client ID (6 bytes) or a string of another      *)
(* length; the lists are sets here, since only their members matter.       *)
(***************************************************************************)
EXTENDS FiniteSets

CONSTANTS
  ClientIDs,   \* 6-byte client IDs (model values)
  BadEntries   \* configured strings that are not 6 bytes long (model values)

ASSUME ClientIDs \cap BadEntries = {}

Entries == ClientIDs \cup BadEntries
ConfigError == [err |-> TRUE, approved |-> {}, unapproved |-> {}]

\* NewHook: "using both whitelist and blacklist is invalid", then every
\* entry must be 6 bytes ("client ID ... must be 6 bytes").
NewHook(whitelist, blacklist) ==
  IF whitelist # {} /\ blacklist # {} THEN ConfigError
  ELSE IF (whitelist \cup blacklist) \cap BadEntries # {} THEN ConfigError
  ELSE [err |-> FALSE, approved |-> whitelist, unapproved |-> blacklist]

\* Mutant: a non-empty approved set is consulted only for members.
HandleAnnounceNoWhitelist(h, cid) ==
  IF h.unapproved # {} /\ cid \in h.unapproved THEN "ClientUnapproved"
  ELSE "ok"

\* HandleAnnounce on the client ID of req.Peer.ID.
HandleAnnounce(h, cid) ==
  IF h.approved # {} /\ cid \notin h.approved THEN "ClientUnapproved"
  ELSE IF h.unapproved # {} /\ cid \in h.unapproved THEN "ClientUnapproved"
  ELSE "ok"

\* HandleScrape: scrapes are always admitted.
HandleScrape == "ok"

----------------------------------------------------------------------------
(* The configuration and the client ID of an announcing peer.  Tracker     *)
(* chooses every configuration and checks the property for every client.   *)

VARIABLES whitelist, blacklist, cid

\* Startup fails exactly for the configurations the contract calls errors
\* (both lists given, or an entry that is not 6 bytes); a hook that is
\* built admits an announce iff its client is whitelisted (when there is a
\* whitelist) and not blacklisted.
ClientDecisionMatchesConfig ==
  LET h == NewHook(whitelist, blacklist) IN
  IF \/ whitelist # {} /\ blacklist # {}
     \/ \E e \in whitelist \cup blacklist: e \notin ClientIDs
  THEN h.err
  ELSE /\ ~h.err
       /\ (HandleAnnounce(h, cid) = "ok")
            <=> ((whitelist = {} \/ cid \in whitelist) /\ cid \notin blacklist)
=============================================================================
