-------------------------- MODULE TorrentApproval --------------------------
(***************************************************************************)
(* The torrent approval hook of middleware/torrentapproval/              *)
(* torrentapproval.go.  NewHook checks the options and asks the container  *)
(* registry for the named container; HandleAnnounce admits an announce     *)
(* iff the container approves its info-hash; HandleScrape always admits;   *)
(* Stop stops the container if it is a stop.Stopper.                       *)
(*                                                                         *)
(* The container package is not part of this repository: its registry     *)
(* (GetContainer fails for a name that is not registered) and its two      *)
(* containers (a static list, and a directory watcher that is a Stopper)   *)
(* are taken from spec.md section 4.2.  A container's state is the set of  *)
(* info-hashes it approves, passed to the operators below.                 *)
(***************************************************************************)
CONSTANTS
  Containers,          \* names registered with the container registry
  StoppableContainers, \* the containers that implement stop.Stopper
  NoSource             \* the empty initial_source

ASSUME StoppableContainers \subseteq Containers /\ NoSource \notin Containers

HookError == [err |-> TRUE, container |-> NoSource]

\* container.GetContainer: the container registered under the name.
GetContainer(source) ==
  IF source \in Containers THEN [err |-> FALSE, container |-> source]
  ELSE HookError

\* driver.NewHook: "name not provided" for an empty initial_source,
\* "options not provided" for a missing configuration, then the registry.
NewHook(source, configured) ==
  IF source = NoSource THEN HookError
  ELSE IF ~configured THEN HookError
  ELSE GetContainer(source)

HandleAnnounce(approved, ih) ==
  IF ih \notin approved THEN "TorrentUnapproved" ELSE "ok"

\* hook.HandleScrape: "Scrapes don't require any protection."
HandleScrape == "ok"

\* hook.Stop: the container's Stop if it is a stop.Stopper, else
\* stop.AlreadyStopped.
StopHook(h) ==
  IF h.container \in StoppableContainers THEN "ContainerStopped"
  ELSE "AlreadyStopped"
=============================================================================
