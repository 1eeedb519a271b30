CONSTANTS
  Peers = {p1, p2, p3}
  NumWants = {0, 1, 2, 3}
  NoPeer = NoPeer
SPECIFICATION Spec
INVARIANT AnnounceMatchesReference
INVARIANT ScrapeMatchesAnnounce
