CONSTANTS
  h1 = h1
  h2 = h2
  p1 = p1
  c1 = c1
  c2 = c2
  b1 = b1
  w1 = w1
  w2 = w2
  list = list
  directory = directory
  NoSource = NoSource
  Nil = Nil
  InfoHashes = {h1, h2}
  Peers = {p1}
  ClientIDs = {c1, c2}
  Workers = {w1, w2}
  BadEntries = {b1}
  Containers = {list, directory}
  StoppableContainers = {directory}
  Unregistered = Unregistered
  InitiallyApproved = {h1}
SPECIFICATION Spec
CHECK_DEADLOCK FALSE
INVARIANT ClientHookMatchesConfig 
