CHECK_DEADLOCK FALSE
CONSTANTS
  Peers = {p1, p2, p3}
  Nobody = Nobody
  Backlog = 2
  Calls = {"bind", "listen", "accept", "stop"}
SPECIFICATION FairSpec
INVARIANTS
  SelectsOnListening
  AnnouncedIsThere
PROPERTIES
  ConnectionsServed
  StoppedAwakeReleases
