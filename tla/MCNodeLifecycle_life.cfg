\* A node started twice by hand and one under node-manager, on one machine or
\* on two, and a client; two deaths and a crash of the main server.
CONSTANTS
  ByHand = {n1}
  Managed = {m1}
  Clients = {c1}
  MaxStarts = 2
  MaxDeaths = 2
  MaxCrashes = 1
SPECIFICATION FairSpec
INVARIANT TypeOK
INVARIANT EntriesAnnounced
INVARIANT RefusedByStarting
PROPERTY DeadNodesUnlisted
PROPERTY AnnouncedListed
PROPERTY StartupEnds
PROPERTY BackInService
\* A node that nobody starts again stays down.
CHECK_DEADLOCK FALSE
