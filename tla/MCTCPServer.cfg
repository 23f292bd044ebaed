\* Three clients on two I/O loops (the third goes to the first loop again),
\* or on the base loop or on one; descriptors for two of them and idleFd_, one
\* of which another thread may take.
CONSTANTS
  Clients = {c1, c2, c3}
  MaxThreads = 2
  Limit = 3
  MaxTaken = 1
SPECIFICATION FairSpec
INVARIANTS OnceInOrder DescriptorsAccounted HeldWhileUp
PROPERTIES ClientsServed ClosedIsDeleted
