\* Failures enough for the backoff to reach its limit, and processes enough
\* for the orphans of two sessions.
CONSTANTS
  Procs = {p1, p2, p3, p4}
  Urls = {"local", "cloud"}
  MaxFaults = 6
SPECIFICATION Spec
SYMMETRY ProcSymmetry
INVARIANTS TypeOK OneAgentPerSession WatchedClosely OneOrphanPerFault
