\* Two processes, a path that is removed and created again, files that are
\* updated twice.
SPECIFICATION Spec
CONSTANTS
  Processes = {p1, p2}
  Files = {f1, f2}
  NULL = NULL
  Faults = {"statement", "commit"}
  MaxUpdates = 2
CONSTRAINT NoOrphan
SYMMETRY ProcessSymmetry
INVARIANTS NoLostUpdate TableStaysThere
