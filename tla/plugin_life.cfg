\* Two hosts that share both libraries and decrypt with buffers of up to 2
\* bytes and samples of up to 2.
SPECIFICATION Spec
CONSTANTS
  Hosts = {m1, m2}
  Objects = {o1, o2}
  Handles = {c1, c2}
  NULL = NULL
  MaxBuffer = 2
  MaxSample = 2
SYMMETRY HostSymmetry
INVARIANTS StaticIsLive NothingForgotten HeldHasReferenceData
INVARIANTS CallClosesItsConnection WritesFit OkMeansCopied
