\* Two requests that overlap, no retry.
SPECIFICATION Spec
CONSTANTS
  NoRef = NoRef
  Handlers = {h1, h2}
  Refs = {t1, t2}
  Offered = {"request"}
SYMMETRY Symmetry
INVARIANT NeverChargedTwice
