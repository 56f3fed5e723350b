\* Two handlers, two collections, two records and one hash value.
CONSTANTS
  Handlers = {h1, h2}
  Keys = {k1, k2}
  Records = {r1, r2}
  ItemIds = {i1, i2}
  Hashes = {x}
  None = None
SPECIFICATION Spec
INVARIANT IInv
PROPERTY Implements
