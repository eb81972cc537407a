\* Two requests, two services of one stack, outside changes, failing calls.
CONSTANTS
  h1 = h1  h2 = h2  s1 = s1  s2 = s2  st1 = st1  i1 = i1  i2 = i2
  Handler = {h1, h2}
  Service = {s1, s2}
  Stack = {st1}
  Image = {i1, i2}
  EngineFails = TRUE
  MaxWork = 3
  NoStack = NoStack
  Global = Global
  NoSpec = NoSpec
  InitSpecs <- MCInitSpecs
  BodySpecs <- MCBodySpecs
  Pushes <- MCPushes
SPECIFICATION Spec
SYMMETRY Symmetry
INVARIANTS TypeOK SnapshotsCoherent CountsWereReal ActivateStartsAll
PROPERTIES NoLostUpdate EditsAreAtomic
