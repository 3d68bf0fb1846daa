SPECIFICATION Spec
CONSTANTS
  None = None
  Owners = {o1}
  ListingIds = {l1}
  PhotoIds = {p1, p2, p3}
  Requests = {r1, r2}
  Configurations <- mcConfigurations
  FirstConfiguration <- mcFirst
  Forms <- mcForms
  Usages <- mcUsages
  MediaLimit = 1
  MaxVersions = 2
  MaxDraws = 2
  MaxPosition = 2
INVARIANTS PinnedAnswersFit PointMatchesAddressInTurn PublishedCompleteInTurn PhotographsHaveBytes
  WithinMediaLimit
PROPERTIES NeitherOverrides
SYMMETRY mcSymmetry
CHECK_DEADLOCK FALSE
