\* Two spaces under two aliases, two links, two requests in flight.
CONSTANTS
  s1 = s1  s2 = s2  a1 = a1  a2 = a2  k1 = k1  k2 = k2  n1 = n1  r1 = r1  r2 = r2
  Spaces = {s1, s2}
  Aliases = {a1, a2}
  Links = {k1, k2}
  Names = {n1}
  Requests = {r1, r2}
  NoSpace = NoSpace
  NoAlias = NoAlias
  NoLink = NoLink
  NoName = NoName
SPECIFICATION Spec
SYMMETRY Symmetry
INVARIANTS ApiTypeOK NothingInDeadSpace
PROPERTIES OwnSpaceOnly ForcedIsAudited DeleteAnswers AbandonedInert
