SPECIFICATION Spec
CONSTANTS
  SpanId = {s1, s2, s3}
  NoParent = NoParent
  MaxSpans = 3
  NoName = NoName
  a = a
  b = b
  c = c
  Name = {a, b}
  Agent = {c}
  Scopes <- SomeScopes
  MaxOrder = 2
INVARIANTS
  TypeOK
  AcceptsForests
  PassesWhenEmbedded
  ScopeKeepsVerdict
PROPERTIES
  WalkEnds
CHECK_DEADLOCK FALSE
