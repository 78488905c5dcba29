SPECIFICATION DviSpec
CONSTANTS
  Font <- MCFont
  Char = {1, 2}
  Width <- MCWidth
  Mapped = {"a", "b"}
  HasVf = {"v", "u"}
  HasDev = {"a", "b"}
  Packets <- MCPackets
  Default <- MCDefault
  Documents <- MCDocuments
  StackMax = 4
  NestMax = 3
  MaxPages = 2
INVARIANTS DviTypeOK LayoutRight LinksCover LinesApart
CHECK_DEADLOCK FALSE
