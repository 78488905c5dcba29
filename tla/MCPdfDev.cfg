SPECIFICATION Spec
CONSTANTS
  Font <- MCFont
  Composite <- MCComposite
  Tall <- MCTall
  Slanted <- MCSlanted
  Bold <- MCBold
  Dirs = {0, 1, 3}
  Color = {"black", "red"}
  ColorMax = 2
  MaxDepth = 4
  MaxForms = 2
INVARIANTS
  DevTypeOK
  SyntaxRight
  ShowsRight
  FontsListed
  FillFollowsStack
  CachesRight
CHECK_DEADLOCK FALSE
