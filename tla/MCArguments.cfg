\* One name is enough: the code handles every name by itself.
CONSTANT
  Names = {x}
SPECIFICATION Spec
INVARIANTS
  TypeOK
  OnlyVettedTexts
  StrongestSourceWins
  ClientFlagsWin
