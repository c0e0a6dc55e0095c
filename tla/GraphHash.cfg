SPECIFICATION Spec
CONSTANTS
  f1 = f1
  f2 = f2
  Files = {f1, f2}
  Names = {"a", "b", "s", "t"}
  Tags = {"Tag", "tag"}
  NoName = NoName
  SlugsOf <- MCSlugsOf
  Fold <- MCFold
  Texts <- MCTexts
  MaxEdits = 1
INVARIANT HashIsOfRows
