SPECIFICATION Spec
CONSTANTS
  n0 = n0
  n1 = n1
  t0 = t0
  t1 = t1
  NoName = NoName
  NoText = NoText
  MaxId = 2
  MaxTasks = 2
  Names <- TwoNames
  Texts <- TwoTexts
  Settings <- IdInUse
INVARIANTS NewFilesAreNew
