CONSTANTS
  ann = ann
  annComma = annComma
  Nodes = {n1}
  NullPtr = null
  Names = {ann}
  Numbers = {p1}
  Files = {f1}
  BeforeComma <- CutAtComma
  MaxLabels = 1
SPECIFICATION Spec
INVARIANT
  LoadBringsBack
