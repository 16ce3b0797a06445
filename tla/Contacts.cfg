CONSTANTS
  ann = ann
  annComma = annComma
  Nodes = {n1, n2, n3}
  NullPtr = null
  Names = {ann, annComma}
  Numbers = {p1}
  Files = {f1}
  BeforeComma <- CutAtComma
  MaxLabels = 1
SPECIFICATION FairSpec
INVARIANTS
  ListLinked
PROPERTIES
  Implements
  LoopsEnd
