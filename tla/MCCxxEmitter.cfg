SPECIFICATION Spec
CONSTANTS
  Units <- MCUnits
  Texts <- MCTexts
  Originals <- MCOriginals
  OutputBound = 4
  IndentBound = 1
INVARIANTS
  TypeOK
  LookupsAgree
PROPERTIES
  KeepsProvenance
