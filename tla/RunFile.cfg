SPECIFICATION FilesSpec
CONSTANTS
  Agent = {a1, a2, a3, a4}
  NoAgent = NoAgent
SYMMETRY Symmetry
INVARIANTS
  AloneUnlessCrossed
  FoundUnlessCrossed
PROPERTY
  RefusalExplained
