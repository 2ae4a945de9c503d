SPECIFICATION FilesSpec
CONSTANTS
  Agent = {a1, a2, a3}
  NoAgent = NoAgent
SYMMETRY Symmetry
CONSTRAINT
  OneAtATime
INVARIANT
  Findable
