SPECIFICATION Spec
CONSTANTS
  Batches <- MCBatches
  Settings <- MCSettings
  Chunk = 2
  MaxNameLen = 3
INVARIANTS StreamDecides PanelMirrors NamesSurvive
