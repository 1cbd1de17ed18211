SPECIFICATION TarjanSpec
CONSTANTS
  Graphs <- SmallGraphs
INVARIANTS
  LowlinkWitnessed
PROPERTIES
  FindsComponents
