SPECIFICATION FairSpec
CONSTANTS
  Documents <- MCDocuments
  ArgListChunkSize = 2
  SectionName <- Named
  RefusedOption <- MCRefusedOption
  BlockOption <- MCBlockOption
  LinesOption <- MCLinesOption
  IndexOption <- MCIndexOption
  Counts = {0, 1, 256}
  MaxMissing = 1
  None = None
CHECK_DEADLOCK FALSE
INVARIANTS
  TypeOK
  ReadsDocument
  FourGetTheirSections
  RunsWhole
PROPERTIES
  StartupEnds
