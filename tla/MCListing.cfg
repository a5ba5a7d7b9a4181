SPECIFICATION FairSpec
CONSTANTS
  Names <- MCNames
  Slash <- sl
  Dot <- dot
  Banned <- NUL
  Json <- json
  DirMarker <- dirmarker
  Bucket <- TheBucket
  MaxKeyLength = 5
  Limit = 2
  Queries <- MCQueries
  MaxChanges = 2
INVARIANTS TypeOK NoRowTwice NothingSkipped NothingInvented OwnFiles
PROPERTY PagingEnds
