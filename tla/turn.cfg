\* Three turns and five chunks; the collector's cap is reached by two or three chunks.
CONSTANTS
  MaxTurns = 3
  MaxChunks = 5
  Sizes = {1, 2}
  MaxBytes = 3
SPECIFICATION FairSpec
INVARIANTS
  AnswersItsRequest
  OneReader
  OutputInOrder
PROPERTIES ReadersEnd
