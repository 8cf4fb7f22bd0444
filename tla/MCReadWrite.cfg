SPECIFICATION ContentsSpec
CONSTANTS
  File = {0, 1}
  Byte = {0, 1}
  Unsaid = Unsaid
  SECTOR = 2
  SECTS = 2
  BUFFER = 2
  Text <- Requests
INVARIANT ReadsBack
