\* A text and a malformed payload in one chunk: the text follows the error.
SPECIFICATION Spec
CONSTANTS
  Indices = {}
  Ids = {}
  NoId = NoId
  MaxFrames = 2
CHECK_DEADLOCK FALSE
INVARIANT NothingAfterError
