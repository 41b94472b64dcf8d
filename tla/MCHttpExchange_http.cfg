SPECIFICATION Spec
CONSTANTS
  Messages <- MCMessages
  NoRequest = NoRequest
  NoMessage = NoMessage
  MaxRequest = 28
  MaxBody = 10
  MethodMax = 2
  PathMax = 2
  SizeMax = 63
  ObjectMax = 31
  FirstCap = 2
  Texts = {0, 1, 3, 18}
  HeaderLen = 2
  FixedBody = 3
INVARIANTS
  ReadsWhatWasSent
  WritesFit
  LoopsEnd
  ResponseIsExact
