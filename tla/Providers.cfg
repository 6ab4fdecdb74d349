\* The provider layer, part by part: one caller who edits two providers and keys twice,
\* every response of two frames or three lines, every script of three objects.
SPECIFICATION ProvidersSpec
CONSTANTS
  k1 = k1
  bad = bad
  Caller = {c1}
  Config <- MCConfig
  Ref = {"r1", "r2"}
  Key = {k1, bad}
  BadKey = {bad}
  None = None
  Status = {200, 404, 503}
  Port = {"443"}
  Policies <- MCPolicies
  Conversation <- MCConversation
  Family = {{}, {"multimodal"}}
  MaxEdits = 2
  MaxRotations = 2
  Indices = {0}
  Ids = {a, b}
  NoId = NoId
  MaxFrames = 2
  MaxLines = 3
  CallTexts <- MCCalls
  OtherTexts <- MCOthers
  MaxTexts = 3
  Dialogues <- MCDialogues
CHECK_DEADLOCK FALSE
INVARIANTS LeaveBeforeSend KeysStayHome EverythingSurfaces EveryCallOnce 
PROPERTIES PromptsEnd ImplementsChatStream Ends
