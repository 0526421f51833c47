SPECIFICATION StandaloneSpec
CONSTANTS
  a1 = a1
  NoAction = NoAction
  MaxEvents = 2
  Ids = {1, 2}
  Actions = {a1}
  Kinds = {"ONCE", "ON"}
  Window = "app"
  Careful = TRUE
  MaxDepth = 2
  MaxRcpts = 2
  MaxSends = 2
  MaxLines = 2
  AesBlock = 2
  MaxText = 3
  Passwords = {"p"}
  BlockSize = 4
  LengthBytes = 2
  Word = 8
  Bits = 2
  MaxMessage = 10
  SomeBytes <- MCBytes
  MaxString = 4
  MaxSubLen = 4
  Texts <- MCTexts
  SectionTexts <- MCSectionTexts
  MaxAdds = 4
  Values <- MCValues
  FieldCount = 2
  FieldLists = {1}
  BufferLength = 4
  MaxRecords = 2
INVARIANT UsedIsExact
INVARIANT OneSlotPerEvent
INVARIANT NoEmptyHolder
INVARIANT AnswersInStep
INVARIANT RecipientsOfThisSend
INVARIANT OpensIfGenuine
INVARIANT StreamIsDigest
INVARIANT EncodingFitsAndDecodes
INVARIANT SavedOpens
INVARIANT SaveSettles
INVARIANT CopyAllOrNothing
PROPERTY HandlersKept
PROPERTY OnceIsOnce
PROPERTY SlotsAreARegistry
PROPERTY SendTellsTheTruth
PROPERTY CallReturns
CHECK_DEADLOCK FALSE
