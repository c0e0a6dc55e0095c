\* Any two calls on five kinds of note, on an index reloaded at any time.
CONSTANTS
  NoName   = NoName
  Vocabulary <- MCVocabulary
  Notes    <- MCNotes
  Params   <- MCParams
  Titles   = {"T", "U"}
  TagLists <- MCTagLists
  Contents <- MCContents
  Aims     = {"Part", "Sub", "Tail"}
  Words    <- MCWords
  Names    = {"mark", "Sub"}
  Segments <- MCSegments
  Uuids    = {"u1", "u2", "u3", "u4"}
  Quotes   <- MCQuotes
  RefWords = {"@key"}
  MaxCalls = 2
SPECIFICATION Spec
CHECK_DEADLOCK FALSE
INVARIANT TypeOK
INVARIANT ReadToolsAgree
PROPERTY FileIdKept
PROPERTY WrittenReadsBack
PROPERTY AnchorLeadsToText
PROPERTY TagsAsAnswered
PROPERTY UpdateReplays
PROPERTY ValidStaysValid
