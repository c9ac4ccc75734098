SPECIFICATION Spec
CONSTANTS
  WordBytes = 2
  LongBits = 8
  WordBits = 4
  PRINTF_BUFMAX = 3
  MaxTokens = 4
  A = 3
  B = 7
  Byte <- MCByte
  SizeOf <- MCSizeOf
  Memories <- MCMemories
  Chars <- MCChars
  Directives <- MCDirectives
  Formats <- MCFormats
  Readable <- MCReadable
INVARIANTS
  OutputAsAsked
  NumbersReadBack
  DivisionExact
PROPERTIES
  StringCallsKeepTheirPromise
CHECK_DEADLOCK FALSE
