CONSTANTS
  MaxSequenceBytes = 5
  MaxPaste = 1
  MaxContent = 6
  MaxDigits = 4
  MaxUnread = 4
SPECIFICATION DecoderSpec
INVARIANTS
  OneResultEach
  DiscardsToEndOfPaste
