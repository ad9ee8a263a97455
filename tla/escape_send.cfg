CONSTANTS
  PayloadBytes <- TellingBytes
  PayloadMax = 3
  Copies <- AnyCopy
  NoLine = NoLine
SPECIFICATION SenderSpec
INVARIANTS
  LineIsEscaped
  LineReadsBack
