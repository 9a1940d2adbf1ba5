SPECIFICATION Spec
CHECK_DEADLOCK FALSE
CONSTANTS
  Bits = 8
  Width = 4
  Mantissa = 2
  IrregularTexts = FALSE
  IrregularCalls = FALSE
  IrregularCollections = FALSE
  IrregularNumbers = FALSE
  Alphabets <- MCAlphabets
  MaxItems = 3
  MaxLines = 4
  MaxRounds = 3
  MaxStrings = 4
  Parameters <- MCParameters
  Passed <- MCPassed
  Keyworded <- MCKeyworded
  Rests <- MCRests
  Yielded <- MCYielded
  Arrays <- MCArrays
  Positions <- MCPositions
  Replacements <- MCReplacements
  Nested <- MCNested
  Levels = {0, 1, 2, 3}
  Rows <- MCRows
  Ranges <- MCRanges
  Tables <- MCTables
  Additions <- MCAdditions
INVARIANTS LexesAsWritten CallsBindAsRuby CollectionsAsRuby NumbersAsRuby
