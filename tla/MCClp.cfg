SPECIFICATION Spec
CONSTANTS
  Parts = {"extract", "grep", "ffi", "ir", "tables", "pattern", "glt"}
  MaxInt <- MCMaxInt
  FloatDigits <- MCFloatDigits
  DigitsField <- MCDigitsField
  Archives <- GrepArchives
  Cases <- GrepCases
  SchemaVars <- GrepSchemaVars
  Half = 3
  Minutes = 2
  Seconds = 2
  Milli = 1
  Nano = 2
  Ticks = 2
  IntMax = 9999
  PointMax = 150000000
  Lines <- PatternLines
  OldTexts <- PatternOld
  MaxLines = 3
INVARIANTS FilesRestored   TimesRestored 
CHECK_DEADLOCK FALSE
