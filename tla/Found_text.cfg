SPECIFICATION MCSpec
CONSTANTS
  Startup = startup
  Parsers = {gui, evaluation}
  Periods <- MCPeriods
  NoText = NoText
  MaxHour = 2
  MaxDay = 1
  Names = {"a", "b"}
  Dates <- MCDates
  Listed <- MCListed
  MAXIMUM_TAGS = 2
  MaxTokens = 4
INVARIANT
  AlwaysDescribed
