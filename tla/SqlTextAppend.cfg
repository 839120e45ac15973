SPECIFICATION TextSpec
CONSTANTS
    Alphabets <- LiteralAlphabets
    MaxChars = 5
    NoText = NoText
INVARIANT
    AppendedStandsAlone
