SPECIFICATION TextSpec
CONSTANTS
    Alphabets <- BracketAlphabets
    MaxChars = 4
    NoText = NoText
INVARIANT
    SplitsAtDelimiters
