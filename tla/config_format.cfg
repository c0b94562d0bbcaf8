SPECIFICATION ConfigSpec
CONSTANTS
    Documents <- DocumentedForm
    Given <- MCGiven
    Users <- MCUsers
    Numerals <- MCNumerals
INVARIANTS FileMeansWhatItSays
CHECK_DEADLOCK FALSE
