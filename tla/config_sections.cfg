SPECIFICATION ConfigSpec
CONSTANTS
    Documents <- Sectioned
    Given <- MCGiven
    Users <- MCUsers
    Numerals <- MCNumerals
INVARIANTS SectionNamesIgnored
CHECK_DEADLOCK FALSE
