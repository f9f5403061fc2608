\* Texts of seven lexemes, nested twice; buffers that start with four bytes.
CONSTANTS
    NULL = NULL
    NoName = NoName
    Lower <- Cases
    Words = {"null"}
    TextOfWord <- WordText
    Numbers = {12}
    Literals <- Anywhere
    FirstLiterals <- First
    NestingLimit = 2
    MaxText = 7
    MaxFaults = 1
    IntMax = 24
    DefaultSize = 4
    Prebuffers = {0, 5}
    Slack <- MCSlack
CHECK_DEADLOCK FALSE
SPECIFICATION DocSpec
INVARIANTS TypeOK RecursionBounded ReadsInside Owned AcceptsJson PrintsWhatWasParsed PrintingFits
           StringsMeanTheirCharacters PathsFindTheirItems
