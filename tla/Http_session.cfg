CONSTANTS
    LenMax = 127
    HeaderMax = 52
    BufferSize = 60
    MaxCuts = 2
    Keepalive = TRUE
    Units <- mc_Units
    Scripts <- mc_Scripts
SPECIFICATION FairSpec
INVARIANTS
    ServedExact
    MalformedRefused
    ParserAssertions
PROPERTY
    Answered
