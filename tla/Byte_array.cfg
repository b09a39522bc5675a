CONSTANTS
    m_baseSize = 2
    MaxSize = 5
    MaxWrites = 3
    Junk = Junk
    Raw <- mc_Raw
    Items <- mc_Items
SPECIFICATION ByteSpec
INVARIANTS
    ReadsBack
    PeeksRight
PROPERTY
    ImplementsByteSeq
