SPECIFICATION Spec
CONSTANTS
    i1 = i1
    i2 = i2
    i3 = i3
    i4 = i4
    i5 = i5
    writer = writer
    critic = critic
    None = None
    Instance = {i1, i2, i3, i4, i5}
    Agent = {writer, critic}
    ContextRange <- Ranges
    Length <- Lengths
    Offer <- LaunchedOffer
INVARIANTS
    TypeOK
    SlotsInverse
    IndexesExact
    LookupSound
