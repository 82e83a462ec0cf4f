SPECIFICATION Spec
CONSTANTS
    UserWords <- UserWordsDef
    RunWords <- RunWordsDef
INVARIANTS
    Unambiguous
    OwnWordDecoded
    DecodedAsSpecified
