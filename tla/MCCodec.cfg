SPECIFICATION Spec
CONSTANTS
    GroupBits = 2
    MaxBytes = 4
    FastBytes = 2
    NumBits = 3
    MaxFieldNum = 1
    Fixed32 = 1
    Fixed64 = 2
    Schema <- MCSchema
    Root = ".M"
    MAX_NESTING_DEPTH = 2
    HalfBits = 3
    WireFields <- MCWireFields
    MaxFields = 2
    MAX_TYPE_DEPTH = 3
    Columns <- MCColumns
    MaxColumns = 2
    Digits = {"2", "3"}
    annotate_variant_extension = TRUE
INVARIANTS
    VarintIsReference
    FieldsArePrefixFree
    ConcatIsMerge
    OneofExclusive
    DepthLimit
    TableReadsBack
    RequiredAtEveryDepth
CHECK_DEADLOCK FALSE
