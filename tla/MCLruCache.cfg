SPECIFICATION Spec
CONSTANTS
    a = a
    b = b
    c = c
    Labels = {a, b, c}
    NoLabel = NoLabel
    Hash <- MCHash
    MaxLength = 4
    LRU_POP_ITEM = 2
    SizeofRecordData = 2
    LabelLen = 1
    Reserve = 3
    MaxSize = 3
    SizeMod = 64
    Answers <- MCAnswers
    DNS_CACHE_PERMANENT = 1000
    SameSecond = TRUE
    MaxNow = 1
INVARIANTS
    TypeOK
    ListMatches
    SlotAccounting
    IndexMatches
PROPERTIES
    ImplementsStore
    StoreReturns
