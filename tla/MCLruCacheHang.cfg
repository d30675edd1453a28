SPECIFICATION Spec
CONSTANTS
    a = a
    b = b
    c = c
    Labels = {a, c}
    NoLabel = NoLabel
    Hash <- MCHash
    MaxLength = 3
    LRU_POP_ITEM = 2
    SizeofRecordData = 2
    LabelLen = 1
    Reserve = 3
    MaxSize = 3
    SizeMod = 64
    Answers <- MCAnswers
    DNS_CACHE_PERMANENT = 1000
    SameSecond = FALSE
    MaxNow = 3
PROPERTIES
    StoreReturns
