SPECIFICATION Spec
CONSTANTS
    black = black
    local = local
    x = x
    y = y
    Names = {black, local, x, y}
    Blacklist = {black}
    LocalA = {local}
    LocalAAAA = {}
    Forms <- FormsAll
    MaxRequests = 3
    SIZE = 2
    DNS_TTL = 1
    Capacity = 2
    MaxCopies = 2
    MaxQueued = 1
    Upstream = "any"
    Relock = {"returns", "blocks"}
INVARIANTS
    TypeOK
    Accounted
    OneReply
    InRingOrder
    BlacklistHolds
    StrayAnswersAreOld
