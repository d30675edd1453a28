SPECIFICATION Spec
CONSTANTS
    black = black
    local = local
    x = x
    y = y
    Names = {black, local, x, y}
    Blacklist = {black}
    LocalA = {local}
    LocalAAAA = {}
    Forms <- FormsCached
    MaxRequests = 3
    SIZE = 2
    DNS_TTL = 1
    Capacity = 2
    MaxCopies = 1
    MaxQueued = 2
    Upstream = "timely"
    Relock = {"returns"}
INVARIANTS
    RightAnswer
