CONSTANTS
    s1 = s1
    s2 = s2
    c1 = c1
    e1 = e1
    ip1 = ip1
    ip2 = ip2
    cl = cl
    es = es
    p1 = p1
    p2 = p2
    v1 = v1
    v2 = v2
    Proc = {p1, p2}
    Sub = {s1, s2}
    Company = {c1}
    Email = {e1}
    EmailOf <- OneOwner
    MaxRecords = 2
    MaxRows = 2
    Visit = {v1, v2}
    Ip = {ip1, ip2}
    Country = {cl, es}
    Lists <- TwoLists
SPECIFICATION IntegrationsSpec
CHECK_DEADLOCK FALSE
SYMMETRY Symmetric
CONSTRAINT Followed
INVARIANTS RecordsOnce AnswersHaveASource
PROPERTIES DealsFollow KnownStaysKnown
