SPECIFICATION Spec
CONSTANTS
    t1 = t1
    t2 = t2
    h1 = h1
    h2 = h2
    h3 = h3
    r1 = r1
    r2 = r2
    Conns = {t1, t2}
    ServerCapacity = 2
    ClientCapacity = 2
    MaxTickets = 2
    Lifetime = 1
    StatefulLifetime = 2
    MaxTicketLifetime = 3
    MaxSkew = 1
    AgeModulus = 8
    Configs <- MCConfigs
    Requests = {r1, r2}
    Hosts = {h1, h2, h3}
    CertCapacity = 2
    MaxTemplates = 3
SYMMETRY MCSymmetry
INVARIANTS StoresExact EarlyDataFresh SecretsAgree TicketsOutlive CertOwn
CHECK_DEADLOCK FALSE
