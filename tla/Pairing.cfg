SPECIFICATION Spec
CONSTANTS
    d1 = d1
    d2 = d2
    p1 = p1
    t1 = t1
    t2 = t2
    r1 = r1
    r2 = r2
    s1 = s1
    s2 = s2
    h1 = h1
    h2 = h2
    name = name
    none = none
    Dev = {d1}
    NameOf <- MCNameOf
    Pair = {p1}
    Tok = {t1, t2}
    Req = {r1, r2}
    Sess = {s1, s2}
    Handler = {h1, h2}
    MaxTokenFailures = 1
INVARIANTS
    TypeOK
    NoStraySession
    OneRequestPerToken
PROPERTIES
    VerdictStands
SYMMETRY Interchangeable
