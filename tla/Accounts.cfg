\* Two overlapping requests, of any route, by the owner of one shop and by an employee of it
\* or the owner of another.
SPECIFICATION Spec
CONSTANTS
    Requests = {r1, r2}
    a = a
    b = b
    ka = ka
    kb = kb
    kn = kn
    t1 = t1
    t2 = t2
    t3 = t3
    b1 = b1
    b2 = b2
    Emails = {a, b}
    Tokens = {ka, kb, kn}
    Tenants = {t1, t2, t3}
    Barbers = {b1, b2}
    BarberTenant <- BarbersTenant
    InitialDatabases <- Databases
    None = None
INVARIANTS TypeOK
PROPERTIES LinkInTenant RevokedStays BarberRoleLinked AnsweredAsStored
