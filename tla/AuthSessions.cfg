CONSTANTS
    admin = admin
    ann = ann
    w1 = w1
    w2 = w2
    changeme = changeme
    p1 = p1
    none = none
    Users <- MCUsers
    Seed = admin
    Passwords <- MCPasswords
    DefaultPw = changeme
    Workers <- MCWorkers
    MaxSid = 2
    MaxVersion = 1
    MaxBorn <- MCMaxBorn
    Granted = {"full", "user"}
    Resets <- MCResets
    Faults = TRUE
    Absent = none
SPECIFICATION Spec
SYMMETRY Symmetry
INVARIANTS
    TypeOK
    PasswordBinding
    AdmittedWasLive
    FullAdminRemains
PROPERTIES
    GoneStaysGone
    TableOfSignIns
