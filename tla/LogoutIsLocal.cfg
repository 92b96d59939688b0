CONSTANTS
    admin = admin
    ann = ann
    w1 = w1
    w2 = w2
    changeme = changeme
    p1 = p1
    none = none
    Users <- MCUsers
    Seed = admin
    Passwords = {changeme}
    DefaultPw = changeme
    Workers <- MCWorkers
    MaxSid = 2
    MaxVersion = 2
    MaxBorn <- MCMaxBorn
    Granted = {"full", "user"}
    Resets = {}
    Faults = FALSE
    Absent = none
SPECIFICATION Spec
SYMMETRY Symmetry
PROPERTY LogoutIsLocal
