SPECIFICATION Spec
CONSTANTS
    c1 = c1
    c2 = c2
    a1 = a1
    a2 = a2
    nobody = nobody
    Calls <- TheCalls
    Logins <- TheLogins
    Nobody <- nobody
    Attempts = 2
    MaxIssued = 3
    MaxStops = 1
SYMMETRY Symmetry
PROPERTIES
    NoStaleRefresh
    WithdrawnStaysOut
