SPECIFICATION UserSpec
CONSTANTS
    None = None
    Passwords = {p1, p2}
    Logins = {l1, l2}
    MaxUsers = 4
INVARIANTS ListIsGranted
PROPERTY AddKeepsAuth
CHECK_DEADLOCK FALSE
