\* The server's tokens live as long as getAccessToken takes them to.
CONSTANTS
    Senders = {new, s1}
    New = new
    Timeout = 1
    Margin = 5
    Lifetime = 7
    Lifetimes = {7, 9}
    MaxTime = 13
SPECIFICATION Spec
INVARIANTS TypeOK NoExpiredTokenIsSent
CHECK_DEADLOCK FALSE
