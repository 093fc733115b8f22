SPECIFICATION FairSpec
CONSTANTS
    Kinds = {"pfd", "session"}
    ssh_is_simple = FALSE
    OUR_V2_WINSIZE = 2
    OUR_V2_BIGWIN = 2
    LOCMAX_LIMIT = 4
    FIXED_WINDOW = 1
    Asks = {"pty"}
    remote_cmd2 = TRUE
    seat_eof = FALSE
    PeerWindow = 1
    MaxIn = 1
    MaxOut = 1
    MaxAdjust = 0
    MaxReq = 1
CHECK_DEADLOCK FALSE
PROPERTY ZombieEnds
PROPERTY CloseEnds
