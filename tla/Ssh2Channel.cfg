SPECIFICATION Spec
CONSTANTS
    Kinds = {"pfd", "x11"}
    ssh_is_simple = FALSE
    OUR_V2_WINSIZE = 2
    OUR_V2_BIGWIN = 2
    LOCMAX_LIMIT = 4
    FIXED_WINDOW = 1
    Asks = {"pty"}
    remote_cmd2 = TRUE
    seat_eof = FALSE
    PeerWindow = 1
    MaxIn = 3
    MaxOut = 2
    MaxAdjust = 1
    MaxReq = 0
CHECK_DEADLOCK FALSE
INVARIANT SendWindowAgrees
INVARIANT ReceiveWindowAgrees
INVARIANT SilentAfterClose
INVARIANT EofAfterData
INVARIANT NothingForgotten
INVARIANT ClosesCleanly
INVARIANT BacklogWithinWindow
