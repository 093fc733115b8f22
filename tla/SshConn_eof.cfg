SPECIFICATION Spec
CONSTANTS
  SSH_MAX_BACKLOG = 1
  RecvBuf = 2
  Bodies = {1, 3}
  OutLen = 2
  Channels = {c1}
  MaxPackets = 2
  MaxOut = 2
PROPERTY EofReported
CHECK_DEADLOCK FALSE
