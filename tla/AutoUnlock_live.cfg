SPECIFICATION FairSpec
CONSTANTS
  Proc = {p1}
  Calls = {c1}
  Users = {u1}
  ValidUser = u1
  MaxLocks = 1
CHECK_DEADLOCK FALSE
PROPERTIES OfferExpires RequestConsumed
