CONSTANTS
  Wsi = {w1, w2}
  Commands = {Feed}
  Other = {Ack}
  MAX_SIZE = 4
  LWS_PRE = 1
  Appended = {1, 3}
  SEND_INTERVAL = 0
  TIMEOUT_ACK = 1
SPECIFICATION Spec
INVARIANTS  UniquePlayers CommandsPressed SessionInv
PROPERTIES PacedSends BuffersKept OverrunsAreSudden Joins SentOrDropped
