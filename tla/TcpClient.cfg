SPECIFICATION FairSpec
CONSTANTS
  Block = {b1, b2, b3, b4}
  NULL = NULL
INVARIANTS TcpTypeOK WritesToLive
PROPERTIES OnlyErrorsAbandon ReportsResume
