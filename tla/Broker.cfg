\* rcodex broker serving clients that wait for its responses, and clients
\* that do not; a list of the second host would not fit in a frame.
SPECIFICATION FairSpec
CONSTANTS
  Kinds = {"handshake", "pair", "list", "open", "malformed", "oversized", "app"}
  Ids = {1, 2}
  MaxFrames = 4
  MaxHosts = 1
  HostsThatFit = 0
INVARIANTS
  ResponsesFollowFrames
  PairedOnce
  BridgeStartsWhereRequestsEnd
PROPERTY EveryFrameIsAnswered
\* The broker ends with its input, or with an error.
CHECK_DEADLOCK FALSE
