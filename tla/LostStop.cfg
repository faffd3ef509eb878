SPECIFICATION FairSpec
CONSTANTS
  c1 = c1
  c2 = c2
  None = None
  Clients = {c1, c2}
  NThreads = 1
  Signals = {"SIGTERM"}
  IdOf <- MCIdOf
  StringOf <- MCStringOf
  Jobs <- MCJobs
  Lines <- MCLines
  Strip <- MCStrip
  IdIn <- MCIdIn
  W = 8
PROPERTY SignalReceivedEnds
