SPECIFICATION FairSpec
CONSTANTS
  m1 = m1
  d1 = d1
  ip1 = ip1
  ip2 = ip2
  MdnsHost = {m1}
  DnsHost = {d1}
  IP = {ip1, ip2}
  Port = {7070}
  FileAddresses <- MCFile
  FlagAddresses <- MCFlag
  MaxAddresses = 2
INVARIANTS
  TypeOK
  TargetsComplete
  NothingLeftRunning
  StuckOnlyIfBothFail
  FlagsNeverBoot
PROPERTY BootEnds
