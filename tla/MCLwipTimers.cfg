CONSTANTS
  arp_timer = arp_timer
  ip_reass_timer = ip_reass_timer
  TcpTimer = tcpip_tcp_timer
  Handlers = {arp_timer, ip_reass_timer, tcpip_tcp_timer}
  Interval <- MCInterval
  MboxSize = 2
  WordSize = 10
  configTICK_RATE_HZ = 2
  MaxLate = 1
SPECIFICATION FairSpec
INVARIANTS
  TypeOK
  EachTimerOnce
PROPERTIES
  FiresOnTime
  TimersGoOn
