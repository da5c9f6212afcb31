SPECIFICATION PartsSpec
CONSTANTS
  Count = 5
  Raw <- SomeFigures
  PageSize = 2
  MaxPages = 2
  Caps = {1, 2}
  MaxLines = 4
  n1 = n1
  n2 = n2
  Addresses = {a1, a2}
  AddressLists <- ShortLists
  DnsServers = {n1, n2}
  DefaultDNS <- TwoServers
  DnsFiles <- ShortFiles
  MaxStarts = 2
INVARIANTS ExactOrRefused BalanceCovered ChatJudged ChatOwnConversation AsksAsConfigured OneChain OwnResult
PROPERTIES DialogSettles
CHECK_DEADLOCK FALSE
