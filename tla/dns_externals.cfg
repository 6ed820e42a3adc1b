SPECIFICATION Spec
CONSTANTS
  Setups <- MCShipped
  Addresses <- MCAddresses
  IPv4 <- MCIPv4
  IPv6 <- MCIPv6
  Unset = Unset
  NoArg = NoArg
  NotANumber = NotANumber
  Hostname = "node"
  Invalid = Invalid
  NoBlock = NoBlock
  Containers <- MCContainers
  Labels <- MCLabels
  TrimSpace <- MCTrim
  Lower <- MCLower
  Bytes <- MCBytes
  MaxLength = 3
  Questions <- MCQuestions
  Types <- MCTypes
  Static <- MCStatic
  PeerRecords <- MCPeerRecords
  External <- MCExternal
INVARIANT ExternalsServed
CHECK_DEADLOCK FALSE
