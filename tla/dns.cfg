SPECIFICATION Spec
CONSTANTS
  Setups <- MCSetups
  Addresses <- MCAddresses
  IPv4 <- MCIPv4
  IPv6 <- MCIPv6
  Unset = Unset
  NoArg = NoArg
  NotANumber = NotANumber
  Hostname = "node"
  Invalid = Invalid
  NoBlock = NoBlock
  Containers <- MCContainers
  Labels <- MCLabels
  TrimSpace <- MCTrim
  Lower <- MCLower
  Bytes <- MCBytes
  MaxLength = 3
  Questions <- MCQuestions
  Types <- MCTypes
  Static <- MCStatic
  PeerRecords <- MCPeerRecords
  External <- MCExternal
INVARIANTS TypeOK KnownAnswered  AddressAsAsked PassedOnAnswered
CHECK_DEADLOCK FALSE
