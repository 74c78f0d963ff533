SPECIFICATION Spec
CONSTANTS
  Registers = 1
  Value <- Bits
  Users <- UdpAndTelnet
  None = None
  UdpRequests <- MCUdpRequests
  TelnetRequests <- MCTelnetRequests
INVARIANT
  TypeOK
PROPERTIES
  WritesWhereAsked
  ImplementsService
