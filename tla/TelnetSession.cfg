SPECIFICATION TelnetSpec
CONSTANTS
  LINEBUF_LENGTH = 5
  WORD_DIGITS = 2
  MBOX_SIZE = 2
  Packets <- MCPackets
  MaxPackets = 4
INVARIANTS CommandsAreLines DumpAddresses
PROPERTY SessionEnds
