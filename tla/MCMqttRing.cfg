CONSTANTS
  MAX_MSG_BUFFER_SIZE = 3
  MAX_MESSAGE_SIZE = 2
  Lengths = {1, 2, 3}
  MaxSent = 7
SPECIFICATION Spec
PROPERTIES
  ImplementsDropOldest
