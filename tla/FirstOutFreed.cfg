SPECIFICATION LogSpec
CONSTANTS
  NumAlarms = 2
  WordBits = 3
PROPERTIES
  FirstOutSticks
