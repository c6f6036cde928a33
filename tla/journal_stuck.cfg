CONSTANTS
  MaxEntries = 5
  MaxExits = 1
SPECIFICATION Spec
PROPERTY NextPassManages
