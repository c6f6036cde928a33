SPECIFICATION Spec
CONSTANTS
  MaxEntries = 8
  MaxExits = 2
INVARIANTS
  TypeOK ReadIsComplete ActedIsReadable FileInv
