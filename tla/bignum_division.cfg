CONSTANTS
  ATOMBITS = 7
  Literals <- CLiterals
  Limit = 1000
  PowerLimit = 100
  Exponents <- CExponents
  RandomAtoms = {0, 127}
  MaxCommands = 2
SPECIFICATION Spec
INVARIANT DivisionExact
