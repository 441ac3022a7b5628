\* Units of about two seconds: a lease of five, readings of at most four.
CONSTANTS
  Readers = {1, 2, 3}
  Lease = 5
  Gap = 1
  MaxRead = 4
SPECIFICATION Spec
INVARIANTS
  OneReader
PROPERTIES
  ReadAgain
