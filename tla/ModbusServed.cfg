SPECIFICATION Spec
CONSTANTS
  Commands = {"start"}
  Addresses = {0, 1, 2, 3, 4, 5, 6}
  BitAddresses = {0, 1}
  Unmapped = none
  Setpoints = {"recipe_a", "recipe_b"}
  Accepted = {0}
  Raw = {0, 1}
  MaxBits = 2
  MaxRegisters = 3
  MaxLate = 2
  Maps <- TwoMaps
  External = {TRUE, FALSE}
INVARIANTS
  PollsAreServed
PROPERTIES
  ReturnedWasServed
  OutputsNeverHalfWritten
  EveryWordHasItsWriter
