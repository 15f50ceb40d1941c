SPECIFICATION EphemeralSpec
CONSTANTS
  Nothing = Nothing
  Page = 4
  MaxEntries = 12
  MaxBytes = 40
  MaxFollow = 3
  Mirrors = 2
  Batch = 2
  Invocations <- MCInvocations
  Worlds <- MCWorlds
INVARIANTS
  EphemeralTypeOK
  RunsAsPromised
  FootprintCovers
