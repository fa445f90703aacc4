SPECIFICATION Spec
CONSTANTS
  Runs = {r1, r2}
  UserKeys = {"allowInvoke", "maxBytes"}
  ProjectKeys = {"directUrl"}
  Before = Before
  Client = Client
  Options <- MCOptions
  JsonFiles <- MCJsonFiles
  TomlFiles <- MCArrayFiles
PROPERTIES
  ReplacesOnlyItsEntry
\* Every run of setup ends.
CHECK_DEADLOCK FALSE
