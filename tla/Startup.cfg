CONSTANTS
  Char <- MCChar
  ConfigFiles <- MCConfigFiles
  ListFiles <- MCListFiles
  Wanted <- MCWanted
  Optional <- MCOptional
  Threads = {2}
SPECIFICATION StartupSpec
INVARIANTS
  StartupTypeOK
  ConfigIsLineWise
  ListIsLineWise
