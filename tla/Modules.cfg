\* Two admins, two workers, two installs, a fault and a crash of the API.
SPECIFICATION FairSpec
CONSTANTS
  Admins = {a1, a2}
  MaxWorkers = 2
  MaxInstalls = 2
  MaxFaults = 1
  MaxRestarts = 1
INVARIANTS
  WorkersAgree
  FilesMatchRow
PROPERTIES
  ClientKept
  HungWorkersEnd
