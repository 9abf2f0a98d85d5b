SPECIFICATION Spec
CONSTANTS
  s = s
  c1 = c1
  j1 = j1
  j2 = j2
  Serve = s
  Process <- MCProcess
  Command <- MCCommand
  Worker = {w1}
  Job <- MCJob
  NoWorker = NoWorker
  HasDocker = TRUE
  MaxListeners = 3
  MaxCommands = 2
  MaxBoots = 2
  MaxFaults = 1
SYMMETRY Symmetry
VIEW View
INVARIANTS
  TypeOK
  CacheFresh
  BusyExcludes
  OrphansCleaned
PROPERTIES ServerKeepsRows ImplementsLease
CHECK_DEADLOCK FALSE
