SPECIFICATION AddedSpec
CONSTANTS
  s = s
  c1 = c1
  j1 = j1
  j2 = j2
  Serve = s
  Process <- MCProcess
  Command <- MCCommand
  Worker = {w1}
  Job = {j1}
  NoWorker = NoWorker
  HasDocker = FALSE
  MaxListeners = 3
  MaxCommands = 1
  MaxBoots = 2
  MaxFaults = 0
INVARIANT AdaptersComeUp
CHECK_DEADLOCK FALSE
