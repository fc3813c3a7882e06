SPECIFICATION Spec
CONSTANTS
  Fds = {f1, f2}
  SAs = {s1, s2}
  NoFd = NoFd
  NoSA = NoSA
  mcts = 1
  TimerIds = {1, 2, 3}
  MayBeVisible = {TRUE, FALSE}
  NeedAuth = TRUE
  MaxConns = 2
SYMMETRY Symmetry
INVARIANTS TypeOK  TimersAccounted  WithinMcts
CHECK_DEADLOCK FALSE
