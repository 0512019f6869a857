SPECIFICATION Safety
CONSTANTS
  Servers = {s1}
  Daemons = {d1}
  Calls = {c1, c2}
  Server <- OneServer
  Messages = {m1}
  Heartbeat = 2
  MaxCrashes = 1
CHECK_DEADLOCK FALSE
SYMMETRY Symmetry
INVARIANTS PresentNodeLosesNoMail MailIsHandledOnce
