SPECIFICATION Spec
CONSTANTS
  Servers = {s1}
  Daemons = {d1}
  Calls = {c1}
  Server <- OneServer
  Messages = {m1}
  Heartbeat = 3
  MaxCrashes = 2
CHECK_DEADLOCK FALSE
PROPERTY DaemonHandlesItsMail
