\* Two regular applications, one of which may be followed by another at its
\* pid, and a pid that owns windows and is no regular application.
SPECIFICATION Spec
CONSTANTS
  Pids = {p1, p2, p3}
  Regular = {p1, p2}
  Scripts <- MCScripts
  Lives = 2
INVARIANTS TypeOK RegistryFollows NoStaleEntry
PROPERTY RequestScanned
