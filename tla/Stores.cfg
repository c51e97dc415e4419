\* Two callers on one table of one backend; a millisecond is two instants.
SPECIFICATION Spec
CONSTANTS
  Clients = {c1, c2}
  Calls <- AllCalls
  Backends = {"sqlite", "postgres", "mysql", "mongo"}
  Grain = 2
  DefaultPage = 1
  MaxPage = 2
  StartTime = 1
  MaxTime = 2
INVARIANTS
  TypeOK
  OwnNoteOrNotFound
PROPERTIES
  ImplementsContract
  NothingComesBack
  QuietPagesAgree
CHECK_DEADLOCK FALSE
