CONSTANTS
  status = status
  module = module
  t1 = t1
  t2 = t2
  None = None
  Clients = {t1, t2}
  Pages = {status, module}
  Users <- UsersOf
  Bindings <- BindingsOf
  MaxFaults = 1
SPECIFICATION FairSpec
INVARIANTS TypeOK TabShowsWhatWasAsked
PROPERTIES LoginIsLostToOthers LoginEnds
