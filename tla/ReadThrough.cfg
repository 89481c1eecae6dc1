CONSTANTS
  Nil = Nil
  Fail = Fail
  Outside = Outside
  Calls = {c1, c2, c3}
  Keys = {k1}
  Tracked = {k1}
  Scopes = {s1}
  Bounded = {c1, c2, c3}
  RedisChoices = {TRUE, FALSE}
  MemoChoices = {TRUE, FALSE}
  LocalChoices = {"on", "off"}
  RemoteChoices = {"on", "off", "configError"}
SYMMETRY Interchangeable
SPECIFICATION Spec
INVARIANTS TypeOK FlightsAreLed LoaderDecides LocalBackedByStore FollowerAccounting OnlyTimelyLoadsCached RequestConsistency ClosedScopeStaysEmpty
CHECK_DEADLOCK FALSE
