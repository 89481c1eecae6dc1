CONSTANTS
  Nil = Nil
  Fail = Fail
  Outside = Outside
  Calls = {c1, c2}
  Keys = {k1}
  Tracked = {}
  Scopes = {s1}
  Bounded = {c1}
  RedisChoices = {TRUE}
  MemoChoices = {TRUE, FALSE}
  LocalChoices = {"on", "off"}
  RemoteChoices = {"on", "off", "configError"}
SPECIFICATION MetricsFairSpec
INVARIANTS EachCallCountedOnce FallbackAttribution
PROPERTY EveryCallSettles
CHECK_DEADLOCK FALSE
