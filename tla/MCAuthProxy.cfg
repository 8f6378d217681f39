SPECIFICATION Spec
CONSTANTS
  k1 = k1
  k2 = k2
  app = app
  svc = svc
  name = name
  both = both
  r1 = r1
  bg = bg
  none = none
  Kids = {k1, k2}
  ListedAtFirst = {k1}
  Refreshers = {r1, bg}
  RefreshInterval = 1
  MaxRotations = 1
  Apps = {app}
  Services = {svc}
  Ids = {app, svc, name, both}
  Named <- AppsNamed
  Users <- OneUser
  Askers = {r1}
  CacheExpirationInterval = 1
  MaxTook = 1
  Revocable = {app}
  Requests = {r1}
  Background = bg
  Arrivals <- SomeArrivals
  NoToken = none
  HeldSources = {app, svc}
  Parts <- IdParts
INVARIANTS
  TypeOK
  RefreshReplaces
  GrantsExpire
  
