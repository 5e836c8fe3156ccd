\* Either store: two keys, two requests, a page of two items, a clone that comes and goes.
CONSTANTS
  dev = dev
  feat = feat
  k1 = k1
  k2 = k2
  c1 = c1
  c2 = c2
  Backends = {"redis", "etcd"}
  Keys = {k1, k2}
  Envs = {dev}
  Clones = {feat}
  Profiles <- TwoProfiles
  Clients = {c1, c2}
  Routes = {"ReadConfig", "logout", "delete", "list", "create", "login"}
  Dates = {"later", "past"}
  PageAsks <- PageOfTwo
SPECIFICATION Spec
INVARIANTS
  TypeOK
  GrantsAreListed
  DeletedGrantsNothing
  AllowedWasPermitted
  PageIsExact
  PagesCoverList
SYMMETRY Symmetry
