\* Every tree of up to three files; one request at a time beside requests that store secrets.
CONSTANTS
  Backends = {"redis", "etcd"}
  dev = dev
  feat = feat
  Trees <- MCTrees
  Envs = {dev, feat}
  Original <- MCOriginal
  Profiles <- MCProfiles
  Asks <- MCAsks
  Batches <- MCBatches
  Names <- MCNames
  Malformed <- MCMalformed
SPECIFICATION Spec
INVARIANTS
  TypeOK
  AnswerIsDocumented
  SecretsAreShown
