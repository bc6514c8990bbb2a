SPECIFICATION FairSpec
CONSTANTS
  k1 = k1
  k2 = k2
  NoKey = NoKey
  BadKey = BadKey
  Keys = {k1, k2}
  Configs <- PinConfigs
INVARIANT TypeOK
INVARIANT PinnedSession
INVARIANT TokenGuarded
INVARIANT MismatchExact
PROPERTY AlwaysRedials
