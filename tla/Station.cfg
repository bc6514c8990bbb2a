SPECIFICATION FairSpec
CONSTANTS
  Addrs = {a1, a2}
  NoAddr = NoAddr
  Queries <- SomeQueries
INVARIANT AnswersTrue
PROPERTY Reconnects
PROPERTY AddressSettles
PROPERTY LinkSettles
