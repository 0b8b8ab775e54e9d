SPECIFICATION FairSpec
CONSTANTS
  Kinds = {"registry", "provider"}
  Program <- WholeProgram
  ServerAddr <- Registry
  ValidIps <- SomeIps
  Peers = {p1, p2}
  PeerAddr <- TwoAddresses
  Targets = {t1}
  FDs = {f1, f2}
  NoChannel = NoChannel
  NoFd = NoFd
  MaxProviders = 2
CHECK_DEADLOCK FALSE
INVARIANTS
  DiesOfSystemCallsOnly
  AddressIsOwn
PROPERTIES
  AcceptedGetAddress
  ClosedAreFreed
