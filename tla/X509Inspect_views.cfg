SPECIFICATION Spec
CONSTANTS
  NoBundle = NoBundle
  NoId = NoId
  Nil = Nil
  Certs <- AllCerts
  Files <- SomeFiles
  Bundles <- SomeBundles
  Options <- SomeOptions
CHECK_DEADLOCK FALSE
INVARIANTS
  TypeOK
  ChainLinksIssued
  ChainGoesToTheTop
  SvidIsTheLeaf
  DrawnOnceUnderIssuer
  HiddenOnlyByCircles
