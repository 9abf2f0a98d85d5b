SPECIFICATION Spec
CONSTANTS
  r1 = r1
  r2 = r2
  Key <- MCKey
  Capacity = 2
  Cost = 2
  Window = 2
  NoBucket = NoBucket
  NoId = NoId
  NoSecret = NoSecret
  NoAction = NoAction
  NoKind = NoKind
  NoSource = NoSource
  NoDelivery = NoDelivery
  NoMatch = NoMatch
  Request <- MCRequest
  Deliveries <- MCDeliveries
  Worker <- MCWorker
  Registries <- MCRegistries
  SecretFiles <- MCSecretFiles
  MaxWriteBack = 1
  MaxFaults = 2
  MaxEdits = 1
SYMMETRY Symmetry
INVARIANTS
  TypeOK
  OneTaskPerDelivery
  AcceptedIsDurable
  StrandedOnlyByFault
PROPERTIES
  RouteSurvivesCrash
  LimiterKept
  ImplementsInbox
