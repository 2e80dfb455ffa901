SPECIFICATION FairEnrollingSpec
CONSTANTS
  Enrollers = {p1}
  Unenrollers = {p2}
  MaxAttempts = 3
  Ports <- CallbackPorts
  MaxStrangers = 1
INVARIANTS
  EnrollingTypeOK
  KeysAreAccountedFor
  KeysOutliveRegistrations
  RegisteredIsOnFile
  CodeIsOwn
PROPERTIES
  RetriedUnenrollFinishes
  AuthorizationEnds
  ImplementsEnrollment
CHECK_DEADLOCK FALSE
