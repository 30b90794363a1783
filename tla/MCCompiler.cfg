SPECIFICATION Spec
CONSTANTS
  Parts = {"driver", "arguments", "inputs", "binary", "owned", "extract", "extractors", "certificate", "contract", "fingerprint", "body", "staging"}
  None = None
  Absent = Absent
  Other = Other
  fixture = fixture
  private = private
INVARIANTS
  OutputIsConsistent
  ScansAgree
  FrozenIsOneMoment
  PublishedWasVerified
  AcceptedHandoffIsFaithful
  HostSeesTheLaunch
PROPERTIES
  DriverKeepsInputs
CHECK_DEADLOCK FALSE
