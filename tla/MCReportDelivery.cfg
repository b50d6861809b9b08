SPECIFICATION FairSpec
CONSTANTS
  MaxRecord = 1
  OpKind = {"dp", "drain"}
  ServiceKind = {"long"}
INVARIANTS TypeOK AcknowledgedIsKept SomeoneListens
PROPERTIES RepliesStay RecordsArrive
