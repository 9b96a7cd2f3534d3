SPECIFICATION Spec
INVARIANTS TypeOK PacketsDelivered ReportsTrue InputsExact
PROPERTIES RoutesLeftClean
CHECK_DEADLOCK FALSE
