SPECIFICATION Spec
CONSTANTS
  NULL = NULL
  Clients = {c1}
  c1 = c1
  MaxConnects = 2
  MaxQueries = 2
  MaxInterrupts = 1
  Reuse = {"object", "file"}
INVARIANTS TypeOK NoUseAfterClose CallerWaits NothingLeft RefsAccounted HandledWhileOpen NoLostWakeup
PROPERTIES TransferReturns CloseReturns ImplementsSyncTransfers
CHECK_DEADLOCK FALSE
