CONSTANTS
  None = None
  Garbage = Garbage
  Approvals <- MCApprovals
  Calls <- MCCalls
  AppOrders <- MCAppOrders
  Facts <- MCFacts
  Overnight <- MCOvernight
  Prices <- MCPrices
  OrderOf <- MCOrderOf
  Moving = {"o1"}
  FeedLimit = 5
SPECIFICATION TrailSpec
INVARIANTS CardTellsTheOrder RowsTrue DollarsAddUp
CHECK_DEADLOCK FALSE
