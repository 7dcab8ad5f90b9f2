CONSTANTS
  Querys <- TwoQuerys
  RowsOf <- Uneven
  ChanSize = 2
  BufferRows = 2
  FetchFails = FALSE
  Breaks = FALSE
SPECIFICATION MCSpec
CHECK_DEADLOCK FALSE
INVARIANTS NoSendAfterClose RecycledIdle
PROPERTIES StreamsComplete ShiftsEnd QueriesEnd
