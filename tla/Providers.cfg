SPECIFICATION SmallSpec
CONSTANTS
  cron = cron creation = creation w1 = w1 w2 = w2
  NoStock = NoStock Invalid = Invalid
  Refs = {1, 2}
  Cron = cron Creation = creation
  Workers = {w1, w2}
  Catalogue = {1}
  Limit = 1
  MaxQuantity = 1
  MaxDate = 2
  MaxChanges = 1
  MaxPosts = 2
  MaxBookings = 1
  MaxFaults = 1
INVARIANTS NoChangeIsMissed LastPostWins OfferedIsAvailable SoldOutIsIndexed
PROPERTIES StocksFollow
CHECK_DEADLOCK FALSE
