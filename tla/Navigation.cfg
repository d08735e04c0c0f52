CONSTANTS
  Servers = {"580"}
  Ids = {"ours", "theirs"}
  OwnAlliance = "ours"
  Ours = {"ours"}
  PastNames = {"theirs"}
  Typed <- MCTyped
  FirstGrids <- MCGrids
  Arrangements <- MCArrangements
  MaxChanges = 1
  Accounts = {"x", "y"}
  Pages = {"guides", "hive"}
SPECIFICATION NavigationSpec
INVARIANTS LinksLeadWhereTheySay MarksAreTrue
PROPERTIES NothingIsTakenAway WayInIsFound
CHECK_DEADLOCK FALSE
