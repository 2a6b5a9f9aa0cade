SPECIFICATION PartsSpec
CONSTANTS
  Clients <- ClientsMC
  Db <- DbMC
  Keys <- KeysMC
  MaxValue = 2
  Commands <- CommandsMC
  WatchSets <- WatchSetsMC
  Evictable <- EvictableMC
  MaxTime = 2
  MaxQueue <- MaxQueueMC
  Waiters <- WaitersMC
  Lists <- ListsMC
  ListCmds <- ListCmdsMC
  Blocks <- BlocksMC
  MaxPush = 3
  p1 = p1
  p2 = p2
  Peers = {p1, p2}
  Sendings <- MCSendings
  BigArg = 3
  InlineMax = 8
  MaxQuery = 26
  MaxMultibulk = 3
  MaxClock = 3
  w1 = w1
  w2 = w2
  ch1 = ch1
  pat1 = pat1
  Conns = {w1, w2}
  Channels = {ch1}
  Patterns = {pat1}
  Matches <- MCMatches
  BufSize = 3
  EmbstrSize = 1
  NodeSize = 1
  HardLimit = 4
  SoftLimit = 2
  SoftSeconds = 0
  MaxConns = 2
  Lengths = {1, 3}
  MaxReplies = 3
  MaxSeconds = 2
INVARIANTS ServerFollowed TransactionsSafe BlockingSound RequestsSound RepliesSound
PROPERTIES InTurn
CHECK_DEADLOCK FALSE
