\* The Server sends and updates, the Client only receives.
CONSTANTS
  Server = Server
  Client = Client
  news = news
  state = state
  Names = {news, state}
  Types <- Mixed
  Listened <- Mixed
  Repliers = {}
  MaxSent <- SentThreeAndNone
  Closable = {}
  MaxRestarts = 0
SPECIFICATION FairSpec
INVARIANTS
  NeverGoesBack
  SilentObjectsSurvive
PROPERTY LatestArrives
