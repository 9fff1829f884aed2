\* One message each way.
CONSTANTS
  Server = Server
  Client = Client
  news = news
  state = state
  Names = {news, state}
  Types <- PlainOnly
  Listened <- PlainOnly
  Repliers = {}
  MaxSent <- SentOne
  Closable = {}
  MaxRestarts = 0
SPECIFICATION Spec
INVARIANT ReceiveThreadsSurvive
CHECK_DEADLOCK FALSE
