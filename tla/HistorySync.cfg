SPECIFICATION FairSpec
CONSTANTS
    history = history  app = app
    Downloads = {history, app}
    Writers = {app}
    History = history
    NoConn = noconn
    NoChunk = nochunk
    MaxHosts = 2
    MaxJunk = 3
    MaxChunks = 2
INVARIANTS HistoryInv RetryIsFresh WriterHoldsFile
PROPERTIES HistoryMovesOn
CHECK_DEADLOCK FALSE
