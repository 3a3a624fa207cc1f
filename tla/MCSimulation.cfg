SPECIFICATION Spec
CONSTANTS
  Characters <- MCCharacters
  Messages <- MCMessages
  Replies <- MCReplies
  Scripts <- MCScripts
  Requests <- MCRequests
  MaxExchanges = 2
  MaxOpens = 2
  MaxHistory = 3
  MaxErrors = 1
  Timeout = 1
  MaxBlock = 12
  MaxEntries = 2
  MaxHistoryBytes = 11
INVARIANTS ResourceAccounted FailedExchangeLeavesNothing ScriptedFailureIsForItsExchange  HistoryIsWhatWasSent BinaryHistoryIsLatest PayloadsRoundTrip
