CONSTANTS
  NumQueries = 3
  NumFds = 3
  MaxEvents = 2
  MaxDatagrams = 2
SPECIFICATION FairSpec
INVARIANTS
  OwnSocket
  ArgsLive
  CallbackOnce
  StaysRegistered
  NoSocketLeak
PROPERTY
  AnswerCalledBack
