SPECIFICATION FairSpec
CONSTANTS
  tty = tty
  plain = plain
  judge = judge
  main = main
  spare = spare
  cheap = cheap
  Callers = {tty, plain, judge}
  Models = {main, spare, cheap}
  Streams = {tty}
  Silent = {judge}
  Keyless = {spare}
  Chain <- MCChain
  MaxRetries = 3
  MaxAsks = 2
INVARIANTS EveryAttemptIsTold GivesUpInTime
PROPERTIES ContractKept CompleteEnds
CHECK_DEADLOCK FALSE
