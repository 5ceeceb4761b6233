\* The default timeouts in ticks of twenty seconds, the request's rounded up; a provider may ask for no
\* delay, one within the read deadline, or one far beyond it.
CONSTANTS
  ClientTimeout = 3
  ReadTimeout = 3
  WriteTimeout = 3
  RequestTimeout = 2
  Grace = 2
  MaxRetries = 2
  RetryAfters = {0, 1, 9}
SPECIFICATION FairSpec
INVARIANTS TypeOK CallsEndInTime PostIsHandledOnce ExitIsClean
PROPERTIES HandlersEndInTime EverythingEnds
\* After the call has returned and the server has exited nothing is left to do.
CHECK_DEADLOCK FALSE
