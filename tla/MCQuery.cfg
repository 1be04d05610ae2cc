\* A one-slot Next channel, so that the producer falls into its blocking
\* send, and a consumer that reads, cancels or stalls.  A query is finite:
\* every behaviour ends with both goroutines stopped, so there is no
\* deadlock to look for.
CONSTANTS
  KeySpace <- MCKeySpace
  QueryPrefixes <- MCQueryPrefixes
  Entries <- MCEntries
  Now <- MCNow
  MatchData <- MCMatchData
  NextCap = 1
  Internal = FALSE
  NoEntry = NoEntry
SPECIFICATION Spec
INVARIANT EnvelopeRoundTrip
PROPERTY ScanImplementsQuery
PROPERTY ConsumerSeesEnd
PROPERTY ProducerTerminates
CHECK_DEADLOCK FALSE
