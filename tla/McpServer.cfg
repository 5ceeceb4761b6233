\* Two lines of every kind, with and without an id.
CONSTANT MaxMessages = 2
SPECIFICATION FairSpec
INVARIANTS AnswersInOrder NothingIsDropped
PROPERTIES SignalStops EveryLineIsHandled
CHECK_DEADLOCK FALSE
