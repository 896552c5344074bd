\* Two messages, two line ends, cut into reads in every way.
CONSTANTS
  Streams <- MCStreams
  MessagesEstimate = 4
SPECIFICATION ChatFairSpec
INVARIANTS
  AnswerIsTheMessage
  ReportedIsAnswered
PROPERTY StreamEndsTheCall
