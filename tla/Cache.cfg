CONSTANTS
  Screens <- AllScreens
  Changes <- AllChanges
  TopicOf <- NotifyTriggers
  TopicQueryKeys <- TOPIC_QUERY_KEYS

SPECIFICATION FairSpec

INVARIANTS TypeOK ToldScreensAreCurrent ChangesReachTheirScreens

PROPERTY TellingEndsInNews

CHECK_DEADLOCK FALSE
