SPECIFICATION Spec
INVARIANTS ReferencesHold DeletesGoThrough TakesOnlyItsOwn UploadsMeetTheirParents
CHECK_DEADLOCK FALSE
