SPECIFICATION Spec
CHECK_DEADLOCK FALSE
INVARIANTS
  TypeOK
  BrowserAgrees
  TableIsHonest
  TwoPerSilence
  EffectsAreOwnedUp
  HeardAsWritten
  Foreground
  WorksFromWhatItSaw
  TranscriptIsAccepted
  ChoiceStands
  RunsAsGranted
  ReadAsMeant
PROPERTIES
  CatchesUp
