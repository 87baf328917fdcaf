SPECIFICATION Spec
CONSTANTS
  Build = {1, 3, 4}
  Track <- Tracks
  Installed = 2
  Legacy = 0
  RETRIES = 1
  None = None
INVARIANTS
  NoWorkLost
  OfferChosen
PROPERTIES
  OfferAdvances
  NoticeFollowed
