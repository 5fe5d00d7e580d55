CONSTANTS
  u1 = u1
  e1 = e1
  v1 = v1
  Users = {u1}
  Emitters = {e1}
  VideosOf <- OneVideoEach
  MaxTime = 1
  Room = 2
  MaxClicks = 2
  Nobody = Nobody
  NoList = NoList
SPECIFICATION FairSpec
INVARIANTS SentIsCurrent OnlyMergingHides
PROPERTIES ListsNeverGoBack PublishingGoesOn SigningReturns
CHECK_DEADLOCK FALSE
