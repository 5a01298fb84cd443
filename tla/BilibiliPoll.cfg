\* One key of any kind, with and without the fallback: two starts, one deletion and one failure.
CONSTANTS
  Keys = {"feed"}
  PageSize = 2
  MaxPosts = 3
  MaxDeletes = 1
  MaxToggles = 2
  MaxStarts = 2
  MaxFaults = 1
SPECIFICATION PollSpec
INVARIANTS
  OnePollPerKey
  OnlyNews
  NothingMissed
PROPERTIES
  NewPostArrives
