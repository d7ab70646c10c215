\* ClientSession
CONSTANTS
  Calls = {"c1"}
  Heals = {"h1"}
  MaxStray = 1
\* ShellNotices
  GraceTime = 1
  EscalateTime = 2
  DismissTime = 2
  MaxNow = 3
  Off = Off
\* LiveVideo
  Attempts = {a1, a2}
  Tiers = {"hq", "xs"}
  Nobody = Nobody
\* PushClient
  Absent = Absent
\* AlertDelivery
  Named = {"e1"}
  NoEvent = "event"
  MaxUnread = 1
  MaxReads = 2
\* EventsPage
  EventIds = {"e1"}
  Passing = {}
  Days = {"d1"}
  MaxDeletes = 1
  None = None
  FilterKinds = {"who"}
\* ClipViewer
  Clips = {"e1", "e2"}
  HasOwnClip = {"e1", "e2"}
  NoClip = NoClip
\* WatchPage
  MaxSample = 1
  MaxBacks = 2
  Unknown = Unknown
  Sent = Sent
\* DetectionSettings
  Presets = {"month", "year_5"}
  Cap <- ClientCap
  MaxZones = 1
  MaxCommits = 2
  Unset = Unset
\* FacePhotos
  Photos = {"p1", "p2"}
  Persons = {"ann"}
  Guess <- ClientGuess
  MaxPending = 2
  MaxListings = 1
  NoPhoto = NoPhoto
\* Maintenance
  MaxBackups = 2
  MaxJobs = 2
  MaxBackupLists = 1
  Shut = Shut
\* Timelapses
  Reels = {"r1"}
  MaxDeletions = 2
  NoReel = NoReel
\* ManageUsers
  Names = {"ann"}
  MaxUserJobs = 2
  MaxUserReads = 1
  NoUser = NoUser
\* FaceSettings
  TypedDays = {0, 4}
  LongestDays = 3
  DefaultDays = 2
  MaxPatches = 2
  PageCap = 2
  KnownPages = 4
  NotYet = NotYet
\* GodView
  MaxHostRequests = 2
  MaxPolls = 2
  MaxAudits = 1
  Devices = {"phone", "desk"}
  MaxSessionLists = 2
  MaxRevokes = 2
  Blank = Blank
SPECIFICATION ClientSpec
INVARIANTS
  ClientTypeOK
  WaitersAreServed
  NoLostReconnect
  BannerIsNotEarly
  SupersededIsGone
  ConnectingEnds
  SpinnersEnd
  PromiseIsKept
  LocksAreFreed
  RestoresWhatWasNamed
PROPERTIES
  NeverGoesBack
  ToggleTellsTruth
  FinishedStays
CHECK_DEADLOCK FALSE
