SPECIFICATION Spec
SYMMETRY Symmetry
CONSTRAINT Followed
CONSTANTS
  Trip = {a1, a2}
  Call = {b1, b2}
  Horizon = 2
  DefaultMinutes = 2
  Minutes = {3}
  Later = 1
  MaxEntries = 1
  None = None
  Person = {a1, a2}
  Name = {"n1", "n2"}
  Place <- Places
  Near <- NearPlaces
  Routes <- RoutesOfTmap
  Key = {a1, a2}
  Malformed = Malformed
  Versions = 2
  MaxMessages = 2
  Unset = Unset
  Keyword = {"x", "y"}
  MaxAborted = 2
  MaxPhotos = 3
  MaxFiles = 2
  PageSize = 2
  Deletion = {"d"}
  Event = {a1, a2}
  Gone = Gone
  Text = {x}
  Request = {b1, b2}
  Hours = 2
  DayHours = 1
  MonthHours = 1
  Offset = 0
  MaxCalls = 2
  CoupleField = {nickname, anniversary}
  Nickname = nickname
  ProfileField = {name}
  DisplayName = name
  Home = Home
  Value = {c1, c2}
  Blank = c1
  MaxLeft = 1
  Unknown = Unknown
  Tab = {a1, a2}
  Identity = {b1, b2, c1}
  SharedMail = {b1, b2}
  NoMail = {c1}
  MaxTokens = 2
  Null = Null
INVARIANTS
  TypeOK NoSpinnerHangs AnswerInBucket MeetupIsSoonest AgreeToMeet
  PageFailsForLostKeyOnly FoundForLatest PhotosAreRows CalendarIsCurrent
  RouteIsForSelected CardShowsDb SentIsPending SessionIsOwn
CHECK_DEADLOCK FALSE
