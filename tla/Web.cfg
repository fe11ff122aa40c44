CONSTANTS
  Query <- Queries
  Page <- Pages
  Op <- Ops
  RoleOf <- PageRole
  Shows <- PageShows
  Frame <- PageFrame
  Home <- OpHome
  Alters <- OpAlters
  Tells <- OpTells
  Always <- OpAlways
  Listed <- ListedQueries
  Polled <- PolledQueries
  Gaps <- OpGaps
  MaxCalls = 2
  View <- RowViews
  Rows <- RowsOf
  Offers <- OffersOf
  Takes <- TakesOf
  After <- AfterOf
  Drift <- DriftOf
  Reasoned <- ReasonedOf
  Together <- TogetherV
  Hook <- HookOf
  OneFlag <- OneFlagV
  Unmarked <- UnmarkedV
  Forgetful <- ForgetfulV
  OneRow <- OneRowV
  Uncertain <- MayBeRefused
  Charging <- Charges
  FailedCharge <- AfterFailedCharge
  Hopeless <- HopelessE
  MaxSent = 2
SPECIFICATION Spec
CHECK_DEADLOCK FALSE
INVARIANT
  OwnWorkShows
PROPERTIES
  OwnWorkIsShownInTheEnd
  RefusalsHaveAReason
