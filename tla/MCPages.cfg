SPECIFICATION PageSpec
CONSTANTS
  Nothing = Nothing
  MaxClicks = 3
  MaxImages = 3
  PageSize = 1
  MaxItems = 3
  MaxAccounts = 3
INVARIANTS PagesSettle FormsSaveTheirOwn GalleryFollowsSite CodesPayOnce DueStaysOffered ImportsAreFollowed RegisterFollowsSwitch
PROPERTIES ShownStays
CHECK_DEADLOCK FALSE
