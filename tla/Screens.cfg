SPECIFICATION ScreensSpec
CONSTANTS
  Null = Null
  Absent = Absent
  Blank = Blank
  Bad = Bad
  Listings <- MCListings
  Metres <- MCMetres
  CategoryOf <- MCCategoryOf
  Words <- MCWords
  OwnerOf <- MCOwnerOf
  Categories = {"saws", "drills"}
  Postcodes = {"here", "nowhere"}
  Placeable = {"here"}
  SEARCH_RADII_MILES <- MCRadii
  METRES_PER_MILE = 1
  SEARCH_PAGE_SIZE = 2
  MAX_SEARCH_PAGE = 2
  MAX_MAXIMUM_RENTAL_DAYS = 2
  Addresses <- MCAddresses
  MaxVisits = 3
  MaxChanges = 1
  None = None
  FirstSchemas <- MCFirstSchemas
  Keys = {"weight", "extras"}
  BadKeys = {""}
  OptionValues = {"a", "b"}
  TextLength <- MCTextLength
  UnsafeTexts = {"odd"}
  Numbers <- MCNumbers
  MAX_CATEGORY_ATTRIBUTES = 3
  MAX_ATTRIBUTE_OPTIONS = 3
  MAX_ATTRIBUTE_DECIMAL_PLACES = 1
  MAX_ATTRIBUTE_TEXT_LENGTH = 2
  DEFAULT_TEXT_LENGTH = 1
  Limits <- MCLimits
  MaxVersions = 2
  NoMonth = NoMonth
  LastDate = 7
  DayLength <- MCDayLength
  Months = {1, 2}
  MonthLength <- MCMonthLength
  MAX_BLOCK_DAYS = 4
  MAX_BLOCK_HORIZON_DAYS = 3
  MaxPeriods = 2
  MaxLooks = 2
  NoGallery = NoGallery
  NoOutcome = NoOutcome
  LISTING_MEDIA_LIMIT = 3
  OwnerPageLimits <- MCOwnerPageLimits
  MaxWaiting = 2
INVARIANTS SearchIsNotLost WalkShowsEachOnce UntouchedSaveKeepsAnswers EveryDayShownAsItIs WrongOnlyUnderAnAlert
CHECK_DEADLOCK FALSE
