SPECIFICATION PartsSpec
CONSTANTS
  Game = {"g", "h"}
  Variants <- MCVariants
  Plain = "plain"
  OwnSaves <- MCOwnSaves
  Packaged = TRUE
  g1 = g1
  g2 = g2
  Tile <- MCTile
  \* PickerBehind
  Remembered = 1
  MaxJobs = 2
  MaxSyncs = 1
  \* PickerShelf
  Games <- MCGames
  Shape <- MCShape
  Word = 1
  KeyRows <- MCKeyRows
  Installable = {1}
  MaxFaults = 1
  \* PickerPads
  Id = {1}
  AnyPad = FALSE
  MaxQueue = 4
  \* PickerSeats
  Player = {"k", "p"}
  Keyboard = "k"
  MaxInbox = 2
  MaxDeaths = 2
  \* PickerArt
  Worker = {1, 2}
  MaxLaunches = 2
  \* KillSwitch
  MaxGames = 2
  MaxLoads = 2
  \* PickerHush
  EventName = {"event1", "event2"}
  Device <- MCDevice
  MaxPlugs = 2
SYMMETRY PickerSymmetry
CHECK_DEADLOCK FALSE
INVARIANTS PlayIsAskedFor KeptBeforePlayed BehindCatchesUp ShelfStands DriversAreTrue
  PicturesAreWhole GamesEndWhole
PROPERTIES StepsStand
