CONSTANTS
  song = song
  film = film
  home = home
  away = away
  Adds = {song, film}
  Folders = {home, away}
  NoFolder = NoFolder
  Setups <- AllCasts
SPECIFICATION FairSpec
CHECK_DEADLOCK FALSE
INVARIANTS
  ServerTypeOK
  UndoneNotCarried
  ArmedTakenUp
  AddsCarried
  StopReaches
PROPERTIES
  CommittingNotCut
  AddsEnd
  RequestsAnswered
