CONSTANTS
  song = song
  film = film
  home = home
  away = away
  Adds = {song, film}
  Folders = {home, away}
  NoFolder = NoFolder
  Setups <- NextDrop
SPECIFICATION Spec
CHECK_DEADLOCK FALSE
INVARIANTS
  StopsTakeTheirs
