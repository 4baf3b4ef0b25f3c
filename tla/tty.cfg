CONSTANTS
  NR_CONSOLES = 2
  V_MEM_SIZE = 14
  SCREEN_WIDTH = 2
  SCREEN_SIZE = 4
  Word = 64
  NR_TASKS = 2
  TTY_IN_BYTES = 4
  disp_pos = 2
  Printers = {1, 2}
  nr_tty <- Terminal
  Texts <- Said
  KeyEvents <- Typed
SPECIFICATION FairSpec
VIEW Live
CHECK_DEADLOCK FALSE
INVARIANTS
  TypeOK
  
  OnlyRacesSpill
  WindowInside
  CursorNotBelow
  OnlyRacesShow
  ScreenIsFresh
  EchoIsSeen
  NoBacklog
PROPERTIES
  WindowComesBack
  OnlyRacesHang
