SPECIFICATION ConsoleSpec
CONSTANTS
  NR_CONSOLES = 2
  VIDEO = 14
  WIDTH = 2
  LINES = 2
  TAB = 2
  RAM_WORDS = 2
  Letter = {"M", "S", "["}
  Notice <- ScrollNotice
  Blank = " "
  Text <- TextOf
INVARIANT ScreensInPlace
PROPERTY FirstIsScreen
