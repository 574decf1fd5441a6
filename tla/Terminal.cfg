SPECIFICATION Spec
INVARIANTS ScreenIsFrame KeysAreTyped TerminalRestored
CONSTANTS
  Glyphs = {"a", "b", "red", "reset"}
  Colours = {"red", "reset"}
  Reset = "reset"
  K_NONE = keyNONE
  K_UP = keyUP
  K_DOWN = keyDOWN
  K_LEFT = keyLEFT
  K_RIGHT = keyRIGHT
  K_ENTER = keyENTER
  K_BACKSPACE = keyBACKSPACE
  K_ESC = keyESC
  K_TAB = keyTAB
  K_HOME = keyHOME
  K_END = keyEND
  K_DELETE = keyDELETE
  K_PGUP = keyPGUP
  K_PGDN = keyPGDN
  Sizes <- MCSizes
  Drawings <- MCDrawings
  Keystrokes <- MCKeystrokes
  Ahead = 2
CHECK_DEADLOCK FALSE
