CONSTANTS
  Profile <- MCProfile
  Encodes <- MCEncodes
  Devices <- MCDevices
  Files   <- MCFiles
  Times   = {1, 2, 5, 6}
  AesBlock = 4
  Overhead = 2
  SuffixSize = 2
  Hour = 2
  Grace = 1
  None = None

SPECIFICATION Spec

INVARIANTS TypeOK ImageIsSound  ConfirmationIsTrue
PROPERTIES PressFlashes BootIsJustified
