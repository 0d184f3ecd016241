CONSTANTS
  Platforms = {"systemd", "launchd", "windows"}
  Times = {t9, t10}
  Commands = {c1, c2}
  Corrupt = Corrupt
  None = None
SPECIFICATION Spec
INVARIANTS
  EnabledIsTrue
  DisabledIsQuiet
  RolledBackIsQuiet
