CONSTANTS
  Platforms = {"systemd"}
  Times = {t9, t10}
  Commands = {c1, c2}
  Corrupt = Corrupt
  None = None
SPECIFICATION Spec
INVARIANTS
  DriftNeverEnabled
