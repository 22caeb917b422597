CONSTANTS
  Texts = {c0, c1, bad, cut}
  First = c0
  Edits = {c1}
  Uploaded = {c1, bad}
  Invalid = bad
  Cut = {cut}
  Torn = Torn
  Absent = Absent
  Requests = {r1, r2}
  MaxEvents = 3
SYMMETRY Symmetry
SPECIFICATION Spec
INVARIANT BackupHoldsSecrets
CHECK_DEADLOCK FALSE
