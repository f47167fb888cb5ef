CONSTANTS
  Views = {v1, v2}
  Users = {u1, u2}
  Texts = {t1, t2}
  Pictures = {a1}
  Blank = Blank
  NoNote = NoNote
  Topics = {{"details"}, {"notes"}}
  MaxActs = 3
  MaxLost = 1
SYMMETRY Symmetry
SPECIFICATION ContactSpec
INVARIANTS EditsAreKept  NoteIsExplained
CHECK_DEADLOCK FALSE
