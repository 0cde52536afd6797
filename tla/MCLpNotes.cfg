\* LP notes in the processing loop and in the journal, each side alone.
SPECIFICATION NotesSpec
CONSTANTS
  o1 = o1
  Orders = {o1}
  Notes = {1, 2}
  Unpayable = {2}
  MaxCrashes = 2
  MaxRefusals = 1
  MaxLag = 0
  MaxFees = 1
  LpNotes = {1, 2, 3}
  LpNoteOf <- MCLpNoteOf
  NoLpNote = NoLpNote
  MinDeposit = 3
  SeedPool <- MCSeedPool
  MaxWorth = 4
  MaxLpCrashes = 1
CHECK_DEADLOCK FALSE
INVARIANTS NotesAtMostOnce NoLpNoteMissed
PROPERTIES LpNotesApplied LpOperationsSettle RejectionsHold
