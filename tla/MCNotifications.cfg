CONSTANTS
  Notes = {n1}
  Instances = {"i1", "i2"}
  Editors = {e1}
  NoLane = NoLane
  NoNote = NoNote
  MaxRetries = 2
  MaxEdits = 2
  MaxFaults = 1
  Calendars <- MCCalendars
  BusyDay = 3
  MaxDay = 2
  MaxMinute = 2
  Cases <- MCCases
SPECIFICATION MCSpec
INVARIANTS RowsKept RoundsKept
PROPERTIES OutcomeIsFinal 
CHECK_DEADLOCK FALSE
