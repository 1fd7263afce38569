\* Growing slices of up to four spans, with any order of operations.
SPECIFICATION Spec
CONSTANTS
  Statuses = {"ok", "deny"}
  MaxSpans = 4
  MaxEvents = 1
INVARIANTS
  ShowsOnlyWhatWasAsked
  LeafSpansEnded
CHECK_DEADLOCK FALSE
