CONSTANTS
  None = None
  Person = Person
  Project = Project
  here = here
  there = there
  r1 = r1
  r2 = r2
  Runners = {r1, r2}
  Exports <- MCExports
  Flights <- MCFlights
  Places = {here, there}
  Step = 2
  Hold = 2
  LeadIn = 1
  MinKeep = 2
  Tolerance = 1
  MaxChanges = 1
SPECIFICATION SegmentsSpec
SYMMETRY MCSymmetry
CHECK_DEADLOCK FALSE
INVARIANT FilesFollowTheFlight
PROPERTY NothingIsOverwritten
