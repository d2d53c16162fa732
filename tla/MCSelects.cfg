CONSTANTS
  Assets = {1}
  Cuts <- MCCuts
  Duration = 2
  MaxDecisions = 2
  MaxComputed = 3
  Requests = {r1, r2, r3}
  Movements = {"PAN", "HOVER"}
  MaxTroubles = 1
  MaxStops = 1
SPECIFICATION JobsSpec
SYMMETRY MCSymmetry
CHECK_DEADLOCK FALSE
INVARIANT CompleteMeansAnalysed
PROPERTIES
  DecisionsSurvive
  ImplementsSelection
  AnalysisStandsAlone
