SPECIFICATION Spec
CONSTANTS
  None = None
  r1 = r1
  r2 = r2
  r3 = r3
  here = here
  there = there
  Requests = {r1, r2, r3}
  Videos <- MCVideos
  Places = {here, there}
  Orders <- MCOrders
  yes = yes
  no = no
  Words = {yes, no}
  Imported <- MCImported
SYMMETRY MCSymmetry
INVARIANTS SuggestionsCover PeopleAgree
PROPERTIES RegroupedAsAsked
CHECK_DEADLOCK FALSE
