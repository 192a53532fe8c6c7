CONSTANTS
  NULL = NULL
  Ids = {1, 2, 3}
  Limits = {1, 2}
  MaxTime = 1
  Resolution = 1
  CoarseLists = {}
SPECIFICATION Spec
INVARIANTS StayersListedOnce PagesAgree
CONSTRAINT EdgesWhereRead
