CONSTANTS
  Nil = Nil
  u1 = u1
  v1 = v1
  v2 = v2
  w1 = w1
  Users = {u1}
  Videos = {v1, v2}
  Workers = {w1}
  MaxItems = 3
  MaxReviews = 1
  MaxRanking = 3
  MaxForm = 2
  FormRankings = {0, 2, 3}
  FormRatings = {Nil}
  Timeouts = TRUE
SPECIFICATION Spec
SYMMETRY Symmetry
PROPERTY NormaliseHeals
