CONSTANTS
  Nil = Nil
  u1 = u1
  v1 = v1
  v2 = v2
  w1 = w1
  w2 = w2
  Users = {u1}
  Videos = {v1, v2}
  Workers = {w1, w2}
  MaxItems = 2
  MaxReviews = 2
  MaxRanking = 2
  MaxForm = 2
  FormRankings = {0, 2}
  FormRatings = {3}
  Timeouts = FALSE
SPECIFICATION Spec
SYMMETRY Symmetry
INVARIANT ReviewedOnce
