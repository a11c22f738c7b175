CONSTANTS
  Nil = Nil
  u1 = u1
  u2 = u2
  v1 = v1
  w1 = w1
  w2 = w2
  Users = {u1, u2}
  Videos = {v1}
  Workers = {w1, w2}
  MaxItems = 2
  MaxReviews = 2
  MaxRanking = 2
  MaxForm = 1
  FormRankings = {1}
  FormRatings = {3, Nil}
  Timeouts = TRUE
SPECIFICATION Spec
SYMMETRY Symmetry
PROPERTY OnlyAuthorReviews
