CONSTANTS
  Nil = Nil
  u1 = u1
  v1 = v1
  w1 = w1
  w2 = w2
  Users = {u1}
  Videos = {v1}
  Workers = {w1, w2}
  MaxItems = 2
  MaxReviews = 0
  MaxRanking = 2
  MaxForm = 2
  FormRankings = {1, 2}
  FormRatings = {Nil}
  Timeouts = TRUE
SPECIFICATION FairSpec
PROPERTY RequestsFinish
