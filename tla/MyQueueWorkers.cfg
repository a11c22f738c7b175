CONSTANTS
  Nil = Nil
  u1 = u1
  u2 = u2
  v1 = v1
  v2 = v2
  w1 = w1
  w2 = w2
  Users = {u1, u2}
  Videos = {v1, v2}
  Workers = {w1, w2}
  MaxItems = 2
  MaxReviews = 1
  MaxRanking = 2
  MaxForm = 2
  FormRankings = {0, 2}
  FormRatings = {3}
  Timeouts = FALSE
SPECIFICATION Spec
SYMMETRY Symmetry
INVARIANT StrayRankingsRepaired
INVARIANT PendingItemsLive
PROPERTY RemovedStaysRemoved
PROPERTY OnlyOwnerTouches
