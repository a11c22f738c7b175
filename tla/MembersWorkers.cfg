CONSTANTS
  Nil = Nil
  seed = seed
  n1 = n1
  n2 = n2
  e1 = e1
  e2 = e2
  w1 = w1
  w2 = w2
  Usernames <- MCUsernames
  Emails <- MCEmails
  Seeds <- MCSeeds
  Workers = {w1, w2}
  Outcomes = {"accepted", "declined", "unanswered"}
  Timeouts = TRUE
  MaxCharges = 2
  MaxRelationships = 1
  MaxInvitations = 1
SPECIFICATION Spec
SYMMETRY Symmetry
INVARIANT TypeOK
INVARIANT AccountsPaid
INVARIANT NobodyFollowsThemselves
INVARIANT SuccessMeansMember
PROPERTY EndedByFollower
PROPERTY EnrolmentImplemented
CHECK_DEADLOCK FALSE
