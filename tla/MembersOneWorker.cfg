CONSTANTS
  Nil = Nil
  seed = seed
  n1 = n1
  n2 = n2
  e1 = e1
  e2 = e2
  w1 = w1
  Usernames <- MCUsernames
  Emails <- MCEmails
  Seeds <- MCSeeds
  Workers = {w1}
  Outcomes = {"accepted", "declined", "unanswered"}
  Timeouts = TRUE
  MaxCharges = 3
  MaxRelationships = 4
  MaxInvitations = 2
SPECIFICATION Spec
SYMMETRY Symmetry
INVARIANT FollowedOnce
INVARIANT InvitedFollowEachOther
CHECK_DEADLOCK FALSE
