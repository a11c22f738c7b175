CONSTANTS
  Nil = Nil
  seed = seed
  n1 = n1
  n2 = n2
  e1 = e1
  e2 = e2
  w1 = w1
  w2 = w2
  Usernames <- MCUsernames
  Emails <- MCEmails
  Seeds <- MCSeeds
  Workers = {w1, w2}
  Outcomes = {"accepted", "declined"}
  Timeouts = FALSE
  MaxCharges = 2
  MaxRelationships = 2
  MaxInvitations = 1
SPECIFICATION Spec
SYMMETRY Symmetry
INVARIANT UniqueMembers
CHECK_DEADLOCK FALSE
