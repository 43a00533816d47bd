CONSTANTS
  u1 = u1
  u2 = u2
  e1 = e1
  e2 = e2
  p1 = p1
  s1 = s1
  s2 = s2
  c1 = c1
  c2 = c2
  None = None
  Users <- TwoUsers
  Emails <- TwoEmails
  Passwords <- OnePassword
  Sessions <- TwoSessions
  Clerks <- TwoClerks
  MaxHash = 2
  MaxLinks = 2
SPECIFICATION DaySpec
SYMMETRY Interchangeable
INVARIANTS
  PasswordAlwaysOpens
  EmailIsUnique
  OneExchange
  DeletedIsDeaf
  OwnerKeepsToken
CHECK_DEADLOCK FALSE
