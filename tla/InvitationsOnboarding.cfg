\* One call at a time in the context of one company, nothing fails, the
\* policies are in force.
SPECIFICATION Spec
CONSTANTS
  Requests = {q1}
  Companies = {c1}
  Invitations = {i1}
  Emails = {e1}
  Users = {admin, u1}
  Company = c1
  Admin = admin
  Admins <- FirstAdmins
  Policed = {TRUE}
  MayFail = FALSE
  None = None
INVARIANTS AcceptedAreMembers
CHECK_DEADLOCK FALSE
