\* Two overlapping requests on a pool of two connections, and the system role.
SPECIFICATION Spec
CONSTANTS
  A = A
  B = B
  u1 = u1
  u2 = u2
  r1 = r1
  r2 = r2
  c1 = c1
  c2 = c2
  admin1 = admin1
  member2 = member2
  free = free
  module = module
  audit = audit
  auditSystem = auditSystem
  outbox = outbox
  session = session
  companyB = companyB
  user1 = user1
  user2 = user2
  credential = credential
  Nobody = Nobody
  Absent = Absent
  Companies = {A, B}
  Users = {u1, u2}
  Requests = {r1, r2}
  Connections = {c1, c2}
  Rows = {admin1, member2, free, module, audit, auditSystem, outbox, session, companyB, user1, user2, credential}
  TableOf <- Tabled
  Seed <- Seeded
  Writable <- Tried
  MaxStatements = 2
  MaxSystem = 1
SYMMETRY Symmetry
INVARIANTS TypeOK SeesOwnCompany
PROPERTIES WritesOwnCompany AdministeredByAdmins AppendOnly
CHECK_DEADLOCK FALSE
