SPECIFICATION Spec
CONSTANTS
  kb = kb
  kq = kq
  u1 = u1
  home = home
  other = other
  Keys = {kb, kq}
  NoKey = NoKey
  Users = {u1}
  NoUser = NoUser
  Projects = {home, other}
  Home = home
  KeyProject <- MCKeyProject
  KeyUser <- MCKeyUser
  Issued = {kq}
  Grants = {"viewer", "owner"}
  MinRole = "developer"
  RequireKey = FALSE
  Callers = {c1, c2}
  TTL = 2
  MaxQuery = 1
SYMMETRY CallerSymmetry
INVARIANTS TypeOK AnswersAreRecent
PROPERTIES OwnersOnly
