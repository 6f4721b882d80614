SPECIFICATION Spec
CONSTANTS
    h1 = h1  h2 = h2  o = o  a = a  m = m
    Worlds <- MCWorlds
    DefaultGuild = 1
    Users = {o, a, m}
    Handlers = {h1, h2}
    None = None
    AppRole <- MCAppRole
    Roles = {"owner", "member"}
    MaxChanges <- MCMaxChanges
SYMMETRY Symmetry
INVARIANTS
    MembershipInv
PROPERTIES
    HandlersDecide
