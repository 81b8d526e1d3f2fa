CONSTANTS
  Machines = {m1, m2}
  Runs = {p1, p2}
  Codes = {c1, c2}
  Keys = {k1, k2}
  AgentIds = {a1, a2}
  Requests = {r1, r2}
  TTL = 1
  MaxTime = 1
  NoMachine = NoMachine
  NoKey = NoKey
  NoCode = NoCode
  NoAgent = NoAgent
  NoRequest = NoRequest
  Refused = Refused
SPECIFICATION Spec
INVARIANTS CodeBindsOne BoundKeyOnDisk
SYMMETRY Symmetry
