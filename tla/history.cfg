SPECIFICATION FairSpec
CONSTANTS
  c1 = c1
  c2 = c2
  m1 = m1
  m2 = m2
  l1 = l1
  l2 = l2
  l3 = l3
  Client = {c1, c2}
  Machine = {m1, m2}
  Link = {l1, l2, l3}
  MachineOf <- MCMachineOf
  NoLink = NoLink
  Req = {q1}
INVARIANTS
  TypeOK
  EntryAttended
  OneReply
PROPERTIES
  KeepsPromise
  Answered
CHECK_DEADLOCK FALSE
