\* One arriving message, two stored ones, a slow command and a port that fails.
SPECIFICATION AtSpec
CONSTANTS
  r1 = r1
  m1 = m1
  m2 = m2
  p1 = p1
  u1 = u1
  Nil = Nil
  Readers = {r1}
  Resident = {m1, m2}
  Pollers = {p1}
  Urgent = {u1}
  Storages = {"SM", "ME"}
  Positions = {1, 2}
  Place <- MCPlace
  Threshold = 2
  MaxSlow = 1
CHECK_DEADLOCK FALSE
INVARIANTS AtConsistent NothingDeletedUnread
PROPERTIES LossNoticed Returns
