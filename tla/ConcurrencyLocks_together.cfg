\* Every method of the manager, release and get_queue_length among them.
CHECK_DEADLOCK FALSE
SPECIFICATION Spec
CONSTANTS
  Threads = {a, b, c}
  Keys = {k1, k2}
  NoOne = NoOne
SYMMETRY MCSymmetry
INVARIANT
  NoCircle
