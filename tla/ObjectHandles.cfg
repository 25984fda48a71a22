CONSTANTS
    Threads = {t1, t2, t3}
    Slots = {s1, s2, s3, s4}
    Objects = {o1, o2}
    NoObj = NoObj
    CowObjects = {o2}
SPECIFICATION Spec
SYMMETRY Symmetry
INVARIANTS
  CountsExact
  NoDangling
  UniqueIsExclusive
