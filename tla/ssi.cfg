SPECIFICATION Spec
CONSTANTS
  Key = {k1, k2}
  Val = {v1, v2}
  NoVal = NoVal
  Unread = Unread
  Tx = {t1, t2}
  MaxTime = 3
SYMMETRY Symmetry
INVARIANTS OracleExact ReadsCurrent
PROPERTIES Serializable
