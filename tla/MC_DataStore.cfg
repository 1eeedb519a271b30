CONSTANTS
  x1 = x1
  x2 = x2
  k1 = k1
  k2 = k2
  v1 = v1
  w1 = w1
  w2 = w2
  Ctxs = {x1, x2}
  Keys = {k1, k2}
  Values = {v1}
  Workers = {w1, w2}
  MaxLen = 2
  Nil = Nil
SPECIFICATION Spec
INVARIANT StoreKeepsWrites
