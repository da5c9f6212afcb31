SPECIFICATION DirSpec
CONSTANTS
  Programs = {p1, p2}
  Dirs = {d1, d2}
  Accounts = {a}
  Keys = {k1, k2, k3}
  MaxKept = 1
INVARIANTS OneWriter
