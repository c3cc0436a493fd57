SPECIFICATION Spec
CONSTANTS
  t1 = t1
  t2 = t2
  t3 = t3
  k1 = k1
  k2 = k2
  Threads = {t1, t2, t3}
  Keys = {k1, k2}
  Values = {v}
  Ops <- MCOps
  Hash <- MCHash
  BucketsCount = 2
  LoadNum = 7
  LoadDen = 10
  MaxExcess = 1
  NoKey = NoKey
  NoValue = NoValue
  NoCall = NoCall
INVARIANTS TypeOK OnePairPerKey SizesSuffice ScanIsComplete
PROPERTIES RehashMeetsLoad ImplementsMap
