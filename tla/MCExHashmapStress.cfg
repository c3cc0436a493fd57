SPECIFICATION Spec
CONSTANTS
  t1 = t1
  t2 = t2
  t3 = t3
  k1 = k1
  k2 = k2
  Threads = {t1, t2, t3}
  Keys = {k1, k2}
  Values = {v}
  Ops <- StressOps
  Hash <- StressHash
  BucketsCount = 1
  LoadNum = 7
  LoadDen = 10
  MaxExcess = 0
  NoKey = NoKey
  NoValue = NoValue
  NoCall = NoCall
INVARIANT BucketsRemain
