CONSTANTS
  a = a  b = b  c = c  small = small  big = big
  NoKey = NoKey
  NoValue = NoValue
  Keys <- MCKeys
  Values <- MCValues
  KeySize <- MCKeySize
  ValueSize <- MCValueSize
  Hash <- MCHash
  MemoryLimit = 6
  InitSize = 3
SPECIFICATION FairSpec
INVARIANTS TypeOK ProbeTerminates Findable ListIsRecency Accounting AssertionsHold MemoryBound
PROPERTIES ImplementsLRU OperationEnds
