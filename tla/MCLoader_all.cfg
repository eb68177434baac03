SPECIFICATION MCFairSpec
CONSTANTS
  Thread = {t1}
  Lib = {"a", "b", "arm32", "tiny"}
  Info <- MCInfo
  Mod = {m1, m2}
  NPage = 5
  Method = {"x", "y"}
  Stubbed = {"x"}
  MaxMethods = 1
  Null = Null
  NotHeap = NotHeap
  Name = {"a", "b", "c"}
  HashOf <- MCHashOf
  NBucket = 2
  Tables <- MCTables
  NoName = NoName
  Forms <- MCForms
  Bias = 2
  ImageSize = 7
  W = 2
  Bits = 4
  Symbols = 3
  Resolved = {1, 3}
  RelInputs <- MCRelInputs
INVARIANTS LoadedSound LookupRight RelocsRight
PROPERTY LookupEnds
CHECK_DEADLOCK FALSE
