SPECIFICATION FairSpec
CONSTANTS
  l1 = l1
  l2 = l2
  s1 = s1
  s2 = s2
  shallow = shallow
  deep = deep
  p1 = p1
  p2 = p2
  p3 = p3
  Proc = {p1, p2, p3}
  Lang = {l1, l2}
  Strategy = {s1, s2}
  NoStrategy = NoStrategy
  Language <- MCLanguage
  TextStrategies = {s1}
  Tree = {shallow, deep}
  DeepTrees = {deep}
  Nobody = Nobody
  Workload <- MCWorkload
INVARIANTS
  IInv
  RaceFree
PROPERTIES
  EveryCallReturns
  Linearizable
