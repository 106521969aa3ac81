CONSTANTS
  p1 = p1
  p2 = p2
  p3 = p3
  Proxy = {p1, p2, p3}
  Primary = Primary
  Null = Null
  Name <- MCName
  NameOf <- MCNameOfAlias
  Configs <- MovingAlias
  Horizontal <- Right
  Vertical <- Bottom
SPECIFICATION Spec
INVARIANT RegistryAgrees
