SPECIFICATION Spec
CONSTANTS
  setter1 = setter1
  v1 = v1
  v2 = v2
  Setters <- MCSetters
  Values <- MCValues
  LastProperty = 1
  Null = Null
INVARIANT AcceptedIsTried
