CONSTANTS
  s1 = s1
  s2 = s2
  s3 = s3
  t1 = t1
  t2 = t2
  NULL = NULL
  NoThread = NoThread
  Node <- MCNode
  Servers <- MCServers
  Thread <- MCThread
  Lists <- MCLists
SPECIFICATION Spec
PROPERTIES RotationSpec
