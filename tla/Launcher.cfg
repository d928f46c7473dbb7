\* Three commands of any kind, with services.conf edited in between.
SPECIFICATION Spec
CONSTANTS
  Commands = {c1, c2, c3}
  Manners <- TwoAtOnceOrThree
  Confs <- SomeConfs
  ShellVus = {0, 5}
  None = None
SYMMETRY CommandSymmetry
INVARIANTS
  InductiveInv
  UpMeansPlan
  ReplicasShareKey
PROPERTIES
  AppsLeftAlone
