CONSTANTS
  Texts = {"", "x86_64", "arm64"}
  Machines = {0, 62, 183}
  Node <- Nodes
  Source = "AppDir"
  Contains <- SmallTree
  Kind <- SmallKinds
  Executable = {"AppRun"}
  SharedLib = {"libfoo.so.1", "libc.so.6"}
  MaxRedirs = 2
  BodyLengths = {0, 2}
  Errors = {404}
  Hosts <- SmallHosts
  NoUrl = NoUrl
  RuntimeFiles = {0, 2, 5}
  NoFile = NoFile
  IntMax = 3
SPECIFICATION Spec
INVARIANTS
  TypeOK
  ArchIsDetermined
  WholeBodyOnly
  CertificatesFound
  DownloadFits
PROPERTY
  ObtainEnds
CHECK_DEADLOCK FALSE
