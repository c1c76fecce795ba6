SPECIFICATION ProjectSpec
CONSTANTS
  ProjectIds = {p0, p1, p2}
  DefaultProject = p0
  NoProject = NoProject
  Dirs = {dir1, dir2, dir3}
  NoDir = NoDir
  Resources = {r1}
  Unfiled = Unfiled
  Clerks = {c1}
PROPERTIES
  OnlyEmptyProjectsGo
CHECK_DEADLOCK FALSE
