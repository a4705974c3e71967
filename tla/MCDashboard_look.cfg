SPECIFICATION Spec
CONSTANTS
  host = host
  remote = remote
  web = web
  web2 = web2
  far = far
  old = old
  lost = lost
  agent = agent
  app = app
  lone = lone
  WebName = WebName
  AgentImage = AgentImage
  RestruoImage = RestruoImage
  Tag = Tag
  Environments = {host, remote, lost}
  Known = {host, remote}
  Stacks = {web, web2, far, old}
  Containers = {agent, app, lone}
  Names = {WebName}
  Images = {AgentImage, RestruoImage}
  Variables = {Tag}
  EnvOf <- MCEnvOf
  NameOf <- MCNameOf
  ProjectOf <- MCProjectOf
  CreatedFrom <- MCCreatedFrom
  Moved = {agent}
  Digest = Digest
  Critical = {AgentImage, RestruoImage}
  Carriers = {AgentImage}
  Files <- MCFiles
  Env <- MCEnv
  Empty = Empty
  Unset = Unset
  None = None
  Unread = Unread
  All = All
  Gate = 2
  MaxChanges = 1
INVARIANTS
  UnknownIsNotFine
  EveryContainerOnce
  CriticalIsMarked
PROPERTY
  LookEnds
CHECK_DEADLOCK FALSE
