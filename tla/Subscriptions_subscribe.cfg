SPECIFICATION FairSpec
CONSTANTS
  c1 = c1  c2 = c2  u1 = u1  u2 = u2  group = group
  name = name  other = other  prefix = prefix  container = container  Null = Null
  Clients = {c1, c2}
  Users = {u1, u2}
  UserOf <- MCUserOf
  GroupsOf <- MCGroupsOf
  Databases = {db}
  Containers = {container}
  Names = {name, other}
  Prefixes = {prefix}
  StartsWith <- MCStartsWith
  Tasks <- MCTasks
  Conns <- MCConns
  MaxRequests = 3
CHECK_DEADLOCK FALSE
INVARIANTS SubsMapExact 
PROPERTIES QueuedIsSent
