\* Every world and route, two mishaps.
CONSTANTS
  Worlds <- AllWorlds
  Routes <- AllRoutes
  MaxMishaps = 2
SPECIFICATION RouteFairSpec
INVARIANTS SshInv RouteInv RouteComplete
PROPERTIES Settles
CHECK_DEADLOCK FALSE
