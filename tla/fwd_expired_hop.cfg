CONSTANTS
    LinkType <- MCLinkType
    Remote <- MCRemote
    RouterOf <- MCRouterOf
    DownBeacons <- MCDownBeacons
    CoreBeacons <- MCCoreBeacons
    ExpTime <- ShortLived
    Backends <- AllBackends
    Kinds = {"data"}
    MaxDown = 0
    MaxFlaps = 0
    Start = 1
    MaxTime = 1
SPECIFICATION Spec
INVARIANTS AnswersAreValid
