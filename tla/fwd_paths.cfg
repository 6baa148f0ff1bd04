CONSTANTS
    LinkType <- MCLinkType
    Remote <- MCRemote
    RouterOf <- MCRouterOf
    DownBeacons <- MCDownBeacons
    CoreBeacons <- MCCoreBeacons
    ExpTime <- LongLived
    Backends <- SomeBackends
    Kinds = {"data", "svc", "request"}
    MaxDown = 0
    MaxFlaps = 0
    Start = 0
    MaxTime = 0
SPECIFICATION SpecLive
INVARIANTS TypeOK PathsAreValid StaysOnPath AnswersRetrace TracerouteNamesInterfaces
PROPERTY EventuallyAnswered
