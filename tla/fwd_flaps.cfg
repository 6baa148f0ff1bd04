CONSTANTS
    LinkType <- MCLinkType
    Remote <- MCRemote
    RouterOf <- MCRouterOf
    DownBeacons <- MCDownBeacons
    CoreBeacons <- MCCoreBeacons
    ExpTime <- ShortLived
    Backends <- AllBackends
    Kinds = {"data", "request", "onehop"}
    MaxDown = 2
    MaxFlaps = 3
    Start = 0
    MaxTime = 1
SPECIFICATION Spec
INVARIANTS PathsAreValid StaysOnPath AnswersRetrace AnswersAreValid TraceroutePinpoints
