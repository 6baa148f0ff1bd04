SPECIFICATION Spec
CONSTANTS
    Svc = {cs}
    IPs = {ip1, ip2}
    Ports <- MixedPorts
    EndhostPort = 30041
    Dispatched <- DispatchedPorts
    Workers = {w1, w2}
    MaxObjects = 4
INVARIANTS TypeOK RegistryMatches StillResolvable
