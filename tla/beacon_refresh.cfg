SPECIFICATION Spec
CONSTANTS
  Links = {"l1", "l2", "l3", "k1", "k2"}
  From <- MCFrom
  To <- MCTo
  CoreLinks = {"k1", "k2"}
  Tasks <- MCTasks
  Period = 2
  Lifetime = 8
  MaxDelay = 3
  MaxHops = 3
  MaxFaults = 1
  Settle = 5
INVARIANTS TypeOK NoLoops NoLapse SettlesInTime
PROPERTY NeverOlder
