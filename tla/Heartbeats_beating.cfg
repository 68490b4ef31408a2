SPECIFICATION Spec
CONSTANTS
    a1 = a1
    m1 = m1
    m2 = m2
    Agents = {a1}
    Monitors = {m1, m2}
    AgentOf <- MCAgentOf
    Configured = {m1}
    Addresses = {1, 2}
    Static = {2}
    Refusing = {2}
    Minimum <- MCMinimum
    Target <- MCTarget
    MaxFaults = 1
    MaxLost = 1
    Keys <- MCKeys
    Intervals = {10, 20}
    MaxDeploys = 1
    MaxConfigs = 1
INVARIANTS
    FundedOnce
PROPERTIES
    
    
    IntervalApplied
