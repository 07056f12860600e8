\* The daemonset must come to target the running pods once they settle,
\* here with a watch that reports no errors.
CONSTANTS
    p1 = p1
    p2 = p2
    Pods <- MCPods
    MaxChanges = 2
    WatchErrors = FALSE
SPECIFICATION Spec
PROPERTY TappersFollowPods
CHECK_DEADLOCK FALSE
