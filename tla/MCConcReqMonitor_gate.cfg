\* One container; nothing fails and every request to scale returns.
SPECIFICATION PromptSpec
CONSTANTS
    CPUs = {p1}
    n1 = n1
    Containers = {c1}
    Namespaces = {n1}
    None = None
    Netns <- OneNetns
    Ring = 1
    Crowd = 1
    MayFail = FALSE
PROPERTY GateIsAddedBack
CHECK_DEADLOCK FALSE
