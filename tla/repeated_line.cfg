\* One deployment to a router on which someone typed a line over SSH whose text
\* also stands in another section.
SPECIFICATION PushSpec
CONSTANTS
    Dev = {rt}
    Line = {a, b}
    Firewall = {}
    Uncovered = {}
    MaxSsh = 1
    Pipe = {p1}
    Netmiko = {}
    Repeated = {a}
    Faults = {}
    Quiet = TRUE
    Pipefail = TRUE
    Serial = TRUE
PROPERTY NoUnreportedLoss
CHECK_DEADLOCK FALSE
