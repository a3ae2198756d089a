\* Two concurrent pipelines, deploys that fail in every way; a quiet site and
\* a gate that does its work.
SPECIFICATION PushSpec
CONSTANTS
    Dev = {fw}
    Line = {a, b}
    MaxSsh = 1
    Pipe = {p1, p2}
    Netmiko = {fw}
    Firewall = {fw}
    Uncovered = {}
    Repeated = {}
    Faults = {"deploy"}
    Quiet = TRUE
    Pipefail = TRUE
    Serial = FALSE
INVARIANT PushTypeOK
PROPERTY NoUnreportedLoss
SYMMETRY Interchangeable
CHECK_DEADLOCK FALSE
