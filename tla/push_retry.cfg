\* One push at a time over an ASA and a router, every failure of either job and
\* retries of every job; nobody touches a device a pipeline works on.
SPECIFICATION PushSpec
CONSTANTS
    Dev = {fw, rt}
    Line = {a, b}
    MaxSsh = 1
    Pipe = {p1}
    Netmiko = {fw}
    Firewall = {fw}
    Uncovered = {}
    Repeated = {}
    Faults = {"gate", "deploy"}
    Quiet = TRUE
    Pipefail = TRUE
    Serial = TRUE
PROPERTIES GreenMeansDeployed RollsForward SessionStaysBetween
INVARIANT DeployStaysBetween
SYMMETRY Interchangeable
CHECK_DEADLOCK FALSE
