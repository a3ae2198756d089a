\* One firewall, two pipelines at once and the drift job; deployments that fail
\* in every way and are retried, an edit over SSH and an outage.
SPECIFICATION NetworkSpec
CONSTANTS
    Dev = {fw}
    Line = {a}
    Firewall = {fw}
    Uncovered = {}
    MaxSsh = 1
    Pipe = {p1, p2}
    Netmiko = {fw}
    Repeated = {}
    Faults = {"deploy"}
    Quiet = TRUE
    Pipefail = TRUE
    Serial = FALSE
    Mishaps = {"outage"}
    MaxMishap = 1
PROPERTY NetworkConverges
