\* A device nobody acknowledged is down while the guardrail refuses another.
SPECIFICATION SyncSpec
CONSTANTS
    Dev = {fw, rt}
    Line = {a, b}
    MaxSsh = 1
    Firewall = {fw}
    Uncovered = {b}
    Mishaps = {"outage", "acknowledge", "crash", "push"}
    MaxMishap = 1
PROPERTY UnreachableIsRed
