\* Two devices, one of them a firewall with a line the guardrail refuses; one
\* edit over SSH and two mishaps at any moment of any job.
SPECIFICATION SyncSpec
CONSTANTS
    Dev = {fw, rt}
    Line = {a, b}
    MaxSsh = 1
    Firewall = {fw}
    Uncovered = {b}
    Mishaps = {"outage", "acknowledge", "crash", "push"}
    MaxMishap = 2
INVARIANT SyncTypeOK
PROPERTIES Converges ForgottenAckReRaises GreenMeansVerified PublishesOnlyDrift MirrorsDevices
