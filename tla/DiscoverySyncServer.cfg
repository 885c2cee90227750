\* One server process: two workflows, the policy editor and a correction, with
\* a restart of the server.
CONSTANTS
    Workflow = {w1, w2}
    Command = {}
    Server = server
    Kind = {"full", "market"}
    Policy = {narrow, wide}
    Corrections = TRUE
    Corrector = corrector
    None = none
    Established = TRUE
    Crashable = {server}
    MaxRuns = 2
    MaxBatches = 5
    MaxVersions = 2
    MaxCrashes = 1
SPECIFICATION Spec
SYMMETRY ServerSymmetry
INVARIANTS
    TypeOK
    OneWorkflow
    FrozenPolicy
PROPERTIES
    PrescreenNeverRegresses
    PolicyStableDuringRun
