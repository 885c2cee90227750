\* The server restarts while a workflow of the command line is under way.
CONSTANTS
    Workflow = {w1, w2}
    Command = {w2}
    Server = server
    Kind = {"full"}
    Policy = {narrow}
    Corrections = FALSE
    Corrector = corrector
    None = none
    Established = TRUE
    Crashable = {server}
    MaxRuns = 2
    MaxBatches = 4
    MaxVersions = 1
    MaxCrashes = 1
SPECIFICATION Spec
INVARIANT OneWorkflow
