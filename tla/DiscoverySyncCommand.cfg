\* A workflow of the server and one of the command line, which may die; from an
\* empty workspace.  The server keeps running.
CONSTANTS
    Workflow = {w1, w2}
    Command = {w2}
    Server = server
    Kind = {"full", "incremental"}
    Policy = {narrow}
    Corrections = FALSE
    Corrector = corrector
    None = none
    Established = FALSE
    Crashable = {w2}
    MaxRuns = 2
    MaxBatches = 2
    MaxVersions = 1
    MaxCrashes = 1
SPECIFICATION FairSpec
PROPERTY LeaseRecovered
\* The bounded rows run out.
CHECK_DEADLOCK FALSE
