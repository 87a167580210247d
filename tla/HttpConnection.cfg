SPECIFICATION FairSpec
CONSTANTS
    HeaderLen = 2
    MaxText = 1
    MaxUpload = 2
    MaxBody = 3
INVARIANTS OneAnswer RefusedHasNoEffect UploadAnswersArrive
PROPERTIES ThreadEnds
CHECK_DEADLOCK FALSE
