SPECIFICATION FairSpec
CONSTANTS
    Images = {i1}
    NoImage = NoImage
    FailureThreshold = 2
    MaxFaults = 1
PROPERTY UploadedIsRemoved
