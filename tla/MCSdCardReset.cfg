SPECIFICATION Spec
CONSTANTS
    Lba = {a, b}
    Value = {u, v}
    SpiFails = {}
    MmcFails = {"data", "reset"}
    MaxTries = 2
    MaxInit = 1
    Boards = {"sdmmc"}
PROPERTIES
    SuccessIsTrue
