\* One validator, nothing fails.
SPECIFICATION FairSpec
CONSTANTS
    rf1 = rf1
    eu1 = eu1
    Vantage = {rf1, eu1}
    Role <- RoleOf
    MaxEdits = 0
    MaxFaults = 0
PROPERTIES
    ValidatorServed
