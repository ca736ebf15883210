CONSTANTS
    anna = anna
    ben = ben
    sunrise = sunrise
    moonset = moonset
    Nobody = Nobody
    Names <- MCNames
    Secrets <- MCSecrets
SYMMETRY MCSymmetry
SPECIFICATION Spec
PROPERTIES NobodyEntersUngiven NobodyIsLockedOut AnAdministratorStays
