CONSTANTS
    Key <- MCKey
    Value = {v1, v2}
    None = None
    HASH_MINSIZE = 4
    MaxFailures = 1
SPECIFICATION Spec
INVARIANTS TableConsistent LookupEnds
PROPERTIES ImplementsMap
