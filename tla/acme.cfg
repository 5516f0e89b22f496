SPECIFICATION Spec
CONSTANTS
    b1 = b1
    b2 = b2
    k1 = k1
    k2 = k2
    uri = uri
    other = other
    Bindings = {b1, b2}
    Records = {uri, other}
    Uri = uri
    Credentials = {k1, k2}
    Blank = Blank
    Missing = Missing
    Installs <- MCInstalls
    MaxLag = 3
    MaxWrites = 2
    MaxMishaps = 2
INVARIANT CacheHonest
PROPERTIES UpdateOnlyAdds EntriesAppear
CHECK_DEADLOCK FALSE
