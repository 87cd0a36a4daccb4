\* A search alone, with keys the language does not list.
SPECIFICATION SearchSpec
CONSTANTS
    Terms <- MCTerms
    Arriving <- MCArriving
    Hosts <- MCHosts
    PageSize = 1
    MaxTerms = 2
    MaxStored = 2
INVARIANTS UnlistedKeysAreWords
