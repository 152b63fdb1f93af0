CONSTANTS
    CacheMaxAge = 2
    MaxVersion = 2
    MaxTime = 4
SPECIFICATION Spec
INVARIANT SavesAreAtomic
