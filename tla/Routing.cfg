SPECIFICATION FairSpec
CONSTANTS
    root = root  o1 = o1  o2 = o2
    Objects <- ThreeObjects
    Root = root
    None = None
    Paths = {"b", "c"}
    Uris <- MCUris
    Careful = TRUE
INVARIANTS PointersAlive
PROPERTIES RoutedByPath RequestAnswered
