SPECIFICATION Spec
CONSTANTS
    root = root  o1 = o1  o2 = o2
    Objects <- ThreeObjects
    Root = root
    None = None
    Paths = {"b"}
    Uris <- MCUris
    Careful = FALSE
INVARIANTS RoutedToLive
PROPERTIES RegistrationsKept
