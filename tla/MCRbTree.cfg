SPECIFICATION Spec
CONSTANTS
    Node <- Six
    Expiry <- Ties
    Null = 0
    Sentinel = 7
INVARIANTS RedBlackTree
PROPERTIES LoopsEnd ImplementsQueue
