\* Every tree over thirteen paths, walked in every order.
CONSTANTS
    Parts <- MCParts
    Roots <- MCRoots
    Below <- MCBelow
    IsHidden <- MCIsHidden
SPECIFICATION Spec
INVARIANTS
    SendsVisibleFiles
    NamesTellFilesApart
    CommonPartsAreLongest
\* The walk ends.
CHECK_DEADLOCK FALSE
