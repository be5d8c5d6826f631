SPECIFICATION TransferFairSpec
CONSTANTS
    Main = Main
    Docs = {d1, d2}
    TabIds = {t1, t2}
    Nothing = Nothing
    MaxMoves = 2
    MaxTabEdits = 1
CHECK_DEADLOCK FALSE
INVARIANTS MovedTextIsKept OneCopy
PROPERTIES DetachedIsShown
