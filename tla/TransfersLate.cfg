SPECIFICATION TransfersSpec
CONSTANTS
 Engines = {"e"}
 RemoteIds = {r1, r2}
 Data = {x, y}
 BlockBytes = 3
 MaxBytes = 4
 Conns = {k1, k2}
 NoConn = NoConn
 Place <- MCPlace
 PlaceTier <- MCPlaceTier
 Verify = TRUE
SYMMETRY TransferSymmetry
INVARIANTS NoMismatch
