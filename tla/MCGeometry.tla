----------------------------- MODULE MCGeometry -----------------------------
EXTENDS Geometry, TLC

CONSTANTS root, win, box, ok

MCParent == win :> root @@ box :> win @@ ok :> box
MCClass == win :> "toplevel" @@ box :> "frame" @@ ok :> "button"
MCSizes == win :> {6} @@ box :> {4} @@ ok :> {2}
MCBorders == win :> {} @@ box :> {0, 1} @@ ok :> {}
Natural == <<>>
At(n) == [at |-> n]
Filling == [rel_size |-> 2]
MCCalls == win :> {At(0), At(5)} @@ box :> {Natural, Filling} @@ ok :> {Natural, At(1)}
MCWindow == [at |-> 0, size |-> 8]

=============================================================================
