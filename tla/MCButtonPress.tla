--------------------------- MODULE MCButtonPress ---------------------------
EXTENDS ButtonPress, TLC

CONSTANTS frame, button, other, gauge

MCLibrary == <<frame, button>>
MCName == frame :> "frame" @@ button :> "button" @@ other :> "button" @@ gauge :> "gauge"
MCChannelAt == "red" :> 2 @@ "green" :> 1 @@ "blue" :> 0 @@ "alpha" :> -1

Mirror == Permutations(Spot)

=============================================================================
