--------------------------- MODULE MCRelayerRouter ---------------------------
(* Two relayers, in the order of OZ_RELAYER_URLS; both go up and down, the   *)
(* second also gets busier and idle again.                                   *)
EXTENDS RelayerRouter, TLC
CONSTANTS r1, r2
TwoRelayers == <<r1, r2>>
Up(n) == [healthy |-> TRUE, pending |-> n]
Down == [healthy |-> FALSE]
OneOfThemBusy == r1 :> {Down, Up(0)} @@ r2 :> {Down, Up(0), Up(1)}
Symmetry == Permutations(Call)
=============================================================================
