------------------------ MODULE MC_LookaheadTimeout ------------------------
(* Two worker handles and two pool slots: enough for one handle's current  *)
(* timeout to reuse the slot of the other's, and for a timeout left armed  *)
(* by an aborted call to meet the handle's next call.                      *)
EXTENDS LookaheadTimeout, TLC

CONSTANTS h1, h2, s1, s2

MCHandles == {h1, h2}
MCSlots == {s1, s2}
(* One handle, for the liveness runs (checked without symmetry).           *)
MCOneHandle == {h1}
MCSymmetry == Permutations(MCSlots) \cup Permutations(MCHandles)

(* Handles of solver workers: resplitCube and solve only.                  *)
MCWorkerCalls == [h \in Handles |-> {"resplit", "solve"}]
(* A handle used for every call, lookahead and fastLookahead included.     *)
MCAllCalls == [h \in Handles |-> CallKinds]
=============================================================================
