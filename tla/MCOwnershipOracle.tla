------------------------ MODULE MCOwnershipOracle ------------------------
(* Small modules of functions for OwnershipOracle. *)
EXTENDS OwnershipOracle

CONSTANTS a, b, c

Pass(f, r) == [callee |-> f, returned |-> r]

\* Uses of the parameter alone, calls alone, and both.
MCBodies ==
    {[direct |-> d, passes |-> {}] : d \in {{"read"}, {"moved"}, {"escaped"}, {}}}
    \cup {[direct |-> {}, passes |-> {Pass(f, r)}] : f \in Fns, r \in BOOLEAN}
    \cup {[direct |-> {"read", "mutated"}, passes |-> {Pass(f, FALSE)}] : f \in Fns}
    \cup {[direct |-> {"moved"}, passes |-> {Pass(f, TRUE)}] : f \in Fns}

\* Fewer bodies, for call chains over three functions.
ChainBodies ==
    {[direct |-> d, passes |-> {}] : d \in {{"read"}, {"escaped"}}}
    \cup {[direct |-> {}, passes |-> {Pass(f, TRUE)}] : f \in Fns}
    \cup {[direct |-> {"read", "mutated"}, passes |-> {Pass(c, FALSE)}]}
==========================================================================
