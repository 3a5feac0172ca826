----------------------------- MODULE MCCallSlots -----------------------------
(* Three dispatches of one organisation, a1 and a2 of campaign c1 and a3 of    *)
(* campaign c2: a1 and a2 compete for the single slot of c1, and the          *)
(* organisation has two.                                                       *)
EXTENDS CallSlots, TLC

CONSTANTS a1, a2, a3, o1, c1, c2

MCAttempts == {a1, a2, a3}
MCOrgOf == [a \in MCAttempts |-> o1]
MCCampaignOf == [a \in MCAttempts |-> IF a = a3 THEN c2 ELSE c1]
MCOrgLimit == [o \in {o1} |-> 2]
MCNarrow == [c \in {c1, c2} |-> 1]

Alike == Permutations({a1, a2})
==============================================================================
