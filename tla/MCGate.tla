------------------------------- MODULE MCGate -------------------------------
(* One limited path, two that are not, three addresses.  What can be wrong is *)
(* given in pairs of neighbouring checks.                                     *)
EXTENDS Gate, TLC

MCRoute == [quest |-> "quest", ready |-> "ready", other |-> "none"]
MCLimit == [quest |-> 2, ready |-> 0, other |-> 0]
MCWrong == {{}, {"transport"}, {"length", "body"}, {"method", "credentials"},
            {"credentials", "content"}, {"content"}}

Symmetry == Permutations(Addresses)
=============================================================================
