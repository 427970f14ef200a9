--------------------------- MODULE MCAgentBlocks ---------------------------
(* Policies are interchangeable, and so are users and requests. *)
EXTENDS AgentBlocks, TLC

MCSymmetry == Permutations(Policies) \cup Permutations(Users)
              \cup Permutations(Requests)
=============================================================================
