-------------------------- MODULE MCAiConversation --------------------------
EXTENDS AiConversation, TLC

Symmetry == Permutations(Requests) \cup Permutations(Convs) \cup Permutations(Tools)
=============================================================================
