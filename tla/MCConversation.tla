--------------------------- MODULE MCConversation ---------------------------
(* An instance of Conversation for TLC: a model on each endpoint alone, one on both, and one *)
(* that nothing is known of.                                                                 *)
EXTENDS Conversation

MCModels == {[endpoints |-> {"/chat/completions"}, reasons |-> TRUE, efforts |-> {1, 3}],
             [endpoints |-> {"/responses"}, reasons |-> TRUE, efforts |-> {1, 2, 3, 4}],
             [endpoints |-> {"/chat/completions", "/responses"}, reasons |-> FALSE, efforts |-> {}],
             [endpoints |-> {}, reasons |-> TRUE, efforts |-> {}]}

Wish(thinking, budget, effort) == [thinking |-> thinking, budget |-> budget, effort |-> effort]
MCWishes == {Wish("adaptive", NoEffort, NoEffort), Wish("disabled", NoEffort, 5),
             Wish("adaptive", NoEffort, 5), Wish("enabled", 2049, NoEffort)}
=============================================================================
