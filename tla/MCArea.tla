------------------------------- MODULE MCArea -------------------------------
(* Small instance of the chat area: a hydrated chat of one turn, which was *)
(* edited once and whose reply has an older variant.                       *)
EXTENDS ChatArea

Row(n) == <<"server", n>>
MCRowBody == [id \in {Row(n) : n \in 1..4} |-> <<100 + id[2]>>]
MCInitial ==
  << [id |-> Row(1), role |-> "user", body |-> <<101>>, thinking |-> FALSE,
      truncated |-> FALSE, row |-> NoId, siblings |-> <<Row(4), Row(1)>>],
     [id |-> Row(3), role |-> "assistant", body |-> <<103>>, thinking |-> FALSE,
      truncated |-> FALSE, row |-> NoId, siblings |-> <<Row(2), Row(3)>>] >>
MCInitialConv == <<"conv", 0>>
=============================================================================
