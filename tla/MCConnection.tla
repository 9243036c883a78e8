---------------------------- MODULE MCConnection ----------------------------
(***************************************************************************)
(* What UNIX_TL may send in the runs of Connection.                        *)
(***************************************************************************)
EXTENDS Connection, SequencesExt

Ending == {<<"A">>, <<"Q">>, <<"209">>}

(* Up to n lines of a set and a line that ends the conversation.           *)
Conversations(lines, n) ==
  {Append(s, e) : s \in BoundedSeq(lines, n), e \in Ending}

(* The expected framing, and lines cut anywhere, before another E or an A  *)
(* too.                                                                    *)
BothFramings ==
  [f \in Framings |->
     IF f = "expected"
     THEN Conversations({<<"#">>, <<"C">>, <<"F">>, <<"E", "text">>}, 4)
     ELSE Conversations({<<"#">>, <<"#", "A">>, <<"C">>, <<"F">>, <<"F", "text">>,
                         <<"E">>, <<"E", "text">>, <<"E", "E">>,
                         <<"E", "text", "text">>}, 2)]

(* An E line that arrives whole.                                           *)
WholeE == [f \in {"any"} |-> {<< <<"E">>, <<"A">> >>}]
=============================================================================
