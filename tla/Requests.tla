------------------------------ MODULE Requests ------------------------------
(***************************************************************************)
(* What a process that serves requests promises, with no line, piece or    *)
(* read in it: each request is answered at most once, by its own answer    *)
(* and no other, nothing is said that was not asked for, and whoever waits *)
(* is never given the answer to something else.  A request may be given up *)
(* by either side.                                                         *)
(***************************************************************************)
EXTENDS Naturals, Sequences

CONSTANTS Answers, Nothing      \* what may be answered, and what is not an answer

VARIABLES asked,    \* the answer the peer waits for, or Nothing
          owed,     \* the answer the process is to give, or Nothing
          given,    \* the answers given
          heard     \* how many of them the peer has read

vars == <<asked, owed, given, heard>>

Init == asked = Nothing /\ owed = Nothing /\ given = <<>> /\ heard = 0

(* One request at a time; a process that has ended does not get it.        *)
Ask == /\ asked = Nothing /\ owed = Nothing /\ heard = Len(given)
       /\ asked' \in Answers /\ owed' \in {asked', Nothing}
       /\ UNCHANGED <<given, heard>>

Answer == /\ owed # Nothing
          /\ given' = Append(given, owed) /\ owed' = Nothing
          /\ UNCHANGED <<asked, heard>>

Refuse == /\ owed # Nothing /\ owed' = Nothing
          /\ UNCHANGED <<asked, given, heard>>

Hear == /\ heard < Len(given)
        /\ asked # Nothing => given[heard + 1] = asked
        /\ heard' = heard + 1 /\ asked' = Nothing
        /\ UNCHANGED <<owed, given>>

GiveUp == /\ asked # Nothing /\ asked' = Nothing
          /\ UNCHANGED <<owed, given, heard>>

Next == Ask \/ Answer \/ Refuse \/ Hear \/ GiveUp

Spec == Init /\ [][Next]_vars
=============================================================================
