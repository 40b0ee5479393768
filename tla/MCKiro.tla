------------------------------- MODULE MCKiro -------------------------------
(* Instances for TLC of the Kiro collector: one conversation in each table,  *)
(* and all short conversations for the conversion to events.                 *)
EXTENDS KiroReports

CONSTANTS c1, c2

MCTurn(user, chunks) ==
  [user |-> user, assistant |-> <<4>>, images |-> <<>>, chunks |-> chunks,
   tools |-> <<"t">>, start |-> 0]

MCTurnOf    == [c \in Conversations |-> [i \in AllTime |-> MCTurn(<<8>>, i % 2)]]
MCSummaryOf == [c \in Conversations |-> 9]

Turns == [user : {<<>>, <<4, 7>>}, assistant : {<<9>>}, images : {<<>>}, chunks : {0, 5},
          tools : {<<"t", "u">>}, start : {0, 1, 3}]
           \cup {[MCTurn(<<8>>, 0) EXCEPT !.images = <<3000>>, !.start = 3]}
Histories == UNION {[1..n -> Turns] : n \in 0..2}
               \cup {<<s, t, s>> : s, t \in {u \in Turns : u.chunks = 0}}

MCSnaps   == [created : {0, 2}, updated : {0, 4}, summary : {0, 9}, turns : Histories]
MCPeriods == {{}, {1}, {2}, {3, 4}}
=============================================================================
