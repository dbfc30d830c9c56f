----------------------------- MODULE MCRefresh -----------------------------
(* One client that reports two players at different times; turns of the    *)
(* timer.  The lead is shorter than the cooldown, as by default.           *)
EXTENDS Sources
MCTimeout == [scope \in Scopes |-> 4]
MCInit == SourcesInit
MCNext ==
  \/ \E c \in Clients : Join(c, DefaultRoom) /\ c \notin Connected
  \/ \E c \in Connected, o \in ObjectIds :
       HandlePlayerReport(c, [EmptyReport EXCEPT !.upsert["players"] = {o}])
  \/ \E c \in Connected : TakeControl(c)
  \/ Turn
=============================================================================
