-------------------------------- MODULE MCFetch --------------------------------
(* Small instances of FetchAndProve: command lines of every mode. *)
EXTENDS FetchAndProve

Line == [watch |-> FALSE, window |-> "none", from |-> 0, to |-> 0, step |-> SlotsPerEpoch, reverse |-> FALSE,
         limit |-> None, stateId |-> FinalizedId, maxPolls |-> None, pollSeconds |-> 12,
         files |-> "none", inspect |-> TRUE]

WatchLines ==
  {[Line EXCEPT !.watch = TRUE, !.files = f] : f \in {"none", "progress", "same"}}
    \cup {[Line EXCEPT !.watch = TRUE, !.maxPolls = 3, !.files = f] : f \in {"none", "log", "both"}}
StateLines == {[Line EXCEPT !.stateId = s] : s \in {FinalizedId, HeadId, 3}}
                \cup {[Line EXCEPT !.inspect = FALSE]}
RecentLines == {[Line EXCEPT !.window = "recent", !.from = 2, !.step = n, !.reverse = r, !.limit = l] :
                  n \in {1, 2}, r \in BOOLEAN, l \in {None, 1, 2}}
WindowLines == {[Line EXCEPT !.window = "slots", !.from = 1, !.to = 4, !.step = 2, !.stateId = 3,
                             !.reverse = r] : r \in BOOLEAN}
EpochLines == {[Line EXCEPT !.window = "epochs", !.from = 1, !.to = 1, !.step = 1, !.stateId = s] :
                 s \in {FinalizedId, 3}}
Rejected == {[Line EXCEPT !.watch = TRUE, !.stateId = HeadId],
             [Line EXCEPT !.watch = TRUE, !.window = "recent", !.from = 1],
             [Line EXCEPT !.watch = TRUE, !.pollSeconds = 0],
             [Line EXCEPT !.window = "mixed"],
             [Line EXCEPT !.window = "recent", !.from = 1, !.limit = 0],
             [Line EXCEPT !.window = "slots", !.from = 2, !.to = 1]}

MCArgs == WatchLines \cup StateLines \cup RecentLines \cup WindowLines \cup EpochLines \cup Rejected
================================================================================
