------------------------ MODULE MCRealtimeSessions ------------------------
(* Instances of RealtimeSessions.                                          *)
EXTENDS RealtimeSessions

CONSTANTS r1, r2, s1, s2

(* Both requests may serve the first session, one of them the second.     *)
ServesShared == [r \in Reqs |-> IF r = r1 THEN {s1} ELSE {s1, s2}]

(* Both sessions are new, or only the one they share is, and the other has *)
(* been chatted with over HTTP.                                            *)
NewSessions == {[s \in Sessions |-> "absent"]}
NewAndUsedSessions == {[s \in Sessions |-> IF s = s1 THEN "absent" ELSE "http"]}
=============================================================================
