---------------------------- MODULE MCWriteBack ----------------------------
(***************************************************************************)
(* Instances of WriteBack: results, targets and policy sections chosen so  *)
(* that each branch of the filter and of the responders is taken.          *)
(***************************************************************************)
EXTENDS WriteBack

CONSTANTS bug, Bug, wip

MCLowerCase == [l \in {bug, Bug, wip} |-> IF l = Bug THEN bug ELSE l]

Part(c, l, s, n) == [output |-> TRUE, comment |-> c, labels |-> l, status |-> s,
                     commit |-> n, metadata |-> Nil]
MCResults == {Part(Nil, [add |-> <<Bug, Bug>>, remove |-> <<wip>>], Nil, Nil),
              Part(9, Nil, "success", 5),
              Part(0, [add |-> <<>>, remove |-> <<bug>>], "approved", Nil),
              [Part(Nil, Nil, Nil, Nil) EXCEPT !.output = FALSE]}

On(source, number, sha, repo) ==
    [source |-> source, number |-> number, sha |-> sha, repo |-> repo]
MCTargets == {On("github", TRUE, TRUE, TRUE), On("gitlab", TRUE, TRUE, TRUE),
              On("gitlab", FALSE, FALSE, FALSE), On("slack", FALSE, FALSE, FALSE)}

Absent == [kind |-> "absent", allow |-> "absent", max |-> 0, allowed |-> {}, blocked |-> {}]
Map(allow, max, allowed, blocked) ==
    [kind |-> "map", allow |-> allow, max |-> max, allowed |-> allowed, blocked |-> blocked]
Only(x, s) == [y \in Section |-> IF y = x THEN s ELSE Absent]
MCPolicies == {Only("comment", Map("true", 7, {}, {})),
               Only("comment", Map("true", 2, {}, {})),
               Only("comment", Map("other", 0, {}, {})),
               Only("labels", Map("true", 0, {Bug, wip}, {bug})),
               Only("labels", Map("absent", 0, {}, {})),
               [Only("status", [Absent EXCEPT !.kind = "other"]) EXCEPT
                    !["commit"] = Map("true", 4, {}, {})]}
=============================================================================
