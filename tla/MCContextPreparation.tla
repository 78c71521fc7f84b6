------------------------ MODULE MCContextPreparation ------------------------
(***************************************************************************)
(* Two processes over one database, in one operating-system process or in  *)
(* two; a build that knows one migration and the current one that knows    *)
(* three; a satisfiable configuration, one whose context policy cannot be  *)
(* satisfied, and one that does not compile.  One operator request and one *)
(* Run.  With one store at a time two deaths, downgrades, failed reads or  *)
(* edits of the source; two stores overlap without any.                    *)
(***************************************************************************)
EXTENDS ContextPreparation
CONSTANTS d1, d2, s1, s2, s3, k1, r1, a1, g1, g2, i1
MCProcesses == {d1, d2}
MCThreads == {Main}
MCSources == {s1, s2, s3}
MCMeaning ==
    [s \in MCSources |->
        CASE s = s1 -> [guidance |-> [a \in {a1} |-> g1], policy |-> {"task-contract"}]
          [] s = s2 -> [guidance |-> [a \in {a1} |-> g2],
                        policy |-> {"task-contract", "agent-memory"}]
          [] s = s3 -> Invalid]
MCInputs == <<i1>>
MCKnown == <<1, 3>>
MCMaxFaults == [s \in BOOLEAN |-> IF s THEN 2 ELSE 0]
=============================================================================
