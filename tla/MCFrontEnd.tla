----------------------------- MODULE MCFrontEnd ------------------------------
(***************************************************************************)
(* The sessions of the wire server and the statements they execute.  The   *)
(* two models share no state, so that no interleaving of them says more    *)
(* than they do one by one: `part' picks one at the start.                 *)
(***************************************************************************)
EXTENDS PgSession, Executor

CONSTANTS c1, c2, s1, s2

VARIABLE part

frontEndVars == <<pgVars, sqlVars, part>>

FrontEndInit == PgInit /\ ExecutorInit /\ part \in {"sessions", "statements"}

FrontEndNext ==
  \/ part = "sessions" /\ PgNext /\ UNCHANGED <<sqlVars, part>>
  \/ part = "statements" /\ ExecutorNext /\ UNCHANGED <<pgVars, part>>

Spec == FrontEndInit /\ [][FrontEndNext]_frontEndVars /\ PgFairness

\* c1 sends every kind of statement, c2 meets it in the catalog.
MCConn == {c1, c2}
MCQuery ==
  [c \in MCConn |->
     IF c = c1 THEN {<<q>> : q \in Statement \ {"select"}}
                      \cup {<<"begin", "write">>, <<"bad", "commit">>}
               ELSE {<<"create">>}]

\* Texts to base 3: "-1", "1", "10", "12"; 1 is a prefix of 10 and 12, of which
\* 12 is on the other shard.
MCShard == {s1, s2}
MCMinInt == -2
MCId == {-1, 1, 3, 5}
MCShardFor == [n \in MinInt .. MaxInt |-> IF n = 5 THEN s2 ELSE s1]
MCHash == [n \in (MinInt - 1) .. MaxInt |-> IF n % 2 = 0 THEN s1 ELSE s2]
=============================================================================
