---------------------------- MODULE RaftPropose ----------------------------
(***************************************************************************)
(* RaftNode with the request threads of the shard server that propose an   *)
(* entry and wait for it: ShardServiceImpl::ProposeAndWait, which calls    *)
(* RaftNode::Propose and RaftNode::WaitForCommit on the leader it found.   *)
(* There is one request for each value of Value.                           *)
(***************************************************************************)
EXTENDS RaftNode

VARIABLE wait   \* the request for each value

NotAsked == [state |-> "none", node |-> Nil, index |-> 0]

InitWait == Init /\ wait = [v \in Value |-> NotAsked]

\* FindLeader returned n, and Propose appended the entry.
ProposeAndWait(n, v) ==
  /\ wait[v] = NotAsked
  /\ Propose(n, v)
  /\ wait' = [wait EXCEPT ![v] = [state |-> "waiting", node |-> n,
                                  index |-> LastIndex(log[n]) + 1]]

\* WaitForCommit returns true: last_applied_ has reached the index.
WaitForCommit(v) ==
  /\ wait[v].state = "waiting"
  /\ Len(applied[wait[v].node]) >= wait[v].index
  /\ wait' = [wait EXCEPT ![v].state = "ok"]
  /\ UNCHANGED vars

\* The wait times out, or the node it runs on restarts.
WaitFails(v) ==
  /\ wait[v].state = "waiting"
  /\ wait' = [wait EXCEPT ![v].state = "failed"]
  /\ UNCHANGED vars

RestartNode(n) ==
  /\ Restart(n)
  /\ wait' = [v \in Value |-> IF wait[v].state = "waiting" /\ wait[v].node = n
                              THEN [wait[v] EXCEPT !.state = "failed"] ELSE wait[v]]

NextWait ==
  \/ GroupStep /\ UNCHANGED wait
  \/ \E n \in Server : RestartNode(n) \/ \E v \in Value : ProposeAndWait(n, v)
  \/ \E v \in Value : WaitForCommit(v) \/ WaitFails(v)

SpecWait == InitWait /\ [][NextWait]_<<vars, wait>>

-----------------------------------------------------------------------------
\* A request that was told its entry is committed finds that entry among the
\* chosen ones, at the index it was given.
AcknowledgedIsChosen ==
  \A v \in Value :
    wait[v].state = "ok" =>
      /\ wait[v].index <= Len(chosen)
      /\ chosen[wait[v].index].val = v
=============================================================================
