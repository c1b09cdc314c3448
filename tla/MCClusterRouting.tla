-------------------------- MODULE MCClusterRouting --------------------------
(* A cluster of two nodes, a standalone node and a process that fails to  *)
(* load its config; three sources, four envelopes.                        *)
EXTENDS ClusterRouting, TLC

MCEnvelopes == {"e1", "e2", "e3", "e4"}
MCSrc == [e \in MCEnvelopes |->
            CASE e = "e1" -> "s1" [] e = "e2" -> "s2" [] e = "e3" -> "s1" [] OTHER -> "s3"]

(* The table a node holds after the scheduler's first assignment, and the  *)
(* table after the scheduler swapped the two nodes' sources.               *)
Initial == [s \in {"s1", "s2", "s3"} |-> IF s = "s2" THEN 1 ELSE 0]
Swapped == [s \in {"s1", "s2", "s3"} |-> 1 - Initial[s]]

MovingAssignments == {Initial, Swapped}

(* Processes 0 and 1 are a cluster: ADDR n, NODE_INDEX n, both addresses   *)
(* in NODE_ADDRS.  Process 2 runs alone with only ADDR set; process 3 has  *)
(* no ADDR.                                                                *)
ClusterEnvs ==
  [n \in 0..3 |->
     CASE n < 2 -> ("ADDR" :> n @@ "NODE_INDEX" :> n @@ "NODE_ADDRS" :> <<0, 1>>)
       [] n = 2 -> ("ADDR" :> n)
       [] OTHER -> [v \in {} |-> 0]]

(* The cluster's nozzle feeds both of its nodes e1..e3; the standalone     *)
(* node's nozzle sends it e4.                                              *)
ClusterFed == [n \in 0..3 |-> IF n < 2 THEN {"e1", "e2", "e3"} ELSE IF n = 2 THEN {"e4"} ELSE {}]
=============================================================================
