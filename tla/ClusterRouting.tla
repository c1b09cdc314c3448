--------------------------- MODULE ClusterRouting ---------------------------
(***************************************************************************)
(* How a log-cache cluster routes envelopes to the node that owns their    *)
(* source.  Each process loads its Config from its environment, builds    *)
(* its cache with New and the options cmd/log-cache passes, and Start runs *)
(* setupRouting                                                            *)
(* (src/cmd/nozzle/main.go): for each entry of nodeAddrs it appends a      *)
(* client to ingressClients, a BatchedIngressClient for a peer it could    *)
(* dial and an in-process shim that Puts into the local store for itself,  *)
(* then starts a goroutine that Serves.  Close sets closing and then stops *)
(* the server.  The ingress reverse proxy (not under src; modelled from    *)
(* spec 4.F) looks each envelope's source up in the node's routing table   *)
(* and hands it to ingressClients[node]; a request a peer forwarded        *)
(* carries LocalOnly and is stored only where the table says so.  The      *)
(* orchestrator (spec 4.H) installs a node's table when the scheduler      *)
(* calls SetRanges on that node.                                           *)
(*                                                                         *)
(* A routing table is modelled by the owner it gives each source (the      *)
(* CRC-64 hash ranges it covers).  The peer link is the batched client of  *)
(* the BatchedIngressClient module, reduced here to delivery or loss.      *)
(*  table     node -> source -> owning node index                          *)
(*  clients   node -> ingressClients, as setupRouting built them           *)
(*  localIdx  node -> the index setupRouting recorded as its own           *)
(*  inflight  LocalOnly requests between nodes: [to, env]                  *)
(*  stored    node -> envelopes Put into its store, each with the owner    *)
(*            the node's table gave its source then (history)              *)
(*  ingested  envelopes the nozzle has sent into the cluster, each with    *)
(*            the process it was sent to: [env, at] (history)              *)
(*  lost      envelopes whose peer call failed, or whose node index had no *)
(*            client (history)                                             *)
(*  server    node -> none, created, serving, stopped, or exited (the      *)
(*            process ended in log.Fatalf)                                 *)
(*  serve     node -> the serving goroutine: none, spawned, serving,       *)
(*            returned or fatal                                            *)
(*  closer    node -> how far Close has run: idle, half, done              *)
(*  closing   node -> the closing counter Close increments                 *)
(***************************************************************************)
EXTENDS Integers, Sequences, SequencesExt, FiniteSets

CONSTANTS
  N,            \* the number of log-cache processes
  Envelopes,    \* envelope identities
  Src,          \* Src[e]: the source id of envelope e
  Assignments,  \* source -> owner maps the scheduler may install
  Envs,         \* Envs[n]: process n's environment, variable -> value
  Fed,          \* Fed[n]: the envelopes the nozzle feeding process n sends
  DefaultAddr,  \* the address LoadConfig and New default to (":8080")
  Scheduled,    \* the processes the scheduler calls SetRanges on
  Closed        \* the processes some caller Closes (the mains never do)

(***************************************************************************)
(* LoadConfig: the defaults, overridden by the variables set in the        *)
(* environment.  ADDR is required: envstruct.Load fails without it and     *)
(* main exits with log.Fatalf.  Values are already parsed: a value that    *)
(* does not parse fails the same way.                                      *)
(***************************************************************************)
LoadConfig(env) ==
  LET Get(k, d) == IF k \in DOMAIN env THEN env[k] ELSE d
  IN  [ok        |-> "ADDR" \in DOMAIN env,
       Addr      |-> Get("ADDR", DefaultAddr),
       NodeIndex |-> Get("NODE_INDEX", 0),
       NodeAddrs |-> Get("NODE_ADDRS", <<>>)]

Config(n) == LoadConfig(Envs[n])

(* The processes; a process is also its own address. *)
Nodes == 0..N-1

Local == [kind |-> "local"]
Peer(addr) == [kind |-> "peer", node |-> addr]

(* The options a LogCacheOption sets that routing depends on. *)
WithAddr(a) == [name |-> "WithAddr", addr |-> a]
WithClustered(i, addrs, dial) ==
  [name |-> "WithClustered", index |-> i, addrs |-> addrs, dial |-> dial]

(***************************************************************************)
(* cmd/log-cache's main: New with the logger, metrics, sizes and server    *)
(* options, WithAddr(cfg.Addr) and WithClustered(cfg.NodeIndex,            *)
(* cfg.NodeAddrs, grpc.WithTransportCredentials(...)).                     *)
(***************************************************************************)
MainOptions(cfg) ==
  <<[name |-> "WithLogger"], [name |-> "WithMetrics"], WithAddr(cfg.Addr),
    [name |-> "WithMinimumSize"], [name |-> "WithMaxPerSource"],
    WithClustered(cfg.NodeIndex, cfg.NodeAddrs, "creds"),
    [name |-> "WithServerOpts"]>>

(* Mutant of ApplyOption: WithClustered does not set nodeIndex. *)
ApplyOptionNoIndex(c, o) ==
  CASE o.name = "WithAddr" -> [c EXCEPT !.addr = o.addr]
    [] o.name = "WithClustered" -> [c EXCEPT !.nodeAddrs = o.addrs, !.dialOpts = o.dial]
    [] OTHER -> c

(***************************************************************************)
(* A LogCacheOption applied to the cache: WithAddr sets addr, WithClustered *)
(* sets nodeIndex, nodeAddrs and replaces dialOpts; the other options set  *)
(* fields routing does not read.                                           *)
(***************************************************************************)
ApplyOption(c, o) ==
  CASE o.name = "WithAddr" -> [c EXCEPT !.addr = o.addr]
    [] o.name = "WithClustered" ->
         [c EXCEPT !.nodeIndex = o.index, !.nodeAddrs = o.addrs, !.dialOpts = o.dial]
    [] OTHER -> c

(* Mutant of New: an empty nodeAddrs is left empty. *)
NewNoDefault(opts) ==
  FoldLeft(ApplyOption,
           [addr |-> DefaultAddr, nodeIndex |-> 0, nodeAddrs |-> <<>>,
            dialOpts |-> "insecure"], opts)

(***************************************************************************)
(* New: the defaults (addr ":8080", dialOpts grpc.WithInsecure()), then    *)
(* the options in order; with no nodeAddrs the node's own addr is the only *)
(* one, at index 0.                                                        *)
(***************************************************************************)
New(opts) ==
  LET c == FoldLeft(ApplyOption,
                    [addr |-> DefaultAddr, nodeIndex |-> 0, nodeAddrs |-> <<>>,
                     dialOpts |-> "insecure"], opts)
  IN  IF Len(c.nodeAddrs) = 0 THEN [c EXCEPT !.nodeAddrs = <<c.addr>>] ELSE c

(* The cache each process builds from its config. *)
Cache(n) == New(MainOptions(Config(n)))

(* grpc.Dial without WithBlock fails only when no transport security was   *)
(* given: WithClustered with no dial options leaves dialOpts empty.        *)
Dialable(dialOpts) == dialOpts # "none"

VARIABLES table, clients, localIdx, inflight, stored, ingested, lost,
          server, serve, closer, closing

vars == <<table, clients, localIdx, inflight, stored, ingested, lost,
          server, serve, closer, closing>>

(***************************************************************************)
(* The loop of setupRouting over nodeAddrs: a peer whose grpc.Dial fails   *)
(* is logged and skipped (continue) and gets no client; a peer gets a      *)
(* BatchedIngressClient; the node itself gets the local shim.              *)
(***************************************************************************)
SetupClients(c) ==
  LET RECURSIVE loop(_, _)
      loop(i, acc) ==
        IF i = Len(c.nodeAddrs) THEN acc
        ELSE IF i # c.nodeIndex
          THEN loop(i + 1, IF Dialable(c.dialOpts)
                             THEN Append(acc, Peer(c.nodeAddrs[i + 1])) ELSE acc)
        ELSE loop(i + 1, Append(acc, Local))
  IN  loop(0, <<>>)

(* localIdx = i for the entry that is the node itself; it stays 0 when no  *)
(* entry is.                                                               *)
LocalIdx(c) == IF c.nodeIndex \in 0..Len(c.nodeAddrs) - 1 THEN c.nodeIndex ELSE 0

(* Before any SetRanges, a routing table gives every source to the local   *)
(* node (spec 4.D).                                                        *)
DefaultTable(n) == [s \in {Src[e] : e \in Envelopes} |-> Cache(n).nodeIndex]

(* Lookup(source_id) on node n's current table. *)
Lookup(n, s) == table[n][s]

(* Mutant of Route: LocalOnly is not honoured. *)
RouteIgnoringLocalOnly(n, e, localOnly, rest) ==
  LET idx == Lookup(n, Src[e])
  IN  CASE idx >= Len(clients[n]) ->
             /\ lost' = lost \cup {e}
             /\ inflight' = rest
             /\ UNCHANGED stored
        [] clients[n][idx + 1].kind = "local" ->
             /\ stored' = [stored EXCEPT ![n] = @ \cup {[env |-> e, owner |-> idx]}]
             /\ inflight' = rest
             /\ UNCHANGED lost
        [] OTHER ->
             /\ inflight' = rest \cup {[to |-> clients[n][idx + 1].node, env |-> e]}
             /\ UNCHANGED <<stored, lost>>

(***************************************************************************)
(* The ingress proxy of node n handles envelope e (spec 4.F).  With        *)
(* LocalOnly, an envelope the table gives to another node is dropped       *)
(* silently.  Otherwise it goes to ingressClients[node]: the shim Puts it  *)
(* into the local store, a peer client sends it on with LocalOnly; an      *)
(* index with no client fails the request and the envelope is lost.  rest  *)
(* is what stays in flight besides any new request.                        *)
(***************************************************************************)
Route(n, e, localOnly, rest) ==
  LET idx == Lookup(n, Src[e])
  IN  CASE localOnly /\ idx # localIdx[n] ->
             /\ inflight' = rest
             /\ UNCHANGED <<stored, lost>>
        [] idx >= Len(clients[n]) ->
             /\ lost' = lost \cup {e}
             /\ inflight' = rest
             /\ UNCHANGED stored
        [] clients[n][idx + 1].kind = "local" ->
             /\ stored' = [stored EXCEPT ![n] = @ \cup {[env |-> e, owner |-> idx]}]
             /\ inflight' = rest
             /\ UNCHANGED lost
        [] OTHER ->
             /\ inflight' = rest \cup {[to |-> clients[n][idx + 1].node, env |-> e]}
             /\ UNCHANGED <<stored, lost>>

(* A nozzle sends a new envelope to a node it feeds whose gRPC server      *)
(* serves.                                                                 *)
Ingress(n, e) ==
  /\ server[n] = "serving"
  /\ e \in Fed[n]
  /\ e \notin {r.env : r \in ingested}
  /\ ingested' = ingested \cup {[env |-> e, at |-> n]}
  /\ Route(n, e, FALSE, inflight)
  /\ UNCHANGED <<table, clients, localIdx, server, serve, closer, closing>>

(* A peer's batched client delivers a LocalOnly request to its node, whose *)
(* server must be serving for the call to succeed.                         *)
Deliver(msg) ==
  /\ server[msg.to] = "serving"
  /\ Route(msg.to, msg.env, TRUE, inflight \ {msg})
  /\ UNCHANGED <<table, clients, localIdx, ingested, server, serve, closer, closing>>

(* The peer call fails, or the diode overwrote the envelope. *)
Lose(msg) ==
  /\ inflight' = inflight \ {msg}
  /\ lost' = lost \cup {msg.env}
  /\ UNCHANGED <<table, clients, localIdx, stored, ingested, server, serve, closer, closing>>

(* The scheduler calls SetRanges on node n's Orchestration service: a new  *)
(* table is published.  It calls only the nodes of its own cluster.        *)
SetRanges(n, a) ==
  /\ n \in Scheduled
  /\ server[n] = "serving"
  /\ table[n] # a
  /\ table' = [table EXCEPT ![n] = a]
  /\ UNCHANGED <<clients, localIdx, inflight, stored, ingested, lost, server, serve, closer, closing>>

(***************************************************************************)
(* main and then Start and setupRouting on process n: LoadConfig or       *)
(* net.Listen fails with log.Fatalf (the process exits), or the routing    *)
(* table, ingressClients and localIdx                                      *)
(* are built, grpc.NewServer creates the server and a goroutine is         *)
(* started to register the services and Serve.                             *)
(***************************************************************************)
Start(n) ==
  /\ server[n] = "none"
  /\ \E listenOk \in BOOLEAN :
       IF ~Config(n).ok \/ ~listenOk
         THEN /\ server' = [server EXCEPT ![n] = "exited"]
              /\ UNCHANGED <<clients, localIdx, serve>>
         ELSE /\ clients' = [clients EXCEPT ![n] = SetupClients(Cache(n))]
              /\ localIdx' = [localIdx EXCEPT ![n] = LocalIdx(Cache(n))]
              /\ server' = [server EXCEPT ![n] = "created"]
              /\ serve' = [serve EXCEPT ![n] = "spawned"]
  /\ UNCHANGED <<table, inflight, stored, ingested, lost, closer, closing>>

(***************************************************************************)
(* The goroutine of setupRouting registers the services and calls Serve.   *)
(* On a server already stopped, Serve returns an error, and the goroutine  *)
(* calls log.Fatalf (the process exits) unless closing is set.  Otherwise  *)
(* the server serves until GracefulStop.                                   *)
(***************************************************************************)
Serve(n) ==
  /\ serve[n] = "spawned"
  /\ server[n] # "exited"
  /\ IF server[n] = "created"
       THEN /\ server' = [server EXCEPT ![n] = "serving"]
            /\ serve' = [serve EXCEPT ![n] = "serving"]
       ELSE IF closing[n] = 0
         THEN /\ server' = [server EXCEPT ![n] = "exited"]
              /\ serve' = [serve EXCEPT ![n] = "fatal"]
         ELSE /\ serve' = [serve EXCEPT ![n] = "returned"]
              /\ UNCHANGED server
  /\ UNCHANGED <<table, clients, localIdx, inflight, stored, ingested, lost, closer, closing>>

(* GracefulStop: a server that was serving makes Serve return nil. *)
GracefulStop(n) ==
  /\ server' = [server EXCEPT ![n] = "stopped"]
  /\ serve' = [serve EXCEPT ![n] = IF @ = "serving" THEN "returned" ELSE @]

(* Mutant of CloseStep: GracefulStop before closing is incremented. *)
CloseStepStopFirst(n) ==
  IF closer[n] = "idle"
    THEN /\ GracefulStop(n)
         /\ closer' = [closer EXCEPT ![n] = "half"]
         /\ UNCHANGED closing
    ELSE /\ closing' = [closing EXCEPT ![n] = @ + 1]
         /\ closer' = [closer EXCEPT ![n] = "done"]
         /\ UNCHANGED <<server, serve>>

(***************************************************************************)
(* One statement of Close on a started cache: atomic.AddInt64(&closing, 1) *)
(* and then server.GracefulStop().  The serving goroutine can run between  *)
(* the two.                                                                *)
(***************************************************************************)
CloseStep(n) ==
  IF closer[n] = "idle"
    THEN /\ closing' = [closing EXCEPT ![n] = @ + 1]
         /\ closer' = [closer EXCEPT ![n] = "half"]
         /\ UNCHANGED <<server, serve>>
    ELSE /\ GracefulStop(n)
         /\ closer' = [closer EXCEPT ![n] = "done"]
         /\ UNCHANGED closing

(* A caller closes process n's cache once, after Start. *)
Close(n) ==
  /\ n \in Closed
  /\ server[n] \notin {"none", "exited"}
  /\ closer[n] # "done"
  /\ CloseStep(n)
  /\ UNCHANGED <<table, clients, localIdx, inflight, stored, ingested, lost>>

Init ==
  /\ table = [n \in Nodes |-> DefaultTable(n)]
  /\ clients = [n \in Nodes |-> <<>>]
  /\ localIdx = [n \in Nodes |-> 0]
  /\ inflight = {}
  /\ stored = [n \in Nodes |-> {}]
  /\ ingested = {}
  /\ lost = {}
  /\ server = [n \in Nodes |-> "none"]
  /\ serve = [n \in Nodes |-> "none"]
  /\ closer = [n \in Nodes |-> "idle"]
  /\ closing = [n \in Nodes |-> 0]

Next ==
  \/ \E n \in Nodes, e \in Envelopes : Ingress(n, e)
  \/ \E msg \in inflight : Deliver(msg)
  \/ \E msg \in inflight : Lose(msg)
  \/ \E n \in Nodes, a \in Assignments : SetRanges(n, a)
  \/ \E n \in Nodes : Start(n)
  \/ \E n \in Nodes : Serve(n)
  \/ \E n \in Nodes : Close(n)

Spec == Init /\ [][Next]_vars

-----------------------------------------------------------------------------
(***************************************************************************)
(* A node only stores an envelope that its own routing table, at that      *)
(* moment, assigns to its own index: ingressClients must line up with     *)
(* node indexes and the local shim must sit at its NODE_INDEX, whatever    *)
(* the scheduler installs meanwhile.                                       *)
(***************************************************************************)
StoredWhereOwned ==
  \A n \in Nodes : \A r \in stored[n] : r.owner = Config(n).NodeIndex

(***************************************************************************)
(* Local-only discipline (spec 8.6): only an envelope fresh from the      *)
(* nozzle is ever forwarded; handling a request a peer forwarded, under    *)
(* whatever table the receiver holds by then, never emits another one.     *)
(***************************************************************************)
LocalOnlyNeverForwards ==
  [][ingested' = ingested => inflight' \subseteq inflight]_vars

(***************************************************************************)
(* Close never brings the process down: the goroutine that Serves calls    *)
(* log.Fatalf only when Serve fails on a cache no Close has begun on,      *)
(* whichever of Close's two statements the goroutine runs between.         *)
(***************************************************************************)
CloseNeverFatal ==
  \A n \in Nodes : serve[n] = "fatal" => closer[n] = "idle"

(***************************************************************************)
(* A process configured as the only node stores what it is sent: config.go *)
(* says that with NODE_ADDRS empty or of size 1 data is not routed, as the *)
(* node is assumed to be the only one.  This rests on LoadConfig's         *)
(* defaults, New's default nodeAddrs, setupRouting's clients and the       *)
(* default table agreeing on the node's index.                             *)
(***************************************************************************)
Standalone(n) == Config(n).ok /\ Len(Config(n).NodeAddrs) <= 1

StandaloneStoresLocally ==
  \A r \in ingested : Standalone(r.at) => \E s \in stored[r.at] : s.env = r.env

=============================================================================
