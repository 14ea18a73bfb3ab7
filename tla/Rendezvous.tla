------------------------------ MODULE Rendezvous ------------------------------
(***************************************************************************)
(* The training rendezvous of DLRover: the master's                        *)
(* ElasticTrainingRendezvousManager (rdzv_manager.py), the agents'         *)
(* MasterRendezvousHandler and the part of the agents' main loop that      *)
(* joins, starts and restarts the workers (training.py).                   *)
(*                                                                         *)
(* A node is its rank.  The manager's methods run under its lock, one at a *)
(* time, so a call of an agent is one step of the manager.  Time appears   *)
(* only as "waiting_timeout has passed since the last join" (quiet); every *)
(* other timeout of an agent may fire whenever the state allows it.        *)
(* network_check and the ucp mode are off, which is their default.         *)
(***************************************************************************)
EXTENDS Integers, FiniteSets, FiniteSetsExt

CONSTANTS Nodes,       \* the ranks of the nodes the job has
          Params,      \* what the job may be configured with
          MaxErrors,   \* max_errors of _initialize_workers
          MaxFaults,   \* bound: crashes, worker failures and lost replies
          MaxRounds    \* bound: rounds completed

ASSUME RdzvAssumption ==
    /\ IsFiniteSet(Nodes)
    /\ \A p \in Params :
         /\ p \in [min : Nat, max : Nat, unit : Nat \ {0}]
         /\ p.unit <= p.min /\ p.min <= p.max /\ p.max % p.unit = 0
         /\ Nodes \subseteq 0 .. (p.max - 1)
    /\ MaxErrors \in Nat \ {0}
    /\ MaxFaults \in Nat
    /\ MaxRounds \in Nat \ {0}

VARIABLES
    waiting,    \* the keys of _waiting_nodes
    rdzvNodes,  \* the keys of _rdzv_nodes
    latest,     \* _latest_rdzv_nodes
    round,      \* _rdzv_round
    params,     \* _rdzv_params (min, max) and _node_unit (unit)
    quiet,      \* waiting_timeout has passed since _lastcall_time
    reported,   \* nodes whose last report to the master is FAILED_EXITED
    pc,         \* where each node's agent is
    world,      \* the last world each rank was given, and its round
    errs,       \* err_cnt of each agent's _initialize_workers
    published,  \* rounds whose master address is in the store
    taken,      \* history: ranks that a round took and that have not joined
                \* since
    faults      \* faults so far

manager == << waiting, rdzvNodes, latest, round, params, quiet, taken >>
agents == << pc, world, errs, published >>
vars == << waiting, rdzvNodes, latest, round, params, quiet, reported, pc,
           world, errs, published, taken, faults >>

NoWorld == [round |-> 0, nodes |-> {}]

\* start: about to call join_rendezvous; polling: in the loop of
\* next_rendezvous; address: waiting for the address of the group's rank 0;
\* running: its workers run; exited: the agent ended, and the master has not
\* processed that yet; gone: it has, and launches no new node.
States == {"start", "polling", "address", "running", "exited", "gone"}

TypeOK ==
    /\ waiting \subseteq Nodes /\ rdzvNodes \subseteq Nodes
    /\ latest \subseteq Nodes /\ taken \subseteq Nodes
    /\ reported \subseteq Nodes
    /\ round \in 0 .. MaxRounds /\ published \subseteq 1 .. MaxRounds
    /\ params \in Params /\ quiet \in BOOLEAN
    /\ pc \in [Nodes -> States]
    /\ world \in [Nodes -> [round : 0 .. MaxRounds, nodes : SUBSET Nodes]]
    /\ errs \in [Nodes -> 0 .. MaxErrors - 1]
    /\ faults \in 0 .. MaxFaults

\* The handler of every agent reports the job's parameters before it joins,
\* and update_rdzv_params keeps the first report.  _lastcall_time is 0 at
\* first: the timeout has passed.
Init ==
    /\ params \in Params
    /\ waiting = {} /\ rdzvNodes = {} /\ latest = {} /\ taken = {}
    /\ round = 0 /\ quiet = TRUE
    /\ reported = {} /\ published = {} /\ faults = 0
    /\ pc = [n \in Nodes |-> "start"]
    /\ world = [n \in Nodes |-> NoWorld]
    /\ errs = [n \in Nodes |-> 0]

Fault == faults < MaxFaults /\ faults' = faults + 1

-----------------------------------------------------------------------------
(* The manager *)

\* Variant: a join leaves the standing round in place.
join_keeping_round(n) ==
    IF n \in waiting
    THEN UNCHANGED manager
    ELSE /\ waiting' = waiting \union {n}
         /\ quiet' = FALSE
         /\ taken' = taken \ {n}
         /\ UNCHANGED << rdzvNodes, latest, round, params >>

\* A node that waits already changes nothing; any other join empties
\* _rdzv_nodes, whoever has fetched it.
join_rendezvous(n) ==
    IF n \in waiting
    THEN UNCHANGED manager
    ELSE /\ waiting' = waiting \union {n}
         /\ rdzvNodes' = {}
         /\ quiet' = FALSE
         /\ taken' = taken \ {n}
         /\ UNCHANGED << latest, round, params >>

Units(k) == (k \div params.unit) * params.unit

\* Variant: one node short is enough.
EnoughButOne(waiters) == Cardinality(waiters) + 1 >= params.min

Enough(waiters) == Cardinality(waiters) >= params.min

\* The nodes _check_rdzv_completed takes among the waiting ones, the lowest
\* ranks first; {} when the round is not completed.
Chosen(waiters) ==
    IF Cardinality(waiters) = params.max
    THEN waiters
    ELSE IF Enough(waiters) /\ quiet
    THEN { n \in waiters :
             Cardinality({ m \in waiters : m < n }) < Units(Cardinality(waiters)) }
    ELSE {}

\* Variant: the round number stays.
SameRound == round

NextRound == round + 1

\* Variant: the nodes that do not fit are dropped.
NoExtras(waiters, chosen) == {}

ExtraNodes(waiters, chosen) == waiters \ chosen

\* get_comm_world with _check_rdzv_completed: unless a round stands, forget
\* the waiting nodes that reported their failure, and try to complete one.
get_comm_world ==
    IF rdzvNodes # {}
    THEN UNCHANGED manager
    ELSE LET waiters == waiting \ reported
             chosen == Chosen(waiters)
         IN IF chosen = {} \/ round = MaxRounds
            THEN /\ waiting' = waiters
                 /\ UNCHANGED << rdzvNodes, latest, round, params, quiet, taken >>
            ELSE /\ rdzvNodes' = chosen
                 /\ latest' = chosen
                 /\ waiting' = ExtraNodes(waiters, chosen)
                 /\ quiet' = TRUE
                 /\ round' = NextRound
                 /\ taken' = taken \union chosen
                 /\ UNCHANGED params

\* num_nodes_waiting with _has_node_restart.
num_nodes_waiting ==
    IF waiting \intersect latest # {} \/ Cardinality(waiting) >= params.unit
    THEN Cardinality(waiting)
    ELSE 0

\* waiting_timeout passes with no join.
WaitingTimeout ==
    /\ ~quiet /\ quiet' = TRUE
    /\ UNCHANGED << waiting, rdzvNodes, latest, round, params, taken, reported,
                    agents, faults >>

-----------------------------------------------------------------------------
(* The agents *)

\* The join of next_rendezvous, and the reply arrives.
Join(n) ==
    /\ pc[n] = "start"
    /\ join_rendezvous(n)
    /\ pc' = [pc EXCEPT ![n] = "polling"]
    /\ UNCHANGED << world, errs, published, reported, faults >>

\* The master has carried out the join but the reply is lost: the client
\* calls again.
JoinReplyLost(n) ==
    /\ Fault
    /\ pc[n] = "start"
    /\ join_rendezvous(n)
    /\ UNCHANGED << agents, reported >>

\* One turn of the loop of next_rendezvous.  The world is the agent's when its
\* rank is in it; else the loop goes on, and does not join again.
Poll(n) ==
    /\ pc[n] = "polling"
    /\ get_comm_world
    /\ IF n \in rdzvNodes'
       THEN /\ pc' = [pc EXCEPT ![n] = "address"]
            /\ world' = [world EXCEPT ![n] = [round |-> round', nodes |-> rdzvNodes']]
       ELSE UNCHANGED << pc, world >>
    /\ UNCHANGED << errs, published, reported, faults >>

\* While there is no world join_timeout may pass, and while there is one without
\* the node pend_timeout, which is infinite by default: the agent raises,
\* reports and ends.
JoinTimeout(n) ==
    /\ pc[n] = "polling"
    /\ get_comm_world
    /\ n \notin rdzvNodes'
    /\ pc' = [pc EXCEPT ![n] = "exited"]
    /\ reported' = reported \union {n}
    /\ UNCHANGED << world, errs, published, faults >>

\* The first rank of the world stores the address of its round.
GroupRankZero(n) == n = Min(world[n].nodes)

\* m has world r, or will be given it at its next poll.
Present(m, r) ==
    \/ pc[m] \in {"address", "running"} /\ world[m].round = r
    \/ pc[m] = "polling" /\ m \in rdzvNodes /\ round = r

\* _rendezvous after next_rendezvous, and the start of the workers.
StartWorkers(n) ==
    /\ pc[n] = "address"
    /\ GroupRankZero(n) \/ world[n].round \in published
    /\ published' = IF GroupRankZero(n)
                    THEN published \union {world[n].round} ELSE published
    /\ pc' = [pc EXCEPT ![n] = "running"]
    /\ errs' = [errs EXCEPT ![n] = 0]
    /\ UNCHANGED << manager, world, reported, faults >>

\* _safe_get_master_addr_port raises: _initialize_workers tries again, or
\* gives up with the last of max_errors errors.  Its five waits of 300 s outlast
\* the next poll of a rank 0 that still gets the world.
AddressTimeout(n) ==
    /\ pc[n] = "address"
    /\ world[n].round \notin published
    /\ ~Present(Min(world[n].nodes), world[n].round)
    /\ IF errs[n] + 1 < MaxErrors
       THEN /\ errs' = [errs EXCEPT ![n] = @ + 1]
            /\ pc' = [pc EXCEPT ![n] = "start"]
            /\ UNCHANGED reported
       ELSE /\ pc' = [pc EXCEPT ![n] = "exited"]
            /\ errs' = [errs EXCEPT ![n] = 0]
            /\ reported' = reported \union {n}
    /\ UNCHANGED << manager, world, published, faults >>

\* HEALTHY, and _membership_changed: restart the workers, that is join again.
RestartForMembership(n) ==
    /\ pc[n] = "running"
    /\ num_nodes_waiting > 0
    /\ pc' = [pc EXCEPT ![n] = "start"]
    /\ UNCHANGED << manager, world, errs, published, reported, faults >>

\* Every member of the world n trains in is there.
Whole(n) == \A m \in world[n].nodes : Present(m, world[n].round)

\* UNHEALTHY or FAILED: a fault of n's own, or a collective that a missing
\* member never enters.  The diagnosis restarts the workers or ends the agent,
\* and a new node is to replace it.
WorkersFail(n) ==
    /\ pc[n] = "running"
    /\ Fault \/ (~Whole(n) /\ UNCHANGED faults)
    /\ \/ pc' = [pc EXCEPT ![n] = "start"] /\ UNCHANGED reported
       \/ pc' = [pc EXCEPT ![n] = "exited"] /\ reported' = reported \union {n}
    /\ UNCHANGED << manager, world, errs, published >>

\* The agent is killed, and reports nothing.
Crash(n) ==
    /\ Fault
    /\ pc[n] \notin {"exited", "gone"}
    /\ pc' = [pc EXCEPT ![n] = "exited"]
    /\ errs' = [errs EXCEPT ![n] = 0]
    /\ UNCHANGED << manager, world, published, reported >>

\* The master processes the exit: remove_alive_node takes the node from the
\* waiting ones, and a new node of the same rank is launched or not.
NodeExited(n) ==
    /\ pc[n] = "exited"
    /\ waiting' = waiting \ {n}
    /\ reported' = reported \ {n}
    /\ \E next \in {"start", "gone"} : pc' = [pc EXCEPT ![n] = next]
    /\ UNCHANGED << rdzvNodes, latest, round, params, quiet, taken, world,
                    errs, published, faults >>

Agent(n) ==
    \/ Join(n) \/ JoinReplyLost(n) \/ Poll(n) \/ JoinTimeout(n)
    \/ StartWorkers(n) \/ AddressTimeout(n)
    \/ RestartForMembership(n) \/ WorkersFail(n) \/ Crash(n)
    \/ NodeExited(n)

Next == WaitingTimeout \/ \E n \in Nodes : Agent(n)

Spec == Init /\ [][Next]_vars

-----------------------------------------------------------------------------
(* Properties *)

Given(n) == pc[n] \in {"address", "running"}

\* Two agents that get a world under the same round number get the same world,
\* and that world is of a round the master has completed: the store's keys are
\* prefixed with the round, so two worlds of one round would share an address.
OneWorldPerRound ==
    \A m, n \in Nodes :
        Given(m) /\ Given(n) /\ world[m].round = world[n].round
            => world[m].nodes = world[n].nodes /\ m \in world[n].nodes

\* An agent that joined and polls is in the waiting list, is in the standing
\* round, or was in a round that a later join made the master forget: no other
\* path through the manager loses a node that waits.
LostOnlyAfterRound ==
    \A n \in Nodes : pc[n] = "polling" => n \in waiting \union rdzvNodes \union taken

\* A standing round is made of whole units and leaves less than a unit of
\* nodes waiting, whatever joins, exits and timeouts went before it.
RoundTakesAllUnits ==
    rdzvNodes # {} =>
        /\ Cardinality(rdzvNodes) % params.unit = 0
        /\ Cardinality(waiting) < params.unit

\* When a round needs more than half of the job's nodes, two nodes that train
\* in worlds with nobody missing train in the same world: nodes that were left
\* behind by a newer round never form a second complete world.
OneWholeWorld ==
    2 * Units(params.min) > Cardinality(Nodes) =>
        \A m, n \in Nodes :
            pc[m] = "running" /\ pc[n] = "running" /\ Whole(m) /\ Whole(n)
                => world[m] = world[n]
=============================================================================
