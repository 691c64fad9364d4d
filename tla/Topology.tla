------------------------------- MODULE Topology -------------------------------
(***************************************************************************)
(* The network a test runs in: the constructors and setup() of             *)
(* reckon/topologies over AbstractTopologyGenerator, the node names of     *)
(* KuberNet.createCluster, and the link tables that kubetester.py's        *)
(* ha_topo puts together.                                                  *)
(*                                                                         *)
(* A node is its kind and number, <<"cp", 2>> for cp2.  Delays are in      *)
(* 1/20 ms.  Loss is the exponent of a survival probability, so that the   *)
(* square root the code takes of 1 - L halves it and the losses of links   *)
(* in a row add up; jitter is a variance, for the same reason.  0 stands   *)
(* for None, a link without that impairment.                               *)
(***************************************************************************)
EXTENDS Integers, Sequences, SequencesExt, FiniteSets

Half(x) == x \div 2

Switch(k) == <<"s", k>>
Numbered(kind, n) == [k \in 1..n |-> <<kind, k>>]

\* With several control planes a load balancer comes first.
CreateCluster(workers, control) ==
  (IF control > 1 THEN Numbered("lb", 1) ELSE <<>>)
    \o Numbered("cp", control) \o Numbered("wn", workers)

Hosts(args) ==
  CASE args.topo_type = "simple" -> Numbered("h", args.number_nodes)
    [] args.topo_type = "simple_k8s" ->
         CreateCluster(args.number_nodes - 1, 1)
    [] OTHER -> CreateCluster(args.number_nodes - 3, 3)

Clients(args) == Numbered("mc", args.number_clients)

-----------------------------------------------------------------------------
(***************************************************************************)
(* Link attributes.                                                        *)
(***************************************************************************)
\* The subclasses: two links make a path, so each has half of everything.
PerLink(args) ==
  [latency |-> Half(args.link_latency), loss |-> Half(args.link_loss),
   jitter |-> Half((args.link_jitter * args.link_latency)
                     * (args.link_jitter * args.link_latency))]

\* AbstractTopologyGenerator takes the square root of the loss once more.
DefaultSpec(args) == [PerLink(args) EXCEPT !.loss = Half(@)]

\* Where --net-spec first has an entry that names the link, either way round.
SpecFor(args, a, b) ==
  SelectInSeq(args.net_spec, LAMBDA sp : {sp.n_from, sp.n_to} = {a, b})

GetLinkSpec(args, a, b) ==
  LET k == SpecFor(args, a, b)
      sp == args.net_spec[k]
  IN IF k = 0
     THEN DefaultSpec(args)
     ELSE [latency |-> sp.latency, loss |-> sp.loss, jitter |-> sp.jitter]

Link(args, a, b) == [ends |-> {a, b}, spec |-> GetLinkSpec(args, a, b)]

\* simple, simple_k8s and ha_k8s: everyone on one switch.
StarLinks(args) ==
  {Link(args, node, Switch(1)) : node \in ToSet(Hosts(args) \o Clients(args))}

\* Mutant: the load balancer takes a turn too.
RegionOf_All(k) == 2 + ((k - 1) % 3)

\* ha_reg_k8s: hosts take regions in turn, but the load balancer, which is
\* the first host, does not use up the first region's turn.
RegionOf(k) == IF k = 1 THEN 2 ELSE 2 + ((k - 2) % 3)

RegionLinks(args) ==
  LET hosts == Hosts(args) IN
  {Link(args, Switch(k), Switch(1)) : k \in 2..4}
    \cup {Link(args, Switch(3), Switch(4))}
    \cup {Link(args, hosts[k], Switch(RegionOf(k))) : k \in 1..Len(hosts)}
    \cup {Link(args, mc, Switch(2)) : mc \in ToSet(Clients(args))}

Links(args) ==
  IF args.topo_type = "ha_reg_k8s" THEN RegionLinks(args) ELSE StarLinks(args)

\* The constructor of wan is called without number_clients, so that the
\* net spec is compared with 0; the others assert that there are workers.
TopologyRaises(args) ==
  \/ args.topo_type = "wan"
  \/ args.topo_type \in {"ha_k8s", "ha_reg_k8s"} /\ args.number_nodes <= 3

-----------------------------------------------------------------------------
(***************************************************************************)
(* ha_topo.  Its tables are Python dicts: of two entries with one key the  *)
(* later is kept, in the place of the earlier.                             *)
(***************************************************************************)
Row(from, to, rtt) == [n_from |-> from, n_to |-> to, rtt |-> rtt]

PutRow(dict, row) ==
  LET k == SelectInSeq(dict, LAMBDA r : r.n_from = row.n_from)
  IN IF k = 0 THEN Append(dict, row) ELSE [dict EXCEPT ![k] = row]

AsDict(rows) ==
  LET dict[k \in 0..Len(rows)] ==
        IF k = 0 THEN <<>> ELSE PutRow(dict[k - 1], rows[k])
  IN dict[Len(rows)]

\* Round trips of the star, in the data centre and in two edge variants.
StarRows(variant) ==
  LET at(kind, k, rtts) == Row(<<kind, k>>, Switch(1), rtts[variant + 1]) IN
  <<at("cp", 1, <<10, 10, 10>>), at("cp", 2, <<6, 6, 6>>),
    at("cp", 3, <<12, 12, 12>>), at("lb", 1, <<12, 12, 12>>),
    at("wn", 1, <<12, 1700, 1700>>), at("wn", 2, <<12, 12, 2920>>),
    at("wn", 3, <<12, 4700, 4700>>), at("mc", 1, <<4, 4, 4>>)>>

RegionRows ==
  <<Row(<<"cp", 1>>, Switch(2), 10), Row(<<"cp", 2>>, Switch(3), 6),
    Row(<<"cp", 3>>, Switch(4), 12), Row(<<"lb", 1>>, Switch(2), 12),
    Row(<<"wn", 1>>, Switch(2), 22), Row(<<"wn", 2>>, Switch(3), 46),
    Row(<<"wn", 3>>, Switch(4), 30), Row(<<"mc", 1>>, Switch(2), 40),
    Row(Switch(2), Switch(1), 4), Row(Switch(3), Switch(1), 1700),
    Row(Switch(4), Switch(1), 4700), Row(Switch(3), Switch(4), 3300)>>

Tables == [variant \in 0..3 |->
             AsDict(IF variant = 3 THEN RegionRows ELSE StarRows(variant))]

\* Links get half of the round trip; loss is one per cent or none.
HaTopo(variant, loss, sys_variant) ==
  LET rows == Tables[variant] IN
  [topo_type |-> IF variant = 3 THEN "ha_reg_k8s" ELSE "ha_k8s",
   number_nodes |-> 6,
   link_latency |-> 4,
   sys_variant |-> sys_variant,
   net_spec |-> [k \in 1..Len(rows) |->
                   [n_from |-> rows[k].n_from, n_to |-> rows[k].n_to,
                    latency |-> Half(rows[k].rtt), loss |-> loss,
                    jitter |-> 0]]]

=============================================================================
