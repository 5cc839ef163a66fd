----------------------------- MODULE MCRequests -----------------------------
(* An instance of Requests for TLC: two sandboxes and what is asked for    *)
(* them, under six configurations, two of which the driver refuses.        *)
EXTENDS Requests

CONSTANTS n1, n2

Quantity(whole, frac, suffix) ==
  [wellFormed |-> TRUE, whole |-> whole, frac |-> frac, suffix |-> suffix]

Auth(s) == [valid |-> s # 0, generation |-> s, session |-> s, epoch |-> s]

Plain == [id |-> n1, name |-> Blank, image |-> "pinned1", gpu |-> FALSE,
          userNamespaces |-> FALSE, cpu |-> Quantity(4, <<5>>, ""),
          memory |-> Quantity(5, <<>>, "k"), env |-> [v1 |-> "spec"],
          templateEnv |-> [v1 |-> "template", v2 |-> "template", own |-> "x"],
          logLevel |-> Blank, auth |-> Auth(1)]

(* The same as Plain to the template, in other words; and another image    *)
(* with the fragment's and the default limits.                             *)
Valid ==
  {Plain,
   [Plain EXCEPT !.id = n2, !.cpu = Quantity(4500, <<>>, "m"),
                 !.memory = Quantity(5000, <<>>, ""), !.env = [own |-> "y"],
                 !.auth = Auth(2)],
   [Plain EXCEPT !.id = Blank, !.name = n2, !.image = "pinned2",
                 !.cpu = Blank, !.memory = Blank]}

Invalid ==
  {[Plain EXCEPT !.cpu = Quantity(5, <<0, 0, 1>>, "")],
   [Plain EXCEPT !.cpu = Quantity(0, <<5, 0, 0, 5>>, "")],
   [Plain EXCEPT !.memory = Quantity(5, <<>>, "Ki")],
   [Plain EXCEPT !.image = "tagged"], [Plain EXCEPT !.gpu = TRUE]}

MCCreates == Valid \cup Invalid

MCStarts == {[Plain EXCEPT !.auth = Auth(3), !.logLevel = "debug"],
             [Plain EXCEPT !.auth = Auth(0)]}

MCGets == {[id |-> n1, name |-> n2], [id |-> Blank, name |-> Blank]}

Container(name, adds) == [name |-> name, adds |-> adds, image |-> "launcher"]

Base ==
  [fragment |-> [sets |-> {}, cpu |-> 250, memory |-> 0, snapshot |-> Blank,
     containers |-> <<Container("supervisor", {}), Container("sandbox", {})>>],
   selector |-> [pool |-> "p1"], cpu |-> 100, memory |-> 4096, rules |-> {"r1"},
   gateway |-> "g1", tls |-> {}]

MCConfigs ==
  {Base,
   [Base EXCEPT !.rules = {"r2"}, !.gateway = "g2", !.tls = {"ca"}],
   [Base EXCEPT !.selector = [pool |-> "p2"]],
   [Base EXCEPT !.tls = {"ca", "cert"}],
   [Base EXCEPT !.fragment.containers[2].adds = {"NET_ADMIN"}],
   [Base EXCEPT !.fragment.sets = {"metadata"}]}
=============================================================================
