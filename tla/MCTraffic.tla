------------------------------ MODULE MCTraffic ------------------------------
(* Lists that are empty, repeat a cid or a service, differ in their order,    *)
(* take in all cids, or name a standard service; commands alone, a command in *)
(* fragments while a list is set, and lists alone.                            *)
EXTENDS MbimProxyTraffic

LOCAL E(s, c) == [service |-> s, cids |-> c]

MCStandardList == << E("basic", <<1>>) >>

MCLists == { << >>, << E("x", <<1>>) >>, << E("x", <<2, 1>>) >>, << E("x", << >>) >>,
             << E("x", <<1, 1>>) >>, << E("y", <<2>>), E("x", <<2>>) >>,
             << E("x", <<1>>), E("x", <<2>>) >>, << E("basic", <<2>>), E("y", <<1>>) >> }

LOCAL Load(c1, c2, n, id) == [commands |-> <<c1, c2>>, requests |-> n, id |-> id]

MCLoads == {Load(<<2>>, <<1, 2>>, 0, id) : id \in Id}
              \cup {Load(<<2>>, << >>, 1, id) : id \in Id}
              \cup {Load(<< >>, << >>, 3, 1)}
=============================================================================
