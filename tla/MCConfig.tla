------------------------------- MODULE MCConfig ---------------------------------
(* An instance of ConfigInventory for TLC. *)
EXTENDS ConfigInventory, TLC

CONSTANTS h1, h2

HandlerThreads == {h1, h2}

\* a static inventory of three hosts, one behind the other, with every section
Static ==
  [hosts |-> {"a", "b", "c"}, excluded |-> {}, auto |-> FALSE, local |-> "a",
   counts |-> {"a", "b"}, overrides |-> {"b"}, windows |-> {"b"},
   groups |-> ("a" :> "g" @@ "b" :> "g" @@ "c" :> "k"),
   hostScopes |-> {"b"}, groupScopes |-> {"g"}, actions |-> {<<"b", "cpu">>},
   tree |-> [root |-> "m", links |-> {<<"m", "a">>, <<"a", "b">>, <<"b", "c">>}],
   interval |-> 1, timeout |-> 3, connect |-> 2]

\* the same fleet, found in the SSH configuration
Discovered ==
  [Static EXCEPT !.hosts = {"a", "b"}, !.excluded = {"e"}, !.auto = TRUE,
                 !.local = NoAlias, !.counts = {"a"}, !.overrides = {},
                 !.groups = ("a" :> "g" @@ "c" :> "k"), !.groupScopes = {"g", "k"},
                 !.tree = [root |-> "a", links |-> {<<"a", "b">>, <<"b", "c">>}]]

\* a new installation, which monitors what it discovers
Fresh ==
  [hosts |-> {}, excluded |-> {}, auto |-> TRUE, local |-> NoAlias, counts |-> {},
   overrides |-> {}, windows |-> {}, groups |-> <<>>, hostScopes |-> {},
   groupScopes |-> {}, actions |-> {}, tree |-> NoTree,
   interval |-> 1, timeout |-> 3, connect |-> 2]

\* a link that hangs in the air, for one host
Mistaken == [Static EXCEPT !.tree.links = {<<"m", "a">>, <<"b", "c">>}]

WrittenByHand == {Static, Discovered, Fresh, Mistaken}

Settings(i, t) == [op |-> "settings", interval |-> i, timeout |-> t]

\* every kind of request, some of which are refused or change nothing; the interval,
\* which no section depends on, stays
EveryRequest ==
  {[op |-> "add", host |-> "c"], [op |-> "remove", host |-> "a"],
   [op |-> "remove", host |-> "b"], [op |-> "group", host |-> "b", group |-> "k"],
   [op |-> "group", host |-> "a", group |-> NoAlias],
   [op |-> "action", host |-> "b", key |-> "psi", on |-> TRUE],
   [op |-> "window", host |-> "b", on |-> FALSE], Settings(1, 4), Settings(1, 2)}

\* two settings that differ in their interval
TwoIntervals == {Settings(1, 3), Settings(2, 3)}

===============================================================================
