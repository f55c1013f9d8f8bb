------------------------------ MODULE MCDecision ------------------------------
\* Decision, its link state and its route selection, one after the other: `part`
\* says which of the three a behaviour is about.
EXTENDS Decision, LinkState, RouteSelection, TLC

-----------------------------------------------------------------------------
\* LinkState: three nodes, two parallel cables between a and b.
Adj(m, o, u, h) == [metric |-> m, overload |-> o, onlyOther |-> u, nextHop |-> h]
MCEnds == [p |-> {"a", "b"}, q |-> {"a", "b"}, r |-> {"b", "c"}, s |-> {"a", "c"}]
MCAdj == [p |-> [a |-> {Adj(1, FALSE, FALSE, 1), Adj(1, FALSE, FALSE, 2), Adj(2, FALSE, FALSE, 2)},
                b |-> {Adj(1, FALSE, FALSE, 1)}],
          q |-> [a |-> {Adj(2, FALSE, FALSE, 1)}, b |-> {Adj(2, FALSE, FALSE, 1), Adj(1, TRUE, FALSE, 1)}],
          r |-> [b |-> {Adj(1, FALSE, FALSE, 1)}, c |-> {Adj(1, FALSE, FALSE, 1), Adj(1, FALSE, TRUE, 1)}],
          s |-> [a |-> {Adj(3, FALSE, FALSE, 1)}, c |-> {Adj(3, FALSE, FALSE, 1)}]]
MCNodeValues == [a |-> {[overload |-> FALSE, increment |-> 0]},
                 b |-> {[overload |-> FALSE, increment |-> 0], [overload |-> TRUE, increment |-> 1]},
                 c |-> {[overload |-> FALSE, increment |-> 0]}]
-----------------------------------------------------------------------------
\* b announces in both areas; this node may announce itself; c is out of reach.
MCNodeAreas == {<<"me", "A">>, <<"a", "A">>, <<"b", "A">>, <<"b", "B">>, <<"c", "B">>}
MCDistance == <<"me", "A">> :> 0 @@ <<"a", "A">> :> 2 @@ <<"b", "A">> :> 1 @@ <<"b", "B">> :> 2
              @@ <<"c", "B">> :> 0
MCHops == <<"me", "A">> :> {} @@ <<"a", "A">> :> {<<"b", "A">>, <<"a", "A">>} @@ <<"b", "A">> :> {<<"b", "A">>}
          @@ <<"b", "B">> :> {<<"b", "B">>} @@ <<"c", "B">> :> {}
Entry(drain, path, source, distance, minNexthop, node) ==
  [drain |-> drain, path |-> path, source |-> source, distance |-> distance,
   minNexthop |-> minNexthop, node |-> node]
Entries(node) == {Entry(0, 1, 1, 1, 0, node), Entry(1, 2, 1, 1, 0, node), Entry(0, 1, 2, 1, 2, node),
                  Entry(0, 1, 1, 2, 1, node)}
MCEntries ==
  [na \in MCNodeAreas |->
     {NoEntry} \cup IF na[1] \in {"a", "b"} THEN Entries("none") \cup Entries("soft") \cup Entries("hard")
                    ELSE {Entry(0, 1, 1, 1, 0, "none")}]
Statement(match, default, area, neighbor) ==
  [match |-> match, default |-> default, area |-> area, neighbor |-> neighbor]
MCPolicies == {<<>>, <<Statement(TRUE, 0, "B" :> 3, "a" :> 2), Statement(TRUE, 1, "A" :> 2, "b" :> 0)>>}
-----------------------------------------------------------------------------
VARIABLE part

\* Start-up with static routes and two ways to announce a prefix; a running node
\* whose policies come, go, expire and survive a restart.
StartUp == [peers |-> SUBSET DcPeers, announce |-> {<<"x", "p">>, <<"me", "s">>}, static |-> {"s"}, policies |-> {},
            initOptimization |-> TRUE, restarts |-> FALSE]
WithPolicy == [peers |-> {{}}, announce |-> {<<"x", "p">>}, static |-> {}, policies |-> {1, 2},
               initOptimization |-> FALSE, restarts |-> TRUE]
MCConfigs == {StartUp, WithPolicy}

IdleSelection == selection = StartSelection([na \in RsNodeAreas |-> NoEntry], <<>>)
IdleDecision == DecisionInit /\ dcConfig = StartUp

MCInit ==
  /\ LinkStateInit
  /\ \/ part = "decision" /\ DecisionInit /\ IdleSelection
     \/ part = "linkstate" /\ IdleDecision /\ IdleSelection
     \/ part = "selection" /\ IdleDecision /\ RouteSelectionInit

MCNext ==
  \/ part = "decision" /\ DecisionNext /\ UNCHANGED <<LinkStateVars, RouteSelectionVars, part>>
  \/ part = "linkstate" /\ LinkStateNext /\ UNCHANGED <<DecisionVars, RouteSelectionVars, part>>
  \/ part = "selection" /\ RouteSelectionNext /\ UNCHANGED <<DecisionVars, LinkStateVars, part>>

MCSpec == MCInit /\ [][MCNext]_<<DecisionVars, LinkStateVars, RouteSelectionVars, part>>
================================================================================
