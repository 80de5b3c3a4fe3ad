------------------------------ MODULE MCRouteLookup ----------------------------
EXTENDS RouteLookup, TLC

Pool(ids) == [k \in DOMAIN ids |-> [id |-> ids[k], address |-> ids[k]]]

\* Two wildcards, one within the other, and an exact host under both, each with two
\* prefixes: patterns of which three at a time are configured in every order.
Patterns == {[wildcard |-> h # <<"b", "a", "com">>, host |-> h, prefix |-> p] :
               h \in {<<"com">>, <<"a", "com">>, <<"b", "a", "com">>},
               p \in {<<"/">>, <<"/", "x">>}}

Configured(patterns) ==
    [i \in 1..3 |-> [id |-> i, upstreams |-> Pool(<<"u">>)] @@ patterns[i]]

Orders == {Configured(f) : f \in {g \in [1..3 -> Patterns] : IsInjective(g)}}

\* One route with three upstreams, two of them at one address, and another route
\* that names that address again.
Shared ==
    <<[id |-> 1, wildcard |-> TRUE, host |-> <<"com">>, prefix |-> <<"/">>,
       upstreams |-> <<[id |-> "u", address |-> "p"], [id |-> "v", address |-> "p"],
                       [id |-> "w", address |-> "q"]>>],
      [id |-> 2, wildcard |-> FALSE, host |-> <<"com">>, prefix |-> <<"/", "x">>,
       upstreams |-> <<[id |-> "u", address |-> "p"]>>]>>

MCTables == {Shared} \cup Orders

MCHeaders ==
    {[labels |-> <<"com">>, port |-> "absent"],
     [labels |-> <<"a", "com">>, port |-> "valid"],
     [labels |-> <<"b", "a", "com">>, port |-> "absent"],
     [labels |-> <<"com">>, port |-> "malformed"]}

MCTargets == {<<"/">>, <<"/", "x", "?", "x">>, <<"/", "?", "x">>, <<"x">>}

Symmetry == Permutations(Requests)
================================================================================
