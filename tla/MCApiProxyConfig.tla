-------------------------- MODULE MCApiProxyConfig --------------------------
(* Config files of one or two servers and two targets with up to one     *)
(* credential each (the checks are global, so two targets reach every     *)
(* pair), over texts with and without surrounding blanks.                 *)
EXTENDS ApiProxyConfig

A == <<"a">>
SpA == <<" ", "a">>
Blank == <<" ">>

Server(n, p) == [name |-> n, protocol |-> A, host |-> A, port |-> p]

\* Server lists: names a, " a" and blank; ports absent, blank, valid, padded, invalid.
MCServerLists ==
    { <<>>,
      <<Server(A, None)>>, <<Server(A, Blank)>>, <<Server(A, <<"8">>)>>, <<Server(A, <<" ", "8">>)>>,
      <<Server(A, <<"9", "9", "9", "9", "9", "9">>)>>, <<Server(Blank, None)>>,
      <<Server(A, None), Server(SpA, None)>>, <<Server(<<"A">>, None), Server(A, None)>> }

Cred(u, t, s) == [username |-> u, password |-> A, token |-> t, server |-> s]

MCCreds ==
    { Cred(u, t, s) : u \in {A, SpA, <<"A">>},
                      t \in {None, Blank, <<"1">>, <<" ", "1">>},
                      s \in {None, A, SpA} }

MCUserLists ==
    { << [target |-> "t1", credentials |-> c1], [target |-> "t2", credentials |-> c2] >> :
        c1 \in {<<>>} \cup {<<c>> : c \in MCCreds},
        c2 \in {<<>>} \cup {<<c>> : c \in MCCreds} }

MCConfigs == { [server |-> s, user |-> u] : s \in MCServerLists, u \in MCUserLists }
==============================================================================
