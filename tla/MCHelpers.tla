------------------------------ MODULE MCHelpers ------------------------------
(* The algorithms plugins call and the gateway they are tested with, checked *)
(* in one run: a behaviour judges one statement, makes one listing, or builds *)
(* one gateway and calls it.                                                 *)
EXTENDS SqlGuard, KvPages, MockGateway

\* Every statement up to a length over the characters of one matter each:
\* line comments, block comments, quotes and names.
SmallScopes ==
    {[chars |-> {"S", "W", ";", "-", "nl"}, length |-> 6],
     [chars |-> {"S", "W", "/", "*", ";"}, length |-> 6],
     [chars |-> {"S", "W", "/", "*"}, length |-> 7],
     [chars |-> {"S", "W", "sq", "bt", ";"}, length |-> 6],
     [chars |-> {"S", "W", "a", ";", " "}, length |-> 5]}
        \cup {[chars |-> {"S", "W", ";", "sq", "-", "/", "*"}, length |-> n] : n \in 1..4}

PathsUpTo(n) == UNION {[1..l -> GwChars] : l \in 0..n}
Request(name, method, path) == [name |-> name, method |-> method, path |-> path]

\* Every path of a spec against every path of a request; then two routes, of one
\* name or of two, with several specs and methods.
PathScene ==
    [op |-> "http", most |-> 1,
     offers |-> {{[method |-> "*", path |-> p]} : p \in PathsUpTo(3)},
     requests |-> {Request("n1", "GET", p) : p \in PathsUpTo(4)}]

RouteScene ==
    [op |-> "http", most |-> 2,
     offers |-> SUBSET {[method |-> "*", path |-> <<"a">>], [method |-> "get", path |-> <<"/", "b">>]},
     requests |-> {Request(n, m, p) : n \in {"n1", "n2", "n3"}, m \in {"GET", "POST"},
                                      p \in {<<"/", "a">>, <<"/", "b">>}}]

SmallGateways ==
    {PathScene, RouteScene}
        \cup {[op |-> op, most |-> 2, offers |-> {}, requests |-> {}] :
                op \in {"tool", "identity", "emit", "table"}}

Init ==
    \/ SqlInit /\ KvIdle /\ GwIdle
    \/ KvInit /\ SqlIdle /\ GwIdle
    \/ GwInit /\ SqlIdle /\ KvIdle

Next ==
    \/ SqlNext /\ UNCHANGED <<kvVars, gwVars>>
    \/ KvNext /\ UNCHANGED <<sqlVars, gwVars>>
    \/ GwNext /\ UNCHANGED <<sqlVars, kvVars>>

Spec == Init /\ [][Next]_<<sqlVars, kvVars, gwVars>>

=============================================================================
