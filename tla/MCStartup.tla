------------------------------ MODULE MCStartup ------------------------------
EXTENDS Startup, FiniteSets

Good == [
    json |-> TRUE, chains |-> 2, jsonLoaded |-> FALSE, loadFlag |-> TRUE,
    passwords |-> <<"right", "right">>, keys |-> TRUE, gas |-> TRUE,
    confirmations |-> 1, home |-> TRUE, file |-> 1,
    swap |-> "code", erc20 |-> "code", dsn |-> TRUE ]

Values == [Good EXCEPT
    !.json = BOOLEAN, !.chains = 0..2, !.jsonLoaded = BOOLEAN,
    !.loadFlag = BOOLEAN,
    !.passwords = {<<>>, <<"">>, <<"right">>, <<"right", "right">>,
                   <<"wrong", "right">>, <<"right", "wrong">>,
                   <<"right", "right", "">>},
    !.keys = BOOLEAN, !.gas = BOOLEAN, !.confirmations = {NaN, 0, 1},
    !.home = BOOLEAN, !.file = {NoFile, EmptyFile, 1},
    !.swap = Address, !.erc20 = Address, !.dsn = BOOLEAN]

\* A sound setup with any three of its fields changed.
Change(S) == UNION {{[s EXCEPT ![f] = v] : v \in Values[f]} :
                       s \in S, f \in DOMAIN Good}

MCSetups == Change(Change(Change({Good})))
==============================================================================
