------------------------------ MODULE MCBroker ------------------------------
(***************************************************************************)
(* Broker with a site, a name namespaced below it, the name its directory  *)
(* has when it is moved aside, a builtin's name and the API's; bounds for  *)
(* each role and backend.                                                  *)
(***************************************************************************)
EXTENDS Broker, TLC

MCNames    == {<<"a">>, <<"a", "b", "c">>, <<"a", "old">>, <<"crate">>, <<"api">>}
MCApi      == <<"api">>
MCBuiltins == {<<"crate">>}

One   == {CHOOSE w \in Workers : TRUE}
Least == [workers |-> One, readers |-> {}, tokens |-> {}, names |-> {<<"a">>},
          pushes |-> 1, faults |-> 0, restarts |-> 0, clock |-> 1]

\* Two clients and a token that is revoked; a token that expires, and calls that
\* fail; restarts over a map; visitors of the broker's own process, and of web
\* processes beside one.
MCBound ==
       <<"broker", "local">> :>
            [Least EXCEPT !.workers = Workers, !.tokens = Tokens]
    @@ <<"all", "local">> :>
            [Least EXCEPT !.tokens = Tokens, !.pushes = 2, !.faults = 1, !.clock = 2]
    @@ <<"broker", "s3">> :>
            [Least EXCEPT !.faults = 1, !.restarts = 1]
    @@ <<"all", "s3">> :>
            [Least EXCEPT !.readers = Readers, !.names = {<<"crate">>}, !.clock = 0]
    @@ <<"web", "local">> :>
            [Least EXCEPT !.readers = Readers, !.pushes = 2, !.faults = 1, !.restarts = 1]
    @@ <<"web", "s3">> :>
            [Least EXCEPT !.readers = Readers, !.names = {<<"a", "b", "c">>},
                          !.pushes = 2, !.faults = 1]
=============================================================================
