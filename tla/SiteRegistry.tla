----------------------------- MODULE SiteRegistry -----------------------------
(***************************************************************************)
(* What the server asks of a site store (server.Backend), whichever        *)
(* backend it is: one published version per name with that version's own   *)
(* deadline, changed only by a request that is under way and at most once  *)
(* by each, or by the expiry of what is published.                         *)
(*                                                                         *)
(* A request takes effect at one instant between its call and its answer,  *)
(* or not at all.  What the answer says is left open: a push may be in     *)
(* place although its client is told of an error.                          *)
(***************************************************************************)
EXTENDS Naturals

CONSTANTS
    Names,       \* site names
    Clients,     \* goroutines that call the store
    Versions,    \* uploads
    TTLs,        \* lifetimes a push may ask for
    Never        \* no deadline

VARIABLES
    clock,
    sites,       \* what is published: at most one entry per name
    used,        \* versions that were ever published
    asked        \* calls that have not taken effect: at most one per client

vars == <<clock, sites, used, asked>>

Elapsed(deadline, t) == deadline # Never /\ deadline <= t
Deadline(t, lifetime) == IF lifetime = Never THEN Never ELSE t + lifetime

Requests == [client : Clients, op : {"put"}, name : Names, ttl : TTLs]
            \cup [client : Clients, op : {"delete"}, name : Names, ttl : {Never}]

Init ==
    /\ clock = 0
    /\ sites = {} /\ used = {} /\ asked = {}

Others(n) == {e \in sites : e.name # n}

Ask ==
    /\ \E a \in Requests : /\ \A b \in asked : b.client # a.client
                           /\ asked' = asked \cup {a}
    /\ UNCHANGED <<clock, sites, used>>

\* ReplaceFromTarWithExpiry: a version never published before takes the name;
\* its lifetime runs from some instant of the request.
Publish ==
    /\ \E a \in asked, v \in Versions \ used, t \in 0 .. clock :
          /\ a.op = "put"
          /\ asked' = asked \ {a}
          /\ used' = used \cup {v}
          /\ sites' = Others(a.name) \cup
                {[name |-> a.name, version |-> v, expires |-> Deadline(t, a.ttl)]}
    /\ UNCHANGED clock

\* Delete.
Withdraw ==
    /\ \E a \in asked :
          /\ a.op = "delete"
          /\ asked' = asked \ {a}
          /\ sites' = Others(a.name)
          /\ sites' # sites
    /\ UNCHANGED <<clock, used>>

\* DeleteExpired, one site: what is published now has a deadline in the past.
Expire ==
    /\ \E e \in sites : Elapsed(e.expires, clock) /\ sites' = sites \ {e}
    /\ UNCHANGED <<clock, used, asked>>

\* Calls end without effect: refused, failed, or their process died.
Abandon ==
    /\ \E some \in (SUBSET asked) \ {{}} : asked' = asked \ some
    /\ UNCHANGED <<clock, sites, used>>

Tick ==
    /\ clock' = clock + 1
    /\ UNCHANGED <<sites, used, asked>>

Next == Ask \/ Publish \/ Withdraw \/ Expire \/ Abandon \/ Tick

Spec == Init /\ [][Next]_vars

=============================================================================
