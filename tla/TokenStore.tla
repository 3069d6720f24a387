------------------------------ MODULE TokenStore ------------------------------
(***************************************************************************)
(* The named API tokens: token.Store (internal/token/token.go) over        *)
(* s3store.Document (internal/s3store/document.go), one Store per broker   *)
(* process and one document for all of them.                               *)
(*                                                                         *)
(* Every method of Store holds its mutex until Save has returned, so a     *)
(* method is one action; what can happen to its Save is a choice:          *)
(*   "ok"     the bucket took the write and said so,                       *)
(*   "error"  the call failed and nothing was written,                     *)
(*   "lost"   the bucket took the write and the answer was lost,           *)
(*   "retried" the same, and the S3 client sent the request again, which   *)
(*            its own write then refused: the caller hears of a conflict.  *)
(* A write whose condition does not hold is refused whatever the network   *)
(* does.  A replica on its own whose answers are not lost behaves as over  *)
(* token.FileStore: its condition always holds and a rename happens or     *)
(* fails.                                                                  *)
(*                                                                         *)
(* A token is its id and name.  Secrets, deadlines and last_used_at are    *)
(* left out: Verify's comparisons read nothing that changes here, and a    *)
(* touch is a Save of the same set under a new revision.                   *)
(***************************************************************************)
EXTENDS Naturals

CONSTANTS
    Replicas,   \* broker processes that share the document
    Ids,        \* token ids that can be drawn
    Names,      \* token names; a name may look like an id
    Outcomes,   \* what may become of a Save
    MaxRev      \* bound: writes of the document

ASSUME OutcomesAssumption == Outcomes \subseteq {"ok", "error", "lost"}
ASSUME RevAssumption == MaxRev \in Nat

Records == [id : Ids, name : Names]

VARIABLES
    doc,      \* the token set in the document
    rev,      \* the document's version, its ETag; 0 is "no such object"
    up,       \* replicas that are running
    recs,     \* Store.recs of each replica
    etag,     \* Document.etag; 0 is the empty string
    seen,     \* Document.seen
    issued,   \* history: tokens whose plaintext a client has received
    revoked,  \* history: tokens whose revocation was confirmed, and those
              \* whose revocation failed with the document's fate unknown
    drawn,    \* history: ids drawn, which random ids do not repeat
    disturbed \* history: two replicas have run at the same time, or the
              \* answer to a save was lost

vars == <<doc, rev, up, recs, etag, seen, issued, revoked, drawn, disturbed>>

Init ==
    /\ doc = {} /\ rev = 0
    /\ up = {}
    /\ recs = [r \in Replicas |-> {}]
    /\ etag = [r \in Replicas |-> 0]
    /\ seen = [r \in Replicas |-> FALSE]
    /\ issued = {} /\ revoked = {} /\ drawn = {}
    /\ disturbed = FALSE

-----------------------------------------------------------------------------
(***************************************************************************)
(* Document.                                                               *)
(***************************************************************************)

\* If-Match on the version last observed, If-None-Match: * when that was
\* "absent", and no condition at all when nothing is known.
MaySave(r) == seen[r] => etag[r] = rev

\* observe(etag, seen)
Observe(r, e, s) ==
    /\ etag' = [etag EXCEPT ![r] = e]
    /\ seen' = [seen EXCEPT ![r] = s]

Write(set) ==
    /\ rev < MaxRev
    /\ rev' = rev + 1
    /\ doc' = set

\* Save(data): `how` is what the caller learns.
Save(r, set, how) ==
    \/ /\ how = "ok" /\ "ok" \in Outcomes
       /\ MaySave(r)
       /\ Write(set)
       /\ Observe(r, rev + 1, TRUE)
       /\ UNCHANGED disturbed
    \/ /\ how = "conflict"
       /\ ~MaySave(r)
       /\ Observe(r, 0, FALSE)
       /\ UNCHANGED <<doc, rev, disturbed>>
    \/ /\ how = "error" /\ "error" \in Outcomes
       /\ UNCHANGED <<doc, rev, etag, seen, disturbed>>
    \/ /\ how = "lost" /\ "lost" \in Outcomes
       /\ MaySave(r)
       /\ Write(set)
       /\ disturbed' = TRUE
       /\ UNCHANGED <<etag, seen>>
    \/ /\ how = "retried" /\ "lost" \in Outcomes
       /\ seen[r] /\ MaySave(r)
       /\ Write(set)
       /\ disturbed' = TRUE
       /\ Observe(r, 0, FALSE)

\* The caller is told that it failed; in the last two cases it did not.
Failures == {"conflict", "error", "lost", "retried"}
Unknown  == {"lost", "retried"}

-----------------------------------------------------------------------------
(***************************************************************************)
(* Store.                                                                  *)
(***************************************************************************)

\* Load(): the document, and its version as the one observed.
Load(r) ==
    /\ recs' = [recs EXCEPT ![r] = doc]
    /\ Observe(r, rev, TRUE)

\* LoadFrom, at process start: the only Load there is.
Start(r) ==
    /\ r \notin up
    /\ up' = up \cup {r}
    /\ disturbed' = (disturbed \/ up # {})
    /\ Load(r)
    /\ UNCHANGED <<doc, rev, issued, revoked, drawn>>

Stop(r) ==
    /\ r \in up
    /\ up' = up \ {r}
    /\ recs' = [recs EXCEPT ![r] = {}]
    /\ Observe(r, 0, FALSE)
    /\ UNCHANGED <<doc, rev, issued, revoked, drawn, disturbed>>

\* freshIDLocked: random ids do not repeat, nor collide with a stored one.
FreshIds == Ids \ drawn

\* Mutant: Create leaves the record in memory when the save fails.
BugCreateKeeps(r, n) ==
    /\ r \in up
    /\ \A t \in recs[r] : t.name # n
    /\ \E i \in FreshIds, how \in Failures \cup {"ok"} :
          LET rec == [id |-> i, name |-> n] IN
          /\ drawn' = drawn \cup {i}
          /\ Save(r, recs[r] \cup {rec}, how)
          /\ recs' = [recs EXCEPT ![r] = @ \cup {rec}]
          /\ issued' = IF how = "ok" THEN issued \cup {rec} ELSE issued
    /\ UNCHANGED <<up, revoked>>

\* Mutant: the plaintext is handed out before the save is known to be good.
BugIssueFirst(r, n) ==
    /\ r \in up
    /\ \A t \in recs[r] : t.name # n
    /\ \E i \in FreshIds, how \in Failures \cup {"ok"} :
          LET rec == [id |-> i, name |-> n] IN
          /\ drawn' = drawn \cup {i}
          /\ Save(r, recs[r] \cup {rec}, how)
          /\ recs' = IF how = "ok" THEN [recs EXCEPT ![r] = @ \cup {rec}] ELSE recs
          /\ issued' = issued \cup {rec}
    /\ UNCHANGED <<up, revoked>>

\* Mutant: no check for a duplicate name.
BugDuplicateName(r, n) ==
    /\ r \in up
    /\ \E i \in FreshIds :
          LET rec == [id |-> i, name |-> n] IN
          /\ drawn' = drawn \cup {i}
          /\ Save(r, recs[r] \cup {rec}, "ok")
          /\ recs' = [recs EXCEPT ![r] = @ \cup {rec}]
          /\ issued' = issued \cup {rec}
    /\ UNCHANGED <<up, revoked>>

\* Mutant: the record is stored without its name.
BugNamelessRecord(r, n) ==
    /\ r \in up
    /\ \A t \in recs[r] : t.name # n
    /\ \E i \in FreshIds :
          /\ drawn' = drawn \cup {i}
          /\ Save(r, recs[r] \cup {[id |-> i]}, "ok")
          /\ recs' = [recs EXCEPT ![r] = @ \cup {[id |-> i]}]
    /\ UNCHANGED <<up, issued, revoked>>

\* Create with a name this replica does not know: append, save, and take the
\* record back out when the save fails.
Create(r, n) ==
    /\ r \in up
    /\ \A t \in recs[r] : t.name # n
    /\ \E i \in FreshIds :
          LET rec == [id |-> i, name |-> n] IN
          /\ drawn' = drawn \cup {i}
          /\ \/ /\ Save(r, recs[r] \cup {rec}, "ok")
                /\ recs' = [recs EXCEPT ![r] = @ \cup {rec}]
                /\ issued' = issued \cup {rec}
             \/ /\ \E how \in Failures : Save(r, recs[r] \cup {rec}, how)
                /\ UNCHANGED <<recs, issued>>
    /\ UNCHANGED <<up, revoked>>

\* The record Revoke picks: an id first, a name when no id matches.
Matches(r, idOrName) ==
    LET byId == {t \in recs[r] : t.id = idOrName} IN
    IF byId # {} THEN byId ELSE {t \in recs[r] : t.name = idOrName}

\* Mutant: Revoke swaps the shorter list in before it knows of the save.
BugRevokeKeeps(r, idOrName) ==
    /\ r \in up
    /\ \E rec \in Matches(r, idOrName), how \in Failures \cup {"ok"} :
          /\ Save(r, recs[r] \ {rec}, how)
          /\ recs' = [recs EXCEPT ![r] = @ \ {rec}]
          /\ revoked' = IF how \in Unknown \cup {"ok"} THEN revoked \cup {rec} ELSE revoked
    /\ UNCHANGED <<up, issued, drawn>>

Revoke(r, idOrName) ==
    /\ r \in up
    /\ \E rec \in Matches(r, idOrName) :
          \/ /\ Save(r, recs[r] \ {rec}, "ok")
             /\ recs' = [recs EXCEPT ![r] = @ \ {rec}]
             /\ revoked' = revoked \cup {rec}
          \/ /\ \E how \in Failures \ Unknown : Save(r, recs[r] \ {rec}, how)
             /\ UNCHANGED <<recs, revoked>>
          \/ /\ \E how \in Unknown : Save(r, recs[r] \ {rec}, how)
             /\ revoked' = revoked \cup {rec}
             /\ UNCHANGED recs
    /\ UNCHANGED <<up, issued, drawn>>

\* Verify accepts a token and its last_used_at is due to be persisted.  The
\* save is best effort: its outcome changes neither the answer nor recs.
Touch(r) ==
    /\ r \in up
    /\ recs[r] # {}
    /\ \E how \in Failures \cup {"ok"} : Save(r, recs[r], how)
    /\ UNCHANGED <<up, recs, issued, revoked, drawn>>

Next == \E r \in Replicas :
            \/ Start(r) \/ Stop(r) \/ Touch(r)
            \/ \E n \in Names : Create(r, n)
            \/ \E x \in Ids \cup Names : Revoke(r, x)

Spec == Init /\ [][Next]_vars

-----------------------------------------------------------------------------
\* Token sets hold whole records: an id and a name each.
TypeOK ==
    /\ doc \subseteq Records
    /\ rev \in Nat
    /\ up \subseteq Replicas
    /\ recs \in [Replicas -> SUBSET Records]
    /\ etag \in [Replicas -> Nat]
    /\ seen \in [Replicas -> BOOLEAN]
    /\ issued \subseteq Records
    /\ revoked \subseteq Records
    /\ drawn \subseteq Ids
    /\ disturbed \in BOOLEAN

\* A replica whose condition would let it write has in memory exactly what it
\* would overwrite: the token set a conditional Save replaces is the set its
\* caller changed.
ConditionMeansCurrent ==
    \A r \in up : seen[r] /\ etag[r] = rev => recs[r] = doc

\* No two tokens of a replica, or of the document, share a name or an id.
NamesUnique ==
    \A set \in {doc} \cup {recs[r] : r \in up} :
        \A t, u \in set : t.name = u.name \/ t.id = u.id => t = u

\* What a replica accepts is what a restart would make it accept (token.go:
\* "memory must keep matching the on-disk file").
MemoryMatchesDocument == \A r \in up : recs[r] = doc

\* A token its client has received stays in the document until it is revoked,
\* and a revoked one never comes back: a writer that is not up to date is
\* refused instead of clobbering (document.go: "A concurrent writer therefore
\* loses with ErrConflict instead of clobbering").
TokensNotClobbered ==
    /\ issued \ revoked \subseteq doc
    /\ doc \cap issued \cap revoked = {}

\* Brokers that run one after the other, on whatever machines, and whose saves
\* happen or fail, accept after every operation what a restart would make them
\* accept: Create and Revoke undo in memory what they could not save.
MemoryKept == ~disturbed => MemoryMatchesDocument

\* Brokers that run one after the other lose no token a client has received
\* and bring back none that was revoked, through failed saves and hand-overs.
TokensKept == ~disturbed => TokensNotClobbered

=============================================================================
