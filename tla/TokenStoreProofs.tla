--------------------------- MODULE TokenStoreProofs ---------------------------
(***************************************************************************)
(* Proofs about TokenStore for every set of replicas, ids and names.       *)
(*                                                                         *)
(* ConditionMeansCurrent becomes inductive with EtagsOld: no replica has   *)
(* seen a version that is not written yet, so a write by one replica       *)
(* falsifies the condition of every other.  The last two theorems are      *)
(* about replicas that run one after the other and whose saves happen or   *)
(* fail: at most one is up and its condition always holds.  NamesUnique    *)
(* needs no condition at all: every set a replica computes is distinct     *)
(* (Distinct) and of ids that were drawn before, so a fresh id and a name  *)
(* the replica does not know keep it distinct, whoever overwrites whom.    *)
(***************************************************************************)
EXTENDS TokenStore, TLAPS

EtagsOld == \A r \in Replicas : etag[r] <= rev

-----------------------------------------------------------------------------
\* Every variable keeps its type and no version is seen before it is written.
LEMMA TypeNext == TypeOK /\ EtagsOld /\ [Next]_vars => (TypeOK /\ EtagsOld)'
<1> SUFFICES ASSUME TypeOK, EtagsOld, [Next]_vars PROVE (TypeOK /\ EtagsOld)'
  OBVIOUS
<1> USE DEF TypeOK, EtagsOld
<1>1. ASSUME NEW r \in Replicas, NEW set \in SUBSET Records, NEW how,
             Save(r, set, how)
      PROVE  /\ doc' \subseteq Records
             /\ rev' \in Nat
             /\ etag' \in [Replicas -> Nat]
             /\ seen' \in [Replicas -> BOOLEAN]
             /\ EtagsOld'
             /\ disturbed' \in BOOLEAN
  <2>1. CASE how = "ok"
    <3>1. seen' = [seen EXCEPT ![r] = TRUE]
      BY <1>1, <2>1 DEF Save, Observe
    <3>2. seen' \in [Replicas -> BOOLEAN]
      BY <3>1
    <3> QED
      BY <1>1, <2>1, <3>2 DEF Save, Write, Observe
  <2>2. CASE how = "conflict"
    <3>1. seen' = [seen EXCEPT ![r] = FALSE]
      BY <1>1, <2>2 DEF Save, Observe
    <3>2. seen' \in [Replicas -> BOOLEAN]
      BY <3>1
    <3> QED
      BY <1>1, <2>2, <3>2 DEF Save, Observe
  <2>3. CASE how = "error"
    BY <1>1, <2>3 DEF Save
  <2>4. CASE how = "lost"
    BY <1>1, <2>4 DEF Save, Write
  <2>5. CASE how = "retried"
    <3>1. seen' = [seen EXCEPT ![r] = FALSE]
      BY <1>1, <2>5 DEF Save, Observe
    <3>2. seen' \in [Replicas -> BOOLEAN]
      BY <3>1
    <3> QED
      BY <1>1, <2>5, <3>2 DEF Save, Write, Observe
  <2> QED
    BY <1>1, <2>1, <2>2, <2>3, <2>4, <2>5 DEF Save
<1>2. ASSUME NEW r \in Replicas, Start(r) PROVE (TypeOK /\ EtagsOld)'
  BY <1>2 DEF Start, Load, Observe
<1>3. ASSUME NEW r \in Replicas, Stop(r) PROVE (TypeOK /\ EtagsOld)'
  BY <1>3 DEF Stop, Observe
<1>4. ASSUME NEW r \in Replicas, Touch(r) PROVE (TypeOK /\ EtagsOld)'
  BY <1>1, <1>4 DEF Touch
<1>5. ASSUME NEW r \in Replicas, NEW n \in Names, Create(r, n)
      PROVE  (TypeOK /\ EtagsOld)'
  <2>1. PICK i \in Ids \ drawn :
           LET rec == [id |-> i, name |-> n] IN
           /\ drawn' = drawn \cup {i}
           /\ \E how : Save(r, recs[r] \cup {rec}, how)
           /\ \/ /\ recs' = [recs EXCEPT ![r] = @ \cup {rec}]
                 /\ issued' = issued \cup {rec}
              \/ UNCHANGED <<recs, issued>>
    BY <1>5 DEF Create, FreshIds
  <2>2. recs[r] \cup {[id |-> i, name |-> n]} \in SUBSET Records
    BY DEF Records
  <2> QED
    BY <1>1, <1>5, <2>1, <2>2 DEF Create, FreshIds
<1>6. ASSUME NEW r \in Replicas, NEW x \in Ids \cup Names, Revoke(r, x)
      PROVE  (TypeOK /\ EtagsOld)'
  <2>1. PICK rec \in Matches(r, x) :
           /\ \E how : Save(r, recs[r] \ {rec}, how)
           /\ recs' = [recs EXCEPT ![r] = @ \ {rec}] \/ UNCHANGED recs
           /\ revoked' = revoked \cup {rec} \/ UNCHANGED revoked
    BY <1>6 DEF Revoke
  <2>2. rec \in recs[r]
    BY DEF Matches
  <2> QED
    BY <1>1, <1>6, <2>1, <2>2 DEF Revoke
<1>7. ASSUME UNCHANGED vars PROVE (TypeOK /\ EtagsOld)'
  BY <1>7 DEF vars
<1> QED
  BY <1>2, <1>3, <1>4, <1>5, <1>6, <1>7 DEF Next

\* A Save leaves every replica whose condition then holds with the document's
\* own set, provided the saved set becomes the writer's memory on success and
\* its memory is left alone on failure.
LEMMA SaveKeepsCondition ==
    ASSUME TypeOK, EtagsOld, ConditionMeansCurrent, NEW r \in up,
           NEW set \in SUBSET Records, NEW how, Save(r, set, how), up' = up,
           recs' = IF how = "ok" THEN [recs EXCEPT ![r] = set] ELSE recs
    PROVE  ConditionMeansCurrent'
<1>1. CASE how = "ok"
  BY <1>1 DEF TypeOK, EtagsOld, ConditionMeansCurrent, Save, Write, Observe
<1>2. CASE how = "conflict"
  BY <1>2 DEF TypeOK, EtagsOld, ConditionMeansCurrent, Save, Observe
<1>3. CASE how = "error"
  BY <1>3 DEF ConditionMeansCurrent, Save
<1>4. CASE how = "lost"
  BY <1>4 DEF TypeOK, EtagsOld, ConditionMeansCurrent, Save, Write
<1>5. CASE how = "retried"
  BY <1>5 DEF TypeOK, EtagsOld, ConditionMeansCurrent, Save, Write, Observe
<1> QED
  BY <1>1, <1>2, <1>3, <1>4, <1>5 DEF Save

\* The condition of every replica keeps its meaning in every step.
LEMMA ConditionNext ==
    TypeOK /\ EtagsOld /\ ConditionMeansCurrent /\ [Next]_vars
        => ConditionMeansCurrent'
<1> SUFFICES ASSUME TypeOK, EtagsOld, ConditionMeansCurrent, [Next]_vars
             PROVE  ConditionMeansCurrent'
  OBVIOUS
<1>1. ASSUME NEW r \in Replicas, Start(r) PROVE ConditionMeansCurrent'
  BY <1>1 DEF Start, Load, Observe, ConditionMeansCurrent, TypeOK
<1>2. ASSUME NEW r \in Replicas, Stop(r) PROVE ConditionMeansCurrent'
  BY <1>2 DEF Stop, Observe, ConditionMeansCurrent, TypeOK
<1>3. ASSUME NEW r \in Replicas, Touch(r) PROVE ConditionMeansCurrent'
  <2>1. PICK how : Save(r, recs[r], how)
    BY <1>3 DEF Touch
  <2>2. /\ r \in up /\ up' = up /\ recs[r] \in SUBSET Records
        /\ recs' = IF how = "ok" THEN [recs EXCEPT ![r] = recs[r]] ELSE recs
    BY <1>3 DEF Touch, TypeOK
  <2> QED
    BY <2>1, <2>2, SaveKeepsCondition
<1>4. ASSUME NEW r \in Replicas, NEW n \in Names, Create(r, n)
      PROVE  ConditionMeansCurrent'
  <2>1. PICK i \in Ids, how \in Failures \cup {"ok"} :
           LET rec == [id |-> i, name |-> n] IN
           /\ Save(r, recs[r] \cup {rec}, how)
           /\ recs' = IF how = "ok" THEN [recs EXCEPT ![r] = @ \cup {rec}]
                      ELSE recs
    BY <1>4 DEF Create, FreshIds, Failures
  <2>2. /\ r \in up /\ up' = up
        /\ recs[r] \cup {[id |-> i, name |-> n]} \in SUBSET Records
    BY <1>4 DEF Create, FreshIds, TypeOK, Records
  <2> QED
    BY <2>1, <2>2, SaveKeepsCondition
<1>5. ASSUME NEW r \in Replicas, NEW x \in Ids \cup Names, Revoke(r, x)
      PROVE  ConditionMeansCurrent'
  <2>1. PICK rec \in Matches(r, x), how \in Failures \cup {"ok"} :
           /\ Save(r, recs[r] \ {rec}, how)
           /\ recs' = IF how = "ok" THEN [recs EXCEPT ![r] = @ \ {rec}] ELSE recs
    BY <1>5 DEF Revoke, Failures, Unknown
  <2>2. r \in up /\ up' = up /\ recs[r] \ {rec} \in SUBSET Records
    BY <1>5 DEF Revoke, TypeOK
  <2> QED
    BY <2>1, <2>2, SaveKeepsCondition
<1>6. ASSUME UNCHANGED vars PROVE ConditionMeansCurrent'
  BY <1>6 DEF vars, ConditionMeansCurrent
<1> QED
  BY <1>1, <1>2, <1>3, <1>4, <1>5, <1>6 DEF Next

\* The variables have their types and no version is seen at the start.
LEMMA InitTyped == Init => TypeOK /\ EtagsOld
<1> SUFFICES ASSUME Init PROVE TypeOK /\ EtagsOld
  OBVIOUS
<1>1. disturbed \in BOOLEAN /\ seen \in [Replicas -> BOOLEAN]
  BY Zenon DEF Init
<1> QED
  BY <1>1 DEF Init, TypeOK, EtagsOld

\* Token sets hold whole records, in every replica and in the document.
THEOREM TypeCorrect == Spec => []TypeOK
<1> QED
  BY InitTyped, TypeNext, PTL DEF Spec

\* Whatever becomes of each save, a replica whose conditional write the bucket
\* would accept has the document's own set in memory.
THEOREM ConditionIsSound == Spec => []ConditionMeansCurrent
<1>1. Init => TypeOK /\ EtagsOld /\ ConditionMeansCurrent
  BY InitTyped DEF Init, ConditionMeansCurrent
<1> QED
  BY <1>1, TypeNext, ConditionNext, PTL DEF Spec

-----------------------------------------------------------------------------
(***************************************************************************)
(* Unique names and ids, with any number of replicas.                      *)
(***************************************************************************)
\* No two tokens of the set share a name or an id, and all ids were drawn.
Distinct(set, ids) ==
    /\ \A t, u \in set : t.name = u.name \/ t.id = u.id => t = u
    /\ \A t \in set : t.id \in ids

DistinctInv == Distinct(doc, drawn) /\ \A r \in Replicas : Distinct(recs[r], drawn)

\* A Save writes the set it was given or leaves the document as it is.
LEMMA SaveWrites ==
    ASSUME NEW r, NEW set, NEW how, Save(r, set, how)
    PROVE  doc' = doc \/ doc' = set
  BY DEF Save, Write

\* A set stays distinct when a token with a new name and a fresh id joins it,
\* when a token leaves it, and when more ids are drawn.
LEMMA DistinctSets ==
    ASSUME NEW set, NEW ids, Distinct(set, ids)
    PROVE  /\ \A i, n : i \notin ids /\ (\A t \in set : t.name # n) =>
                 Distinct(set \cup {[id |-> i, name |-> n]}, ids \cup {i})
           /\ \A t : Distinct(set \ {t}, ids)
           /\ \A i : Distinct(set, ids \cup {i})
<1>1. ASSUME NEW i, NEW n, i \notin ids, \A t \in set : t.name # n
      PROVE  Distinct(set \cup {[id |-> i, name |-> n]}, ids \cup {i})
  <2> DEFINE rec == [id |-> i, name |-> n]
  <2>1. rec.id = i /\ rec.name = n
    OBVIOUS
  <2> HIDE DEF rec
  <2>2. Distinct(set \cup {rec}, ids \cup {i})
    BY <1>1, <2>1 DEF Distinct
  <2> QED
    BY <2>2 DEF rec
<1>2. \A t : Distinct(set \ {t}, ids)
  BY DEF Distinct
<1>3. \A i : Distinct(set, ids \cup {i})
  BY DEF Distinct
<1> QED
  BY <1>1, <1>2, <1>3

\* Every set that is computed, loaded or written is distinct.
LEMMA DistinctNext == TypeOK /\ DistinctInv /\ [Next]_vars => DistinctInv'
<1> SUFFICES ASSUME TypeOK, DistinctInv, [Next]_vars PROVE DistinctInv'
  OBVIOUS
<1> USE DEF DistinctInv
<1>0. recs \in [Replicas -> SUBSET Records]
  BY DEF TypeOK
<1>1. ASSUME NEW r \in Replicas, Start(r) PROVE DistinctInv'
  BY <1>0, <1>1 DEF Start, Load
<1>2. ASSUME NEW r \in Replicas, Stop(r) PROVE DistinctInv'
  <2>1. Distinct({}, drawn)
    BY DEF Distinct
  <2> QED
    BY <1>0, <1>2, <2>1 DEF Stop
<1>3. ASSUME NEW r \in Replicas, Touch(r) PROVE DistinctInv'
  BY <1>3, SaveWrites DEF Touch
<1>4. ASSUME NEW r \in Replicas, NEW n \in Names, Create(r, n)
      PROVE  DistinctInv'
  <2>1. PICK i \in Ids \ drawn :
           LET rec == [id |-> i, name |-> n] IN
           /\ drawn' = drawn \cup {i}
           /\ \E how : Save(r, recs[r] \cup {rec}, how)
           /\ recs' = [recs EXCEPT ![r] = @ \cup {rec}] \/ UNCHANGED recs
    BY <1>4 DEF Create, FreshIds
  <2> DEFINE new == recs[r] \cup {[id |-> i, name |-> n]}
  <2>2. Distinct(new, drawn')
    BY <1>4, <2>1, DistinctSets DEF Create
  <2>3. /\ Distinct(doc, drawn')
        /\ \A q \in Replicas : Distinct(recs[q], drawn')
    BY <2>1, DistinctSets
  <2>4. doc' \in {doc, new}
    BY <2>1, SaveWrites
  <2>5. \A q \in Replicas : recs'[q] \in {recs[q], new} /\ (q # r => recs'[q] = recs[q])
    BY <1>0, <2>1
  <2> HIDE DEF new
  <2>6. \A q \in Replicas : Distinct(recs'[q], drawn')
    <3> TAKE q \in Replicas
    <3>1. recs'[q] = recs[q] \/ recs'[q] = new
      BY <2>5
    <3> QED
      BY <2>2, <2>3, <3>1
  <2> QED
    BY <2>2, <2>3, <2>4, <2>6
<1>5. ASSUME NEW r \in Replicas, NEW x \in Ids \cup Names, Revoke(r, x)
      PROVE  DistinctInv'
  <2>1. PICK rec \in Matches(r, x) :
           /\ \E how : Save(r, recs[r] \ {rec}, how)
           /\ recs' = [recs EXCEPT ![r] = @ \ {rec}] \/ UNCHANGED recs
    BY <1>5 DEF Revoke
  <2>2. Distinct(recs[r] \ {rec}, drawn) /\ drawn' = drawn
    BY <1>5, DistinctSets DEF Revoke
  <2>3. doc' = doc \/ doc' = recs[r] \ {rec}
    BY <2>1, SaveWrites
  <2> QED
    BY <1>0, <2>1, <2>2, <2>3
<1>6. ASSUME UNCHANGED vars PROVE DistinctInv'
  BY <1>6 DEF vars
<1> QED
  BY <1>1, <1>2, <1>3, <1>4, <1>5, <1>6 DEF Next

\* However many replicas write over each other, and whatever becomes of their
\* saves, no replica and no document ever holds two tokens of one name or id.
THEOREM NamesAreUnique == Spec => []NamesUnique
<1>1. Init => TypeOK /\ EtagsOld /\ DistinctInv
  BY InitTyped DEF Init, DistinctInv, Distinct
<1>2. TypeOK /\ DistinctInv => NamesUnique
  BY DEF TypeOK, DistinctInv, Distinct, NamesUnique
<1> QED
  BY <1>1, <1>2, TypeNext, DistinctNext, PTL DEF Spec

-----------------------------------------------------------------------------
(***************************************************************************)
(* Replicas that run one after the other, saves that happen or fail.       *)
(***************************************************************************)
InSync == /\ \A r \in up : seen[r] /\ etag[r] = rev /\ recs[r] = doc
          /\ \A r, q \in up : r = q

History == /\ issued \ revoked \subseteq doc
           /\ doc \cap issued \cap revoked = {}
           /\ \A t \in doc \cup issued \cup revoked : t.id \in drawn

\* A lone replica's condition always holds, so its Save either writes the set
\* it was given or changes nothing.
LEMMA AloneSave ==
    ASSUME TypeOK, InSync, NEW r \in up, NEW set, NEW how,
           Save(r, set, how), ~disturbed'
    PROVE  \/ /\ how = "ok" /\ doc' = set
              /\ seen'[r] /\ etag'[r] = rev'
           \/ how = "error" /\ UNCHANGED <<doc, rev, etag, seen>>
  BY DEF TypeOK, InSync, Save, MaySave, Write, Observe

\* A lone replica stays in step with its document, and the document with what
\* clients were told.
LEMMA AloneNext ==
    TypeOK /\ InSync /\ History /\ [Next]_vars /\ ~disturbed'
        => (InSync /\ History)'
<1> SUFFICES ASSUME TypeOK, InSync, History, [Next]_vars, ~disturbed'
             PROVE  (InSync /\ History)'
  OBVIOUS
<1>0. \A r \in up, q \in up : r = q
  BY DEF InSync
<1>1. ASSUME NEW r \in Replicas, Start(r) PROVE (InSync /\ History)'
  BY <1>0, <1>1 DEF Start, Load, Observe, InSync, History, TypeOK
<1>2. ASSUME NEW r \in Replicas, Stop(r) PROVE (InSync /\ History)'
  BY <1>0, <1>2 DEF Stop, Observe, InSync, History, TypeOK
<1>3. ASSUME NEW r \in Replicas, Touch(r) PROVE (InSync /\ History)'
  <2>1. PICK how : Save(r, recs[r], how)
    BY <1>3 DEF Touch
  <2>2. r \in up /\ up = up' /\ up \subseteq Replicas /\ doc = recs[r]
    BY <1>3 DEF Touch, InSync, TypeOK
  <2>3. doc' = doc /\ InSync'
    BY <1>0, <1>3, <2>1, <2>2, AloneSave DEF Touch, InSync
  <2> QED
    BY <1>3, <2>3 DEF Touch, History
<1>4. ASSUME NEW r \in Replicas, NEW n \in Names, Create(r, n)
      PROVE  (InSync /\ History)'
  <2>1. PICK i \in Ids \ drawn, how \in Failures \cup {"ok"} :
           LET rec == [id |-> i, name |-> n] IN
           /\ drawn' = drawn \cup {i}
           /\ Save(r, recs[r] \cup {rec}, how)
           /\ recs' = IF how = "ok" THEN [recs EXCEPT ![r] = @ \cup {rec}]
                      ELSE recs
           /\ issued' = IF how = "ok" THEN issued \cup {rec} ELSE issued
    BY <1>4 DEF Create, FreshIds, Failures
  <2> DEFINE rec == [id |-> i, name |-> n]
  <2>2. /\ r \in up /\ up = up' /\ up \subseteq Replicas /\ doc = recs[r]
        /\ UNCHANGED revoked
    BY <1>4 DEF Create, FreshIds, InSync, TypeOK
  <2>3. rec.id = i /\ rec \notin doc \cup issued \cup revoked
    BY <2>1 DEF History
  <2>4. \/ /\ how = "ok" /\ doc' = recs[r] \cup {rec}
           /\ seen'[r] /\ etag'[r] = rev'
        \/ how = "error" /\ UNCHANGED <<doc, rev, etag, seen>>
    BY <2>1, <2>2, AloneSave
  <2>5. InSync'
    <3>1. recs \in [Replicas -> SUBSET Records]
      BY DEF TypeOK
    <3> HIDE DEF rec
    <3> QED
      BY <1>0, <2>1, <2>2, <2>4, <3>1 DEF InSync, rec
  <2>6. History'
    <3> HIDE DEF rec
    <3>1. CASE how = "ok"
      <4>1. /\ doc' = doc \cup {rec} /\ issued' = issued \cup {rec}
            /\ revoked' = revoked /\ drawn' = drawn \cup {i}
        BY <2>1, <2>2, <2>4, <3>1 DEF rec
      <4> QED
        BY <2>3, <4>1 DEF History
    <3>2. CASE how = "error"
      BY <2>1, <2>2, <2>4, <3>2 DEF History
    <3> QED
      BY <2>4, <3>1, <3>2
  <2> QED
    BY <2>5, <2>6
<1>5. ASSUME NEW r \in Replicas, NEW x \in Ids \cup Names, Revoke(r, x)
      PROVE  (InSync /\ History)'
  <2>1. PICK rec \in Matches(r, x), how \in Failures \cup {"ok"} :
           /\ Save(r, recs[r] \ {rec}, how)
           /\ recs' = IF how = "ok" THEN [recs EXCEPT ![r] = @ \ {rec}] ELSE recs
           /\ revoked' = IF how \in Unknown \cup {"ok"} THEN revoked \cup {rec}
                         ELSE revoked
    BY <1>5 DEF Revoke, Failures, Unknown
  <2>2. /\ r \in up /\ up = up' /\ up \subseteq Replicas /\ doc = recs[r]
        /\ UNCHANGED <<issued, drawn>> /\ rec \in recs[r]
    BY <1>5 DEF Revoke, InSync, TypeOK, Matches
  <2>3. \/ /\ how = "ok" /\ doc' = recs[r] \ {rec}
           /\ seen'[r] /\ etag'[r] = rev'
        \/ how = "error" /\ UNCHANGED <<doc, rev, etag, seen>>
    BY <2>1, <2>2, AloneSave
  <2>4. InSync'
    <3>1. recs \in [Replicas -> SUBSET Records]
      BY DEF TypeOK
    <3> QED
      BY <1>0, <2>1, <2>2, <2>3, <3>1 DEF InSync
  <2>5. History'
    BY <2>1, <2>2, <2>3 DEF History, Unknown
  <2> QED
    BY <2>4, <2>5
<1>6. ASSUME UNCHANGED vars PROVE (InSync /\ History)'
  BY <1>6 DEF vars, InSync, History
<1> QED
  BY <1>1, <1>2, <1>3, <1>4, <1>5, <1>6 DEF Next

\* Until something disturbs it, a replica is in step with its document and
\* nothing it issued is lost; a disturbance is never taken back.
LEMMA KeptNext ==
    TypeOK /\ EtagsOld /\ (~disturbed => InSync /\ History) /\ [Next]_vars
        => (~disturbed => InSync /\ History)'
<1> SUFFICES ASSUME TypeOK, EtagsOld, ~disturbed => InSync /\ History, [Next]_vars,
                    ~disturbed'
             PROVE  (InSync /\ History)'
  OBVIOUS
<1>1. ASSUME NEW r \in Replicas, NEW set, NEW how, Save(r, set, how)
      PROVE  ~disturbed
  BY <1>1 DEF Save
<1>2. ~disturbed
  BY <1>1 DEF Next, Start, Stop, Touch, Create, Revoke, vars
<1> QED
  BY <1>2, AloneNext

\* Brokers that run one after the other: what one accepts is always what a
\* restart would make it accept.
THEOREM AloneInSync == Spec => []MemoryKept
<1>1. Init => TypeOK /\ EtagsOld /\ (~disturbed => InSync /\ History)
  BY InitTyped DEF Init, InSync, History
<1>2. (~disturbed => InSync /\ History) => MemoryKept
  BY DEF InSync, MemoryKept, MemoryMatchesDocument
<1>3. TypeOK /\ EtagsOld /\ (~disturbed => InSync /\ History) /\ [Next]_vars
          => (TypeOK /\ EtagsOld /\ (~disturbed => InSync /\ History))'
  BY TypeNext, KeptNext
<1> QED
  BY <1>1, <1>2, <1>3, PTL DEF Spec

\* Brokers that run one after the other lose no token a client has received
\* and bring back none that was revoked, through failed saves and restarts.
THEOREM AloneKeepsTokens == Spec => []TokensKept
<1>1. Init => TypeOK /\ EtagsOld /\ (~disturbed => InSync /\ History)
  BY InitTyped DEF Init, InSync, History
<1>2. (~disturbed => InSync /\ History) => TokensKept
  BY DEF History, TokensKept, TokensNotClobbered
<1>3. TypeOK /\ EtagsOld /\ (~disturbed => InSync /\ History) /\ [Next]_vars
          => (TypeOK /\ EtagsOld /\ (~disturbed => InSync /\ History))'
  BY TypeNext, KeptNext
<1> QED
  BY <1>1, <1>2, <1>3, PTL DEF Spec

=============================================================================
