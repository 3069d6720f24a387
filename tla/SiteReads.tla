------------------------------- MODULE SiteReads -------------------------------
(***************************************************************************)
(* SiteRegistry with what the filesystem backend's readers find under each *)
(* name (server.Backend's Stat and Open), who take no lock.                *)
(*                                                                         *)
(* backend.go asks that a replacement "must be atomic from a reader's      *)
(* point of view".  The filesystem gives less: while a call for a name is  *)
(* under way its readers may find nothing, or the directory of an upload   *)
(* that is not published yet under whatever deadline the name has.  That   *)
(* is all: it happens to one name at a time, a name without a call under   *)
(* way shows what is published, and a call that fails leaves what it found.*)
(***************************************************************************)
EXTENDS SiteRegistry

VARIABLE shown   \* what a reader finds now: an entry for each name that has one

Of(entries, n) == {e \in entries : e.name = n}

UnderWay(n) == \E a \in asked : a.name = n

Hidden(n) == Of(shown, n) # Of(sites, n)

\* What may be found under a name instead of what is published there: nothing,
\* or one upload that has not been given its own deadline.
NotYet(n) == \/ Of(shown, n) = {}
             \/ \E e \in shown : /\ e.version \in Versions \ used
                                 /\ Of(shown, n) = {e}

Coherent ==
    /\ \A n \in Names : Hidden(n) => UnderWay(n) /\ NotYet(n)
    /\ \A m, n \in Names : Hidden(m) /\ Hidden(n) => m = n

ReadsInit == Init /\ shown = {}

\* Only what is found changes: a directory is moved, or put back.
Look == UNCHANGED vars

ReadsNext == (Next \/ Look) /\ Coherent'

ReadsSpec == ReadsInit /\ [][ReadsNext]_<<vars, shown>>

=============================================================================
