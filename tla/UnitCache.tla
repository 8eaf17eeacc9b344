----------------------------- MODULE UnitCache -----------------------------
(***************************************************************************)
(* The persistent unit-frontend cache of crates/align_driver/src:          *)
(* unit_cache.rs (lookup, publish, reject) and CacheContext::lookup_unit   *)
(* in cache.rs.  Driver processes share one writable root and an immutable *)
(* packaged root and take no lock: a manifest or a rejection marker        *)
(* appears by an atomic rename and disappears by an unlink.  A key whose   *)
(* stored value disagrees with a recomputation is revoked for good.        *)
(* Slot pointers only explain a miss and are left out.                     *)
(***************************************************************************)
EXTENDS Naturals, FiniteSets

CONSTANTS Procs,                       \* driver processes
          Keys, NoKey,
          Packaged,                    \* keys with an entry in the packaged root
          Incomplete,                  \* keys that do not cover every input
          MAX_UNPERSISTED_REJECTIONS

ASSUME UnitCacheAssumption ==
    /\ NoKey \notin Keys
    /\ Packaged \subseteq Keys
    /\ Incomplete \subseteq Keys
    /\ MAX_UNPERSISTED_REJECTIONS \in Nat

VARIABLES
    (* the writable root *)
    action,       \* actions/unit/<key>: "none", "good" or "damaged"
    marker,       \* rejected/unit/<key> exists
    (* RejectedInProcess of each process *)
    exact, all,
    (* one build at a time in each process *)
    pc, key,
    (* history *)
    own,          \* keys this process has rejected
    seen,         \* the key was already revoked when its bytes were read
    torn          \* keys whose publication or rejection was cut short

diskVars == <<action, marker>>
memVars == <<exact, all, own>>
vars == <<diskVars, memVars, pc, key, seen, torn>>

Init == /\ action = [k \in Keys |-> "none"]
        /\ marker = [k \in Keys |-> FALSE]
        /\ exact = [p \in Procs |-> {}]
        /\ all = [p \in Procs |-> FALSE]
        /\ pc = [p \in Procs |-> "idle"]
        /\ key = [p \in Procs |-> NoKey]
        /\ own = [p \in Procs |-> {}]
        /\ seen = [p \in Procs |-> FALSE]
        /\ torn = {}

Goto(p, l) == pc' = [pc EXCEPT ![p] = l]

(* is_rejected: the process's own set, then the marker. *)
InProcess(p, k) == all[p] \/ k \in exact[p]
IsRejected(p, k) == InProcess(p, k) \/ marker[k]

Removed(k) == action' = [action EXCEPT ![k] = "none"]
-----------------------------------------------------------------------------
(* Lookup: early marker check, primary root, packaged root; a decoded hit  *)
(* of either root is authorised after its bytes were read.                 *)

Begin(p, k) ==
    /\ pc[p] = "idle"
    /\ key' = [key EXCEPT ![p] = k]
    /\ seen' = [seen EXCEPT ![p] = FALSE]
    /\ Goto(p, IF IsRejected(p, k) THEN "miss" ELSE "read")
    /\ UNCHANGED <<diskVars, memVars, torn>>

Revoked(p) == marker[key[p]] \/ key[p] \in own[p]

ReadPrimary(p) ==
    /\ pc[p] = "read"
    /\ seen' = [seen EXCEPT ![p] = Revoked(p)]
    /\ Goto(p, CASE action[key[p]] = "good" -> "auth"
                 [] action[key[p]] = "damaged" -> "corrupt"
                 [] action[key[p]] = "none" -> "readpack")
    /\ UNCHANGED <<diskVars, memVars, key, torn>>

(* corrupt(): unlink whatever is there now. *)
Corrupt(p) ==
    /\ pc[p] = "corrupt"
    /\ Removed(key[p]) \/ UNCHANGED action
    /\ Goto(p, "readpack")
    /\ UNCHANGED <<marker, memVars, key, seen, torn>>

(* authorize_lookup of a primary hit.                                      *)
Authorize(p) ==
    /\ pc[p] = "auth"
    /\ Goto(p, IF IsRejected(p, key[p]) THEN "readpack" ELSE "hit")
    /\ UNCHANGED <<diskVars, memVars, key, seen, torn>>

ReadPackaged(p) ==
    /\ pc[p] = "readpack"
    /\ seen' = [seen EXCEPT ![p] = Revoked(p)]
    /\ Goto(p, IF key[p] \in Packaged THEN "authpack" ELSE "miss")
    /\ UNCHANGED <<diskVars, memVars, key, torn>>

(* authorize_lookup of a packaged hit, against the writable root's         *)
(* markers.  Mutant: against the packaged root, which has none.            *)
PackagedRejectedThere(p) == InProcess(p, key[p])
PackagedRejected(p) == IsRejected(p, key[p])

AuthorizePackaged(p) ==
    /\ pc[p] = "authpack"
    /\ Goto(p, IF PackagedRejected(p) THEN "miss" ELSE "hit")
    /\ UNCHANGED <<diskVars, memVars, key, seen, torn>>
-----------------------------------------------------------------------------
(* Publication after a miss, when the unit may be published at all. *)

Skip(p) ==
    /\ pc[p] = "miss"
    /\ Goto(p, "idle")
    /\ UNCHANGED <<diskVars, memVars, key, seen, torn>>

PublishBegin(p) ==
    /\ pc[p] = "miss"
    /\ Goto(p, IF IsRejected(p, key[p]) THEN "idle" ELSE "write")
    /\ UNCHANGED <<diskVars, memVars, key, seen, torn>>

(* publish_file: staged write and rename, or a failure without effect. *)
Write(p) ==
    /\ pc[p] = "write"
    /\ action' = [action EXCEPT ![key[p]] = "good"] \/ UNCHANGED action
    /\ Goto(p, "finish")
    /\ UNCHANGED <<marker, memVars, key, seen, torn>>

(* finish_publication: a rejection that came between undoes the write.     *)
(* Mutant: the handshake's second check is left out.                       *)
MustUndoNever(p) == FALSE
MustUndo(p) == IsRejected(p, key[p])

Finish(p) ==
    /\ pc[p] = "finish"
    /\ Goto(p, IF MustUndo(p) THEN "undo" ELSE "idle")
    /\ UNCHANGED <<diskVars, memVars, key, seen, torn>>
-----------------------------------------------------------------------------
(* A hit is used as it is, or materialised and verified. *)

Accept(p) ==
    /\ pc[p] = "hit"
    /\ Goto(p, "idle")
    /\ UNCHANGED <<diskVars, memVars, key, seen, torn>>

(* RejectedInProcess::insert.  Mutants: a full set forgets instead of      *)
(* rejecting everything; the set grows without a limit.                    *)
Full(p) == Cardinality(exact[p]) = MAX_UNPERSISTED_REJECTIONS
AllAfterForgetting(p) == all[p]
AllAfter(p) == all[p] \/ (key[p] \notin exact[p] /\ Full(p))
ExactAfterUnlimited(p) == exact[p] \cup {key[p]}
ExactAfter(p) ==
    IF InProcess(p, key[p]) THEN exact[p]
    ELSE IF Full(p) THEN {} ELSE exact[p] \cup {key[p]}

Reject(p) ==
    /\ pc[p] = "hit"
    /\ key[p] \in Incomplete
    /\ exact' = [exact EXCEPT ![p] = ExactAfter(p)]
    /\ all' = [all EXCEPT ![p] = AllAfter(p)]
    /\ own' = [own EXCEPT ![p] = @ \cup {key[p]}]
    /\ Goto(p, "mark")
    /\ UNCHANGED <<diskVars, key, seen, torn>>

(* The marker is renamed into place, or cannot be persisted. *)
Mark(p) ==
    /\ pc[p] = "mark"
    /\ \/ /\ marker' = [marker EXCEPT ![key[p]] = TRUE]
          /\ Goto(p, "persisted")
       \/ /\ UNCHANGED marker
          /\ Goto(p, "undo")
    /\ UNCHANGED <<action, memVars, key, seen, torn>>

Persisted(p) ==
    /\ pc[p] = "persisted"
    /\ exact' = [exact EXCEPT ![p] = @ \ {key[p]}]
    /\ Goto(p, "undo")
    /\ UNCHANGED <<diskVars, all, own, key, seen, torn>>

(* invalidate: best effort, an unlink may fail. *)
Invalidate(p) ==
    /\ pc[p] = "undo"
    /\ \/ Removed(key[p]) /\ UNCHANGED torn
       \/ UNCHANGED action /\ torn' = torn \cup {key[p]}
    /\ Goto(p, "idle")
    /\ UNCHANGED <<marker, memVars, key, seen>>
-----------------------------------------------------------------------------
(* The environment. *)

InFlight == {"write", "finish", "persisted", "undo"}

(* A process dies; its successor knows nothing. *)
Crash(p) ==
    /\ pc[p] # "idle"
    /\ torn' = IF pc[p] \in InFlight THEN torn \cup {key[p]} ELSE torn
    /\ exact' = [exact EXCEPT ![p] = {}]
    /\ all' = [all EXCEPT ![p] = FALSE]
    /\ own' = [own EXCEPT ![p] = {}]
    /\ Goto(p, "idle")
    /\ UNCHANGED <<diskVars, key, seen>>

Damage(k) ==
    /\ action[k] = "good"
    /\ action' = [action EXCEPT ![k] = "damaged"]
    /\ UNCHANGED <<marker, memVars, pc, key, seen, torn>>

(* "alignc cache clear" removes actions, one by one, and keeps markers. *)
Clear(k) ==
    /\ action[k] # "none"
    /\ Removed(k)
    /\ UNCHANGED <<marker, memVars, pc, key, seen, torn>>

Lookup(p) == \/ \E k \in Keys : Begin(p, k)
             \/ ReadPrimary(p) \/ Corrupt(p) \/ Authorize(p)
             \/ ReadPackaged(p) \/ AuthorizePackaged(p)

Publish(p) == Skip(p) \/ PublishBegin(p) \/ Write(p) \/ Finish(p)

Verify(p) == Accept(p) \/ Reject(p) \/ Mark(p) \/ Persisted(p) \/ Invalidate(p)

Next == \/ \E p \in Procs : Lookup(p) \/ Publish(p) \/ Verify(p) \/ Crash(p)
        \/ \E k \in Keys : Damage(k) \/ Clear(k)

Spec == Init /\ [][Next]_vars
-----------------------------------------------------------------------------
(* Properties *)

(* Every variable keeps its type, a step past Begin has a key, and the     *)
(* in-process set keeps its limit.                                         *)
TypeOK ==
    /\ action \in [Keys -> {"none", "good", "damaged"}]
    /\ marker \in [Keys -> BOOLEAN]
    /\ exact \in [Procs -> SUBSET Keys]
    /\ all \in [Procs -> BOOLEAN]
    /\ pc \in [Procs -> {"idle", "read", "corrupt", "auth", "readpack", "authpack",
                         "hit", "miss", "mark"} \cup InFlight]
    /\ key \in [Procs -> Keys \cup {NoKey}]
    /\ own \in [Procs -> SUBSET Keys]
    /\ seen \in [Procs -> BOOLEAN]
    /\ torn \subseteq Keys
    /\ \A p \in Procs : pc[p] # "idle" => key[p] \in Keys
    /\ \A p \in Procs : /\ IsFiniteSet(exact[p])
                        /\ Cardinality(exact[p]) <= MAX_UNPERSISTED_REJECTIONS

(* finish_publication and reject are two halves of a handshake: once every *)
(* publication and rejection of a revoked key has run to its end, in       *)
(* whichever order, its action is gone.                                    *)
Busy(k) == \E p \in Procs : pc[p] \in InFlight /\ key[p] = k

NoReachableAction ==
    \A k \in Keys : marker[k] /\ k \notin torn /\ ~Busy(k) => action[k] = "none"

(* A process that has rejected a key stays closed to it for its lifetime,  *)
(* whether the marker could be persisted or not, and also when more        *)
(* rejections than the set holds could not be.                             *)
OwnRejectionSticks ==
    \A p \in Procs : \A k \in own[p] : IsRejected(p, k)

(* A rejection that was there when a lookup read its bytes wins: no root   *)
(* serves a hit for it.                                                    *)
NoRevokedHit == \A p \in Procs : pc[p] = "hit" => ~seen[p]
=============================================================================
