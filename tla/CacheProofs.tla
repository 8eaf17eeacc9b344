---------------------------- MODULE CacheProofs ----------------------------
(***************************************************************************)
(* Proofs about the caches of a build: UnitCache and ObjectCache, which it *)
(* shares with other processes, and ObjectMemo, which its threads share.   *)
(* For any number of processes and keys and any limit of the in-process    *)
(* set; for any drivers, keys, digests, packaged root and number of        *)
(* faults; for any threads, keys, paths and budgets.                       *)
(***************************************************************************)
EXTENDS UnitCache, ObjectCache, ObjectMemo, FiniteSetTheorems, TLAPS

-----------------------------------------------------------------------------
(***************************************************************************)
(* The unit-frontend cache.  Phases ties a process inside a lookup or a    *)
(* rejection to the markers; with it the three properties are inductive.   *)
(***************************************************************************)

(* A process forgets its own rejection only once the marker is on disk,    *)
(* and a revocation a reader has seen is still in force when it asks.      *)
Phases ==
    \A p \in Procs :
        /\ pc[p] = "persisted" => marker[key[p]]
        /\ pc[p] \in {"auth", "authpack"} /\ seen[p] => IsRejected(p, key[p])
        /\ pc[p] = "hit" => ~seen[p]

Inv == TypeOK /\ NoReachableAction /\ OwnRejectionSticks /\ Phases

(* The in-process set stays finite and within its limit on insertion. *)
LEMMA InsertBounded ==
    ASSUME NEW p \in Procs, TypeOK, key[p] \in Keys
    PROVE  /\ ExactAfter(p) \in SUBSET Keys
           /\ IsFiniteSet(ExactAfter(p))
           /\ Cardinality(ExactAfter(p)) <= MAX_UNPERSISTED_REJECTIONS
<1>1. IsFiniteSet(exact[p]) /\ Cardinality(exact[p]) <= MAX_UNPERSISTED_REJECTIONS
  BY DEF TypeOK
<1>2. Cardinality(exact[p]) \in Nat
  BY <1>1, FS_CardinalityType
<1>3. IsFiniteSet({}) /\ Cardinality({}) = 0
  BY FS_EmptySet
<1>4. /\ IsFiniteSet(exact[p] \cup {key[p]})
      /\ key[p] \notin exact[p] => Cardinality(exact[p] \cup {key[p]}) = Cardinality(exact[p]) + 1
  BY <1>1, FS_AddElement
<1>5. exact[p] \in SUBSET Keys
  BY DEF TypeOK
<1>6. CASE InProcess(p, key[p])
  BY <1>1, <1>5, <1>6 DEF ExactAfter
<1>7. CASE ~InProcess(p, key[p]) /\ Full(p)
  BY <1>3, <1>7, UnitCacheAssumption DEF ExactAfter
<1>8. CASE ~InProcess(p, key[p]) /\ ~Full(p)
  BY <1>1, <1>2, <1>4, <1>5, <1>8, UnitCacheAssumption DEF ExactAfter, Full, InProcess
<1>. QED BY <1>6, <1>7, <1>8

(* Forgetting a persisted rejection keeps the set within its limit. *)
LEMMA RemoveBounded ==
    ASSUME NEW p \in Procs, TypeOK, NEW k
    PROVE  /\ exact[p] \ {k} \in SUBSET Keys
           /\ IsFiniteSet(exact[p] \ {k})
           /\ Cardinality(exact[p] \ {k}) <= MAX_UNPERSISTED_REJECTIONS
<1>1. IsFiniteSet(exact[p]) /\ Cardinality(exact[p]) <= MAX_UNPERSISTED_REJECTIONS
  BY DEF TypeOK
<1>2. Cardinality(exact[p]) \in Nat
  BY <1>1, FS_CardinalityType
<1>3. /\ IsFiniteSet(exact[p] \ {k})
      /\ Cardinality(exact[p] \ {k}) = IF k \in exact[p] THEN Cardinality(exact[p]) - 1
                                                         ELSE Cardinality(exact[p])
  BY <1>1, FS_RemoveElement
<1>. QED BY <1>1, <1>2, <1>3, UnitCacheAssumption DEF TypeOK

(* The empty cache satisfies the invariant. *)
LEMMA InitInv == Init => Inv
<1>. SUFFICES ASSUME Init PROVE Inv
  OBVIOUS
<1>1. TypeOK
  BY FS_EmptySet, UnitCacheAssumption DEF Init, TypeOK, InFlight
<1>2. NoReachableAction
  BY DEF Init, NoReachableAction
<1>3. OwnRejectionSticks
  BY DEF Init, OwnRejectionSticks
<1>4. Phases
  BY DEF Init, Phases
<1>. QED BY <1>1, <1>2, <1>3, <1>4 DEF Inv

(* Typing is preserved by every step. *)
LEMMA TypeStep ==
    ASSUME TypeOK, [Next]_vars
    PROVE  TypeOK'
<1>1. ASSUME NEW p \in Procs, NEW k \in Keys, Begin(p, k) PROVE TypeOK'
  BY <1>1 DEF Begin, TypeOK, InFlight, diskVars, memVars, Goto
<1>2. ASSUME NEW p \in Procs, ReadPrimary(p) PROVE TypeOK'
  <2>1. key[p] \in Keys
    BY <1>2 DEF ReadPrimary, TypeOK
  <2>2. Revoked(p) \in BOOLEAN
    BY <2>1 DEF Revoked, TypeOK
  <2>3. \/ action[key[p]] = "good"
        \/ action[key[p]] = "damaged"
        \/ action[key[p]] = "none"
    BY <2>1 DEF TypeOK
  <2>. QED BY <1>2, <2>1, <2>2, <2>3 DEF ReadPrimary, TypeOK, InFlight, diskVars,
     memVars, Goto
<1>3. ASSUME NEW p \in Procs, Corrupt(p) PROVE TypeOK'
  BY <1>3 DEF Corrupt, TypeOK, InFlight, diskVars, memVars, Goto, Removed
<1>4. ASSUME NEW p \in Procs, Authorize(p) PROVE TypeOK'
  BY <1>4 DEF Authorize, TypeOK, InFlight, diskVars, memVars, Goto
<1>5. ASSUME NEW p \in Procs, ReadPackaged(p) PROVE TypeOK'
  <2>1. key[p] \in Keys
    BY <1>5 DEF ReadPackaged, TypeOK
  <2>2. Revoked(p) \in BOOLEAN
    BY <2>1 DEF Revoked, TypeOK
  <2>. QED BY <1>5, <2>1, <2>2 DEF ReadPackaged, TypeOK, InFlight, diskVars, memVars,
     Goto
<1>6. ASSUME NEW p \in Procs, AuthorizePackaged(p) PROVE TypeOK'
  BY <1>6 DEF AuthorizePackaged, TypeOK, InFlight, diskVars, memVars, Goto
<1>7. ASSUME NEW p \in Procs, Skip(p) PROVE TypeOK'
  BY <1>7 DEF Skip, TypeOK, InFlight, diskVars, memVars, Goto
<1>8. ASSUME NEW p \in Procs, PublishBegin(p) PROVE TypeOK'
  BY <1>8 DEF PublishBegin, TypeOK, InFlight, diskVars, memVars, Goto
<1>9. ASSUME NEW p \in Procs, Write(p) PROVE TypeOK'
  BY <1>9 DEF Write, TypeOK, InFlight, diskVars, memVars, Goto
<1>10. ASSUME NEW p \in Procs, Finish(p) PROVE TypeOK'
  BY <1>10 DEF Finish, TypeOK, InFlight, diskVars, memVars, Goto
<1>11. ASSUME NEW p \in Procs, Accept(p) PROVE TypeOK'
  BY <1>11 DEF Accept, TypeOK, InFlight, diskVars, memVars, Goto
<1>12. ASSUME NEW p \in Procs, Reject(p) PROVE TypeOK'
  <2>1. key[p] \in Keys
    BY <1>12 DEF Reject, TypeOK
  <2>2. /\ ExactAfter(p) \in SUBSET Keys
        /\ IsFiniteSet(ExactAfter(p))
        /\ Cardinality(ExactAfter(p)) <= MAX_UNPERSISTED_REJECTIONS
    BY <2>1, InsertBounded
  <2>3. AllAfter(p) \in BOOLEAN
    BY DEF AllAfter, TypeOK
  <2>. QED BY <1>12, <2>1, <2>2, <2>3 DEF Reject, TypeOK, InFlight, diskVars, Goto
<1>13. ASSUME NEW p \in Procs, Mark(p) PROVE TypeOK'
  BY <1>13 DEF Mark, TypeOK, InFlight, diskVars, memVars, Goto
<1>14. ASSUME NEW p \in Procs, Persisted(p) PROVE TypeOK'
  <2>1. /\ exact[p] \ {key[p]} \in SUBSET Keys
        /\ IsFiniteSet(exact[p] \ {key[p]})
        /\ Cardinality(exact[p] \ {key[p]}) <= MAX_UNPERSISTED_REJECTIONS
    BY RemoveBounded
  <2>. QED BY <1>14, <2>1 DEF Persisted, TypeOK, InFlight, diskVars, Goto
<1>15. ASSUME NEW p \in Procs, Invalidate(p) PROVE TypeOK'
  BY <1>15 DEF Invalidate, TypeOK, InFlight, diskVars, memVars, Goto, Removed
<1>16. ASSUME NEW p \in Procs, Crash(p) PROVE TypeOK'
  <2>1. IsFiniteSet({}) /\ Cardinality({}) <= MAX_UNPERSISTED_REJECTIONS
    BY FS_EmptySet, UnitCacheAssumption
  <2>. QED BY <1>16, <2>1 DEF Crash, TypeOK, InFlight, diskVars, Goto
<1>17. ASSUME NEW k \in Keys, Damage(k) PROVE TypeOK'
  BY <1>17 DEF Damage, TypeOK, InFlight, diskVars, memVars, Goto
<1>18. ASSUME NEW k \in Keys, Clear(k) PROVE TypeOK'
  BY <1>18 DEF Clear, TypeOK, InFlight, diskVars, memVars, Goto, Removed
<1>19. CASE UNCHANGED vars
  BY <1>19 DEF vars, diskVars, memVars, TypeOK
<1>. QED BY <1>1, <1>2, <1>3, <1>4, <1>5, <1>6, <1>7, <1>8, <1>9, <1>10, <1>11, <1>12, <1>13, <1>14, <1>15, <1>16, <1>17, <1>18, <1>19 DEF Next, Lookup, Publish, Verify

(* The publication handshake: whoever leaves a revoked key's entry in      *)
(* place has still to check or to unlink it.                               *)
LEMMA ReachableStep ==
    ASSUME Inv, [Next]_vars
    PROVE  NoReachableAction'
<1>. USE DEF Inv
<1>1. ASSUME NEW p \in Procs, NEW k \in Keys, Begin(p, k) PROVE NoReachableAction'
  BY <1>1 DEF Begin, TypeOK, NoReachableAction, Busy, InFlight, diskVars, memVars, Goto
<1>2. ASSUME NEW p \in Procs, ReadPrimary(p) PROVE NoReachableAction'
  BY <1>2 DEF ReadPrimary, TypeOK, NoReachableAction, Busy, InFlight, diskVars,
     memVars, Goto
<1>3. ASSUME NEW p \in Procs, Corrupt(p) PROVE NoReachableAction'
  BY <1>3 DEF Corrupt, TypeOK, NoReachableAction, Busy, InFlight, diskVars, memVars,
     Goto, Removed
<1>4. ASSUME NEW p \in Procs, Authorize(p) PROVE NoReachableAction'
  BY <1>4 DEF Authorize, TypeOK, NoReachableAction, Busy, InFlight, diskVars,
     memVars, Goto
<1>5. ASSUME NEW p \in Procs, ReadPackaged(p) PROVE NoReachableAction'
  BY <1>5 DEF ReadPackaged, TypeOK, NoReachableAction, Busy, InFlight, diskVars,
     memVars, Goto
<1>6. ASSUME NEW p \in Procs, AuthorizePackaged(p) PROVE NoReachableAction'
  BY <1>6 DEF AuthorizePackaged, TypeOK, NoReachableAction, Busy, InFlight, diskVars,
     memVars, Goto
<1>7. ASSUME NEW p \in Procs, Skip(p) PROVE NoReachableAction'
  BY <1>7 DEF Skip, TypeOK, NoReachableAction, Busy, InFlight, diskVars, memVars, Goto
<1>8. ASSUME NEW p \in Procs, PublishBegin(p) PROVE NoReachableAction'
  BY <1>8 DEF PublishBegin, TypeOK, NoReachableAction, Busy, InFlight, diskVars,
     memVars, Goto
<1>9. ASSUME NEW p \in Procs, Write(p) PROVE NoReachableAction'
  BY <1>9 DEF Write, TypeOK, NoReachableAction, Busy, InFlight, diskVars, memVars, Goto
<1>10. ASSUME NEW p \in Procs, Finish(p) PROVE NoReachableAction'
  BY <1>10 DEF Finish, TypeOK, NoReachableAction, Busy, InFlight, diskVars, memVars,
     Goto, MustUndo, IsRejected
<1>11. ASSUME NEW p \in Procs, Accept(p) PROVE NoReachableAction'
  BY <1>11 DEF Accept, TypeOK, NoReachableAction, Busy, InFlight, diskVars, memVars,
     Goto
<1>12. ASSUME NEW p \in Procs, Reject(p) PROVE NoReachableAction'
  BY <1>12 DEF Reject, TypeOK, NoReachableAction, Busy, InFlight, diskVars, memVars,
     Goto
<1>13. ASSUME NEW p \in Procs, Mark(p) PROVE NoReachableAction'
  BY <1>13 DEF Mark, TypeOK, NoReachableAction, Busy, InFlight, diskVars, memVars, Goto
<1>14. ASSUME NEW p \in Procs, Persisted(p) PROVE NoReachableAction'
  BY <1>14 DEF Persisted, TypeOK, NoReachableAction, Busy, InFlight, diskVars,
     memVars, Goto
<1>15. ASSUME NEW p \in Procs, Invalidate(p) PROVE NoReachableAction'
  BY <1>15 DEF Invalidate, TypeOK, NoReachableAction, Busy, InFlight, diskVars,
     memVars, Goto, Removed
<1>16. ASSUME NEW p \in Procs, Crash(p) PROVE NoReachableAction'
  BY <1>16 DEF Crash, TypeOK, NoReachableAction, Busy, InFlight, diskVars, memVars, Goto
<1>17. ASSUME NEW k \in Keys, Damage(k) PROVE NoReachableAction'
  BY <1>17 DEF Damage, TypeOK, NoReachableAction, Busy, InFlight, diskVars, memVars,
     Goto
<1>18. ASSUME NEW k \in Keys, Clear(k) PROVE NoReachableAction'
  BY <1>18 DEF Clear, TypeOK, NoReachableAction, Busy, InFlight, diskVars, memVars,
     Goto, Removed
<1>19. CASE UNCHANGED vars
  BY <1>19 DEF vars, diskVars, memVars, NoReachableAction, Busy
<1>. QED BY <1>1, <1>2, <1>3, <1>4, <1>5, <1>6, <1>7, <1>8, <1>9, <1>10, <1>11, <1>12, <1>13, <1>14, <1>15, <1>16, <1>17, <1>18, <1>19 DEF Next, Lookup, Publish, Verify

(* A process keeps its own rejections: inserting evicts only into all, and *)
(* forgetting needs the marker.                                            *)
LEMMA OwnStep ==
    ASSUME Inv, [Next]_vars
    PROVE  OwnRejectionSticks'
<1>. USE DEF Inv
<1>1. ASSUME NEW p \in Procs, NEW k \in Keys, Begin(p, k) PROVE OwnRejectionSticks'
  BY <1>1 DEF Begin, OwnRejectionSticks, TypeOK, IsRejected, InProcess, diskVars,
     memVars
<1>2. ASSUME NEW p \in Procs, ReadPrimary(p) PROVE OwnRejectionSticks'
  BY <1>2 DEF ReadPrimary, OwnRejectionSticks, TypeOK, IsRejected, InProcess,
     diskVars, memVars
<1>3. ASSUME NEW p \in Procs, Corrupt(p) PROVE OwnRejectionSticks'
  BY <1>3 DEF Corrupt, OwnRejectionSticks, TypeOK, IsRejected, InProcess, diskVars,
     memVars
<1>4. ASSUME NEW p \in Procs, Authorize(p) PROVE OwnRejectionSticks'
  BY <1>4 DEF Authorize, OwnRejectionSticks, TypeOK, IsRejected, InProcess, diskVars,
     memVars
<1>5. ASSUME NEW p \in Procs, ReadPackaged(p) PROVE OwnRejectionSticks'
  BY <1>5 DEF ReadPackaged, OwnRejectionSticks, TypeOK, IsRejected, InProcess,
     diskVars, memVars
<1>6. ASSUME NEW p \in Procs, AuthorizePackaged(p) PROVE OwnRejectionSticks'
  BY <1>6 DEF AuthorizePackaged, OwnRejectionSticks, TypeOK, IsRejected, InProcess,
     diskVars, memVars
<1>7. ASSUME NEW p \in Procs, Skip(p) PROVE OwnRejectionSticks'
  BY <1>7 DEF Skip, OwnRejectionSticks, TypeOK, IsRejected, InProcess, diskVars, memVars
<1>8. ASSUME NEW p \in Procs, PublishBegin(p) PROVE OwnRejectionSticks'
  BY <1>8 DEF PublishBegin, OwnRejectionSticks, TypeOK, IsRejected, InProcess,
     diskVars, memVars
<1>9. ASSUME NEW p \in Procs, Write(p) PROVE OwnRejectionSticks'
  BY <1>9 DEF Write, OwnRejectionSticks, TypeOK, IsRejected, InProcess, diskVars,
     memVars
<1>10. ASSUME NEW p \in Procs, Finish(p) PROVE OwnRejectionSticks'
  BY <1>10 DEF Finish, OwnRejectionSticks, TypeOK, IsRejected, InProcess, diskVars,
     memVars
<1>11. ASSUME NEW p \in Procs, Accept(p) PROVE OwnRejectionSticks'
  BY <1>11 DEF Accept, OwnRejectionSticks, TypeOK, IsRejected, InProcess, diskVars,
     memVars
<1>12. ASSUME NEW p \in Procs, Reject(p) PROVE OwnRejectionSticks'
  BY <1>12 DEF Reject, OwnRejectionSticks, TypeOK, IsRejected, InProcess, diskVars,
     memVars, ExactAfter, AllAfter, Full
<1>13. ASSUME NEW p \in Procs, Mark(p) PROVE OwnRejectionSticks'
  BY <1>13 DEF Mark, OwnRejectionSticks, TypeOK, IsRejected, InProcess, diskVars,
     memVars
<1>14. ASSUME NEW p \in Procs, Persisted(p) PROVE OwnRejectionSticks'
  BY <1>14 DEF Persisted, OwnRejectionSticks, TypeOK, IsRejected, InProcess,
     diskVars, memVars, Phases
<1>15. ASSUME NEW p \in Procs, Invalidate(p) PROVE OwnRejectionSticks'
  BY <1>15 DEF Invalidate, OwnRejectionSticks, TypeOK, IsRejected, InProcess,
     diskVars, memVars
<1>16. ASSUME NEW p \in Procs, Crash(p) PROVE OwnRejectionSticks'
  BY <1>16 DEF Crash, OwnRejectionSticks, TypeOK, IsRejected, InProcess, diskVars,
     memVars
<1>17. ASSUME NEW k \in Keys, Damage(k) PROVE OwnRejectionSticks'
  BY <1>17 DEF Damage, OwnRejectionSticks, TypeOK, IsRejected, InProcess, diskVars,
     memVars
<1>18. ASSUME NEW k \in Keys, Clear(k) PROVE OwnRejectionSticks'
  BY <1>18 DEF Clear, OwnRejectionSticks, TypeOK, IsRejected, InProcess, diskVars,
     memVars
<1>19. CASE UNCHANGED vars
  BY <1>19 DEF vars, diskVars, memVars, OwnRejectionSticks, IsRejected, InProcess
<1>. QED BY <1>1, <1>2, <1>3, <1>4, <1>5, <1>6, <1>7, <1>8, <1>9, <1>10, <1>11, <1>12, <1>13, <1>14, <1>15, <1>16, <1>17, <1>18, <1>19 DEF Next, Lookup, Publish, Verify

(* A revocation seen stays in force until the lookup ends. *)
LEMMA PhaseStep ==
    ASSUME Inv, [Next]_vars
    PROVE  Phases'
<1>. USE DEF Inv
<1>1. ASSUME NEW p \in Procs, NEW k \in Keys, Begin(p, k) PROVE Phases'
  BY <1>1 DEF Begin, Phases, TypeOK, IsRejected, InProcess, diskVars, memVars, Goto
<1>2. ASSUME NEW p \in Procs, ReadPrimary(p) PROVE Phases'
  BY <1>2 DEF ReadPrimary, Phases, TypeOK, IsRejected, InProcess, diskVars, memVars,
     Goto, Revoked, OwnRejectionSticks
<1>3. ASSUME NEW p \in Procs, Corrupt(p) PROVE Phases'
  BY <1>3 DEF Corrupt, Phases, TypeOK, IsRejected, InProcess, diskVars, memVars, Goto
<1>4. ASSUME NEW p \in Procs, Authorize(p) PROVE Phases'
  BY <1>4 DEF Authorize, Phases, TypeOK, IsRejected, InProcess, diskVars, memVars, Goto
<1>5. ASSUME NEW p \in Procs, ReadPackaged(p) PROVE Phases'
  BY <1>5 DEF ReadPackaged, Phases, TypeOK, IsRejected, InProcess, diskVars, memVars,
     Goto, Revoked, OwnRejectionSticks
<1>6. ASSUME NEW p \in Procs, AuthorizePackaged(p) PROVE Phases'
  BY <1>6 DEF AuthorizePackaged, Phases, TypeOK, IsRejected, InProcess, diskVars,
     memVars, Goto, PackagedRejected
<1>7. ASSUME NEW p \in Procs, Skip(p) PROVE Phases'
  BY <1>7 DEF Skip, Phases, TypeOK, IsRejected, InProcess, diskVars, memVars, Goto
<1>8. ASSUME NEW p \in Procs, PublishBegin(p) PROVE Phases'
  BY <1>8 DEF PublishBegin, Phases, TypeOK, IsRejected, InProcess, diskVars, memVars,
     Goto
<1>9. ASSUME NEW p \in Procs, Write(p) PROVE Phases'
  BY <1>9 DEF Write, Phases, TypeOK, IsRejected, InProcess, diskVars, memVars, Goto
<1>10. ASSUME NEW p \in Procs, Finish(p) PROVE Phases'
  BY <1>10 DEF Finish, Phases, TypeOK, IsRejected, InProcess, diskVars, memVars, Goto
<1>11. ASSUME NEW p \in Procs, Accept(p) PROVE Phases'
  BY <1>11 DEF Accept, Phases, TypeOK, IsRejected, InProcess, diskVars, memVars, Goto
<1>12. ASSUME NEW p \in Procs, Reject(p) PROVE Phases'
  BY <1>12 DEF Reject, Phases, TypeOK, IsRejected, InProcess, diskVars, memVars,
     Goto, ExactAfter, AllAfter, Full
<1>13. ASSUME NEW p \in Procs, Mark(p) PROVE Phases'
  BY <1>13 DEF Mark, Phases, TypeOK, IsRejected, InProcess, diskVars, memVars, Goto
<1>14. ASSUME NEW p \in Procs, Persisted(p) PROVE Phases'
  BY <1>14 DEF Persisted, Phases, TypeOK, IsRejected, InProcess, diskVars, memVars, Goto
<1>15. ASSUME NEW p \in Procs, Invalidate(p) PROVE Phases'
  BY <1>15 DEF Invalidate, Phases, TypeOK, IsRejected, InProcess, diskVars, memVars,
     Goto
<1>16. ASSUME NEW p \in Procs, Crash(p) PROVE Phases'
  BY <1>16 DEF Crash, Phases, TypeOK, IsRejected, InProcess, diskVars, memVars, Goto
<1>17. ASSUME NEW k \in Keys, Damage(k) PROVE Phases'
  BY <1>17 DEF Damage, Phases, TypeOK, IsRejected, InProcess, diskVars, memVars, Goto
<1>18. ASSUME NEW k \in Keys, Clear(k) PROVE Phases'
  BY <1>18 DEF Clear, Phases, TypeOK, IsRejected, InProcess, diskVars, memVars, Goto
<1>19. CASE UNCHANGED vars
  BY <1>19 DEF vars, diskVars, memVars, Phases, IsRejected, InProcess
<1>. QED BY <1>1, <1>2, <1>3, <1>4, <1>5, <1>6, <1>7, <1>8, <1>9, <1>10, <1>11, <1>12, <1>13, <1>14, <1>15, <1>16, <1>17, <1>18, <1>19 DEF Next, Lookup, Publish, Verify

(* The conjunction is inductive. *)
LEMMA StepInv == Inv /\ [Next]_vars => Inv'
  BY TypeStep, ReachableStep, OwnStep, PhaseStep DEF Inv

(* So it holds in every reachable state. *)
LEMMA Invariance == Spec => []Inv
<1>. QED BY InitInv, StepInv, PTL DEF Spec

(* The cache's state is well typed and the in-process set of unpersisted   *)
(* rejections never outgrows its limit.                                    *)
THEOREM TypeCorrect == Spec => []TypeOK
<1>1. Inv => TypeOK
  BY DEF Inv
<1>. QED BY <1>1, Invariance, PTL

(* For any number of drivers racing on a key, a completed rejection leaves *)
(* no entry a later lookup could reach.                                    *)
THEOREM RejectionWins == Spec => []NoReachableAction
<1>1. Inv => NoReachableAction
  BY DEF Inv
<1>. QED BY <1>1, Invariance, PTL

(* A driver that rejected a key never trusts it again, even if no marker   *)
(* could be written and its in-process set overflowed.                     *)
THEOREM RejectionSticks == Spec => []OwnRejectionSticks
<1>1. Inv => OwnRejectionSticks
  BY DEF Inv
<1>. QED BY <1>1, Invariance, PTL

(* No lookup, of the writable or of the packaged root, serves a key whose  *)
(* revocation preceded the read of its bytes.                              *)
THEOREM RevokedNeverServed == Spec => []NoRevokedHit
<1>1. Inv => NoRevokedHit
  BY DEF Inv, Phases, NoRevokedHit
<1>. QED BY <1>1, Invariance, PTL

-----------------------------------------------------------------------------
(***************************************************************************)
(* The object cache.  ObjectsRight alone is not inductive: Sources says    *)
(* where a manifest's digest comes from, Vouched what a driver in the      *)
(* middle of a lookup or a publication may rely on.                        *)
(***************************************************************************)

(* A manifest is undecodable or names an object of its key, and bytes that *)
(* do not have their digest were hurt.                                     *)
Sources ==
    /\ \A k \in ObjectKeys : entry[k] \in Objects[k] \cup {NoDigest, Garbage}
    /\ \A d \in Digests : blob[d] \in {"bad", "dir"} => d \in hurt

(* A blob that is there for whoever comes next, unless somebody hurts it. *)
Kept(d) == d \in hurt \/ blob[d] = "good"

(* The digest in hand is one of the key's objects; the copy that is        *)
(* installed has that digest; what was read of the primary root, and what  *)
(* is about to be recorded, is kept unless hurt.                           *)
Vouched ==
    \A p \in Drivers :
        /\ driver[p] \in {"open", "copy", "install", "unlink", "publish", "store", "record"}
             => dg[p] \in Objects[wanted[p]]
        /\ driver[p] = "open" /\ root[p] = "primary" => Kept(dg[p])
        /\ driver[p] = "copy" => fd[p] # "none"
        /\ driver[p] = "copy" /\ root[p] = "primary" /\ fd[p] = "bad" => dg[p] \in hurt
        /\ driver[p] = "install" => fd[p] = "good"
        /\ driver[p] \in {"publish", "store", "record"} => out[p] \in Objects[wanted[p]]
        /\ driver[p] = "record" => Kept(dg[p])

ObjectInv == ObjectsRight /\ Sources /\ Vouched

(* What every key's objects and the packaged manifests are. *)
LEMMA ObjectsOf ==
    ASSUME NEW k \in ObjectKeys
    PROVE  /\ Objects[k] \subseteq Digests
           /\ PackagedAction[k] \in Objects[k] \cup {NoDigest, Garbage}
BY ObjectCacheAssumption

(* The empty root satisfies the invariant. *)
LEMMA ObjectInitInv == ObjectInit => ObjectInv
<1>. SUFFICES ASSUME ObjectInit PROVE ObjectInv
  OBVIOUS
<1>1. (CHOOSE k \in ObjectKeys : TRUE) \in ObjectKeys
  BY ObjectCacheAssumption
<1>2. ObjectTypeOK
  BY <1>1, ObjectCacheAssumption DEF ObjectInit, ObjectTypeOK, Entries, Contents, Labels
<1>3. LinksItsObject /\ ManifestNamesBlob
  BY ObjectCacheAssumption DEF ObjectInit, LinksItsObject, ManifestNamesBlob
<1>4. Sources
  BY DEF ObjectInit, Sources
<1>5. Vouched
  BY DEF ObjectInit, Vouched
<1>. QED BY <1>2, <1>3, <1>4, <1>5 DEF ObjectInv, ObjectsRight

(* A root without a hit sends the lookup on, and touches nothing else. *)
LEMMA NoHitGoes ==
    ASSUME NEW p \in Drivers, ObjectTypeOK, NoHit(p)
    PROVE  /\ driver' = [driver EXCEPT ![p] = driver'[p]]
           /\ driver'[p] \in {"manifest", "produce"}
           /\ root' = [root EXCEPT ![p] = root'[p]]
           /\ root'[p] \in {"primary", "packaged"}
BY DEF NoHit, GoTo, ObjectTypeOK

(***************************************************************************)
(* Steps of one driver that leave the root as it is and forget nothing:    *)
(* the invariant holds if it holds of that driver afterwards.              *)
(***************************************************************************)
LocalTypes(p) ==
    /\ driver'[p] \in Labels
    /\ wanted'[p] \in ObjectKeys
    /\ root'[p] \in {"primary", "packaged"}
    /\ dg'[p] \in Digests \cup {NoDigest}
    /\ fd'[p] \in {"none", "good", "bad"}
    /\ out'[p] \in Entries

LocalStep(p) ==
    /\ driver' = [driver EXCEPT ![p] = driver'[p]]
    /\ wanted' = [wanted EXCEPT ![p] = wanted'[p]]
    /\ root' = [root EXCEPT ![p] = root'[p]]
    /\ dg' = [dg EXCEPT ![p] = dg'[p]]
    /\ fd' = [fd EXCEPT ![p] = fd'[p]]
    /\ out' = [out EXCEPT ![p] = out'[p]]

LocalInv(p) ==
    /\ driver[p] \in {"hit", "done"} => out[p] \in Objects[wanted[p]]
    /\ driver[p] = "unlink" => dg[p] \in hurt
    /\ driver[p] \in {"open", "copy", "install", "unlink", "publish", "store", "record"}
         => dg[p] \in Objects[wanted[p]]
    /\ driver[p] = "open" /\ root[p] = "primary" => Kept(dg[p])
    /\ driver[p] = "copy" => fd[p] # "none"
    /\ driver[p] = "copy" /\ root[p] = "primary" /\ fd[p] = "bad" => dg[p] \in hurt
    /\ driver[p] = "install" => fd[p] = "good"
    /\ driver[p] \in {"publish", "store", "record"} => out[p] \in Objects[wanted[p]]
    /\ driver[p] = "record" => Kept(dg[p])

RootInv ==
    /\ blob \in [Digests -> Contents]
    /\ entry \in [ObjectKeys -> Entries]
    /\ clearing \in {"off", "cas", "actions"}
    /\ faults \in 0..MaxFaults
    /\ hurt \subseteq Digests
    /\ solo \in Drivers \cup {NoDriver}
    /\ Sources
    /\ \A k \in ObjectKeys : entry[k] \in Digests \ hurt => blob[entry[k]] = "good"

(* The invariant is the root's part and one part per driver. *)
LEMMA Split ==
    ObjectInv <=> /\ RootInv
                  /\ driver \in [Drivers -> Labels] /\ wanted \in [Drivers -> ObjectKeys]
                  /\ root \in [Drivers -> {"primary", "packaged"}]
                  /\ dg \in [Drivers -> Digests \cup {NoDigest}]
                  /\ fd \in [Drivers -> {"none", "good", "bad"}]
                  /\ out \in [Drivers -> Entries]
                  /\ \A p \in Drivers : LocalInv(p)
BY DEF ObjectInv, ObjectsRight, ObjectTypeOK, LinksItsObject, ManifestNamesBlob, Vouched,
   RootInv, LocalInv

(* Nothing a driver relies on is lost when blobs only become good and more *)
(* digests are hurt.                                                       *)
Grows ==
    /\ hurt \subseteq hurt'
    /\ \A d \in Digests : blob[d] = "good" /\ d \notin hurt' => blob'[d] = "good"

LEMMA OthersKeep ==
    ASSUME NEW p \in Drivers, NEW q \in Drivers, q # p, ObjectInv, LocalStep(p), Grows
    PROVE  LocalInv(q)'
<1>1. LocalInv(q) /\ wanted[q] \in ObjectKeys
  BY Split
<1>2. Objects[wanted[q]] \subseteq Digests
  BY <1>1, ObjectsOf
<1>3. /\ driver'[q] = driver[q] /\ wanted'[q] = wanted[q] /\ root'[q] = root[q]
      /\ dg'[q] = dg[q] /\ fd'[q] = fd[q] /\ out'[q] = out[q]
  BY Split DEF LocalStep
<1>. QED BY <1>1, <1>2, <1>3 DEF LocalInv, Kept, Grows

LEMMA Local ==
    ASSUME NEW p \in Drivers, ObjectInv, LocalStep(p), LocalTypes(p), Grows,
           RootInv', LocalInv(p)'
    PROVE  ObjectInv'
<1>1. \A q \in Drivers : LocalInv(q)'
  BY OthersKeep
<1>2. /\ (driver \in [Drivers -> Labels])' /\ (wanted \in [Drivers -> ObjectKeys])'
      /\ (root \in [Drivers -> {"primary", "packaged"}])'
      /\ (dg \in [Drivers -> Digests \cup {NoDigest}])'
      /\ (fd \in [Drivers -> {"none", "good", "bad"}])'
      /\ (out \in [Drivers -> Entries])'
  BY Split DEF LocalStep, LocalTypes
<1>. QED BY <1>1, <1>2 DEF ObjectInv, ObjectsRight, ObjectTypeOK, LinksItsObject,
   ManifestNamesBlob, Vouched, RootInv, LocalInv

(* A step that leaves the files alone keeps the root's part. *)
LEMMA Quiet ==
    ASSUME ObjectInv, UNCHANGED <<blob, entry, clearing, hurt, solo>>, faults' \in 0..MaxFaults
    PROVE  RootInv' /\ Grows
BY Split DEF RootInv, Sources, Grows

(* A failure is counted within its bound. *)
LEMMA FaultCounted ==
    ASSUME ObjectInv, Fault
    PROVE  faults' \in 0..MaxFaults
BY Split, ObjectCacheAssumption DEF RootInv, Fault

(* What the invariant says of one driver. *)
LEMMA Own ==
    ASSUME NEW p \in Drivers, ObjectInv
    PROVE  /\ RootInv /\ LocalInv(p)
           /\ driver[p] \in Labels /\ wanted[p] \in ObjectKeys
           /\ root[p] \in {"primary", "packaged"} /\ dg[p] \in Digests \cup {NoDigest}
           /\ fd[p] \in {"none", "good", "bad"} /\ out[p] \in Entries
           /\ Objects[wanted[p]] \subseteq Digests
           /\ PackagedAction[wanted[p]] \in Objects[wanted[p]] \cup {NoDigest, Garbage}
BY Split, ObjectsOf

(***************************************************************************)
(* One lemma per operation.                                                *)
(***************************************************************************)

LEMMA BeginStep ==
    ASSUME NEW p \in Drivers, NEW k \in ObjectKeys, ObjectInv, BeginLookup(p, k)
    PROVE  ObjectInv'
<1>1. RootInv' /\ Grows
  BY Split, Quiet DEF BeginLookup, RootInv
<1>2. LocalStep(p)
  BY Split DEF BeginLookup, GoTo, LocalStep
<1>3. LocalTypes(p) /\ LocalInv(p)'
  BY Split DEF BeginLookup, GoTo, LocalTypes, LocalInv, Labels
<1>. QED BY <1>1, <1>2, <1>3, Local

(* A lookup that goes on without a hit promises nothing. *)
LEMMA MissStep ==
    ASSUME NEW p \in Drivers, ObjectInv, NoHit(p), UNCHANGED <<dg, wanted, fd, out>>,
           RootInv', Grows
    PROVE  ObjectInv'
<1>1. ObjectTypeOK
  BY DEF ObjectInv, ObjectsRight
<1>2. LocalStep(p)
  BY <1>1, NoHitGoes, Split DEF LocalStep
<1>3. LocalTypes(p) /\ LocalInv(p)'
  BY <1>1, NoHitGoes, Own DEF LocalTypes, LocalInv, Labels
<1>. QED BY <1>2, <1>3, Local

LEMMA ReadStep ==
    ASSUME NEW p \in Drivers, ObjectInv, ReadManifest(p)
    PROVE  ObjectInv'
<1>1. RootInv' /\ Grows
  BY Split, Quiet DEF ReadManifest, RootInv
<1>. DEFINE d == ReadsAction(root[p], wanted[p])
<1>2. CASE Decodes(d)
  <2>1. /\ dg' = [dg EXCEPT ![p] = d] /\ driver' = [driver EXCEPT ![p] = "open"]
        /\ UNCHANGED <<root, wanted, fd, out, blob, hurt>> /\ d \in Digests
    BY <1>2 DEF ReadManifest, GoTo, Decodes
  <2>2. d \in Objects[wanted[p]] /\ (root[p] = "primary" => Kept(d))
    BY <2>1, Own, ObjectCacheAssumption DEF ReadsAction, RootInv, Sources, Kept
  <2>3. LocalStep(p)
    BY <2>1, Split DEF LocalStep
  <2>4. LocalTypes(p) /\ LocalInv(p)'
    BY <2>1, <2>2, Split DEF LocalTypes, LocalInv, Labels, Kept
  <2>. QED BY <1>1, <2>3, <2>4, Local
<1>3. CASE ~Decodes(d)
  BY <1>1, <1>3, MissStep DEF ReadManifest
<1>. QED BY <1>2, <1>3

LEMMA OpenStep ==
    ASSUME NEW p \in Drivers, ObjectInv, Open(p)
    PROVE  ObjectInv'
<1>1. RootInv' /\ Grows
  BY Split, Quiet DEF Open, RootInv
<1>. DEFINE c == ReadsBlob(root[p], dg[p])
<1>2. LocalInv(p) /\ driver[p] = "open" /\ dg[p] \in Digests
  BY Own DEF Open, LocalInv
<1>3. UNCHANGED <<wanted, dg, out, blob, hurt>>
  BY DEF Open
<1>4. CASE c \in {"good", "bad"}
  <2>1. fd' = [fd EXCEPT ![p] = c] /\ driver' = [driver EXCEPT ![p] = "copy"] /\ UNCHANGED root
    BY <1>4 DEF Open, GoTo
  <2>2. root[p] = "primary" /\ c = "bad" => dg[p] \in hurt
    BY <1>2, Split DEF ReadsBlob, RootInv, Sources
  <2>3. LocalStep(p)
    BY <1>3, <2>1, Split DEF LocalStep
  <2>4. LocalTypes(p) /\ LocalInv(p)'
    BY <1>2, <1>3, <1>4, <2>1, <2>2, Split DEF LocalTypes, LocalInv, Labels
  <2>. QED BY <1>1, <2>3, <2>4, Local
<1>5. CASE c \notin {"good", "bad"} /\ root[p] = "primary"
  <2>1. driver' = [driver EXCEPT ![p] = "unlink"] /\ UNCHANGED <<root, fd>>
    BY <1>5 DEF Open, GoTo
  <2>2. dg[p] \in hurt
    BY <1>2, <1>5 DEF LocalInv, Kept, ReadsBlob
  <2>3. LocalStep(p)
    BY <1>3, <2>1, Split DEF LocalStep
  <2>4. LocalTypes(p) /\ LocalInv(p)'
    BY <1>2, <1>3, <2>1, <2>2, Split DEF LocalTypes, LocalInv, Labels
  <2>. QED BY <1>1, <2>3, <2>4, Local
<1>6. CASE c \notin {"good", "bad"} /\ root[p] # "primary"
  BY <1>1, <1>3, <1>6, MissStep DEF Open
<1>. QED BY <1>4, <1>5, <1>6

LEMMA CopyStep ==
    ASSUME NEW p \in Drivers, ObjectInv, Copy(p)
    PROVE  ObjectInv'
<1>1. RootInv' /\ Grows
  BY Split, Quiet DEF Copy, RootInv
<1>2. LocalInv(p) /\ driver[p] = "copy" /\ fd[p] \in {"none", "good", "bad"}
  BY Own DEF Copy
<1>3. UNCHANGED <<wanted, dg, fd, out, blob, hurt>>
  BY DEF Copy
<1>4. CASE Verified(p) \/ root[p] = "primary"
  <2>1. driver' = [driver EXCEPT ![p] = IF Verified(p) THEN "install" ELSE "unlink"]
        /\ UNCHANGED root
    BY <1>4 DEF Copy, GoTo
  <2>2. LocalStep(p)
    BY <1>3, <2>1, Split DEF LocalStep
  <2>3. LocalTypes(p) /\ LocalInv(p)'
    BY <1>2, <1>3, <1>4, <2>1, Split DEF LocalTypes, LocalInv, Labels, Verified
  <2>. QED BY <1>1, <2>2, <2>3, Local
<1>5. CASE ~(Verified(p) \/ root[p] = "primary")
  BY <1>1, <1>3, <1>5, MissStep DEF Copy
<1>. QED BY <1>4, <1>5

LEMMA InstallStep ==
    ASSUME NEW p \in Drivers, ObjectInv, Install(p)
    PROVE  ObjectInv'
<1>1. RootInv' /\ Grows
  BY Split, Quiet DEF Install, RootInv
<1>2. LocalInv(p) /\ driver[p] = "install" /\ Objects[wanted[p]] \subseteq Digests
  BY Own DEF Install
<1>3. LocalStep(p)
  BY Split DEF Install, GoTo, LocalStep
<1>4. LocalTypes(p) /\ LocalInv(p)'
  BY <1>2, Split DEF Install, GoTo, LocalTypes, LocalInv, Labels, Entries
<1>. QED BY <1>1, <1>3, <1>4, Local

LEMMA UnlinkStep ==
    ASSUME NEW p \in Drivers, ObjectInv, Unlink(p)
    PROVE  ObjectInv'
<1>1. dg[p] \in Digests
  BY Own DEF Unlink, LocalInv
<1>2. RootInv' /\ Grows
  BY <1>1, Split DEF Unlink, AfterUnlink, RootInv, Sources, Grows, Contents
<1>. QED BY <1>2, MissStep DEF Unlink

LEMMA FailedLookupStep ==
    ASSUME NEW p \in Drivers, ObjectInv, CopyFails(p) \/ UnlinkFails(p)
    PROVE  ObjectInv'
<1>1. RootInv' /\ Grows
  BY FaultCounted, Quiet DEF CopyFails, UnlinkFails
<1>. QED BY <1>1, MissStep DEF CopyFails, UnlinkFails

LEMMA ProduceStep ==
    ASSUME NEW p \in Drivers, ObjectInv, Produce(p)
    PROVE  ObjectInv'
<1>1. RootInv' /\ Grows
  BY Split, Quiet DEF Produce, RootInv
<1>2. PICK d \in Objects[wanted[p]] : dg' = [dg EXCEPT ![p] = d] /\ out' = [out EXCEPT ![p] = d]
  BY DEF Produce
<1>3. wanted[p] \in ObjectKeys /\ d \in Digests
  BY Own
<1>4. LocalStep(p)
  BY <1>2, Split DEF Produce, GoTo, LocalStep
<1>5. LocalTypes(p) /\ LocalInv(p)'
  BY <1>2, <1>3, Split DEF Produce, GoTo, LocalTypes, LocalInv, Labels, Entries
<1>. QED BY <1>1, <1>4, <1>5, Local

(* A blob that is already there is good unless it was hurt. *)
LEMMA PublishBlobStep ==
    ASSUME NEW p \in Drivers, ObjectInv, PublishBlob(p)
    PROVE  ObjectInv'
<1>1. RootInv' /\ Grows
  BY Split, Quiet DEF PublishBlob, RootInv
<1>2. LocalInv(p) /\ driver[p] = "publish" /\ dg[p] \in Digests
  BY Own DEF PublishBlob, LocalInv
<1>3. BlobThere(p) => Kept(dg[p])
  BY <1>2, Split DEF BlobThere, Kept, RootInv, Sources, Contents
<1>4. LocalStep(p)
  BY Split DEF PublishBlob, GoTo, LocalStep
<1>5. LocalTypes(p) /\ LocalInv(p)'
  BY <1>2, <1>3, Split DEF PublishBlob, GoTo, LocalTypes, LocalInv, Labels, Kept
<1>. QED BY <1>1, <1>4, <1>5, Local

(* The rename leaves good bytes, or a directory, which was hurt. *)
LEMMA StoreStep ==
    ASSUME NEW p \in Drivers, ObjectInv, Store(p)
    PROVE  ObjectInv'
<1>1. LocalInv(p) /\ driver[p] = "store" /\ dg[p] \in Digests
  BY Own DEF Store, LocalInv
<1>2. RootInv' /\ Grows
  BY <1>1, Split DEF Store, Stored, RootInv, Sources, Grows, Contents
<1>3. Kept(dg[p])'
  BY <1>1, Split DEF Store, Stored, Kept, RootInv, Sources
<1>4. LocalStep(p)
  BY Split DEF Store, GoTo, LocalStep
<1>5. LocalTypes(p) /\ LocalInv(p)'
  BY <1>1, <1>3, Split DEF Store, GoTo, LocalTypes, LocalInv, Labels
<1>. QED BY <1>2, <1>4, <1>5, Local

(* The manifest is published only while its blob is kept. *)
LEMMA RecordStep ==
    ASSUME NEW p \in Drivers, ObjectInv, Record(p)
    PROVE  ObjectInv'
<1>1. /\ LocalInv(p) /\ driver[p] = "record" /\ wanted[p] \in ObjectKeys
      /\ dg[p] \in Digests /\ dg[p] \in Objects[wanted[p]]
  BY Own DEF Record, LocalInv
<1>2. RootInv' /\ Grows
  BY <1>1, Split DEF Record, RootInv, LocalInv, Sources, Kept, Grows, Entries
<1>3. LocalStep(p)
  BY Split DEF Record, GoTo, LocalStep
<1>4. LocalTypes(p) /\ LocalInv(p)'
  BY <1>1, Split DEF Record, GoTo, LocalTypes, LocalInv, Labels
<1>. QED BY <1>2, <1>3, <1>4, Local

LEMMA PublishFailsStep ==
    ASSUME NEW p \in Drivers, ObjectInv, PublishFails(p)
    PROVE  ObjectInv'
<1>1. RootInv' /\ Grows
  BY FaultCounted, Quiet DEF PublishFails
<1>2. LocalInv(p) /\ driver[p] \in {"publish", "store", "record"}
  BY Own DEF PublishFails
<1>3. LocalStep(p)
  BY Split DEF PublishFails, AfterFailure, GoTo, LocalStep
<1>4. LocalTypes(p) /\ LocalInv(p)'
  BY <1>2, Split DEF PublishFails, AfterFailure, GoTo, LocalTypes, LocalInv, Labels
<1>. QED BY <1>1, <1>3, <1>4, Local

LEMMA ForgetStep ==
    ASSUME NEW p \in Drivers, ObjectInv, Link(p) \/ Dies(p)
    PROVE  ObjectInv'
<1>1. Forgotten(p) /\ UNCHANGED <<blob, entry, clearing, wanted, hurt, solo>>
  BY DEF Link, Dies
<1>2. faults' \in 0..MaxFaults
  BY FaultCounted, Split DEF Link, Dies, RootInv
<1>3. RootInv' /\ Grows
  BY <1>1, <1>2, Quiet
<1>4. LocalStep(p)
  BY <1>1, Split DEF Forgotten, GoTo, LocalStep
<1>5. LocalTypes(p) /\ LocalInv(p)'
  BY <1>1, Split DEF Forgotten, GoTo, LocalTypes, LocalInv, Labels, Entries
<1>. QED BY <1>3, <1>4, <1>5, Local

(* Steps of nobody in particular: the files change, the drivers do not. *)
LEMMA FilesStep ==
    ASSUME ObjectInv, UNCHANGED driverVars, Grows, RootInv'
    PROVE  ObjectInv'
<1>1. ASSUME NEW q \in Drivers PROVE LocalInv(q)'
  <2>1. LocalInv(q) /\ Objects[wanted[q]] \subseteq Digests
    BY Own
  <2>. QED BY <2>1 DEF LocalInv, Kept, Grows, driverVars
<1>. QED BY <1>1, Split DEF ObjectInv, ObjectsRight, ObjectTypeOK, LinksItsObject,
   ManifestNamesBlob, Vouched, RootInv, LocalInv, driverVars

LEMMA ClearStep ==
    ASSUME ObjectInv, ClearCache
    PROVE  ObjectInv'
<1>1. RootInv
  BY Split
<1>2. CASE ClearBegin
  BY <1>1, <1>2, FaultCounted, FilesStep DEF ClearBegin, RootInv, Sources, Grows
<1>3. CASE ClearNext \/ ClearFails
  BY <1>1, <1>3, FilesStep DEF ClearNext, ClearFails, RootInv, Sources, Grows
<1>4. ASSUME NEW d \in Digests, ClearBlob(d) PROVE ObjectInv'
  BY <1>1, <1>4, FilesStep DEF ClearBlob, RootInv, Sources, Grows, Contents
<1>5. ASSUME NEW k \in ObjectKeys, ClearAction(k) PROVE ObjectInv'
  BY <1>1, <1>5, FilesStep, ObjectCacheAssumption DEF ClearAction, RootInv, Sources, Grows, Entries
<1>. QED BY <1>2, <1>3, <1>4, <1>5 DEF ClearCache

LEMMA DamageStep ==
    ASSUME ObjectInv, DamageRoot
    PROVE  ObjectInv'
<1>1. RootInv
  BY Split
<1>2. ASSUME NEW d \in Digests, NEW c \in {"bad", "dir"}, DamageBlob(d, c) PROVE ObjectInv'
  BY <1>1, <1>2, FaultCounted, FilesStep DEF DamageBlob, RootInv, Sources, Grows, Contents
<1>3. ASSUME NEW k \in ObjectKeys, DamageAction(k) PROVE ObjectInv'
  BY <1>1, <1>3, FaultCounted, FilesStep, ObjectCacheAssumption
     DEF DamageAction, RootInv, Sources, Grows, Entries
<1>. QED BY <1>2, <1>3 DEF DamageRoot

LEMMA CalmStep ==
    ASSUME NEW p \in Drivers, ObjectInv, Calm(p)
    PROVE  ObjectInv'
BY Split, FilesStep DEF Calm, RootInv, Sources, Grows

(* Every step of any driver, of a clear and of the damage preserves it. *)
LEMMA ObjectStep ==
    ASSUME ObjectInv, [ObjectNext]_objectVars
    PROVE  ObjectInv'
<1>1. ASSUME NEW p \in Drivers, TryHit(p) PROVE ObjectInv'
  BY <1>1, BeginStep, ReadStep, OpenStep, CopyStep, InstallStep, UnlinkStep DEF TryHit
<1>2. ASSUME NEW p \in Drivers, PublishObject(p) \/ Link(p) PROVE ObjectInv'
  BY <1>2, ProduceStep, PublishBlobStep, StoreStep, RecordStep, ForgetStep DEF PublishObject
<1>3. ASSUME NEW p \in Drivers, Fails(p) PROVE ObjectInv'
  BY <1>3, FailedLookupStep, PublishFailsStep, ForgetStep DEF Fails
<1>4. CASE UNCHANGED objectVars
  <2>1. UNCHANGED driverVars /\ UNCHANGED <<blob, entry, clearing, hurt, solo, faults>>
    BY <1>4 DEF objectVars
  <2>. QED BY <2>1, Split, Quiet, FilesStep DEF RootInv
<1>. QED BY <1>1, <1>2, <1>3, <1>4, CalmStep, ClearStep, DamageStep DEF ObjectNext, Run

(* The inductive invariant of the object cache: where the digest of every  *)
(* manifest comes from, and what a driver between two steps may rely on.   *)
THEOREM ObjectInvariant == ObjectSpec => []ObjectInv
<1>1. ObjectInit => ObjectInv
  BY ObjectInitInv
<1>2. ObjectInv /\ [ObjectNext]_objectVars => ObjectInv'
  BY ObjectStep
<1>. QED BY <1>1, <1>2, PTL DEF ObjectSpec

(* Whatever is damaged, cleared, cut short or republished at any moment, a *)
(* build links an object of its own key, a manifest names a blob that is   *)
(* there unless that blob was hurt, and no lookup removes as corrupt what  *)
(* nobody touched (CacheContext::lookup, publish, clear_cache).            *)
THEOREM ObjectsAreRight == ObjectSpec => []ObjectsRight
<1>1. ObjectInv => ObjectsRight
  BY DEF ObjectInv
<1>. QED BY <1>1, ObjectInvariant, PTL


-----------------------------------------------------------------------------
(***************************************************************************)
(* The in-process memo.  Emission ties a thread inside emit_object_file to *)
(* the file it writes, to the bytes it holds and to the flag of its path;  *)
(* with it the counting of guards and the ownership of bytes are           *)
(* inductive.                                                              *)
(***************************************************************************)
EmitLabels ==
    {"idle", "lookup", "claim", "open", "write", "check", "read", "store", "drop", "fail",
     "reopen", "rewrite", "ok", "err"}

(* A path counts threads with a guard, the keyed ones from Claim to Drop. *)
HasGuard(t) == emit[t].keyed /\ emit[t].at \in {"open", "write", "check", "read", "store", "drop", "fail"}

MemoStored ==
    /\ assign \in Assignments /\ enabled \in BOOLEAN /\ cap \in Budgets
    /\ DOMAIN objects \subseteq EmitKeys /\ \A k \in DOMAIN objects : objects[k] \in Content
    /\ others \subseteq Others /\ retained \in Nat /\ met \subseteq Threads
    /\ emitting \in [Paths -> [count : 0..Cardinality(Threads), contended : BOOLEAN]]
    /\ file \in [Paths -> Content]
    /\ emit \in [Threads -> [at : EmitLabels, key : Content, path : Paths \cup {Torn},
                             bytes : Content, keyed : BOOLEAN]]

(* The call of t: one that met another on its path before its check finds  *)
(* the path contended as long as it has its guard, and is never past a     *)
(* successful check; alone on its path it holds, and has left in the file, *)
(* the bytes of its own key.                                               *)
Emission(t) ==
    /\ ~At(t, "idle") => emit[t].key \in EmitKeys /\ emit[t].path \in assign[t] /\ emit[t].path \in Paths
    /\ emit[t].at \in {"lookup", "claim", "reopen", "rewrite", "check", "read", "store", "drop", "fail"}
         => emit[t].keyed
    /\ emit[t].at \in {"idle", "lookup", "claim"} => ~HasGuard(t)
    /\ emit[t].at \in {"lookup", "claim"} => t \notin met
    /\ t \in met /\ HasGuard(t) => emitting[emit[t].path].contended
    /\ t \in met => emit[t].at \notin {"read", "store"}
    /\ Private /\ emit[t].at \in {"reopen", "rewrite", "store"} => emit[t].bytes = emit[t].key
    /\ Private /\ emit[t].at \in {"check", "read", "store", "drop", "ok"}
         => file[emit[t].path] = emit[t].key

MemoInv ==
    /\ MemoStored /\ GuardsCounted
    /\ Private => RetainedIsOwn
    /\ \A t \in Threads : Emission(t)

LEMMA MemoInitInv == MemoInit => MemoInv
<1>. SUFFICES ASSUME MemoInit PROVE MemoInv
  OBVIOUS
<1>1. /\ IsFiniteSet({}) /\ Cardinality({}) = 0
      /\ Cardinality(Threads) \in Nat
  BY FS_EmptySet, MemoAssumption, FS_CardinalityType
<1>2. emit \in [Threads -> [at : EmitLabels, key : Content, path : Paths \cup {Torn},
                            bytes : Content, keyed : BOOLEAN]]
  BY DEF MemoInit, NoEmit, EmitLabels, Content
<1>3. \A t \in Threads : emit[t] = NoEmit
  BY DEF MemoInit
<1>4. MemoStored
  BY <1>1, <1>2 DEF MemoInit, MemoStored, Content
<1>5. \A p \in Paths : Holders(p) = {}
  BY <1>3 DEF Holders, NoEmit
<1>6. GuardsCounted
  BY <1>1, <1>5 DEF GuardsCounted, MemoInit
<1>7. RetainedIsOwn
  BY DEF MemoInit, RetainedIsOwn
<1>8. ASSUME NEW t \in Threads PROVE Emission(t)
  BY <1>3 DEF Emission, At, NoEmit, HasGuard, MemoInit
<1>. QED BY <1>4, <1>6, <1>7, <1>8 DEF MemoInv

(* The threads with a guard of a path are finitely many. *)
LEMMA HoldersFinite ==
    ASSUME NEW p
    PROVE  /\ IsFiniteSet(Threads) /\ IsFiniteSet(Holders(p))
           /\ Cardinality(Holders(p)) \in Nat /\ Cardinality(Threads) \in Nat
           /\ Cardinality(Holders(p)) <= Cardinality(Threads)
<1>1. Holders(p) \subseteq Threads
  BY DEF Holders
<1>. QED BY <1>1, MemoAssumption, FS_Subset, FS_CardinalityType

(* A path's count is positive exactly when a thread has its guard, and     *)
(* above one when two have.                                                *)
LEMMA CountOf ==
    ASSUME MemoInv, NEW p \in Paths
    PROVE  /\ emitting[p].count = Cardinality(Holders(p))
           /\ emitting[p].count > 0 <=> Holders(p) # {}
           /\ \A t, u \in Holders(p) : t # u => emitting[p].count > 1
<1>1. emitting[p].count = Cardinality(Holders(p))
  BY DEF MemoInv, GuardsCounted
<1>2. IsFiniteSet(Holders(p)) /\ Cardinality(Holders(p)) \in Nat
  BY HoldersFinite
<1>3. Cardinality(Holders(p)) = 0 <=> Holders(p) = {}
  BY <1>2, FS_EmptySet
<1>4. ASSUME NEW t \in Holders(p), NEW u \in Holders(p), t # u
      PROVE  Cardinality(Holders(p)) > 1
  <2>1. /\ IsFiniteSet(Holders(p) \ {t})
        /\ Cardinality(Holders(p) \ {t}) = Cardinality(Holders(p)) - 1
    BY <1>2, FS_RemoveElement
  <2>2. Cardinality(Holders(p) \ {t}) # 0 /\ Cardinality(Holders(p) \ {t}) \in Nat
    BY <1>4, <2>1, FS_EmptySet, FS_CardinalityType
  <2>. QED BY <1>2, <2>1, <2>2
<1>. QED BY <1>1, <1>2, <1>3, <1>4

(***************************************************************************)
(* A step of t leaves the calls of the other threads alone.                *)
(***************************************************************************)
EmitStep(t) ==
    /\ assign' = assign
    /\ emit' \in [Threads -> [at : EmitLabels, key : Content, path : Paths \cup {Torn},
                              bytes : Content, keyed : BOOLEAN]]
    /\ \A u \in Threads \ {t} : emit'[u] = emit[u]

(* With a path per thread, two calls are on different ones. *)
LEMMA OtherFiles ==
    ASSUME MemoInv, NEW t \in Threads, NEW u \in Threads \ {t},
           Private, ~At(u, "idle"), ~At(t, "idle")
    PROVE  emit[u].path # emit[t].path
BY DEF MemoInv, Emission, Private, At

(* Steps that touch neither the guards nor who has met whom, except that a *)
(* thread beginning a call forgets whom it met.                            *)
LEMMA OthersEmission ==
    ASSUME MemoInv, NEW t \in Threads, EmitStep(t),
           \A p \in Paths : (~At(t, "idle") /\ p = emit[t].path) \/ file'[p] = file[p],
           met' \subseteq met, emitting' = emitting,
           NEW u \in Threads \ {t}
    PROVE  Emission(u)'
<1>1. Emission(u) /\ emit'[u] = emit[u]
  BY DEF MemoInv, EmitStep
<1>2. HasGuard(u)' = HasGuard(u)
  BY <1>1 DEF HasGuard
<1>3. Private' = Private
  BY DEF EmitStep, Private
<1>4. ~At(u, "idle") /\ Private => file'[emit[u].path] = file[emit[u].path]
  BY <1>1, OtherFiles DEF Emission
<1>. QED BY <1>1, <1>2, <1>3, <1>4 DEF Emission, At, EmitStep

(* A step that neither takes nor gives back a guard. *)
LEMMA GuardsKept ==
    ASSUME MemoInv, NEW t \in Threads, EmitStep(t), emitting' = emitting,
           HasGuard(t)' <=> HasGuard(t), HasGuard(t) => emit'[t].path = emit[t].path
    PROVE  GuardsCounted'
<1>1. ASSUME NEW p \in Paths PROVE Holders(p)' = Holders(p)
  <2>1. ASSUME NEW u \in Threads PROVE u \in Holders(p)' <=> u \in Holders(p)
    <3>1. CASE u = t
      BY <3>1 DEF Holders, HasGuard
    <3>2. CASE u # t
      <4>1. emit'[u] = emit[u]
        BY <3>2 DEF EmitStep
      <4>. QED BY <4>1 DEF Holders
    <3>. QED BY <3>1, <3>2
  <2>. QED BY <2>1 DEF Holders
<1>. QED BY <1>1 DEF MemoInv, GuardsCounted

(* A step of t is right when its own call, the store and the guards are. *)
LEMMA Combine ==
    ASSUME MemoInv, NEW t \in Threads, EmitStep(t), MemoStored', GuardsCounted',
           Private => RetainedIsOwn', Emission(t)',
           \A u \in Threads \ {t} : Emission(u)'
    PROVE  MemoInv'
<1>1. Private' = Private
  BY DEF EmitStep, Private
<1>. QED BY <1>1 DEF MemoInv

(* What most steps are: only the call of t, its file, and the content      *)
(* retained change, and t has a guard after the step iff it had one.       *)
LEMMA Plain ==
    ASSUME MemoInv, NEW t \in Threads, EmitStep(t), MemoStored', emitting' = emitting,
           \A p \in Paths : (~At(t, "idle") /\ p = emit[t].path) \/ file'[p] = file[p],
           met' \subseteq met,
           HasGuard(t)' <=> HasGuard(t), HasGuard(t) => emit'[t].path = emit[t].path,
           Private => RetainedIsOwn', Emission(t)'
    PROVE  MemoInv'
<1>1. GuardsCounted'
  BY GuardsKept
<1>2. \A u \in Threads \ {t} : Emission(u)'
  BY OthersEmission
<1>. QED BY <1>1, <1>2, Combine

(* A step that changes the call of t and nothing else of the store. *)
LEMMA OnlyCall ==
    ASSUME MemoInv, NEW t \in Threads,
           emit' \in [Threads -> [at : EmitLabels, key : Content, path : Paths \cup {Torn},
                                  bytes : Content, keyed : BOOLEAN]],
           \A u \in Threads \ {t} : emit'[u] = emit[u],
           UNCHANGED <<assign, settings, store, met>>, file' \in [Paths -> Content],
           \A p \in Paths : (~At(t, "idle") /\ p = emit[t].path) \/ file'[p] = file[p],
           HasGuard(t)' <=> HasGuard(t), HasGuard(t) => emit'[t].path = emit[t].path,
           Emission(t)'
    PROVE  MemoInv'
<1>1. EmitStep(t) /\ met' \subseteq met /\ emitting' = emitting
  BY DEF EmitStep, store
<1>2. MemoStored'
  BY DEF MemoInv, MemoStored, settings, store
<1>3. Private => RetainedIsOwn'
  BY DEF MemoInv, RetainedIsOwn, store
<1>. QED BY <1>1, <1>2, <1>3, Plain

(***************************************************************************)
(* The steps of emit_object_file.                                          *)
(***************************************************************************)
LEMMA EmitTypes ==
    ASSUME MemoInv, NEW t \in Threads
    PROVE  /\ emit[t].at \in EmitLabels /\ emit[t].key \in Content /\ emit[t].bytes \in Content
           /\ emit[t].path \in Paths \cup {Torn} /\ emit[t].keyed \in BOOLEAN
           /\ emit \in [Threads -> [at : EmitLabels, key : Content, path : Paths \cup {Torn},
                                    bytes : Content, keyed : BOOLEAN]]
           /\ assign[t] \subseteq Paths
           /\ EmitKeys \subseteq Content /\ Torn \in Content
BY MemoAssumption DEF MemoInv, MemoStored, Content

(* Only the label of t changes. *)
LEMMA OnlyLabel ==
    ASSUME MemoInv, NEW t \in Threads, NEW s \in EmitLabels, EmitGoes(t, s)
    PROVE  /\ emit' \in [Threads -> [at : EmitLabels, key : Content, path : Paths \cup {Torn},
                                     bytes : Content, keyed : BOOLEAN]]
           /\ \A u \in Threads \ {t} : emit'[u] = emit[u]
           /\ emit'[t].at = s /\ emit'[t].key = emit[t].key /\ emit'[t].path = emit[t].path
           /\ emit'[t].bytes = emit[t].bytes /\ emit'[t].keyed = emit[t].keyed
BY EmitTypes DEF EmitGoes

LEMMA EmitObjectStep ==
    ASSUME MemoInv, NEW t \in Threads, EmitObject(t)
    PROVE  MemoInv'
<1>1. PICK k \in EmitKeys, p \in assign[t] :
        emit' = [emit EXCEPT ![t] = [at |-> IF enabled THEN "lookup" ELSE "open", key |-> k, path |-> p,
                                     bytes |-> Torn, keyed |-> enabled]]
  BY DEF EmitObject
<1>2. /\ emit'[t].at = (IF enabled THEN "lookup" ELSE "open") /\ emit'[t].key = k /\ emit'[t].path = p
      /\ emit'[t].bytes = Torn /\ emit'[t].keyed = enabled
      /\ \A u \in Threads \ {t} : emit'[u] = emit[u]
  BY <1>1, EmitTypes
<1>3. enabled \in BOOLEAN /\ p \in Paths
  BY EmitTypes DEF MemoInv, MemoStored
<1>4. emit' \in [Threads -> [at : EmitLabels, key : Content, path : Paths \cup {Torn},
                             bytes : Content, keyed : BOOLEAN]]
  BY <1>1, <1>3, EmitTypes DEF EmitLabels
<1>5. /\ EmitStep(t) /\ met' \subseteq met /\ t \notin met' /\ emitting' = emitting /\ file' = file
      /\ MemoStored'
  BY <1>2, <1>4 DEF EmitObject, EmitStep, MemoInv, MemoStored, store, settings
<1>6. ~HasGuard(t) /\ ~HasGuard(t)'
  BY <1>2, <1>3 DEF EmitObject, HasGuard, MemoInv, Emission, At
<1>7. Emission(t)'
  BY <1>2, <1>3, <1>5, <1>6 DEF Emission, At, HasGuard, EmitStep
<1>8. Private => RetainedIsOwn'
  BY DEF EmitObject, MemoInv, RetainedIsOwn, store
<1>. QED BY <1>5, <1>6, <1>7, <1>8, Plain

LEMMA LookupStep ==
    ASSUME MemoInv, NEW t \in Threads, ObjectLookup(t)
    PROVE  MemoInv'
<1>1. Emission(t) /\ At(t, "lookup") /\ UNCHANGED <<assign, settings, store, met, file>>
  BY DEF ObjectLookup, MemoInv
<1>2. ~HasGuard(t) /\ emit[t].key \in EmitKeys /\ t \notin met /\ emit[t].keyed
  BY <1>1 DEF Emission, At
<1>3. Private' = Private /\ file' \in [Paths -> Content]
  BY <1>1 DEF Private, MemoInv, MemoStored
<1>4. CASE enabled /\ emit[t].key \in DOMAIN objects
  <2>1. emit' = [emit EXCEPT ![t].at = "reopen", ![t].bytes = objects[emit[t].key]]
    BY <1>4 DEF ObjectLookup
  <2>2. objects[emit[t].key] \in Content /\ (Private => objects[emit[t].key] = emit[t].key)
    BY <1>4 DEF MemoInv, MemoStored, RetainedIsOwn
  <2>3. /\ emit'[t].at = "reopen" /\ emit'[t].key = emit[t].key /\ emit'[t].path = emit[t].path
        /\ emit'[t].bytes = objects[emit[t].key] /\ emit'[t].keyed = emit[t].keyed
        /\ \A u \in Threads \ {t} : emit'[u] = emit[u]
        /\ emit' \in [Threads -> [at : EmitLabels, key : Content, path : Paths \cup {Torn},
                                  bytes : Content, keyed : BOOLEAN]]
    BY <2>1, <2>2, EmitTypes DEF EmitLabels
  <2>4. ~HasGuard(t)'
    BY <2>3 DEF HasGuard
  <2>5. Emission(t)'
    BY <1>1, <1>2, <1>3, <2>2, <2>3, <2>4 DEF Emission, At
  <2>. QED BY <1>1, <1>2, <1>3, <2>3, <2>4, <2>5, OnlyCall
<1>5. CASE ~(enabled /\ emit[t].key \in DOMAIN objects)
  <2>1. EmitGoes(t, "claim")
    BY <1>5 DEF ObjectLookup
  <2>2. /\ emit'[t].at = "claim" /\ emit'[t].key = emit[t].key /\ emit'[t].path = emit[t].path
        /\ emit'[t].bytes = emit[t].bytes /\ emit'[t].keyed = emit[t].keyed
        /\ \A u \in Threads \ {t} : emit'[u] = emit[u]
        /\ emit' \in [Threads -> [at : EmitLabels, key : Content, path : Paths \cup {Torn},
                                  bytes : Content, keyed : BOOLEAN]]
    BY <2>1, OnlyLabel DEF EmitLabels
  <2>3. ~HasGuard(t)'
    BY <2>2 DEF HasGuard
  <2>4. Emission(t)'
    BY <1>1, <1>2, <1>3, <2>2, <2>3 DEF Emission, At
  <2>. QED BY <1>1, <1>2, <1>3, <2>2, <2>3, <2>4, OnlyCall
<1>. QED BY <1>4, <1>5

(* begin_emit: t joins the holders of its path, which is contended from    *)
(* now on when there were any.                                             *)
LEMMA ClaimStep ==
    ASSUME MemoInv, NEW t \in Threads, Claim(t)
    PROVE  MemoInv'
<1>. PICK p : p = emit[t].path
  OBVIOUS
<1>1. /\ Emission(t) /\ At(t, "claim") /\ UNCHANGED <<assign, settings, objects, others, retained, file>>
      /\ emitting' = [emitting EXCEPT ![p] = [count |-> @.count + 1, contended |-> @.contended \/ @.count > 0]]
      /\ met' = met \cup Unchecked(p) \cup (IF Holders(p) = {} THEN {} ELSE {t})
      /\ EmitGoes(t, "open")
  BY DEF Claim, MemoInv
<1>2. /\ ~HasGuard(t) /\ emit[t].key \in EmitKeys /\ t \notin met /\ emit[t].keyed /\ p \in Paths
      /\ p \in assign[t]
  BY <1>1 DEF Emission, At
<1>3. /\ emit'[t].at = "open" /\ emit'[t].key = emit[t].key /\ emit'[t].path = p
      /\ emit'[t].bytes = emit[t].bytes /\ emit'[t].keyed = emit[t].keyed
      /\ \A u \in Threads \ {t} : emit'[u] = emit[u]
      /\ EmitStep(t)
  BY <1>1, OnlyLabel DEF EmitLabels, EmitStep
<1>4. /\ Holders(p)' = Holders(p) \cup {t} /\ t \notin Holders(p)
      /\ \A q \in Paths \ {p} : Holders(q)' = Holders(q)
  BY <1>2, <1>3 DEF Holders, HasGuard
<1>5. /\ emitting \in [Paths -> [count : 0..Cardinality(Threads), contended : BOOLEAN]]
      /\ emitting[p].count = Cardinality(Holders(p))
      /\ emitting[p].count > 0 <=> Holders(p) # {}
  BY <1>2, CountOf DEF MemoInv, MemoStored
<1>6. /\ emitting'[p].count = emitting[p].count + 1
      /\ emitting'[p].contended = (emitting[p].contended \/ Holders(p) # {})
      /\ \A q \in Paths \ {p} : emitting'[q] = emitting[q]
  BY <1>1, <1>2, <1>5
<1>7. /\ Cardinality(Holders(p) \cup {t}) = Cardinality(Holders(p)) + 1
      /\ Cardinality(Holders(p) \cup {t}) <= Cardinality(Threads)
      /\ Cardinality(Holders(p)) \in Nat /\ Cardinality(Threads) \in Nat
  <2>1. /\ IsFiniteSet(Holders(p)) /\ Cardinality(Holders(p)) \in Nat /\ Cardinality(Threads) \in Nat
        /\ IsFiniteSet(Threads) /\ Holders(p) \cup {t} \subseteq Threads
    BY HoldersFinite DEF Holders
  <2>. QED BY <2>1, <1>4, FS_AddElement, FS_Subset
<1>8. GuardsCounted'
  <2>1. ASSUME NEW q \in Paths PROVE emitting'[q].count = Cardinality(Holders(q)')
    BY <1>4, <1>5, <1>6, <1>7 DEF GuardsCounted, MemoInv
  <2>. QED BY <2>1 DEF GuardsCounted
<1>9. MemoStored'
  <2>1. [count |-> emitting[p].count + 1, contended |-> emitting[p].contended \/ emitting[p].count > 0]
          \in [count : 0..Cardinality(Threads), contended : BOOLEAN]
    BY <1>2, <1>5, <1>7
  <2>2. emitting' \in [Paths -> [count : 0..Cardinality(Threads), contended : BOOLEAN]]
    BY <1>1, <1>5, <2>1
  <2>3. met' \subseteq Threads
    BY <1>1 DEF Unchecked, Holders, MemoInv, MemoStored
  <2>. QED BY <1>1, <1>3, <2>2, <2>3 DEF MemoStored, EmitStep, MemoInv, settings
<1>10. Private' = Private /\ (Private => RetainedIsOwn')
  BY <1>1 DEF Private, MemoInv, RetainedIsOwn
<1>11. Emission(t)'
  <2>1. t \in met' => emitting'[p].contended
    BY <1>1, <1>2, <1>4, <1>6 DEF Unchecked
  <2>. QED BY <1>1, <1>2, <1>3, <2>1 DEF Emission, At, HasGuard
<1>12. ASSUME NEW u \in Threads \ {t} PROVE Emission(u)'
  <2>1. Emission(u) /\ emit'[u] = emit[u] /\ HasGuard(u)' = HasGuard(u)
    BY <1>3 DEF MemoInv, HasGuard
  <2>2. emit[u].at \in {"lookup", "claim", "read", "store"} => u \notin met'
    BY <1>1, <2>1 DEF Emission, Unchecked
  <2>3. u \in met' /\ HasGuard(u) => emitting'[emit[u].path].contended
    <3>. SUFFICES ASSUME u \in met', HasGuard(u) PROVE emitting'[emit[u].path].contended
      OBVIOUS
    <3>1. emit[u].path \in Paths
      BY <2>1 DEF Emission, At, HasGuard
    <3>2. CASE emit[u].path = p
      BY <1>6, <3>2 DEF Holders, HasGuard
    <3>3. CASE emit[u].path # p
      <4>1. u \in met
        BY <1>1, <3>3 DEF Unchecked, Holders
      <4>. QED BY <1>6, <2>1, <3>1, <3>3, <4>1 DEF Emission
    <3>. QED BY <3>2, <3>3
  <2>. QED BY <1>1, <1>10, <2>1, <2>2, <2>3 DEF Emission, At
<1>. QED BY <1>3, <1>8, <1>9, <1>10, <1>11, <1>12, Combine

LEMMA OpenFileStep ==
    ASSUME MemoInv, NEW t \in Threads, OpenFile(t)
    PROVE  MemoInv'
<1>1. /\ Emission(t) /\ emit[t].at \in {"open", "reopen"} /\ UNCHANGED <<assign, settings, store, met>>
      /\ file' = [file EXCEPT ![emit[t].path] = Torn]
      /\ EmitGoes(t, IF At(t, "open") THEN "write" ELSE "rewrite")
  BY DEF OpenFile, MemoInv
<1>2. /\ ~At(t, "idle") /\ emit[t].path \in Paths /\ file \in [Paths -> Content] /\ Torn \in Content
      /\ emitting' = emitting /\ Private' = Private
  BY <1>1, EmitTypes DEF Emission, At, MemoInv, MemoStored, Private, store
<1>3. /\ emit'[t].at = (IF At(t, "open") THEN "write" ELSE "rewrite")
      /\ emit'[t].key = emit[t].key /\ emit'[t].path = emit[t].path
      /\ emit'[t].bytes = emit[t].bytes /\ emit'[t].keyed = emit[t].keyed
      /\ \A u \in Threads \ {t} : emit'[u] = emit[u]
      /\ emit' \in [Threads -> [at : EmitLabels, key : Content, path : Paths \cup {Torn},
                                bytes : Content, keyed : BOOLEAN]]
  BY <1>1, OnlyLabel DEF EmitLabels
<1>4. file' \in [Paths -> Content] /\ \A p \in Paths : p = emit[t].path \/ file'[p] = file[p]
  BY <1>1, <1>2
<1>5. HasGuard(t)' <=> HasGuard(t)
  BY <1>1, <1>3 DEF HasGuard, At
<1>6. Emission(t)'
  BY <1>1, <1>2, <1>3, <1>5 DEF Emission, At
<1>. QED BY <1>1, <1>2, <1>3, <1>4, <1>5, <1>6, OnlyCall

(* The bytes are the writer's own when nobody shares its path. *)
LEMMA WriteFileStep ==
    ASSUME MemoInv, NEW t \in Threads, WriteFile(t)
    PROVE  MemoInv'
<1>. DEFINE mine == IF At(t, "write") THEN emit[t].key ELSE emit[t].bytes
            next == IF At(t, "rewrite") THEN "ok" ELSE IF emit[t].keyed THEN "check" ELSE "ok"
<1>1. PICK c \in {mine} \cup (IF Writing(emit[t].path) = {t} THEN {} ELSE {Torn}) :
        file' = [file EXCEPT ![emit[t].path] = c]
  BY DEF WriteFile
<1>2. /\ Emission(t) /\ emit[t].at \in {"write", "rewrite"} /\ UNCHANGED <<assign, settings, store, met>>
      /\ EmitGoes(t, next)
  BY DEF WriteFile, MemoInv
<1>3. /\ ~At(t, "idle") /\ emit[t].path \in Paths /\ file \in [Paths -> Content]
      /\ emitting' = emitting /\ Private' = Private /\ emit[t].key \in EmitKeys
  BY <1>2, EmitTypes DEF Emission, At, MemoInv, MemoStored, Private, store
<1>4. /\ emit'[t].at = next
      /\ emit'[t].key = emit[t].key /\ emit'[t].path = emit[t].path
      /\ emit'[t].bytes = emit[t].bytes /\ emit'[t].keyed = emit[t].keyed
      /\ \A u \in Threads \ {t} : emit'[u] = emit[u]
      /\ emit' \in [Threads -> [at : EmitLabels, key : Content, path : Paths \cup {Torn},
                                bytes : Content, keyed : BOOLEAN]]
  BY <1>2, OnlyLabel DEF EmitLabels
<1>5. c \in Content
  BY EmitTypes
<1>6. /\ file' \in [Paths -> Content] /\ file'[emit[t].path] = c
      /\ \A p \in Paths : p = emit[t].path \/ file'[p] = file[p]
  BY <1>1, <1>3, <1>5
<1>7. Private => c = emit[t].key
  <2>. SUFFICES ASSUME Private PROVE c = emit[t].key
    OBVIOUS
  <2>1. ASSUME NEW u \in Threads, u # t, u \in Writing(emit[t].path) PROVE FALSE
    BY <1>3, <2>1, OtherFiles DEF Writing, At
  <2>2. Writing(emit[t].path) = {t}
    BY <1>2, <2>1 DEF Writing
  <2>. QED BY <1>1, <1>2, <2>2 DEF Emission, At
<1>8. HasGuard(t)' <=> HasGuard(t)
  BY <1>2, <1>4 DEF HasGuard, At, Emission
<1>9. Emission(t)'
  BY <1>2, <1>3, <1>4, <1>6, <1>7, <1>8 DEF Emission, At
<1>. QED BY <1>2, <1>3, <1>4, <1>6, <1>8, <1>9, OnlyCall

(* Steps that move a call on, its guard and its file kept. *)
LEMMA WriteFailsStep ==
    ASSUME MemoInv, NEW t \in Threads, WriteFails(t)
    PROVE  MemoInv'
<1>1. /\ Emission(t) /\ emit[t].at \in {"write", "rewrite"} /\ UNCHANGED <<assign, settings, store, met, file>>
      /\ EmitGoes(t, Bail(t))
  BY DEF WriteFails, MemoInv
<1>2. /\ file \in [Paths -> Content] /\ emitting' = emitting /\ Private' = Private
  BY <1>1 DEF MemoInv, MemoStored, Private, store
<1>3. /\ emit'[t].at = Bail(t) /\ emit'[t].key = emit[t].key /\ emit'[t].path = emit[t].path
      /\ emit'[t].bytes = emit[t].bytes /\ emit'[t].keyed = emit[t].keyed
      /\ \A u \in Threads \ {t} : emit'[u] = emit[u]
      /\ emit' \in [Threads -> [at : EmitLabels, key : Content, path : Paths \cup {Torn},
                                bytes : Content, keyed : BOOLEAN]]
  BY <1>1, OnlyLabel DEF EmitLabels, Bail
<1>4. HasGuard(t)' <=> HasGuard(t)
  BY <1>1, <1>3 DEF HasGuard, At, Bail
<1>5. Emission(t)'
  BY <1>1, <1>2, <1>3, <1>4 DEF Emission, At, Bail
<1>. QED BY <1>1, <1>2, <1>3, <1>4, <1>5, OnlyCall

LEMMA CheckStep ==
    ASSUME MemoInv, NEW t \in Threads, Check(t)
    PROVE  MemoInv'
<1>. DEFINE next == IF Exclusive(emit[t].path) THEN "read" ELSE "drop"
<1>1. /\ Emission(t) /\ At(t, "check") /\ UNCHANGED <<assign, settings, store, met, file>>
      /\ EmitGoes(t, next)
  BY DEF Check, MemoInv
<1>2. /\ file \in [Paths -> Content] /\ emitting' = emitting /\ Private' = Private
  BY <1>1 DEF MemoInv, MemoStored, Private, store
<1>3. /\ emit'[t].at = next /\ emit'[t].key = emit[t].key /\ emit'[t].path = emit[t].path
      /\ emit'[t].bytes = emit[t].bytes /\ emit'[t].keyed = emit[t].keyed
      /\ \A u \in Threads \ {t} : emit'[u] = emit[u]
      /\ emit' \in [Threads -> [at : EmitLabels, key : Content, path : Paths \cup {Torn},
                                bytes : Content, keyed : BOOLEAN]]
  BY <1>1, OnlyLabel DEF EmitLabels
<1>4. HasGuard(t)' <=> HasGuard(t)
  BY <1>1, <1>3 DEF HasGuard, At
<1>5. t \in met' => next = "drop"
  BY <1>1 DEF Emission, At, HasGuard, Exclusive
<1>6. Emission(t)'
  BY <1>1, <1>2, <1>3, <1>4, <1>5 DEF Emission, At
<1>. QED BY <1>1, <1>2, <1>3, <1>4, <1>6, OnlyCall

LEMMA ReadObjectStep ==
    ASSUME MemoInv, NEW t \in Threads, Read(t)
    PROVE  MemoInv'
<1>1. Emission(t) /\ At(t, "read") /\ UNCHANGED <<assign, settings, store, met, file>>
  BY DEF Read, MemoInv
<1>2. /\ file \in [Paths -> Content] /\ emitting' = emitting /\ Private' = Private
      /\ file[emit[t].path] \in Content
  BY <1>1 DEF MemoInv, MemoStored, Private, store, Emission, At
<1>3. /\ emit'[t].at \in {"store", "drop"} /\ emit'[t].key = emit[t].key /\ emit'[t].path = emit[t].path
      /\ emit'[t].at = "store" => emit'[t].bytes = file[emit[t].path]
      /\ emit'[t].keyed = emit[t].keyed
      /\ \A u \in Threads \ {t} : emit'[u] = emit[u]
      /\ emit' \in [Threads -> [at : EmitLabels, key : Content, path : Paths \cup {Torn},
                                bytes : Content, keyed : BOOLEAN]]
  <2>1. CASE emit' = [emit EXCEPT ![t].at = "store", ![t].bytes = file[emit[t].path]]
    BY <1>2, <2>1, EmitTypes DEF EmitLabels
  <2>2. CASE EmitGoes(t, "drop")
    BY <2>2, OnlyLabel DEF EmitLabels
  <2>. QED BY <2>1, <2>2 DEF Read
<1>4. HasGuard(t)' <=> HasGuard(t)
  BY <1>1, <1>3 DEF HasGuard, At
<1>5. Emission(t)'
  BY <1>1, <1>2, <1>3, <1>4 DEF Emission, At
<1>. QED BY <1>1, <1>2, <1>3, <1>4, <1>5, OnlyCall

(* object_store: what is retained is what was read. *)
LEMMA RetainStep ==
    ASSUME MemoInv, NEW t \in Threads, Retain(t)
    PROVE  MemoInv'
<1>1. /\ Emission(t) /\ At(t, "store") /\ UNCHANGED <<assign, settings, others, emitting, file, met>>
      /\ EmitGoes(t, "drop")
  BY DEF Retain, MemoInv
<1>2. /\ file \in [Paths -> Content] /\ Private' = Private /\ emit[t].key \in EmitKeys
      /\ emit[t].bytes \in Content /\ (Private => emit[t].bytes = emit[t].key)
  BY <1>1, EmitTypes DEF MemoInv, MemoStored, Private, Emission, At
<1>3. /\ emit'[t].at = "drop" /\ emit'[t].key = emit[t].key /\ emit'[t].path = emit[t].path
      /\ emit'[t].bytes = emit[t].bytes /\ emit'[t].keyed = emit[t].keyed
      /\ EmitStep(t)
  BY <1>1, OnlyLabel DEF EmitLabels, EmitStep
<1>4. HasGuard(t)' <=> HasGuard(t)
  BY <1>1, <1>3 DEF HasGuard, At
<1>5. Emission(t)'
  BY <1>1, <1>2, <1>3, <1>4 DEF Emission, At
<1>6. /\ DOMAIN objects' \subseteq EmitKeys /\ \A k \in DOMAIN objects' : objects'[k] \in Content
      /\ retained' \in Nat /\ (Private => RetainedIsOwn')
  <2>1. /\ DOMAIN objects \subseteq EmitKeys /\ \A k \in DOMAIN objects : objects[k] \in Content
        /\ retained \in Nat /\ (Private => RetainedIsOwn)
    BY DEF MemoInv, MemoStored
  <2>2. Bytes(emit[t].bytes) \in Nat
    BY MemoAssumption DEF Bytes
  <2>3. retained' \in Nat
    BY <2>1, <2>2 DEF Retain, Reserved
  <2>4. \/ objects' = objects
        \/ objects' = [j \in DOMAIN objects \cup {emit[t].key} |->
                         IF j = emit[t].key THEN emit[t].bytes ELSE objects[j]]
    BY DEF Retain
  <2>. QED BY <1>2, <2>1, <2>3, <2>4 DEF RetainedIsOwn
<1>7. MemoStored'
  BY <1>1, <1>3, <1>6 DEF MemoStored, MemoInv, settings, EmitStep
<1>. QED BY <1>1, <1>3, <1>4, <1>5, <1>6, <1>7, Plain

(* EmitGuard::drop: t leaves the holders of its path; whoever is left      *)
(* keeps the flag.                                                         *)
LEMMA DropStep ==
    ASSUME MemoInv, NEW t \in Threads, Drop(t)
    PROVE  MemoInv'
<1>. PICK p : p = emit[t].path
  OBVIOUS
<1>. DEFINE next == IF At(t, "drop") THEN "ok" ELSE "err"
<1>1. /\ Emission(t) /\ emit[t].at \in {"drop", "fail"}
      /\ UNCHANGED <<assign, settings, objects, others, retained, file, met>>
      /\ emitting' = [emitting EXCEPT ![p] = Released(@)]
      /\ EmitGoes(t, next)
  BY DEF Drop, MemoInv
<1>2. /\ HasGuard(t) /\ emit[t].key \in EmitKeys /\ p \in Paths /\ p \in assign[t]
  BY <1>1 DEF Emission, At, HasGuard
<1>3. /\ emit'[t].at = next /\ emit'[t].key = emit[t].key /\ emit'[t].path = p
      /\ emit'[t].bytes = emit[t].bytes /\ emit'[t].keyed = emit[t].keyed
      /\ \A u \in Threads \ {t} : emit'[u] = emit[u]
      /\ EmitStep(t)
  BY <1>1, OnlyLabel DEF EmitLabels, EmitStep
<1>4. /\ Holders(p)' = Holders(p) \ {t} /\ t \in Holders(p)
      /\ \A q \in Paths \ {p} : Holders(q)' = Holders(q)
  BY <1>2, <1>3 DEF Holders, HasGuard
<1>5. /\ emitting \in [Paths -> [count : 0..Cardinality(Threads), contended : BOOLEAN]]
      /\ emitting[p].count = Cardinality(Holders(p))
      /\ emitting[p].count > 0
      /\ Cardinality(Holders(p)) \in Nat /\ Cardinality(Threads) \in Nat
      /\ Cardinality(Holders(p) \ {t}) = Cardinality(Holders(p)) - 1
  <2>1. /\ IsFiniteSet(Holders(p)) /\ Cardinality(Holders(p)) \in Nat /\ Cardinality(Threads) \in Nat
    BY HoldersFinite
  <2>2. Cardinality(Holders(p) \ {t}) = Cardinality(Holders(p)) - 1
    BY <1>4, <2>1, FS_RemoveElement
  <2>3. emitting[p].count = Cardinality(Holders(p)) /\ emitting[p].count > 0
    BY <1>2, <1>4, CountOf
  <2>. QED BY <2>1, <2>2, <2>3 DEF MemoInv, MemoStored
<1>6. /\ emitting'[p].count = emitting[p].count - 1
      /\ emitting'[p].contended = (emitting[p].contended /\ emitting[p].count > 1)
      /\ \A q \in Paths \ {p} : emitting'[q] = emitting[q]
  BY <1>1, <1>2, <1>5 DEF Released
<1>7. GuardsCounted'
  <2>1. ASSUME NEW q \in Paths PROVE emitting'[q].count = Cardinality(Holders(q)')
    BY <1>4, <1>5, <1>6 DEF GuardsCounted, MemoInv
  <2>. QED BY <2>1 DEF GuardsCounted
<1>8. MemoStored'
  <2>1. Released(emitting[p]) \in [count : 0..Cardinality(Threads), contended : BOOLEAN]
    BY <1>2, <1>5 DEF Released
  <2>2. emitting' \in [Paths -> [count : 0..Cardinality(Threads), contended : BOOLEAN]]
    BY <1>1, <1>5, <2>1
  <2>. QED BY <1>1, <1>3, <2>2 DEF MemoStored, EmitStep, MemoInv, settings
<1>9. Private' = Private /\ (Private => RetainedIsOwn')
  BY <1>1 DEF Private, MemoInv, RetainedIsOwn
<1>10. Emission(t)'
  BY <1>1, <1>2, <1>3, <1>9 DEF Emission, At, HasGuard
<1>11. ASSUME NEW u \in Threads \ {t} PROVE Emission(u)'
  <2>1. Emission(u) /\ emit'[u] = emit[u] /\ HasGuard(u)' = HasGuard(u)
    BY <1>3 DEF MemoInv, HasGuard
  <2>2. u \in met /\ HasGuard(u) => emitting'[emit[u].path].contended
    <3>. SUFFICES ASSUME u \in met, HasGuard(u) PROVE emitting'[emit[u].path].contended
      OBVIOUS
    <3>1. emit[u].path \in Paths /\ emitting[emit[u].path].contended
      BY <2>1 DEF Emission, At, HasGuard
    <3>2. CASE emit[u].path = p
      <4>1. u \in Holders(p)
        BY <3>2 DEF Holders, HasGuard
      <4>2. emitting[p].count > 1
        BY <1>2, <1>4, <4>1, CountOf
      <4>. QED BY <1>6, <3>1, <3>2, <4>2
    <3>3. CASE emit[u].path # p
      BY <1>6, <3>1, <3>3
    <3>. QED BY <3>2, <3>3
  <2>. QED BY <1>1, <1>9, <2>1, <2>2 DEF Emission, At
<1>. QED BY <1>3, <1>7, <1>8, <1>9, <1>10, <1>11, Combine

LEMMA ReturnsStep ==
    ASSUME MemoInv, NEW t \in Threads, EmitReturns(t)
    PROVE  MemoInv'
<1>1. /\ Emission(t) /\ emit[t].at \in {"ok", "err"} /\ UNCHANGED <<assign, settings, store, met, file>>
      /\ emit' = [emit EXCEPT ![t] = NoEmit]
  BY DEF EmitReturns, MemoInv
<1>2. file \in [Paths -> Content]
  BY DEF MemoInv, MemoStored
<1>3. /\ emit'[t] = NoEmit
      /\ \A u \in Threads \ {t} : emit'[u] = emit[u]
      /\ emit' \in [Threads -> [at : EmitLabels, key : Content, path : Paths \cup {Torn},
                                bytes : Content, keyed : BOOLEAN]]
  BY <1>1, EmitTypes DEF EmitLabels, NoEmit
<1>4. ~HasGuard(t)' /\ ~HasGuard(t)
  BY <1>1, <1>3 DEF HasGuard, NoEmit
<1>5. Emission(t)'
  BY <1>3, <1>4 DEF Emission, At, NoEmit
<1>. QED BY <1>1, <1>2, <1>3, <1>4, <1>5, OnlyCall

(* Steps of no call: the settings and the content retained change. *)
LEMMA StoreChanges ==
    ASSUME MemoInv, UNCHANGED <<assign, emitting, file, emit, met>>,
           enabled' \in BOOLEAN, cap' \in Budgets, others' \subseteq Others, retained' \in Nat,
           objects' = objects \/ objects' = <<>>
    PROVE  MemoInv'
<1>1. /\ DOMAIN objects' \subseteq EmitKeys /\ \A k \in DOMAIN objects' : objects'[k] \in Content
      /\ RetainedIsOwn => RetainedIsOwn'
  BY DEF MemoInv, MemoStored, RetainedIsOwn
<1>2. MemoStored' /\ Private' = Private
  BY <1>1 DEF MemoInv, MemoStored, Private
<1>3. GuardsCounted'
  BY DEF MemoInv, GuardsCounted, Holders
<1>4. ASSUME NEW t \in Threads PROVE Emission(t)'
  BY <1>2 DEF MemoInv, Emission, At, HasGuard
<1>. QED BY <1>1, <1>2, <1>3, <1>4 DEF MemoInv

(* Every step of any thread, and of the settings, preserves it. *)
LEMMA MemoStep ==
    ASSUME MemoInv, [MemoNext]_memoVars
    PROVE  MemoInv'
<1>1. ASSUME NEW t \in Threads, EmitObjectFile(t) PROVE MemoInv'
  BY <1>1, EmitObjectStep, LookupStep, ClaimStep, OpenFileStep, WriteFileStep, WriteFailsStep, CheckStep,
     ReadObjectStep, RetainStep, DropStep, ReturnsStep DEF EmitObjectFile
<1>2. /\ enabled \in BOOLEAN /\ cap \in Budgets /\ others \subseteq Others /\ retained \in Nat
  BY DEF MemoInv, MemoStored
<1>3. CASE SetEnabled \/ SetBudget
  BY <1>2, <1>3, StoreChanges DEF SetEnabled, SetBudget, store
<1>4. CASE ClearMemo
  BY <1>2, <1>4, StoreChanges DEF ClearMemo, KeepEmitting, settings
<1>5. ASSUME NEW k \in Others, RetainOther(k) PROVE MemoInv'
  BY <1>2, <1>5, StoreChanges DEF RetainOther, Reserved, settings
<1>6. CASE UNCHANGED memoVars
  BY <1>2, <1>6, StoreChanges DEF memoVars, store, settings
<1>. QED BY <1>1, <1>3, <1>4, <1>5, <1>6 DEF MemoNext

(* The inductive invariant of the memo: what a call inside                 *)
(* emit_object_file may rely on, for any threads, keys, paths and budgets, *)
(* whoever clears the memo, disables it or sets its budget meanwhile.      *)
THEOREM MemoInvariant == MemoSpec => []MemoInv
<1>1. MemoInit => MemoInv
  BY MemoInitInv
<1>2. MemoInv /\ [MemoNext]_memoVars => MemoInv'
  BY MemoStep
<1>. QED BY <1>1, <1>2, PTL DEF MemoSpec

(* An emission that met another on its path before its own check neither   *)
(* reads the file back nor retains it, whoever has ended since; emitters   *)
(* are counted through clear; and with a path per thread what is retained  *)
(* under a key is that key's object and a successful call has left its own *)
(* object in its file (emit_object_file, begin_emit, object_store,         *)
(* EmitGuard).  An emission met after its check retains what it reads.     *)
THEOREM MemoIsRight == MemoSpec => []MemoRight
<1>1. MemoInv => MemoRight
  <2>. SUFFICES ASSUME MemoInv PROVE MemoRight
    OBVIOUS
  <2>1. MemoTypeOK
    BY EmitTypes DEF MemoInv, MemoStored, MemoTypeOK
  <2>2. OverlapSkips
    BY DEF MemoInv, MemoStored, OverlapSkips, Emission
  <2>3. Private => OutputRight
    BY DEF MemoInv, OutputRight, Emission, At
  <2>. QED BY <2>1, <2>2, <2>3 DEF MemoRight, MemoInv
<1>. QED BY <1>1, MemoInvariant, PTL
=============================================================================
