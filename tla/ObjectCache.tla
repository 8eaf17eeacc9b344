---------------------------- MODULE ObjectCache ----------------------------
(***************************************************************************)
(* The object cache of crates/align_driver/src/cache.rs: content-addressed *)
(* blobs, and manifests that name the blob of a key.  Driver processes     *)
(* share the writable root without a lock; a release also ships an         *)
(* immutable one.  A file appears by an atomic rename and disappears by an *)
(* unlink, a blob that does not have its digest is removed by the lookup   *)
(* that notices, `alignc cache clear` runs beside everything, and a        *)
(* process may die at any step.  The ThinLTO phases share the protocol and *)
(* the blobs, and have no packaged root.  Slot pointers, the third file of *)
(* a publication, only explain a miss: of them the order is kept.          *)
(***************************************************************************)
EXTENDS Naturals, FiniteSets

CONSTANTS Drivers, NoDriver, ObjectKeys, Digests, NoDigest, Garbage,
          Objects,          \* key to the digests its producer may emit
          PhaseKeys,        \* keys of the ThinLTO phases
          PackagedAction, PackagedBlob,
          MaxFaults         \* bound on damage, clears, deaths and failed calls

Entries == Digests \cup {NoDigest, Garbage}
Contents == {"none", "good", "bad", "dir"}     \* bad: bytes with another digest

(* What the constants must be; what a release ships was produced for the   *)
(* keys it is filed under.                                                 *)
ASSUME ObjectCacheAssumption ==
    /\ NoDriver \notin Drivers
    /\ NoDigest \notin Digests /\ Garbage \notin Digests /\ NoDigest # Garbage
    /\ Objects \in [ObjectKeys -> SUBSET Digests \ {{}}]
    /\ PhaseKeys \subseteq ObjectKeys /\ ObjectKeys # {}
    /\ PackagedAction \in [ObjectKeys -> Entries]
    /\ \A k \in ObjectKeys : PackagedAction[k] \in Objects[k] \cup {NoDigest, Garbage}
    /\ PackagedBlob \in [Digests -> Contents]
    /\ MaxFaults \in Nat

VARIABLES
    blob,       \* cas/<digest>
    entry,      \* actions/<key>: the digest it names
    clearing,   \* the step of `alignc cache clear`
    driver,     \* the step of each process
    wanted, root,                  \* the key it looks up, and where
    dg,         \* the digest in hand
    fd,         \* what the opened blob holds
    out,        \* the digest of the object to link, if it has one
    faults,
    hurt,       \* history: digests that were damaged, unlinked or cleared
    solo        \* from now on only this process runs, and nothing fails

driverVars == <<driver, wanted, root, dg, fd, out>>
objectVars == <<blob, entry, clearing, driverVars, faults, hurt, solo>>

ObjectInit ==
    /\ blob = [d \in Digests |-> "none"]
    /\ entry = [k \in ObjectKeys |-> NoDigest]
    /\ clearing = "off"
    /\ driver = [p \in Drivers |-> "idle"]
    /\ wanted = [p \in Drivers |-> CHOOSE k \in ObjectKeys : TRUE]
    /\ root = [p \in Drivers |-> "primary"]
    /\ dg = [p \in Drivers |-> NoDigest]
    /\ fd = [p \in Drivers |-> "none"]
    /\ out = [p \in Drivers |-> NoDigest]
    /\ faults = 0 /\ hurt = {} /\ solo = NoDriver

GoTo(p, l) == driver' = [driver EXCEPT ![p] = l]
Steps(p) == solo \in {NoDriver, p}
Fault == solo = NoDriver /\ faults < MaxFaults /\ faults' = faults + 1

ReadsBlob(r, d) == IF r = "primary" THEN blob[d] ELSE PackagedBlob[d]
ReadsAction(r, k) == IF r = "primary" THEN entry[k] ELSE PackagedAction[k]
-----------------------------------------------------------------------------
(* lookup, lookup_prelink, lookup_backend: try_hit in the primary, then in *)
(* the packaged root.                                                      *)

BeginLookup(p, k) ==
    /\ Steps(p) /\ driver[p] = "idle"
    /\ solo = p => k = wanted[p]
    /\ wanted' = [wanted EXCEPT ![p] = k]
    /\ root' = [root EXCEPT ![p] = "primary"]
    /\ GoTo(p, "manifest")
    /\ UNCHANGED <<blob, entry, clearing, dg, fd, out, faults, hurt, solo>>

(* This root has no hit: HitResult::Miss or Corrupt. *)
NoHit(p) ==
    IF root[p] = "primary" /\ wanted[p] \notin PhaseKeys
      THEN GoTo(p, "manifest") /\ root' = [root EXCEPT ![p] = "packaged"]
      ELSE GoTo(p, "produce") /\ UNCHANGED root

(* An absent or undecodable manifest is a clean miss. *)
Decodes(d) == d \in Digests
ReadManifest(p) ==
    /\ Steps(p) /\ driver[p] = "manifest"
    /\ LET d == ReadsAction(root[p], wanted[p])
       IN IF Decodes(d)
            THEN dg' = [dg EXCEPT ![p] = d] /\ GoTo(p, "open") /\ UNCHANGED root
            ELSE NoHit(p) /\ UNCHANGED dg
    /\ UNCHANGED <<blob, entry, clearing, wanted, fd, out, faults, hurt, solo>>

(* materialize_blob opens a regular file or diagnoses a corrupt entry; the *)
(* packaged root is never written.                                         *)
Open(p) ==
    /\ Steps(p) /\ driver[p] = "open"
    /\ LET c == ReadsBlob(root[p], dg[p])
       IN IF c \in {"good", "bad"}
            THEN fd' = [fd EXCEPT ![p] = c] /\ GoTo(p, "copy") /\ UNCHANGED root
            ELSE /\ UNCHANGED fd
                 /\ IF root[p] = "primary" THEN GoTo(p, "unlink") /\ UNCHANGED root
                    ELSE NoHit(p)
    /\ UNCHANGED <<blob, entry, clearing, wanted, dg, out, faults, hurt, solo>>

(* The digest is taken of the bytes that were staged. *)
Verified(p) == fd[p] = "good"

Copy(p) ==
    /\ Steps(p) /\ driver[p] = "copy"
    /\ IF Verified(p) THEN GoTo(p, "install") /\ UNCHANGED root
       ELSE IF root[p] = "primary" THEN GoTo(p, "unlink") /\ UNCHANGED root
       ELSE NoHit(p)
    /\ UNCHANGED <<blob, entry, clearing, wanted, dg, fd, out, faults, hurt, solo>>

Install(p) ==
    /\ Steps(p) /\ driver[p] = "install"
    /\ out' = [out EXCEPT ![p] = IF fd[p] = "good" THEN dg[p] ELSE Garbage]
    /\ GoTo(p, "hit")
    /\ UNCHANGED <<blob, entry, clearing, wanted, root, dg, fd, faults, hurt, solo>>

(* A read, a write to the staging file or the rename fails. *)
CopyFails(p) ==
    /\ Fault /\ driver[p] \in {"copy", "install"}
    /\ NoHit(p)
    /\ UNCHANGED <<blob, entry, clearing, wanted, dg, fd, out, hurt, solo>>

(* remove_writable_cache_entry: whatever has the path now.  Mutant: a      *)
(* directory is left.                                                      *)
AfterUnlinkFile(c) == IF c = "dir" THEN c ELSE "none"
AfterUnlink(c) == "none"

Unlink(p) ==
    /\ Steps(p) /\ driver[p] = "unlink"
    /\ blob' = [blob EXCEPT ![dg[p]] = AfterUnlink(@)]
    /\ hurt' = hurt \cup {dg[p]}
    /\ NoHit(p)
    /\ UNCHANGED <<entry, clearing, wanted, dg, fd, out, faults, solo>>
UnlinkFails(p) ==
    /\ Fault /\ driver[p] = "unlink"
    /\ NoHit(p)
    /\ UNCHANGED <<blob, entry, clearing, wanted, dg, fd, out, hurt, solo>>
-----------------------------------------------------------------------------
(* produce, then publish: the blob, the manifest, the slot pointer.        *)

Produce(p) ==
    /\ Steps(p) /\ driver[p] = "produce"
    /\ \E d \in Objects[wanted[p]] : dg' = [dg EXCEPT ![p] = d] /\ out' = [out EXCEPT ![p] = d]
    /\ GoTo(p, "publish")
    /\ UNCHANGED <<blob, entry, clearing, wanted, root, fd, faults, hurt, solo>>

(* publish_blob leaves an existing blob alone. *)
BlobThere(p) == blob[dg[p]] # "none"
PublishBlob(p) ==
    /\ Steps(p) /\ driver[p] = "publish"
    /\ GoTo(p, IF BlobThere(p) THEN "record" ELSE "store")
    /\ UNCHANGED <<blob, entry, clearing, wanted, root, dg, fd, out, faults, hurt, solo>>

(* The rename of publish_file; one over a directory fails and is accepted. *)
Stored(c) == IF c = "dir" THEN c ELSE "good"
Store(p) ==
    /\ Steps(p) /\ driver[p] = "store"
    /\ blob' = [blob EXCEPT ![dg[p]] = Stored(@)]
    /\ GoTo(p, "record")
    /\ UNCHANGED <<entry, clearing, wanted, root, dg, fd, out, faults, hurt, solo>>

Record(p) ==
    /\ Steps(p) /\ driver[p] = "record"
    /\ entry' = [entry EXCEPT ![wanted[p]] = dg[p]]
    /\ GoTo(p, "done")
    /\ UNCHANGED <<blob, clearing, wanted, root, dg, fd, out, faults, hurt, solo>>

(* Any failure ends the publication and not the build.  Mutant: the next   *)
(* file is published all the same.                                         *)
AfterFailureNext(p) == IF driver[p] = "record" THEN "done" ELSE "record"
AfterFailure(p) == "done"
PublishFails(p) ==
    /\ Fault /\ driver[p] \in {"publish", "store", "record"}
    /\ GoTo(p, AfterFailure(p))
    /\ UNCHANGED <<blob, entry, clearing, wanted, root, dg, fd, out, hurt, solo>>

Forgotten(p) == /\ GoTo(p, "idle")
                /\ root' = [root EXCEPT ![p] = "primary"]
                /\ dg' = [dg EXCEPT ![p] = NoDigest]
                /\ fd' = [fd EXCEPT ![p] = "none"]
                /\ out' = [out EXCEPT ![p] = NoDigest]
Link(p) ==
    /\ Steps(p) /\ driver[p] \in {"hit", "done"}
    /\ Forgotten(p)
    /\ UNCHANGED <<blob, entry, clearing, wanted, faults, hurt, solo>>

(* The process dies, or its producer fails; a new one takes its place. *)
Dies(p) ==
    /\ Fault /\ driver[p] # "idle"
    /\ Forgotten(p)
    /\ UNCHANGED <<blob, entry, clearing, wanted, hurt, solo>>
-----------------------------------------------------------------------------
(* clear_cache: first cas, then actions, then index. *)

ClearBegin ==
    /\ Fault /\ clearing = "off"
    /\ clearing' = "cas"
    /\ UNCHANGED <<blob, entry, driverVars, hurt, solo>>
ClearBlob(d) ==
    /\ clearing = "cas" /\ blob[d] # "none"
    /\ blob' = [blob EXCEPT ![d] = "none"]
    /\ hurt' = hurt \cup {d}
    /\ UNCHANGED <<entry, clearing, driverVars, faults, solo>>
ClearAction(k) ==
    /\ clearing = "actions" /\ entry[k] # NoDigest
    /\ entry' = [entry EXCEPT ![k] = NoDigest]
    /\ UNCHANGED <<blob, clearing, driverVars, faults, hurt, solo>>
ClearNext ==
    /\ \/ clearing = "cas" /\ (\A d \in Digests : blob[d] = "none") /\ clearing' = "actions"
       \/ clearing = "actions" /\ (\A k \in ObjectKeys : entry[k] = NoDigest) /\ clearing' = "off"
    /\ UNCHANGED <<blob, entry, driverVars, faults, hurt, solo>>

(* remove_dir_all fails when something appears in what it empties. *)
ClearFails ==
    /\ clearing # "off" /\ solo = NoDriver
    /\ clearing' = "off"
    /\ UNCHANGED <<blob, entry, driverVars, faults, hurt, solo>>

(* Bytes rot, a directory or an undecodable manifest lies in the way. *)
DamageBlob(d, c) ==
    /\ Fault /\ blob[d] # "none"
    /\ blob' = [blob EXCEPT ![d] = c]
    /\ hurt' = hurt \cup {d}
    /\ UNCHANGED <<entry, clearing, driverVars, solo>>
DamageAction(k) ==
    /\ Fault /\ entry[k] \in Digests
    /\ entry' = [entry EXCEPT ![k] = Garbage]
    /\ UNCHANGED <<blob, clearing, driverVars, hurt, solo>>

(* Whatever the others were doing, they are gone. *)
Calm(p) ==
    /\ solo = NoDriver /\ clearing = "off" /\ driver[p] = "idle"
    /\ solo' = p
    /\ UNCHANGED <<blob, entry, clearing, driverVars, faults, hurt>>
-----------------------------------------------------------------------------
TryHit(p) == \/ \E k \in ObjectKeys : BeginLookup(p, k)
             \/ ReadManifest(p) \/ Open(p) \/ Copy(p) \/ Install(p) \/ Unlink(p)
PublishObject(p) == Produce(p) \/ PublishBlob(p) \/ Store(p) \/ Record(p)
Run(p) == TryHit(p) \/ PublishObject(p) \/ Link(p)
Fails(p) == CopyFails(p) \/ UnlinkFails(p) \/ PublishFails(p) \/ Dies(p)
ClearCache == \/ ClearBegin \/ ClearNext \/ ClearFails
              \/ \E d \in Digests : ClearBlob(d)
              \/ \E k \in ObjectKeys : ClearAction(k)
DamageRoot == \/ \E d \in Digests, c \in {"bad", "dir"} : DamageBlob(d, c)
              \/ \E k \in ObjectKeys : DamageAction(k)

ObjectNext == \/ \E p \in Drivers : Run(p) \/ Fails(p) \/ Calm(p)
              \/ ClearCache \/ DamageRoot

ObjectSpec == ObjectInit /\ [][ObjectNext]_objectVars

(* A driver process runs on. *)
ObjectFairSpec == ObjectSpec /\ \A p \in Drivers : WF_objectVars(Run(p))
-----------------------------------------------------------------------------
(* Properties *)

Labels == {"idle", "manifest", "open", "copy", "install", "unlink", "hit",
           "produce", "publish", "store", "record", "done"}

(* Every variable keeps its type. *)
ObjectTypeOK ==
    /\ blob \in [Digests -> Contents]
    /\ entry \in [ObjectKeys -> Entries]
    /\ clearing \in {"off", "cas", "actions"}
    /\ driver \in [Drivers -> Labels]
    /\ wanted \in [Drivers -> ObjectKeys]
    /\ root \in [Drivers -> {"primary", "packaged"}]
    /\ dg \in [Drivers -> Digests \cup {NoDigest}]
    /\ fd \in [Drivers -> {"none", "good", "bad"}]
    /\ out \in [Drivers -> Entries]
    /\ faults \in 0..MaxFaults
    /\ hurt \subseteq Digests
    /\ solo \in Drivers \cup {NoDriver}

(* What a build links, reused or produced, is an object of its own key,    *)
(* whatever was damaged, cleared, half published or republished under the  *)
(* lookup.                                                                 *)
LinksItsObject == \A p \in Drivers : driver[p] \in {"hit", "done"} => out[p] \in Objects[wanted[p]]

(* However publications are cut and interleaved, a manifest names a blob   *)
(* that is there, unless that blob was damaged, cleared or unlinked; and   *)
(* no lookup diagnoses as corrupt what nobody touched.                     *)
ManifestNamesBlob ==
    /\ \A k \in ObjectKeys : entry[k] \in Digests \ hurt => blob[entry[k]] = "good"
    /\ \A p \in Drivers : driver[p] = "unlink" => dg[p] \in hurt

(* What the object cache promises: both, and the types. *)
ObjectsRight == ObjectTypeOK /\ LinksItsObject /\ ManifestNamesBlob

(* A driver left alone with the root compiles a key a last time and then   *)
(* always reuses it, whatever state the others left.                       *)
EventuallyReused == <>[](solo # NoDriver => driver[solo] # "produce")
=============================================================================
