----------------------------- MODULE ObjectMemo -----------------------------
(***************************************************************************)
(* The in-process memo (memo.rs) and emit_object_file, its one user that   *)
(* several threads run at once: object bytes are read back from the file   *)
(* codegen wrote and retained under the key of the program.                *)
(*                                                                         *)
(* A critical section of the store's mutex is one step.  A file is written *)
(* by an open that truncates it and a write.  The bytes of an object are   *)
(* named by the key they belong to.                                        *)
(***************************************************************************)
EXTENDS Naturals, FiniteSets, FiniteSetsExt

CONSTANTS
    Threads, EmitKeys, Paths,
    Assignments,    \* which paths each thread emits objects to: the choices its callers may make
    Charge,         \* key -> what it is charged for, in bytes
    Budgets,        \* the budgets set_budget may set
    Torn,           \* the content of a file that is no object
    Others,         \* keys of programs, units and lowerings, each charged one byte
    MaxRuns         \* bound: calls of emit_object_file

\* What the constants must be.
ASSUME MemoAssumption ==
    /\ IsFiniteSet(Threads) /\ IsFiniteSet(EmitKeys) /\ IsFiniteSet(Others)
    /\ Assignments \subseteq [Threads -> SUBSET Paths]
    /\ Charge \in [EmitKeys -> Nat] /\ Budgets \subseteq Nat /\ Budgets # {}
    /\ Torn \notin EmitKeys /\ MaxRuns \in Nat

VARIABLES
    assign,             \* thread -> the paths it emits objects to
    enabled, cap,       \* the two process-wide settings
    objects,            \* Store::objects: a function from retained keys to content
    others,             \* the keys retained in the other three maps
    retained,           \* MemoStats::retained_bytes
    emitting,           \* Store::emitting: path -> concurrent emitters and ever contended
    file,               \* path -> content
    emit,               \* thread -> where its emit_object_file is, its key, path, bytes and keying
    met,                \* history: threads whose emission met another one on its path before its own check
    runs

store == <<objects, others, retained, emitting>>
settings == <<enabled, cap>>
memoVars == <<assign, settings, store, file, emit, met, runs>>

Content == EmitKeys \cup {Torn}
Bytes(c) == IF c \in EmitKeys THEN Charge[c] ELSE 1
NoEmit == [at |-> "idle", key |-> Torn, path |-> Torn, bytes |-> Torn, keyed |-> FALSE]

MemoInit ==
    /\ assign \in Assignments
    /\ enabled \in BOOLEAN /\ cap \in Budgets
    /\ objects = <<>> /\ others = {} /\ retained = 0
    /\ emitting = [p \in Paths |-> [count |-> 0, contended |-> FALSE]]
    /\ file = [p \in Paths |-> Torn]
    /\ emit = [t \in Threads |-> NoEmit]
    /\ met = {} /\ runs = 0

At(t, s) == emit[t].at = s
EmitGoes(t, s) == emit' = [emit EXCEPT ![t].at = s]
Holders(p) ==     \* the threads with an EmitGuard of p
    {t \in Threads : emit[t].keyed /\ emit[t].path = p /\ emit[t].at \in {"open", "write", "check", "read", "store", "drop", "fail"}}

(***************************************************************************)
(* Settings and the other maps.                                            *)
(***************************************************************************)
SetEnabled ==
    /\ enabled' = ~enabled
    /\ UNCHANGED <<assign, cap, store, file, emit, met, runs>>

SetBudget ==
    /\ \E b \in Budgets : cap' = b
    /\ UNCHANGED <<assign, enabled, store, file, emit, met, runs>>

\* clear: retained content goes, emissions in flight stay.
KeepEmitting(e) == e
ClearMemo ==
    /\ objects' = <<>> /\ others' = {} /\ retained' = 0
    /\ emitting' = KeepEmitting(emitting)
    /\ UNCHANGED <<assign, settings, file, emit, met, runs>>

\* reserve, which the callers reach only for a key they do not hold.  Mutant: whoever holds it.
ReserveFirst(n, new) == IF retained + n <= cap THEN retained + n ELSE retained
Reserved(n, new) == IF new /\ retained + n <= cap THEN retained + n ELSE retained
Fits(n) == retained + n <= cap

\* program_store, unit_store and lowering_store.
RetainOther(k) ==
    /\ enabled
    /\ retained' = Reserved(1, k \notin others)
    /\ others' = IF Fits(1) THEN others \cup {k} ELSE others
    /\ UNCHANGED <<assign, settings, objects, emitting, file, emit, met, runs>>

(***************************************************************************)
(* emit_object_file.                                                       *)
(***************************************************************************)
EmitObject(t) ==
    /\ At(t, "idle") /\ runs < MaxRuns
    /\ runs' = runs + 1
    /\ \E k \in EmitKeys, p \in assign[t] :
         emit' = [emit EXCEPT ![t] = [at |-> IF enabled THEN "lookup" ELSE "open", key |-> k, path |-> p,
                                      bytes |-> Torn, keyed |-> enabled]]
    /\ met' = met \ {t}
    /\ UNCHANGED <<assign, settings, store, file>>

\* object_lookup: the memo may have been disabled since.
ObjectLookup(t) ==
    /\ At(t, "lookup")
    /\ LET k == emit[t].key IN
         IF enabled /\ k \in DOMAIN objects
         THEN emit' = [emit EXCEPT ![t].at = "reopen", ![t].bytes = objects[k]]
         ELSE EmitGoes(t, "claim")
    /\ UNCHANGED <<assign, settings, store, file, met, runs>>

\* begin_emit.  A holder that has passed its check is not told of the newcomer.
Unchecked(p) == {u \in Holders(p) : emit[u].at \in {"open", "write", "check"}}
Claim(t) ==
    /\ At(t, "claim")
    /\ LET p == emit[t].path IN
         /\ emitting' = [emitting EXCEPT ![p] = [count |-> @.count + 1, contended |-> @.contended \/ @.count > 0]]
         /\ met' = met \cup Unchecked(p) \cup (IF Holders(p) = {} THEN {} ELSE {t})
    /\ EmitGoes(t, "open")
    /\ UNCHANGED <<assign, settings, objects, others, retained, file, runs>>

\* A file is opened and truncated, by codegen or by the write of memoized bytes.
OpenFile(t) ==
    /\ emit[t].at \in {"open", "reopen"}
    /\ file' = [file EXCEPT ![emit[t].path] = Torn]
    /\ EmitGoes(t, IF At(t, "open") THEN "write" ELSE "rewrite")
    /\ UNCHANGED <<assign, settings, store, met, runs>>

\* The bytes are written; beside another open writer of the file they may end up mixed.
Writing(p) == {t \in Threads : emit[t].path = p /\ emit[t].at \in {"write", "rewrite"}}
WriteFile(t) ==
    /\ emit[t].at \in {"write", "rewrite"}
    /\ LET own == IF At(t, "write") THEN emit[t].key ELSE emit[t].bytes
           p == emit[t].path IN
         \E c \in {own} \cup (IF Writing(p) = {t} THEN {} ELSE {Torn}) : file' = [file EXCEPT ![p] = c]
    /\ EmitGoes(t, IF At(t, "rewrite") THEN "ok" ELSE IF emit[t].keyed THEN "check" ELSE "ok")
    /\ UNCHANGED <<assign, settings, store, met, runs>>

\* Codegen or a write fails half way.
Bail(t) == IF emit[t].keyed /\ At(t, "write") THEN "fail" ELSE "err"
WriteFails(t) ==
    /\ emit[t].at \in {"write", "rewrite"}
    /\ EmitGoes(t, Bail(t))
    /\ UNCHANGED <<assign, settings, store, file, met, runs>>

\* exclusive.
Exclusive(p) == ~emitting[p].contended
Check(t) ==
    /\ At(t, "check")
    /\ EmitGoes(t, IF Exclusive(emit[t].path) THEN "read" ELSE "drop")
    /\ UNCHANGED <<assign, settings, store, file, met, runs>>

\* fs::read, which may fail.
Read(t) ==
    /\ At(t, "read")
    /\ \/ emit' = [emit EXCEPT ![t].at = "store", ![t].bytes = file[emit[t].path]]
       \/ EmitGoes(t, "drop")
    /\ UNCHANGED <<assign, settings, store, file, met, runs>>

\* object_store.
Retain(t) ==
    /\ At(t, "store")
    /\ LET k == emit[t].key
           n == Bytes(emit[t].bytes)
           new == k \notin DOMAIN objects IN
         IF enabled
         THEN /\ retained' = Reserved(n, new)
              /\ objects' = IF new /\ Fits(n)
                            THEN [j \in DOMAIN objects \cup {k} |-> IF j = k THEN emit[t].bytes ELSE objects[j]]
                            ELSE objects
         ELSE UNCHANGED <<retained, objects>>
    /\ EmitGoes(t, "drop")
    /\ UNCHANGED <<assign, settings, others, emitting, file, met, runs>>

\* EmitGuard::drop: the entry goes with the last emitter.  Mutant: the contended flag goes with all
\* but one.
CalmEarly(e) == [count |-> IF e.count > 0 THEN e.count - 1 ELSE 0, contended |-> e.contended /\ e.count > 2]
Released(e) == [count |-> IF e.count > 0 THEN e.count - 1 ELSE 0, contended |-> e.contended /\ e.count > 1]
Drop(t) ==
    /\ emit[t].at \in {"drop", "fail"}
    /\ emitting' = [emitting EXCEPT ![emit[t].path] = Released(@)]
    /\ EmitGoes(t, IF At(t, "drop") THEN "ok" ELSE "err")
    /\ UNCHANGED <<assign, settings, objects, others, retained, file, met, runs>>

\* The call returns.
EmitReturns(t) ==
    /\ emit[t].at \in {"ok", "err"}
    /\ emit' = [emit EXCEPT ![t] = NoEmit]
    /\ UNCHANGED <<assign, settings, store, file, met, runs>>

EmitObjectFile(t) ==
    \/ EmitObject(t) \/ ObjectLookup(t) \/ Claim(t) \/ OpenFile(t) \/ WriteFile(t) \/ WriteFails(t) \/ Check(t) \/ Read(t)
    \/ Retain(t) \/ Drop(t) \/ EmitReturns(t)

MemoNext ==
    \/ \E t \in Threads : EmitObjectFile(t)
    \/ SetEnabled \/ SetBudget \/ ClearMemo
    \/ \E k \in Others : RetainOther(k)

MemoSpec == MemoInit /\ [][MemoNext]_memoVars

-----------------------------------------------------------------------------
(***************************************************************************)
(* Properties.                                                             *)
(***************************************************************************)

\* Types of the store, the files and the calls.
MemoTypeOK ==
    /\ assign \in Assignments /\ enabled \in BOOLEAN /\ cap \in Budgets
    /\ DOMAIN objects \subseteq EmitKeys /\ \A k \in DOMAIN objects : objects[k] \in Content
    /\ others \subseteq Others /\ retained \in Nat
    /\ emitting \in [Paths -> [count : 0..Cardinality(Threads), contended : BOOLEAN]]
    /\ file \in [Paths -> Content]
    /\ \A t \in Threads : emit[t].key \in Content /\ emit[t].bytes \in Content /\ emit[t].keyed \in BOOLEAN

\* No two threads emit to one path, as the driver calls emit_object_file.
Private == \A t, u \in Threads : t # u => assign[t] \cap assign[u] = {}

\* What is retained under a key are that key's own bytes: a later hit replays exactly what codegen
\* would have written.  The comment on Store::emitting says this is enforced for emissions that share
\* a path, too; one that begins between another's check and its read-back breaks it.
RetainedIsOwn == \A k \in DOMAIN objects : objects[k] = k

\* A call that returns success has left its own object in the file.
OutputRight == \A t \in Threads : At(t, "ok") => file[emit[t].path] = emit[t].key

\* An emission that met another on its path before its own check neither reads the file back nor
\* retains it, also when all the others have ended by then.  One that is met after its check does.
OverlapSkips == \A t \in met : emit[t].at \notin {"read", "store"}

\* The emitters of a path are counted while they hold their guards, whatever is cleared meanwhile.
GuardsCounted == \A p \in Paths : emitting[p].count = Cardinality(Holders(p))

\* The memo: emitters of a path are counted through clear, and one that met another before its own
\* check retains nothing; with a path per thread, what is retained under a key is that key's object,
\* and a successful call has left its own object in its file (emit_object_file, begin_emit, EmitGuard).
MemoRight ==
    /\ MemoTypeOK /\ GuardsCounted /\ OverlapSkips
    /\ Private => RetainedIsOwn /\ OutputRight

\* retained_bytes is what is retained, through refusals, duplicates and clear.
Charged == retained = Cardinality(others) + MapThenSumSet(LAMBDA k : Bytes(objects[k]), DOMAIN objects)
=============================================================================
