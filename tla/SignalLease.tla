----------------------------- MODULE SignalLease -----------------------------
(***************************************************************************)
(* The process-global signal subscription of                               *)
(* crates/align_runtime/src/process_signal.rs: one lease at a time         *)
(* installs the runtime's handler for the selected signals.  A handler     *)
(* runs on any thread, at any moment, and shares one atomic word with the  *)
(* owner: a generation, the selected bits and the pending bits.  A handler *)
(* delayed across a close may find a later lease.                          *)
(***************************************************************************)
EXTENDS Naturals, FiniteSets, FiniteSetsExt

CONSTANTS Clients,         \* threads that create subscriptions
          Handlers,        \* handler invocations that may be in progress
          NumSignals,      \* 4 in the runtime: HUP, INT, QUIT, TERM
          GENERATION_MAX,  \* 2^56 - 1 in the runtime
          Nobody           \* no holder of the creation lock

ASSUME SignalLeaseAssumption ==
    /\ NumSignals \in Nat \ {0}
    /\ GENERATION_MAX \in Nat
    /\ Nobody \notin Clients

Signals == 0..(NumSignals - 1)
Words == [gen : 0..GENERATION_MAX, sel : SUBSET Signals, pend : SUBSET Signals]
Actions == {"prior", "ours", "foreign"}     \* sigaction dispositions

VARIABLES
    word,        \* WORD: one atomic
    reserved,    \* the value RESERVED guards
    lock,        \* who holds CREATION and RESERVED
    action,      \* the kernel's disposition of each signal
    sub,         \* each client's Subscription
    pc,          \* each client's control
    idx,         \* index of the loop the lock holder is in
    collected,   \* pending signals its restore() has gathered
    seen,        \* the word next() compares with
    hpc, hsig, hgen, hobs,   \* each handler: control, signal, captured generation, observed word
    unseen,      \* history: published and not yet returned, raised or discarded
    loaded       \* history: signals whose handler loaded the word in this lease

clientVars == <<reserved, lock, sub, pc, idx, collected, seen>>
handlerVars == <<hpc, hsig, hgen, hobs>>
vars == <<word, action, clientVars, handlerVars, unseen, loaded>>

Idle == [state |-> "none", gen |-> 0, selection |-> {}, installed |-> {},
         previous |-> [s \in Signals |-> "prior"]]

NoWord == [gen |-> 0, sel |-> {}, pend |-> {}]

Active == {c \in Clients : sub[c].state \in {"creating", "open", "closing", "dropping"}}

Init == /\ word = NoWord
        /\ reserved = FALSE
        /\ lock = Nobody
        /\ action = [s \in Signals |-> "prior"]
        /\ sub = [c \in Clients |-> Idle]
        /\ pc = [c \in Clients |-> "idle"]
        /\ idx = 0
        /\ collected = {}
        /\ seen = NoWord
        /\ hpc = [h \in Handlers |-> "idle"]
        /\ hsig = [h \in Handlers |-> 0]
        /\ hgen = [h \in Handlers |-> 0]
        /\ hobs = [h \in Handlers |-> NoWord]
        /\ unseen = {}
        /\ loaded = {}

Goto(c, l) == pc' = [pc EXCEPT ![c] = l]

(* fetch_and(!(bit | bit << 4)) *)
Disable(s) == [word EXCEPT !.sel = @ \ {s}, !.pend = @ \ {s}]

-----------------------------------------------------------------------------
(* create().  Its refusals (bad selection, a blocked signal, a held        *)
(* reservation, an exhausted generation, a failed query) change nothing.   *)

(* Whether create() may take the lease. *)
MayReserve == ~reserved /\ word.gen # GENERATION_MAX

(* The generation of a new lease. *)
NextGeneration == word.gen + 1

Create(c, selection) ==
    /\ pc[c] = "idle" /\ sub[c].state = "none"
    /\ lock = Nobody
    /\ MayReserve
    /\ selection # {}
    /\ lock' = c
    /\ reserved' = TRUE
    /\ word' = [gen |-> NextGeneration, sel |-> {}, pend |-> {}]
    /\ sub' = [sub EXCEPT ![c] = [state |-> "creating", gen |-> NextGeneration,
                                  selection |-> selection, installed |-> {},
                                  previous |-> action]]
    /\ idx' = Min(selection)
    /\ loaded' = {}
    /\ Goto(c, "select")
    /\ UNCHANGED <<action, collected, seen, handlerVars, unseen>>

Select(c) ==
    /\ pc[c] = "select"
    /\ word' = [word EXCEPT !.sel = @ \cup {idx}]
    /\ Goto(c, "install")
    /\ UNCHANGED <<reserved, lock, action, sub, idx, collected, seen, handlerVars,
                   unseen, loaded>>

Install(c) ==
    /\ pc[c] = "install"
    /\ action' = [action EXCEPT ![idx] = "ours"]
    /\ LET rest == {s \in sub[c].selection : s > idx}
       IN /\ sub' = [sub EXCEPT ![c].installed = @ \cup {idx},
                                ![c].state = IF rest = {} THEN "open" ELSE @]
          /\ IF rest = {}
               THEN /\ lock' = Nobody
                    /\ idx' = 0
                    /\ Goto(c, "idle")
               ELSE /\ idx' = Min(rest)
                    /\ Goto(c, "select")
                    /\ UNCHANGED lock
    /\ UNCHANGED <<word, reserved, collected, seen, handlerVars, unseen, loaded>>

InstallFails(c) ==
    /\ pc[c] = "install"
    /\ Goto(c, "unselect")
    /\ UNCHANGED <<word, reserved, lock, action, sub, idx, collected, seen,
                   handlerVars, unseen, loaded>>

Unselect(c) ==
    /\ pc[c] = "unselect"
    /\ word' = Disable(idx)
    /\ collected' = word.pend \cap {idx}
    /\ Goto(c, "restore")
    /\ UNCHANGED <<reserved, lock, action, sub, idx, seen, handlerVars, unseen, loaded>>

(* The signals raised again once a failed create() has restored everything. *)
Raise(c) ==
    /\ pc[c] = "raise"
    /\ collected # {}
    /\ collected' = collected \ {Min(collected)}
    /\ unseen' = unseen \ {Min(collected)}
    /\ UNCHANGED <<word, reserved, lock, action, sub, pc, idx, seen, handlerVars, loaded>>

CreateFails(c) ==
    /\ pc[c] = "raise"
    /\ collected = {}
    /\ lock' = Nobody
    /\ sub' = [sub EXCEPT ![c] = Idle]
    /\ Goto(c, "idle")
    /\ UNCHANGED <<word, reserved, action, idx, collected, seen, handlerVars, unseen,
                   loaded>>
-----------------------------------------------------------------------------
(* restore(): in reverse order, query, put back, clear the bits *)

(* Whether restore() is through. *)
Restored(c) == sub[c].installed = {}

Query(c) ==
    /\ pc[c] = "restore"
    /\ ~Restored(c)
    /\ idx' = Max(sub[c].installed)
    /\ action[idx'] = "ours"
    /\ Goto(c, "put")
    /\ UNCHANGED <<word, reserved, lock, action, sub, collected, seen, handlerVars,
                   unseen, loaded>>

PutBack(c) ==
    /\ pc[c] = "put"
    /\ action' = [action EXCEPT ![idx] = sub[c].previous[idx]]
    /\ Goto(c, "clear")
    /\ UNCHANGED <<word, reserved, lock, sub, idx, collected, seen, handlerVars,
                   unseen, loaded>>

(* What restore() keeps of the word it cleared. *)
Gathered(s) == collected \cup (word.pend \cap {s})

Clear(c) ==
    /\ pc[c] = "clear"
    /\ word' = Disable(idx)
    /\ collected' = Gathered(idx)
    /\ sub' = [sub EXCEPT ![c].installed = @ \ {idx}]
    /\ unseen' = IF sub[c].state = "creating" THEN unseen ELSE unseen \ {idx}
    /\ Goto(c, "restore")
    /\ UNCHANGED <<reserved, lock, action, idx, seen, handlerVars, loaded>>

(* A failed or refused sigaction, or a foreign disposition: close() keeps  *)
(* the owner and the reservation, a rollback or a Drop aborts.             *)
RestoreFails(c) ==
    /\ \/ pc[c] = "restore" /\ ~Restored(c)
       \/ pc[c] = "put"
    /\ idx' = 0
    /\ IF sub[c].state = "closing"
         THEN /\ lock' = Nobody
              /\ collected' = {}
              /\ sub' = [sub EXCEPT ![c].state = "open"]
              /\ Goto(c, "idle")
         ELSE /\ Goto(c, "aborted")
              /\ UNCHANGED <<lock, sub, collected>>
    /\ UNCHANGED <<word, reserved, action, seen, handlerVars, unseen, loaded>>

(* fetch_and(!255) and the release of the reservation. *)
Release(c) ==
    /\ pc[c] = "restore"
    /\ Restored(c)
    /\ word' = [word EXCEPT !.sel = {}, !.pend = {}]
    /\ reserved' = FALSE
    /\ idx' = 0
    /\ IF sub[c].state = "creating"
         THEN /\ sub' = [sub EXCEPT ![c].state = "closed"]
              /\ Goto(c, "raise")
              /\ UNCHANGED <<lock, collected, unseen>>
         ELSE /\ sub' = IF sub[c].state = "closing"
                          THEN [sub EXCEPT ![c].state = "closed"]
                          ELSE [sub EXCEPT ![c] = Idle]
              /\ lock' = Nobody
              /\ collected' = {}
              /\ unseen' = {}
              /\ Goto(c, "idle")
    /\ UNCHANGED <<action, seen, handlerVars, loaded>>
-----------------------------------------------------------------------------
(* close(), Drop and next() by the owner *)

Close(c, how) ==
    /\ pc[c] = "idle" /\ sub[c].state = "open"
    /\ lock = Nobody
    /\ reserved /\ word.gen = sub[c].gen
    /\ lock' = c
    /\ sub' = [sub EXCEPT ![c].state = how]
    /\ Goto(c, "restore")
    /\ UNCHANGED <<word, reserved, action, idx, collected, seen, handlerVars, unseen,
                   loaded>>

FreeClosed(c) ==
    /\ pc[c] = "idle" /\ sub[c].state = "closed"
    /\ sub' = [sub EXCEPT ![c] = Idle]
    /\ UNCHANGED <<word, reserved, lock, action, pc, idx, collected, seen,
                   handlerVars, unseen, loaded>>

NextLoad(c) ==
    /\ pc[c] = "idle" /\ sub[c].state = "open"
    /\ seen' = word
    /\ Goto(c, "next")
    /\ UNCHANGED <<word, reserved, lock, action, sub, idx, collected, handlerVars,
                   unseen, loaded>>

(* compare_exchange. *)
UnchangedSince(observed) == word = observed

(* One iteration of next(): Err on another generation, None, a signal, or  *)
(* another try with the current word.                                      *)
NextTry(c) ==
    /\ pc[c] = "next"
    /\ LET pending == seen.pend \cap seen.sel
       IN IF seen.gen # sub[c].gen \/ pending = {}
            THEN /\ Goto(c, "idle")
                 /\ seen' = NoWord
                 /\ UNCHANGED <<word, unseen>>
            ELSE IF UnchangedSince(seen)
            THEN /\ word' = [seen EXCEPT !.pend = @ \ {Min(pending)}]
                 /\ unseen' = unseen \ {Min(pending)}
                 /\ Goto(c, "idle")
                 /\ seen' = NoWord
            ELSE /\ seen' = word
                 /\ UNCHANGED <<word, unseen, pc>>
    /\ UNCHANGED <<reserved, lock, action, sub, idx, collected, handlerVars, loaded>>
-----------------------------------------------------------------------------
(* The kernel, the handler observe()/publish(), and foreign code *)

Deliver(h, s) ==
    /\ hpc[h] = "idle"
    /\ action[s] = "ours"
    /\ hpc' = [hpc EXCEPT ![h] = "load"]
    /\ hsig' = [hsig EXCEPT ![h] = s]
    /\ UNCHANGED <<word, action, clientVars, hgen, hobs, unseen, loaded>>

Load(h) ==
    /\ hpc[h] = "load"
    /\ hobs' = [hobs EXCEPT ![h] = word]
    /\ hgen' = [hgen EXCEPT ![h] = word.gen]
    /\ hpc' = [hpc EXCEPT ![h] = "publish"]
    /\ loaded' = loaded \cup {hsig[h]}
    /\ UNCHANGED <<word, action, clientVars, hsig, unseen>>

(* The loop condition of publish().  Mutant: the captured generation is    *)
(* not compared again.                                                     *)
StillActiveAnyGeneration(h) == hgen[h] # 0 /\ hsig[h] \in hobs[h].sel
StillActive(h) ==
    /\ hgen[h] # 0
    /\ hobs[h].gen = hgen[h]
    /\ hsig[h] \in hobs[h].sel

(* The handler returns; its locals are gone. *)
Done(h) == /\ hpc' = [hpc EXCEPT ![h] = "idle"]
           /\ hsig' = [hsig EXCEPT ![h] = 0]
           /\ hgen' = [hgen EXCEPT ![h] = 0]
           /\ hobs' = [hobs EXCEPT ![h] = NoWord]

Publish(h) ==
    /\ hpc[h] = "publish"
    /\ IF ~StillActive(h)
         THEN Done(h) /\ UNCHANGED <<word, unseen>>
         ELSE IF word = hobs[h]
         THEN /\ word' = [word EXCEPT !.pend = @ \cup {hsig[h]}]
              /\ unseen' = unseen \cup {hsig[h]}
              /\ Done(h)
         ELSE /\ hobs' = [hobs EXCEPT ![h] = word]
              /\ UNCHANGED <<word, hpc, hsig, hgen, unseen>>
    /\ UNCHANGED <<action, clientVars, loaded>>

(* Foreign code replaces an installed handler and may put it back. *)
Foreign(s) ==
    /\ \/ action[s] = "ours" /\ action' = [action EXCEPT ![s] = "foreign"]
       \/ action[s] = "foreign" /\ action' = [action EXCEPT ![s] = "ours"]
    /\ UNCHANGED <<word, clientVars, handlerVars, unseen, loaded>>
-----------------------------------------------------------------------------
CreateStep(c) == \/ \E selection \in SUBSET Signals : Create(c, selection)
                 \/ Select(c) \/ Install(c) \/ InstallFails(c) \/ Unselect(c)
                 \/ Raise(c) \/ CreateFails(c)

RestoreStep(c) == Query(c) \/ PutBack(c) \/ Clear(c) \/ RestoreFails(c) \/ Release(c)

OwnerStep(c) == \/ \E how \in {"closing", "dropping"} : Close(c, how)
                \/ FreeClosed(c) \/ NextLoad(c) \/ NextTry(c)

HandlerStep(h) == (\E s \in Signals : Deliver(h, s)) \/ Load(h) \/ Publish(h)

Alive == \A c \in Clients : pc[c] # "aborted"

Next == /\ Alive
        /\ \/ \E c \in Clients : CreateStep(c) \/ RestoreStep(c) \/ OwnerStep(c)
           \/ \E h \in Handlers : HandlerStep(h)
           \/ \E s \in Signals : Foreign(s)

Spec == Init /\ [][Next]_vars
-----------------------------------------------------------------------------
(* Properties *)

(* Every variable keeps its type; the lock holder is in a locked section. *)
TypeOK ==
    /\ word \in Words
    /\ reserved \in BOOLEAN
    /\ lock \in Clients \cup {Nobody}
    /\ action \in [Signals -> Actions]
    /\ sub \in [Clients -> [state : {"none", "creating", "open", "closing", "dropping", "closed"},
                            gen : 0..GENERATION_MAX, selection : SUBSET Signals,
                            installed : SUBSET Signals, previous : [Signals -> Actions]]]
    /\ pc \in [Clients -> {"idle", "select", "install", "unselect", "raise", "restore",
                           "put", "clear", "next", "aborted"}]
    /\ idx \in Signals
    /\ collected \in SUBSET Signals
    /\ seen \in Words
    /\ hpc \in [Handlers -> {"idle", "load", "publish"}]
    /\ hsig \in [Handlers -> Signals]
    /\ hgen \in [Handlers -> 0..GENERATION_MAX]
    /\ hobs \in [Handlers -> Words]
    /\ unseen \in SUBSET Signals
    /\ loaded \in SUBSET Signals

(* There is one process-global reservation: at most one subscription is    *)
(* alive, the reservation is held exactly as long, and the word carries    *)
(* its generation, so its next(), close() and Drop are never refused.      *)
OneLease ==
    /\ \A c, d \in Active : c = d
    /\ reserved <=> Active # {}
    /\ \A c \in Active : sub[c].gen = word.gen

(* While the runtime's handler is installed for a signal, an owner will    *)
(* restore it and the word admits its publications; a finished or failed   *)
(* lease leaves no handler behind, and signals are raised again only under *)
(* restored dispositions.                                                  *)
HandlersOwned ==
    \A s \in Signals : action[s] = "ours" =>
        \E c \in Active : s \in sub[c].installed /\ s \in word.sel

(* A handler that captured an old generation never publishes into a new    *)
(* lease: every pending bit was set by a handler that loaded the word      *)
(* during this lease.                                                      *)
PendingIsFresh == word.pend \subseteq loaded

(* A published signal is returned by next(), discarded by a close, or      *)
(* raised again by a failed create(): concurrent compare-exchanges of      *)
(* handlers and next() lose none, and a rollback leaves none behind.       *)
NothingLost ==
    /\ unseen \subseteq word.pend \cup collected
    /\ lock = Nobody => unseen \subseteq word.pend

(* The subscription: one lease at a time, whose handlers an owner will     *)
(* restore; a handler delayed across a close never publishes into a later  *)
(* lease; no published signal is lost between the compare-exchanges of     *)
(* handlers, next() and a rollback.                                        *)
LeaseExact == TypeOK /\ OneLease /\ HandlersOwned /\ PendingIsFresh /\ NothingLost
=============================================================================
