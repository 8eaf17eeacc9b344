-------------------------- MODULE TaskGroupProofs ---------------------------
(***************************************************************************)
(* Proofs about TaskGroup for every finite pool and every bound.  Control  *)
(* relates program counters to the generation a thread holds and makes     *)
(* typing inductive; Ledger says where every registered task is (queued,   *)
(* held in exactly one batch, or published) and what completed counts.     *)
(***************************************************************************)
EXTENDS TaskGroup, FiniteSetTheorems, SequenceTheorems, TLAPS

(* A thread inside run or join holds a generation. *)
Holding ==
    /\ \A t \in Threads : pc[t] \in {"claim", "exec"} => run[t] \in Gens
    /\ pc[Caller] \in {"join", "joinwait"} => run[Caller] \in Gens
    /\ pc[Caller] \in {"submit", "notify"} => generation \in Gens

(* The caller joins at most one generation, which is then no longer open,  *)
(* and the arena outlives every join.                                      *)
CallerPhase ==
    /\ run[Caller] # NoGen => /\ pc[Caller] \in {"claim", "exec", "join", "joinwait"}
                              /\ generation = NoGen
    /\ pc[Caller] \in {"reclaim", "ended"} => generation = NoGen
    /\ arena = "freed" => pc[Caller] = "ended"
    /\ generation <= gens
    /\ run[Caller] <= gens

(* Every opened generation is answered, open, or being joined. *)
Opened ==
    \A g \in Gens :
        /\ g > gens => registered[g] = 0 /\ answer[g] = NoAnswer
        /\ g <= gens => answer[g] # NoAnswer \/ g = generation \/ g = run[Caller]
        /\ answer[g] # NoAnswer => g # generation /\ g # run[Caller]

Control == Holding /\ CallerPhase /\ Opened

(* Tasks are claimed in spawn order: the first Front(g) have been claimed. *)
Front(g) == registered[g] - Len(pending[g])

HeldBy(g, i) == \E t \in Threads : run[t] = g /\ i \in claimed[t]

(* Tasks whose completion has been published. *)
Done(g) == {i \in Indices : i < Front(g) /\ ~HeldBy(g, i)}

QueueIsTail ==
    \A g \in Gens :
        /\ Len(pending[g]) <= registered[g]
        /\ \A k \in 1..Len(pending[g]) : pending[g][k] = Front(g) + k - 1
        /\ \A i \in Indices : i >= Front(g) => outcome[g][i] = Unrun

BatchesHold ==
    \A t \in Threads :
        /\ pc[t] # "exec" => claimed[t] = {} /\ batch[t] = <<>>
        /\ \A i \in claimed[t] :
              /\ i < Front(run[t])
              /\ outcome[run[t]][i] = Unrun => \E k \in 1..Len(batch[t]) : batch[t][k] = i
        /\ \A k \in 1..Len(batch[t]) :
              /\ batch[t][k] \in claimed[t]
              /\ outcome[run[t]][batch[t][k]] = Unrun
              /\ \A j \in 1..Len(batch[t]) : batch[t][j] = batch[t][k] => j = k

BatchesDisjoint ==
    \A t, u \in Threads :
        t # u /\ run[t] = run[u] => claimed[t] \cap claimed[u] = {}

Counted ==
    \A g \in Gens :
        /\ completed[g] = Cardinality(Done(g))
        /\ \A i \in Done(g) : outcome[g][i] # Unrun
        /\ answer[g] # NoAnswer => completed[g] = registered[g]

Ledger == QueueIsTail /\ BatchesHold /\ BatchesDisjoint /\ Counted

-----------------------------------------------------------------------------
(* Facts about the operators *)

(* What SubSeq gives on the two parts of a sequence. *)
LEMMA SplitSeq ==
    ASSUME NEW S, NEW s \in Seq(S), NEW n \in 1..Len(s)
    PROVE  /\ Len(SubSeq(s, 1, n)) = n
           /\ \A k \in 1..n : SubSeq(s, 1, n)[k] = s[k]
           /\ Len(SubSeq(s, n + 1, Len(s))) = Len(s) - n
           /\ \A k \in 1..(Len(s) - n) : SubSeq(s, n + 1, Len(s))[k] = s[n + k]
<1>1. Len(s) \in Nat /\ n \in Nat /\ n >= 1 /\ n <= Len(s)
  OBVIOUS
<1>2. \A k \in 1..n : s[k] \in S /\ 1 + k - 1 = k
  BY <1>1, ElementOfSeq
<1>3. \A k \in (n + 1)..Len(s) : s[k] \in S
  BY <1>1, ElementOfSeq
<1>4. /\ Len(SubSeq(s, 1, n)) = n
      /\ \A k \in 1..(n - 1 + 1) : SubSeq(s, 1, n)[k] = s[1 + k - 1]
  BY <1>1, <1>2, SubSeqProperties
<1>5. /\ Len(SubSeq(s, n + 1, Len(s))) = IF n + 1 <= Len(s) THEN Len(s) - (n + 1) + 1 ELSE 0
      /\ \A k \in 1..(Len(s) - (n + 1) + 1) : SubSeq(s, n + 1, Len(s))[k] = s[n + 1 + k - 1]
  <2>1. n + 1 \in Int /\ Len(s) \in Int
    BY ONLY <1>1
  <2> QED BY ONLY <1>3, <2>1, SubSeqProperties
<1>6. /\ n - 1 + 1 = n /\ Len(s) - (n + 1) + 1 = Len(s) - n
      /\ \A k \in Nat : n + 1 + k - 1 = n + k
      /\ (IF n + 1 <= Len(s) THEN Len(s) - (n + 1) + 1 ELSE 0) = Len(s) - n
  BY ONLY <1>1
<1>7. \A k \in 1..(Len(s) - n) : SubSeq(s, n + 1, Len(s))[k] = s[n + k]
  <2>1. \A k \in 1..(Len(s) - n) : k \in Nat /\ k \in 1..(Len(s) - (n + 1) + 1)
    BY ONLY <1>1
  <2> QED BY <1>5, <1>6, <2>1
<1> QED BY ONLY <1>2, <1>4, <1>5, <1>6, <1>7

(* Rounding up a division by c keeps 1..n within 1..n. *)
LEMMA DivCeilBounds ==
    ASSUME NEW n \in Nat \ {0}, NEW c \in Nat \ {0}
    PROVE  DivCeil(n, c) \in 1..n
<1> DEFINE q == (n + c - 1) \div c
           r == (n + c - 1) % c
<1>1. q \in Int /\ r \in 0..(c - 1) /\ n + c - 1 = c * q + r
  OBVIOUS
<1>2. q >= 1
  <2>1. SUFFICES ASSUME q <= 0 PROVE FALSE
    BY <1>1
  <2>2. c * q <= 0
    BY <1>1, <2>1
  <2> QED BY <1>1, <2>2
<1>3. q <= n
  <2>1. SUFFICES ASSUME q >= n + 1 PROVE FALSE
    BY <1>1
  <2>2. c * q >= c * (n + 1)
    BY <1>1, <2>1
  <2>3. c * (n + 1) = c * n + c
    OBVIOUS
  <2>4. c * n >= n
    OBVIOUS
  <2> QED BY <1>1, <2>2, <2>3, <2>4
<1> QED BY <1>1, <1>2, <1>3 DEF DivCeil

(* The pool has at least one worker. *)
LEMMA SomeWorker == WorkerCount \in Nat \ {0}
  BY TaskGroupAssumption, FS_CardinalityType, FS_EmptySet DEF WorkerCount

(* A claim takes at least one and at most all of the pending tasks. *)
LEMMA BatchSize ==
    ASSUME NEW n \in Nat \ {0}
    PROVE  tg_claim_batch_size(n, WorkerCount) \in 1..n
<1>1. WorkerCount * TG_OVERSUBSCRIPTION \in Nat \ {0}
  BY SomeWorker DEF TG_OVERSUBSCRIPTION
<1> QED BY <1>1, SomeWorker, DivCeilBounds DEF tg_claim_batch_size

-----------------------------------------------------------------------------
(* Typing and control *)

(* What the proofs need of the constants and of the threads. *)
LEMMA Constants ==
    /\ Gens \subseteq Nat \ {0} /\ NoGen \notin Gens /\ NoGen = 0
    /\ Indices = 0..(MaxTasks - 1) /\ MaxTasks \in Nat /\ Null = MaxTasks
    /\ Caller \in Threads /\ Caller \notin Workers
    /\ Threads = Workers \cup {Caller}
  BY TaskGroupAssumption DEF Gens, NoGen, Indices, Null, Threads

(* The initial state is well typed and in control. *)
LEMMA TypeInit == Init => TypeOK /\ Control
<1> SUFFICES ASSUME Init PROVE TypeOK /\ Control
  OBVIOUS
<1>1. GroupTypeOK
  <2>1. gens \in 0..MaxGens
    BY TaskGroupAssumption DEF Init
  <2>2. <<>> \in Seq(Gens \X Indices)
    OBVIOUS
  <2> QED BY <2>1, <2>2 DEF Init, GroupTypeOK
<1>2. GenerationTypeOK
  BY Constants DEF Init, GenerationTypeOK
<1>3. ControlTypeOK
  BY Constants DEF Init, ControlTypeOK, CallerPCs, WorkerPCs
<1>4. LocalTypeOK /\ HistoryTypeOK
  BY Constants DEF Init, LocalTypeOK, HistoryTypeOK, NoAnswer
<1>5. Control
  BY Constants DEF Init, Control, Holding, CallerPhase, Opened
<1> QED BY <1>1, <1>2, <1>3, <1>4, <1>5 DEF TypeOK

(* Registering keeps typing and control. *)
LEMMA RegisterTypeStep ==
    ASSUME TypeOK, Control, NEW owned \in BOOLEAN, Register(owned)
    PROVE  TypeOK' /\ Control'
<1> DEFINE g == IF generation = NoGen THEN gens + 1 ELSE generation
           i == registered[g]
<1>1. /\ g \in Gens /\ i < MaxTasks /\ generation' = g
      /\ gens' = IF generation = NoGen THEN g ELSE gens
      /\ result_cleanup' = IF owned THEN Append(result_cleanup, <<g, i>>)
                                    ELSE result_cleanup
      /\ registered' = [registered EXCEPT ![g] = @ + 1]
      /\ pending' = [pending EXCEPT ![g] = Append(@, i)]
      /\ helpers' \in {helpers, [helpers EXCEPT ![g] = @ + 1]}
      /\ pc[Caller] = "user"
      /\ pc' \in {pc, [pc EXCEPT ![Caller] = "submit"]}
  BY DEF Register
<1>2. UNCHANGED <<arena, dropped, completed, error, panic, queue, run,
                  localVars, ending, history>>
  BY DEF Register
<1> HIDE DEF g
<1>3. i \in Indices /\ registered[g] + 1 \in 0..MaxTasks
  BY <1>1, Constants DEF TypeOK, GenerationTypeOK
<1>4. gens' \in 0..MaxGens
  BY <1>1 DEF TypeOK, GroupTypeOK, Gens
<1>5. GroupTypeOK'
  BY <1>1, <1>2, <1>3, <1>4 DEF TypeOK, GroupTypeOK
<1>6. GenerationTypeOK'
  BY <1>1, <1>2, <1>3 DEF TypeOK, GenerationTypeOK
<1>7. ControlTypeOK'
  BY <1>1, <1>2, Constants DEF TypeOK, ControlTypeOK, CallerPCs
<1>8. LocalTypeOK' /\ HistoryTypeOK'
  BY <1>2 DEF TypeOK, LocalTypeOK, HistoryTypeOK, localVars, history
<1>9. /\ g <= gens' /\ gens <= gens' /\ run[Caller] <= gens'
      /\ \A h \in Gens : h <= gens' => h <= gens \/ h = g
  BY <1>1, Constants
  DEF TypeOK, GroupTypeOK, ControlTypeOK, Control, CallerPhase, g
<1>10. run[Caller] = NoGen /\ answer[g] = NoAnswer
  BY <1>1, Constants
  DEF TypeOK, GroupTypeOK, ControlTypeOK, Control, CallerPhase, Opened, g
<1>11. Holding'
  BY <1>1, <1>2, Constants DEF TypeOK, ControlTypeOK, Control, Holding
<1>12. CallerPhase'
  BY <1>1, <1>2, <1>9, <1>10, Constants
  DEF TypeOK, GroupTypeOK, ControlTypeOK, Control, CallerPhase
<1>13. Opened'
  <2> SUFFICES ASSUME NEW h \in Gens
               PROVE  /\ h > gens' => registered'[h] = 0 /\ answer[h] = NoAnswer
                      /\ h <= gens' => answer[h] # NoAnswer \/ h = g \/ h = run[Caller]
                      /\ answer[h] # NoAnswer => h # g /\ h # run[Caller]
    BY <1>1, <1>2 DEF Opened, history
  <2>1. h # g => registered'[h] = registered[h]
    BY <1>1 DEF TypeOK, GenerationTypeOK
  <2>2. h > gens' => h > gens /\ h # g
    BY <1>4, <1>9, Constants DEF TypeOK, GroupTypeOK
  <2>3. generation # g => generation = NoGen
    BY DEF g
  <2> QED BY <1>9, <1>10, <2>1, <2>2, <2>3, Constants DEF Control, Opened
<1> QED BY <1>5, <1>6, <1>7, <1>8, <1>11, <1>12, <1>13 DEF TypeOK, Control

(* The caller's other steps keep typing and control. *)
LEMMA CallerTypeStep ==
    ASSUME TypeOK, Control, Wait \/ End \/ CallerInternal
    PROVE  TypeOK' /\ Control'
<1> USE Constants DEF genVars, groupVars, localVars, history
<1>1. CASE Submit
  <2>1. /\ generation \in Gens /\ pc[Caller] = "submit"
        /\ pc' = [pc EXCEPT ![Caller] = "notify"]
        /\ queue' = Append(queue, generation)
        /\ UNCHANGED <<genVars, groupVars, localVars, history, run, ending>>
    BY <1>1 DEF Submit, Control, Holding
  <2>2. ControlTypeOK'
    BY <2>1 DEF TypeOK, ControlTypeOK, CallerPCs
  <2>3. TypeOK'
    BY <2>1, <2>2 DEF TypeOK, GroupTypeOK, GenerationTypeOK, LocalTypeOK, HistoryTypeOK
  <2>4. Control'
    BY <2>1 DEF TypeOK, ControlTypeOK, Control, Holding, CallerPhase, Opened
  <2> QED BY <2>3, <2>4
<1>2. CASE Notify
  <2>1. /\ pc[Caller] = "notify"
        /\ \/ pc' = [pc EXCEPT ![Caller] = "user"]
           \/ \E w \in Workers : /\ pc[w] = "parked"
                                 /\ pc' = [pc EXCEPT ![Caller] = "user", ![w] = "take"]
        /\ UNCHANGED <<genVars, groupVars, localVars, history, queue, run, ending>>
    BY <1>2 DEF Notify
  <2>2. /\ pc' \in [Threads -> CallerPCs \cup WorkerPCs]
        /\ pc'[Caller] = "user"
        /\ \A w \in Workers : pc'[w] = pc[w] \/ pc'[w] = "take"
    BY <2>1 DEF TypeOK, ControlTypeOK, CallerPCs, WorkerPCs
  <2>3. ControlTypeOK'
    BY <2>1, <2>2 DEF TypeOK, ControlTypeOK, CallerPCs, WorkerPCs
  <2>4. TypeOK'
    BY <2>1, <2>3 DEF TypeOK, GroupTypeOK, GenerationTypeOK, LocalTypeOK, HistoryTypeOK
  <2>5. Control'
    BY <2>1, <2>2 DEF TypeOK, Control, Holding, CallerPhase, Opened
  <2> QED BY <2>4, <2>5
<1>3. ASSUME generation # NoGen, Wait \/ End
      PROVE  TypeOK' /\ Control'
  <2>1. /\ pc[Caller] = "user" /\ generation \in Gens
        /\ pc' = [pc EXCEPT ![Caller] = "claim"]
        /\ run' = [run EXCEPT ![Caller] = generation]
        /\ generation' = NoGen
        /\ ending' \in BOOLEAN
        /\ UNCHANGED <<genVars, gens, result_cleanup, arena, dropped, localVars,
                       history, queue>>
    BY <1>3 DEF Wait, End, TypeOK, GroupTypeOK
  <2>2. ControlTypeOK'
    BY <2>1 DEF TypeOK, ControlTypeOK, CallerPCs
  <2>3. GroupTypeOK'
    BY <2>1 DEF TypeOK, GroupTypeOK
  <2>4. TypeOK'
    BY <2>1, <2>2, <2>3 DEF TypeOK, GenerationTypeOK, LocalTypeOK, HistoryTypeOK
  <2>5. run[Caller] = NoGen
    BY <2>1 DEF Control, CallerPhase
  <2>6. Control'
    BY <2>1, <2>5 DEF TypeOK, ControlTypeOK, GroupTypeOK, Control, Holding, CallerPhase, Opened
  <2> QED BY <2>4, <2>6
<1>4. ASSUME generation = NoGen, Wait \/ End
      PROVE  TypeOK' /\ Control'
  <2>1. /\ pc[Caller] = "user"
        /\ pc' = [pc EXCEPT ![Caller] = "reclaim"]
        /\ ending' \in BOOLEAN
        /\ UNCHANGED <<genVars, groupVars, localVars, history, queue, run>>
    BY <1>4 DEF Wait, End
  <2>2. ControlTypeOK'
    BY <2>1 DEF TypeOK, ControlTypeOK, CallerPCs
  <2>3. TypeOK'
    BY <2>1, <2>2 DEF TypeOK, GroupTypeOK, GenerationTypeOK, LocalTypeOK, HistoryTypeOK
  <2>4. Control'
    BY <1>4, <2>1 DEF TypeOK, ControlTypeOK, Control, Holding, CallerPhase, Opened
  <2> QED BY <2>3, <2>4
<1>5. CASE Join
  <2> DEFINE g == run[Caller]
             a == IF panic[g] # Null THEN <<"panic", panic[g]>>
                                     ELSE <<"slot", error[g]>>
  <2>1. g \in Gens /\ pc[Caller] = "join" /\ generation = NoGen
    BY <1>5 DEF Join, Control, Holding, CallerPhase
  <2>2. UNCHANGED <<pending, registered, completed, helpers, error, groupVars,
                    localVars, outcome, queue, ending>>
    BY <1>5 DEF Join
  <2>3. CASE ~JoinDone(g)
    <3>1. /\ pc' = [pc EXCEPT ![Caller] = "joinwait"]
          /\ UNCHANGED <<panic, answer, run>>
      BY <1>5, <2>3 DEF Join
    <3>2. ControlTypeOK'
      BY <2>2, <3>1 DEF TypeOK, ControlTypeOK, CallerPCs
    <3>3. TypeOK'
      BY <2>2, <3>1, <3>2 DEF TypeOK, GroupTypeOK, GenerationTypeOK, LocalTypeOK, HistoryTypeOK
    <3>4. Control'
      BY <2>1, <2>2, <3>1 DEF TypeOK, ControlTypeOK, Control, Holding, CallerPhase, Opened
    <3> QED BY <3>3, <3>4
  <2>4. CASE JoinDone(g)
    <3>1. /\ panic' = [panic EXCEPT ![g] = Null]
          /\ answer' = [answer EXCEPT ![g] = a]
          /\ run' = [run EXCEPT ![Caller] = NoGen]
          /\ \E c \in {"aborted", "reclaim", "user"} : pc' = [pc EXCEPT ![Caller] = c]
      BY <1>5, <2>4 DEF Join
    <3>2. a \in {"panic", "slot"} \X (Indices \cup {Null}) /\ a # NoAnswer
      BY <2>1 DEF TypeOK, GenerationTypeOK, NoAnswer
    <3> HIDE DEF a
    <3>3. ControlTypeOK'
      BY <2>2, <3>1 DEF TypeOK, ControlTypeOK, CallerPCs
    <3>4. HistoryTypeOK'
      BY <2>1, <2>2, <3>1, <3>2 DEF TypeOK, HistoryTypeOK
    <3>5. TypeOK'
      BY <2>1, <2>2, <3>1, <3>3, <3>4 DEF TypeOK, GroupTypeOK, GenerationTypeOK, LocalTypeOK
    <3>6. Holding'
      BY <2>1, <2>2, <3>1 DEF TypeOK, ControlTypeOK, Control, Holding
    <3>7. CallerPhase'
      BY <2>1, <2>2, <3>1 DEF TypeOK, GroupTypeOK, ControlTypeOK, Control, CallerPhase
    <3>8. Opened'
      BY <2>1, <2>2, <3>1, <3>2
      DEF TypeOK, GroupTypeOK, ControlTypeOK, HistoryTypeOK, Control, CallerPhase, Opened
    <3> QED BY <3>5, <3>6, <3>7, <3>8 DEF Control
  <2> QED BY <2>3, <2>4
<1>6. CASE Reclaim
  <2>1. /\ pc[Caller] = "reclaim"
        /\ pc' = [pc EXCEPT ![Caller] = "ended"]
        /\ dropped' = result_cleanup /\ result_cleanup' = <<>> /\ arena' = "freed"
        /\ UNCHANGED <<genVars, generation, gens, localVars, history, queue, run, ending>>
    BY <1>6 DEF Reclaim
  <2>2. ControlTypeOK'
    BY <2>1 DEF TypeOK, ControlTypeOK, CallerPCs
  <2>3. GroupTypeOK'
    BY <2>1 DEF TypeOK, GroupTypeOK
  <2>4. TypeOK'
    BY <2>1, <2>2, <2>3 DEF TypeOK, GenerationTypeOK, LocalTypeOK, HistoryTypeOK
  <2>5. Control'
    BY <2>1 DEF TypeOK, ControlTypeOK, Control, Holding, CallerPhase, Opened
  <2> QED BY <2>4, <2>5
<1> QED BY <1>1, <1>2, <1>3, <1>4, <1>5, <1>6 DEF CallerInternal

(* So do the workers' steps and the steps of run, whoever takes them. *)
LEMMA RunTypeStep ==
    ASSUME TypeOK, Control, NEW t \in Threads,
           (t \in Workers /\ Take(t)) \/ Run(t) \/ SpuriousWake(t)
    PROVE  TypeOK' /\ Control'
<1> USE Constants DEF genVars, groupVars, localVars, history
<1>1. CASE t \in Workers /\ Take(t)
  <2>1. /\ UNCHANGED <<genVars, groupVars, localVars, history, ending>>
        /\ \/ /\ pc' = [pc EXCEPT ![t] = "parked"]
              /\ UNCHANGED <<queue, run>>
           \/ /\ queue # <<>> /\ queue' = Tail(queue)
              /\ run' = [run EXCEPT ![t] = Head(queue)]
              /\ pc' = [pc EXCEPT ![t] = "claim"]
    BY <1>1 DEF Take
  <2>2. queue # <<>> => Head(queue) \in Gens /\ Tail(queue) \in Seq(Gens)
    BY DEF TypeOK, ControlTypeOK
  <2>3. ControlTypeOK' /\ t # Caller
    BY <1>1, <2>1, <2>2 DEF TypeOK, ControlTypeOK, WorkerPCs
  <2>4. TypeOK'
    BY <2>1, <2>3 DEF TypeOK, GroupTypeOK, GenerationTypeOK, LocalTypeOK, HistoryTypeOK
  <2>5. Control'
    BY <1>1, <2>1, <2>2, <2>3 DEF TypeOK, ControlTypeOK, Control, Holding, CallerPhase, Opened
  <2> QED BY <2>4, <2>5
<1>2. CASE SpuriousWake(t)
  <2>1. /\ pc[t] \in {"parked", "joinwait"}
        /\ pc' = [pc EXCEPT ![t] = IF t = Caller THEN "join" ELSE "take"]
        /\ UNCHANGED <<genVars, groupVars, localVars, history, queue, run, ending>>
    BY <1>2 DEF SpuriousWake
  <2>2. ControlTypeOK'
    BY <2>1 DEF TypeOK, ControlTypeOK, CallerPCs, WorkerPCs
  <2>3. TypeOK'
    BY <2>1, <2>2 DEF TypeOK, GroupTypeOK, GenerationTypeOK, LocalTypeOK, HistoryTypeOK
  <2>4. Control'
    BY <2>1 DEF TypeOK, ControlTypeOK, CallerPCs, Control, Holding, CallerPhase, Opened
  <2> QED BY <2>3, <2>4
<1>3. CASE Claim(t)
  <2> DEFINE g == run[t]
             n == tg_claim_batch_size(Len(pending[g]), WorkerCount)
  <2>1. /\ g \in Gens /\ pc[t] = "claim"
        /\ UNCHANGED <<registered, completed, error, panic, groupVars, history,
                       lerror, lpanic, queue, ending>>
    BY <1>3 DEF Claim, Control, Holding
  <2>2. CASE pending[g] = <<>>
    <3>1. /\ UNCHANGED <<pending, batch, claimed>>
          /\ \/ t = Caller /\ pc' = [pc EXCEPT ![t] = "join"] /\ UNCHANGED <<helpers, run>>
             \/ /\ t # Caller /\ pc' = [pc EXCEPT ![t] = "take"]
                /\ helpers' = [helpers EXCEPT ![g] = @ - 1]
                /\ run' = [run EXCEPT ![t] = NoGen]
      BY <1>3, <2>2 DEF Claim, IsHelper, Retired
    <3>2. ControlTypeOK'
      BY <2>1, <3>1 DEF TypeOK, ControlTypeOK, CallerPCs, WorkerPCs
    <3>3. GenerationTypeOK'
      BY <2>1, <3>1 DEF TypeOK, GenerationTypeOK
    <3>4. TypeOK'
      BY <2>1, <3>1, <3>2, <3>3 DEF TypeOK, GroupTypeOK, LocalTypeOK, HistoryTypeOK
    <3>5. Control'
      BY <2>1, <3>1 DEF TypeOK, ControlTypeOK, Control, Holding, CallerPhase, Opened
    <3> QED BY <3>4, <3>5
  <2>3. CASE pending[g] # <<>>
    <3>1. /\ batch' = [batch EXCEPT ![t] = SubSeq(pending[g], 1, n)]
          /\ pending' = [pending EXCEPT ![g] = Drain(@, n)]
          /\ claimed' = [claimed EXCEPT ![t] = {pending[g][k] : k \in 1..n}]
          /\ pc' = [pc EXCEPT ![t] = "exec"]
          /\ UNCHANGED <<helpers, run>>
      BY <1>3, <2>3 DEF Claim
    <3>2. n \in 1..Len(pending[g]) /\ pending[g] \in Seq(Indices)
      <4>1. pending[g] \in Seq(Indices)
        BY <2>1 DEF TypeOK, GenerationTypeOK
      <4>2. Len(pending[g]) \in Nat \ {0}
        BY <2>3, <4>1
      <4> QED BY <4>1, <4>2, BatchSize
    <3> HIDE DEF n
    <3>3. /\ SubSeq(pending[g], 1, n) \in Seq(Indices)
          /\ Drain(pending[g], n) \in Seq(Indices)
          /\ {pending[g][k] : k \in 1..n} \in SUBSET Indices
      BY <3>2 DEF Drain
    <3>4. GenerationTypeOK' /\ LocalTypeOK'
      BY <2>1, <3>1, <3>3 DEF TypeOK, GenerationTypeOK, LocalTypeOK
    <3>5. ControlTypeOK'
      BY <2>1, <3>1 DEF TypeOK, ControlTypeOK, CallerPCs, WorkerPCs
    <3>6. TypeOK'
      BY <2>1, <3>1, <3>4, <3>5 DEF TypeOK, GroupTypeOK, HistoryTypeOK
    <3>7. Control'
      BY <2>1, <3>1 DEF TypeOK, ControlTypeOK, Control, Holding, CallerPhase, Opened
    <3> QED BY <3>6, <3>7
  <2> QED BY <2>2, <2>3
<1>4. ASSUME NEW o \in Outcomes, Execute(t, o) PROVE TypeOK' /\ Control'
  <2> DEFINE g == run[t]
             i == Head(batch[t])
  <2>1. /\ pc[t] = "exec" /\ batch[t] # <<>>
        /\ outcome' = [outcome EXCEPT ![g][i] = o]
        /\ lerror' \in {lerror, [lerror EXCEPT ![t] = i]}
        /\ lpanic' \in {lpanic, [lpanic EXCEPT ![t] = i]}
        /\ batch' = [batch EXCEPT ![t] = Tail(@)]
        /\ UNCHANGED <<genVars, groupVars, claimed, answer, queue, pc, run, ending>>
    <3>1. /\ lerror' = [lerror EXCEPT ![t] = IF o = "err" THEN KeepFirst(@, i) ELSE @]
          /\ lpanic' = [lpanic EXCEPT ![t] = IF o = "panic" THEN KeepFirst(@, i) ELSE @]
      BY <1>4 DEF Execute
    <3>2. lerror' \in {lerror, [lerror EXCEPT ![t] = i]}
      BY <3>1 DEF KeepFirst, TypeOK, LocalTypeOK
    <3>3. lpanic' \in {lpanic, [lpanic EXCEPT ![t] = i]}
      BY <3>1 DEF KeepFirst, TypeOK, LocalTypeOK
    <3> QED BY <1>4, <3>2, <3>3 DEF Execute
  <2>2. g \in Gens /\ i \in Indices /\ Tail(batch[t]) \in Seq(Indices)
    <3>1. batch[t] \in Seq(Indices) /\ g \in Gens
      BY <2>1 DEF TypeOK, LocalTypeOK, Control, Holding
    <3>2. batch[t] # <<>>
      BY <2>1
    <3> QED BY ONLY <3>1, <3>2, HeadTailProperties
  <2> HIDE DEF i
  <2>3. LocalTypeOK'
    <3>1. batch' \in [Threads -> Seq(Indices)]
      BY ONLY <2>1, <2>2, TypeOK DEF TypeOK, LocalTypeOK
    <3> QED BY ONLY <2>1, <2>2, <3>1, TypeOK, t \in Threads DEF TypeOK, LocalTypeOK
  <2>4. HistoryTypeOK'
    BY <2>1, <2>2 DEF TypeOK, HistoryTypeOK
  <2>5. TypeOK'
    BY <2>1, <2>3, <2>4 DEF TypeOK, GroupTypeOK, GenerationTypeOK, ControlTypeOK
  <2>6. Control'
    BY <2>1 DEF Control, Holding, CallerPhase, Opened
  <2> QED BY <2>5, <2>6
<1>5. CASE Publish(t)
  <2> DEFINE g == run[t]
  <2>1. /\ g \in Gens /\ pc[t] = "exec"
        /\ error' = [error EXCEPT ![g] = Merge(@, lerror[t])]
        /\ panic' = [panic EXCEPT ![g] = Merge(@, lpanic[t])]
        /\ completed' = [completed EXCEPT ![g] = @ + Cardinality(claimed[t])]
        /\ claimed' = [claimed EXCEPT ![t] = {}]
        /\ lerror' = [lerror EXCEPT ![t] = Null]
        /\ lpanic' = [lpanic EXCEPT ![t] = Null]
        /\ UNCHANGED <<pending, registered, helpers, groupVars, batch, history,
                       queue, run, ending>>
    BY <1>5 DEF Publish, Control, Holding
  <2>2. /\ pc' \in [Threads -> CallerPCs \cup WorkerPCs] /\ pc'[t] = "claim"
        /\ \A u \in Threads : \/ u = t \/ pc'[u] = pc[u]
                              \/ u = Caller /\ pc[u] = "joinwait" /\ pc'[u] = "join"
    BY <1>5 DEF Publish, TypeOK, ControlTypeOK, CallerPCs
  <2>3. Cardinality(claimed[t]) \in Nat
    <3>1. claimed[t] \in SUBSET Indices
      BY DEF TypeOK, LocalTypeOK
    <3>2. IsFiniteSet(Indices)
      BY FS_Interval
    <3> QED BY <3>1, <3>2, FS_Subset, FS_CardinalityType
  <2>4. GenerationTypeOK'
    <3>1. /\ Merge(error[g], lerror[t]) \in {error[g], lerror[t]}
          /\ Merge(panic[g], lpanic[t]) \in {panic[g], lpanic[t]}
      BY DEF Merge
    <3>2. error' \in [Gens -> Indices \cup {Null}] /\ panic' \in [Gens -> Indices \cup {Null}]
      BY <2>1, <3>1 DEF TypeOK, GenerationTypeOK, LocalTypeOK
    <3>3. completed' \in [Gens -> Nat]
      <4>1. completed[g] \in Nat
        BY <2>1 DEF TypeOK, GenerationTypeOK
      <4>2. completed[g] + Cardinality(claimed[t]) \in Nat
        BY ONLY <4>1, <2>3
      <4> QED BY ONLY <2>1, <4>2, TypeOK DEF TypeOK, GenerationTypeOK
    <3> QED BY <2>1, <3>2, <3>3 DEF TypeOK, GenerationTypeOK
  <2>5. LocalTypeOK'
    BY <2>1 DEF TypeOK, LocalTypeOK
  <2>6. ControlTypeOK'
    BY <2>1, <2>2 DEF TypeOK, ControlTypeOK, CallerPCs, WorkerPCs
  <2>7. TypeOK'
    BY <2>1, <2>4, <2>5, <2>6 DEF TypeOK, GroupTypeOK, HistoryTypeOK
  <2>8. Control'
    BY <2>1, <2>2 DEF TypeOK, ControlTypeOK, Control, Holding, CallerPhase, Opened
  <2> QED BY <2>7, <2>8
<1> QED BY <1>1, <1>2, <1>3, <1>4, <1>5 DEF Run

(* Typing and control are inductive. *)
LEMMA TypeStep == TypeOK /\ Control /\ [Next]_vars => TypeOK' /\ Control'
<1> SUFFICES ASSUME TypeOK, Control, [Next]_vars PROVE TypeOK' /\ Control'
  OBVIOUS
<1>1. CASE UNCHANGED vars
  BY <1>1 DEF vars, genVars, groupVars, localVars, history, TypeOK, GroupTypeOK,
    GenerationTypeOK, ControlTypeOK, LocalTypeOK, HistoryTypeOK, Control,
    Holding, CallerPhase, Opened
<1>2. CASE Next
  BY <1>2, RegisterTypeStep, CallerTypeStep, RunTypeStep, Constants
  DEF Next, Step, UserCall
<1> QED BY <1>1, <1>2

(* The scheduler's state keeps its shape at every pool size, and every     *)
(* opened generation is answered, open, or being joined.                   *)
THEOREM Typing == Spec => [](TypeOK /\ Control)
  BY TypeInit, TypeStep, PTL DEF Spec

-----------------------------------------------------------------------------
(* The ledger of tasks *)

(* Front is a count of tasks. *)
LEMMA FrontType ==
    ASSUME TypeOK, QueueIsTail, NEW g \in Gens
    PROVE  /\ registered[g] \in 0..MaxTasks
           /\ pending[g] \in Seq(Indices) /\ Len(pending[g]) \in Nat
           /\ Front(g) \in 0..registered[g]
<1>1. registered[g] \in 0..MaxTasks /\ pending[g] \in Seq(Indices)
  BY DEF TypeOK, GenerationTypeOK
<1>2. Len(pending[g]) \in Nat /\ Len(pending[g]) <= registered[g]
  BY <1>1 DEF QueueIsTail
<1> QED BY ONLY <1>1, <1>2, Constants DEF Front

(* A generation whose count is full has every task published: none is      *)
(* queued and none is held.                                                *)
LEMMA FullCount ==
    ASSUME TypeOK, Ledger, NEW g \in Gens, completed[g] = registered[g]
    PROVE  /\ pending[g] = <<>>
           /\ \A i \in Indices : i < registered[g] => outcome[g][i] # Unrun
           /\ \A t \in Threads : run[t] = g => claimed[t] = {}
<1> DEFINE All == 0..(registered[g] - 1)
<1>1. /\ registered[g] \in 0..MaxTasks /\ Len(pending[g]) \in Nat
      /\ Front(g) \in 0..registered[g] /\ pending[g] \in Seq(Indices)
  BY FrontType DEF Ledger
<1>2. Done(g) \in SUBSET All
  BY <1>1, Constants DEF Done
<1>3. IsFiniteSet(All) /\ Cardinality(All) = registered[g]
  <2> DEFINE m == registered[g] - 1
  <2>1. 0 \in Int /\ m \in Int /\ (IF 0 > m THEN 0 ELSE m - 0 + 1) = registered[g]
    BY ONLY <1>1, Constants
  <2> HIDE DEF m
  <2>2. IsFiniteSet(0..m) /\ Cardinality(0..m) = registered[g]
    BY ONLY <2>1, FS_Interval
  <2> QED BY ONLY <2>2 DEF m
<1>4. Cardinality(Done(g)) = registered[g]
  BY DEF Ledger, Counted
<1>5. Done(g) = All
  BY ONLY <1>2, <1>3, <1>4, FS_Subset
<1>6. pending[g] = <<>>
  <2>1. SUFFICES ASSUME Len(pending[g]) > 0 PROVE FALSE
    BY ONLY <1>1, <2>1
  <2>2. registered[g] - 1 \in All /\ registered[g] - 1 >= Front(g)
    BY ONLY <1>1, <2>1, Constants DEF Front
  <2> QED BY ONLY <1>1, <1>5, <2>2, Constants DEF Done
<1>7. ASSUME NEW t \in Threads, run[t] = g, NEW i \in claimed[t] PROVE FALSE
  <2>1. i < Front(g) /\ i \in Indices
    BY <1>7 DEF Ledger, BatchesHold, TypeOK, LocalTypeOK
  <2>2. i \in Done(g)
    BY ONLY <1>1, <1>5, <2>1, Constants
  <2> QED BY <1>7, <2>2 DEF Done, HeldBy
<1>8. \A i \in Indices : i < registered[g] => outcome[g][i] # Unrun
  BY <1>1, <1>5, Constants DEF Ledger, Counted
<1> QED BY <1>6, <1>7, <1>8

(* The initial ledger is empty. *)
LEMMA LedgerInit == Init => Ledger
<1> SUFFICES ASSUME Init PROVE Ledger
  OBVIOUS
<1>1. QueueIsTail
  BY Constants DEF Init, QueueIsTail, Front
<1>2. BatchesHold /\ BatchesDisjoint
  BY Constants DEF Init, BatchesHold, BatchesDisjoint
<1>3. ASSUME NEW g \in Gens PROVE Done(g) = {}
  BY Constants DEF Init, Done, Front
<1>4. Counted
  BY <1>3, FS_EmptySet, Constants DEF Init, Counted
<1> QED BY <1>1, <1>2, <1>4 DEF Ledger

(* A step that moves no task, and changes the generation only of threads   *)
(* that hold none, keeps the ledger.                                       *)
LEMMA LedgerFrame ==
    ASSUME TypeOK, Ledger,
           UNCHANGED <<pending, registered, completed, outcome, batch, claimed>>,
           \A t \in Threads : pc'[t] = "exec" <=> pc[t] = "exec",
           \A t \in Threads : pc[t] = "exec" => run'[t] = run[t],
           \A g \in Gens : answer'[g] # NoAnswer => completed[g] = registered[g]
    PROVE  Ledger' /\ \A h \in Gens : Done(h)' = Done(h)
<1>1. \A g : Front(g)' = Front(g)
  BY DEF Front
<1>2. \A g, i : HeldBy(g, i)' <=> HeldBy(g, i)
  BY DEF Ledger, BatchesHold, HeldBy
<1>3. \A g : Done(g)' = Done(g)
  BY <1>1, <1>2 DEF Done
<1>4. QueueIsTail'
  BY <1>1 DEF Ledger, QueueIsTail
<1>5. BatchesHold'
  BY <1>1 DEF Ledger, BatchesHold
<1>6. BatchesDisjoint'
  BY DEF Ledger, BatchesHold, BatchesDisjoint
<1>7. Counted'
  BY <1>3 DEF Ledger, Counted
<1> QED BY <1>3, <1>4, <1>5, <1>6, <1>7 DEF Ledger

(* Registering appends the next index to the queue. *)
LEMMA RegisterLedger ==
    ASSUME TypeOK, Control, Ledger, NEW owned \in BOOLEAN, Register(owned)
    PROVE  Ledger' /\ \A h \in Gens : Done(h)' = Done(h)
<1> DEFINE g == IF generation = NoGen THEN gens + 1 ELSE generation
<1>1. /\ g \in Gens
      /\ registered' = [registered EXCEPT ![g] = @ + 1]
      /\ pending' = [pending EXCEPT ![g] = Append(@, registered[g])]
      /\ registered[g] < MaxTasks
      /\ pc[Caller] = "user" /\ pc' \in {pc, [pc EXCEPT ![Caller] = "submit"]}
      /\ UNCHANGED <<completed, run, localVars, history>>
  BY DEF Register
<1>2. answer[g] = NoAnswer
  BY <1>1, Constants DEF TypeOK, GroupTypeOK, Control, CallerPhase, Opened
<1> HIDE DEF g
<1>3. ASSUME NEW h \in Gens
      PROVE  /\ registered[h] \in 0..MaxTasks /\ Len(pending[h]) \in Nat
             /\ pending[h] \in Seq(Indices) /\ Front(h) \in 0..registered[h]
             /\ registered'[h] = IF h = g THEN registered[h] + 1 ELSE registered[h]
             /\ pending'[h] = IF h = g THEN Append(pending[h], registered[h]) ELSE pending[h]
  BY <1>1, FrontType DEF TypeOK, GenerationTypeOK, Ledger
<1>4. registered[g] \in Indices
  BY <1>1, <1>3, Constants
<1>5. /\ Len(pending'[g]) = Len(pending[g]) + 1
      /\ pending'[g][Len(pending[g]) + 1] = registered[g]
      /\ \A k \in 1..Len(pending[g]) : pending'[g][k] = pending[g][k]
  <2>1. pending[g] \in Seq(Indices) /\ pending'[g] = Append(pending[g], registered[g])
    BY ONLY <1>1, <1>3
  <2> QED BY ONLY <1>4, <2>1, AppendProperties
<1>6. ASSUME NEW h \in Gens PROVE Front(h)' = Front(h)
  <2>1. CASE h = g
    BY ONLY <1>1, <1>3, <1>5, <2>1 DEF Front
  <2>2. CASE h # g
    BY ONLY <1>3, <2>2, h \in Gens DEF Front
  <2> QED BY <2>1, <2>2
<1>7. QueueIsTail'
  <2> SUFFICES ASSUME NEW h \in Gens
               PROVE  /\ Len(pending'[h]) <= registered'[h]
                      /\ \A k \in 1..Len(pending'[h]) : pending'[h][k] = Front(h) + k - 1
                      /\ \A i \in Indices : i >= Front(h) => outcome[h][i] = Unrun
    BY <1>1, <1>6 DEF QueueIsTail, history
  <2>1. /\ Len(pending[h]) <= registered[h]
        /\ \A k \in 1..Len(pending[h]) : pending[h][k] = Front(h) + k - 1
        /\ \A i \in Indices : i >= Front(h) => outcome[h][i] = Unrun
    BY DEF Ledger, QueueIsTail
  <2>2. CASE h # g
    BY <1>3, <2>1, <2>2
  <2>3. CASE h = g
    <3>1. Front(h) + Len(pending[h]) = registered[h]
      BY <1>3 DEF Front
    <3>2. ASSUME NEW k \in 1..Len(pending'[h]) PROVE pending'[h][k] = Front(h) + k - 1
      <4>1. Len(pending[h]) \in Nat /\ Front(h) \in Nat /\ Len(pending'[h]) = Len(pending[h]) + 1
        BY ONLY <1>3, <1>5, <2>3, h \in Gens
      <4>2. CASE k \in 1..Len(pending[h])
        BY ONLY <1>5, <2>1, <2>3, <4>2
      <4>3. CASE k = Len(pending[h]) + 1
        BY ONLY <1>5, <2>3, <3>1, <4>1, <4>3
      <4> QED BY ONLY <4>1, <4>2, <4>3, k \in 1..Len(pending'[h])
    <3>3. Len(pending'[h]) <= registered'[h]
      BY ONLY <1>3, <1>5, <2>1, <2>3, h \in Gens
    <3> QED BY <2>1, <3>2, <3>3
  <2> QED BY <2>2, <2>3
<1>8. \A t \in Threads : pc'[t] = "exec" <=> pc[t] = "exec"
  BY <1>1 DEF TypeOK, ControlTypeOK
<1>9. \A t \in Threads : claimed[t] # {} => run[t] \in Gens
  BY DEF Control, Holding, Ledger, BatchesHold
<1>10. BatchesHold' /\ BatchesDisjoint'
  BY <1>1, <1>6, <1>8, <1>9 DEF Ledger, BatchesHold, BatchesDisjoint, localVars, history
<1>11. \A h \in Gens : Done(h)' = Done(h)
  BY <1>1, <1>6 DEF Done, HeldBy, localVars
<1>12. Counted'
  BY <1>1, <1>2, <1>3, <1>11 DEF Ledger, Counted, history
<1> QED BY <1>7, <1>10, <1>11, <1>12 DEF Ledger

(* The caller's other steps move no task; a join answers a full count. *)
LEMMA CallerLedger ==
    ASSUME TypeOK, Control, Ledger, Wait \/ End \/ CallerInternal
    PROVE  Ledger' /\ \A h \in Gens : Done(h)' = Done(h)
<1>1. UNCHANGED <<pending, registered, completed, outcome, batch, claimed>>
  BY DEF Wait, End, CallerInternal, Submit, Notify, Join, Reclaim, genVars,
         localVars, history
<1>2. \A t \in Threads : (pc'[t] = "exec" <=> pc[t] = "exec") /\ (pc[t] = "exec" => run'[t] = run[t])
  BY Constants DEF TypeOK, ControlTypeOK, Wait, End, CallerInternal, Submit, Notify, Join, Reclaim
<1>3. ASSUME NEW g \in Gens, answer'[g] # NoAnswer
      PROVE  completed[g] = registered[g]
  <2>1. CASE answer' = answer
    BY <1>3, <2>1 DEF Ledger, Counted
  <2>2. CASE answer' # answer
    <3>1. /\ JoinDone(run[Caller])
          /\ \E a : answer' = [answer EXCEPT ![run[Caller]] = a]
      BY <2>2 DEF Wait, End, CallerInternal, Submit, Notify, Join, Reclaim, history
    <3> QED BY <1>3, <3>1 DEF TypeOK, HistoryTypeOK, Ledger, Counted, JoinDone
  <2> QED BY <2>1, <2>2
<1> QED BY <1>1, <1>2, <1>3, LedgerFrame

(* Taking a job, waking up and leaving run move no task. *)
LEMMA IdleLedger ==
    ASSUME TypeOK, Control, Ledger, NEW t \in Threads,
           \/ Take(t) \/ SpuriousWake(t)
           \/ Claim(t) /\ pending[run[t]] = <<>>
    PROVE  Ledger' /\ \A h \in Gens : Done(h)' = Done(h)
<1>1. UNCHANGED <<pending, registered, completed, outcome, batch, claimed, answer>>
  BY DEF Take, SpuriousWake, Claim, genVars, localVars, history
<1>2. \A u \in Threads : (pc'[u] = "exec" <=> pc[u] = "exec") /\ (pc[u] = "exec" => run'[u] = run[u])
  BY DEF TypeOK, ControlTypeOK, Take, SpuriousWake, Claim
<1>3. \A g \in Gens : answer'[g] # NoAnswer => completed[g] = registered[g]
  BY <1>1 DEF Ledger, Counted
<1> QED BY <1>1, <1>2, <1>3, LedgerFrame

(* A claim moves the first n queued tasks, exactly F..F+n-1, to one thread. *)
LEMMA ClaimLedger ==
    ASSUME TypeOK, Control, Ledger, NEW t \in Threads, Claim(t),
           NEW g \in Gens, g = run[t], pending[g] # <<>>
    PROVE  /\ Ledger'
           /\ \A h \in Gens : Done(h)' = Done(h)
           /\ \A k \in 1..Len(batch'[t]) : batch'[t][k] = Front(g) + k - 1
           /\ \A i \in claimed'[t] : i >= Front(g)
<1> DEFINE L == Len(pending[g])
           n == tg_claim_batch_size(L, WorkerCount)
           F == Front(g)
<1>1. /\ g \in Gens /\ g = run[t]
      /\ pc[t] = "claim" /\ claimed[t] = {} /\ batch[t] = <<>>
      /\ batch' = [batch EXCEPT ![t] = SubSeq(pending[g], 1, n)]
      /\ pending' = [pending EXCEPT ![g] = SubSeq(@, n + 1, L)]
      /\ claimed' = [claimed EXCEPT ![t] = {pending[g][k] : k \in 1..n}]
      /\ pc' = [pc EXCEPT ![t] = "exec"]
      /\ UNCHANGED <<registered, completed, run, outcome, answer>>
  BY DEF Claim, Control, Holding, Ledger, BatchesHold, Drain, history
<1>2. /\ pending[g] \in Seq(Indices) /\ L \in Nat \ {0} /\ registered[g] \in Nat
      /\ F \in Nat /\ F + L = registered[g] /\ registered[g] <= MaxTasks
  <2>1. /\ registered[g] \in 0..MaxTasks /\ pending[g] \in Seq(Indices)
        /\ L \in Nat /\ F \in 0..registered[g]
    BY <1>1, FrontType DEF Ledger
  <2> QED BY ONLY <2>1, pending[g] # <<>>, Constants DEF Front
<1>3. n \in 1..L
  BY ONLY <1>2, BatchSize
<1> HIDE DEF n
<1>4. /\ Len(SubSeq(pending[g], 1, n)) = n
      /\ \A k \in 1..n : SubSeq(pending[g], 1, n)[k] = pending[g][k]
      /\ Len(SubSeq(pending[g], n + 1, L)) = L - n
      /\ \A k \in 1..(L - n) : SubSeq(pending[g], n + 1, L)[k] = pending[g][n + k]
  BY ONLY <1>2, <1>3, SplitSeq
<1>5. \A k \in 1..L : pending[g][k] = F + k - 1
  BY <1>1 DEF Ledger, QueueIsTail
<1>6. /\ Len(pending'[g]) = L - n
      /\ \A k \in 1..(L - n) : pending'[g][k] = F + n + k - 1
      /\ \A h \in Gens : h # g => pending'[h] = pending[h]
  <2>1. pending'[g] = SubSeq(pending[g], n + 1, L) /\ \A h \in Gens : h # g => pending'[h] = pending[h]
    BY ONLY <1>1, TypeOK DEF TypeOK, GenerationTypeOK
  <2>2. ASSUME NEW k \in 1..(L - n) PROVE n + k \in 1..L /\ F + (n + k) - 1 = F + n + k - 1
    BY ONLY <1>2, <1>3, k \in 1..(L - n)
  <2> QED BY ONLY <1>4, <1>5, <2>1, <2>2
<1>7. /\ Len(batch'[t]) = n
      /\ \A k \in 1..n : batch'[t][k] = F + k - 1
      /\ \A u \in Threads : u # t => batch'[u] = batch[u]
  <2>1. batch'[t] = SubSeq(pending[g], 1, n) /\ \A u \in Threads : u # t => batch'[u] = batch[u]
    BY ONLY <1>1, TypeOK, t \in Threads DEF TypeOK, LocalTypeOK
  <2> QED BY ONLY <1>2, <1>3, <1>4, <1>5, <2>1
<1>8. /\ claimed'[t] = F..(F + n - 1)
      /\ \A u \in Threads : u # t => claimed'[u] = claimed[u]
  <2>1. claimed'[t] = {pending[g][k] : k \in 1..n} /\ \A u \in Threads : u # t => claimed'[u] = claimed[u]
    BY ONLY <1>1, TypeOK, t \in Threads DEF TypeOK, LocalTypeOK
  <2>2. {pending[g][k] : k \in 1..n} = {F + k - 1 : k \in 1..n}
    <3>1. \A k \in 1..n : pending[g][k] = F + k - 1
      BY ONLY <1>2, <1>3, <1>5
    <3> QED BY ONLY <3>1
  <2>3. ASSUME NEW i \in F..(F + n - 1) PROVE i - F + 1 \in 1..n /\ i = F + (i - F + 1) - 1
    BY ONLY <1>2, <1>3, i \in F..(F + n - 1)
  <2>4. ASSUME NEW k \in 1..n PROVE F + k - 1 \in F..(F + n - 1)
    BY ONLY <1>2, <1>3, k \in 1..n
  <2> QED BY ONLY <2>1, <2>2, <2>3, <2>4
<1>9. /\ Front(g)' = F + n
      /\ \A h \in Gens : h # g => Front(h)' = Front(h)
  BY ONLY <1>1, <1>2, <1>3, <1>6 DEF Front
<1>10. \A h \in Gens : Front(h) \in Int /\ Front(h) <= Front(h)'
  <2> SUFFICES ASSUME NEW h \in Gens PROVE Front(h) \in Int /\ Front(h) <= Front(h)'
    OBVIOUS
  <2>1. Front(h) \in 0..registered[h] /\ registered[h] \in 0..MaxTasks
    BY FrontType DEF Ledger
  <2>2. CASE h = g
    BY ONLY <1>2, <1>3, <1>9, <2>2
  <2>3. CASE h # g
    BY ONLY <1>9, <2>1, <2>3, Constants
  <2> QED BY <2>2, <2>3
<1> HIDE DEF F, L
<1>11. QueueIsTail'
  <2> SUFFICES ASSUME NEW h \in Gens
               PROVE  /\ Len(pending'[h]) <= registered[h]
                      /\ \A k \in 1..Len(pending'[h]) : pending'[h][k] = Front(h)' + k - 1
                      /\ \A i \in Indices : i >= Front(h)' => outcome[h][i] = Unrun
    BY <1>1 DEF QueueIsTail
  <2>1. /\ Len(pending[h]) <= registered[h]
        /\ \A k \in 1..Len(pending[h]) : pending[h][k] = Front(h) + k - 1
        /\ \A i \in Indices : i >= Front(h) => outcome[h][i] = Unrun
    BY DEF Ledger, QueueIsTail
  <2>2. CASE h # g
    BY <1>6, <1>9, <2>1, <2>2
  <2>3. CASE h = g
    <3>1. \A i \in Indices : i >= F + n => i >= F
      BY ONLY <1>2, <1>3, Constants
    <3>2. L - n <= registered[g]
      BY ONLY <1>2, <1>3
    <3>3. \A k \in 1..Len(pending'[g]) : pending'[g][k] = Front(g)' + k - 1
      BY ONLY <1>6, <1>9
    <3>4. \A i \in Indices : i >= F => outcome[g][i] = Unrun
      BY ONLY <2>1, <2>3 DEF F
    <3>5. \A i \in Indices : i >= Front(g)' => outcome[g][i] = Unrun
      BY ONLY <1>9, <3>1, <3>4
    <3>6. Len(pending'[g]) <= registered[g]
      BY ONLY <1>6, <3>2
    <3> QED BY ONLY <2>3, <3>3, <3>5, <3>6
  <2> QED BY <2>2, <2>3
<1>12. BatchesHold'
  <2> SUFFICES ASSUME NEW u \in Threads
               PROVE  /\ pc'[u] # "exec" => claimed'[u] = {} /\ batch'[u] = <<>>
                      /\ \A i \in claimed'[u] :
                            /\ i < Front(run[u])'
                            /\ outcome[run[u]][i] = Unrun => \E k \in 1..Len(batch'[u]) : batch'[u][k] = i
                      /\ \A k \in 1..Len(batch'[u]) :
                            /\ batch'[u][k] \in claimed'[u]
                            /\ outcome[run[u]][batch'[u][k]] = Unrun
                            /\ \A j \in 1..Len(batch'[u]) : batch'[u][j] = batch'[u][k] => j = k
    BY <1>1 DEF BatchesHold
  <2>1. CASE u = t
    <3>1. pc'[t] = "exec"
      BY <1>1 DEF TypeOK, ControlTypeOK
    <3>2. ASSUME NEW i \in claimed'[t]
          PROVE  i < Front(g)' /\ \E k \in 1..n : batch'[t][k] = i
      <4>1. i \in Nat /\ i < F + n /\ i - F + 1 \in 1..n /\ F + (i - F + 1) - 1 = i
        BY ONLY <1>2, <1>3, <1>8, i \in claimed'[t]
      <4> QED BY ONLY <1>7, <1>9, <4>1
    <3>3. ASSUME NEW k \in 1..n
          PROVE  /\ batch'[t][k] \in claimed'[t]
                 /\ outcome[g][batch'[t][k]] = Unrun
                 /\ \A j \in 1..n : batch'[t][j] = batch'[t][k] => j = k
      <4>1. F + k - 1 \in F..(F + n - 1) /\ F + k - 1 \in Indices /\ F + k - 1 >= F
        BY ONLY <1>2, <1>3, Constants, k \in 1..n
      <4>2. outcome[g][F + k - 1] = Unrun
        BY <1>1, <4>1 DEF Ledger, QueueIsTail, F
      <4>3. \A j \in 1..n : F + j - 1 = F + k - 1 => j = k
        BY ONLY <1>2, <1>3, k \in 1..n
      <4> QED BY ONLY <1>7, <1>8, <4>1, <4>2, <4>3, k \in 1..n
    <3>4. run[t] = g /\ run'[t] = g /\ Len(batch'[t]) = n
      BY ONLY <1>1, <1>7
    <3> QED BY ONLY <2>1, <3>1, <3>2, <3>3, <3>4
  <2>2. CASE u # t
    <3>1. pc'[u] = pc[u] /\ batch'[u] = batch[u] /\ claimed'[u] = claimed[u]
      BY <1>1, <1>7, <1>8, <2>2 DEF TypeOK, ControlTypeOK
    <3>2. ASSUME NEW i \in claimed[u] PROVE i < Front(run[u])'
      <4>1. PICK h \in Gens : h = run[u] /\ i < Front(h) /\ i \in Indices
        BY DEF Ledger, BatchesHold, Control, Holding, TypeOK, LocalTypeOK
      <4>2. Front(h) \in Int /\ Front(h) <= Front(h)'
        BY <1>10
      <4>3. Front(h)' \in Int
        <5>1. F + n \in Int
          BY ONLY <1>2, <1>3
        <5> QED BY ONLY <1>9, <4>2, <5>1
      <4>4. i < Front(h)'
        BY ONLY <4>1, <4>2, <4>3, Constants
      <4> QED BY <1>1, <4>1, <4>4
    <3> QED BY <3>1, <3>2 DEF Ledger, BatchesHold
  <2> QED BY <2>1, <2>2
<1>13. BatchesDisjoint'
  <2>1. ASSUME NEW u \in Threads, u # t, run[u] = g, NEW i \in claimed[u], i \in F..(F + n - 1)
        PROVE  FALSE
    <3>1. i < F
      BY <2>1 DEF Ledger, BatchesHold, F
    <3> QED BY ONLY <1>2, <1>3, <2>1, <3>1
  <2>2. SUFFICES ASSUME NEW u \in Threads, NEW v \in Threads, u # v, run[u] = run[v],
                        NEW i \in claimed'[u], i \in claimed'[v]
                 PROVE  FALSE
    BY <1>1 DEF BatchesDisjoint
  <2>3. CASE u = t
    BY <1>1, <1>8, <2>1, <2>2, <2>3
  <2>4. CASE v = t
    BY <1>1, <1>8, <2>1, <2>2, <2>4
  <2>5. CASE u # t /\ v # t
    BY <1>8, <2>2, <2>5 DEF Ledger, BatchesDisjoint
  <2> QED BY <2>3, <2>4, <2>5
<1>14. ASSUME NEW h \in Gens PROVE Done(h)' = Done(h)
  <2>1. ASSUME NEW i, h # g \/ i \notin F..(F + n - 1) PROVE HeldBy(h, i)' <=> HeldBy(h, i)
    BY <1>1, <1>8, <2>1 DEF HeldBy
  <2>2. CASE h # g
    BY <1>9, <2>1, <2>2 DEF Done
  <2>3. CASE h = g
    <3>1. ASSUME NEW i \in Indices, i < F + n, i >= F PROVE HeldBy(g, i)'
      <4>1. i \in claimed'[t]
        BY ONLY <1>2, <1>3, <1>8, <3>1, Constants
      <4> QED BY <1>1, <4>1 DEF HeldBy
    <3>2. \A i \in Indices : (i < F => i < F + n) /\ (i < F => i \notin F..(F + n - 1)) /\ (i < F \/ i >= F)
      BY ONLY <1>2, <1>3, Constants
    <3>3. ASSUME NEW i \in Indices
          PROVE  i < Front(g)' /\ ~HeldBy(g, i)' <=> i < F /\ ~HeldBy(g, i)
      <4>1. CASE i < F
        BY ONLY <1>9, <2>1, <2>3, <3>2, <4>1, i \in Indices
      <4>2. CASE ~(i < F)
        BY ONLY <1>9, <3>1, <3>2, <4>2, i \in Indices
      <4> QED BY <4>1, <4>2
    <3> QED BY ONLY <2>3, <3>3 DEF Done, F
  <2> QED BY <2>2, <2>3
<1>15. Counted'
  BY <1>1, <1>14 DEF Ledger, Counted
<1>16. \A i \in claimed'[t] : i >= F
  BY ONLY <1>2, <1>3, <1>8
<1> QED BY <1>7, <1>11, <1>12, <1>13, <1>14, <1>15, <1>16 DEF Ledger, F

(* Running a task of the batch gives it its only outcome. *)
LEMMA ExecuteLedger ==
    ASSUME TypeOK, Control, Ledger, NEW t \in Threads, NEW o \in Outcomes,
           Execute(t, o), NEW g \in Gens, g = run[t]
    PROVE  Ledger' /\ \A h \in Gens : Done(h)' = Done(h)
<1> DEFINE b == batch[t]
           i == Head(b)
<1>1. /\ pc[t] = "exec" /\ b # <<>>
      /\ outcome' = [outcome EXCEPT ![g][i] = o]
      /\ batch' = [batch EXCEPT ![t] = Tail(b)]
      /\ UNCHANGED <<pending, registered, completed, claimed, answer, pc, run>>
  BY DEF Execute, genVars
<1>2. b \in Seq(Indices) /\ Len(b) \in Nat \ {0} /\ i = b[1] /\ o # Unrun
  <2>1. b \in Seq(Indices)
    BY DEF TypeOK, LocalTypeOK
  <2> QED BY <1>1, <2>1 DEF Outcomes, Unrun
<1>3. /\ Len(Tail(b)) = Len(b) - 1 /\ Len(Tail(b)) \in Nat
      /\ \A k \in 1..Len(Tail(b)) : Tail(b)[k] = b[k + 1] /\ k + 1 \in 1..Len(b) /\ k + 1 # 1
      /\ \A k \in 1..Len(b) : k # 1 => k - 1 \in 1..Len(Tail(b)) /\ Tail(b)[k - 1] = b[k]
  BY ONLY <1>1, <1>2, HeadTailProperties
<1>4. /\ \A j \in claimed[t] :
            /\ j < Front(g)
            /\ outcome[g][j] = Unrun => \E k \in 1..Len(b) : b[k] = j
      /\ \A k \in 1..Len(b) :
            /\ b[k] \in claimed[t]
            /\ outcome[g][b[k]] = Unrun
            /\ \A j \in 1..Len(b) : b[j] = b[k] => j = k
  BY DEF Ledger, BatchesHold
<1>5. i \in Indices /\ i \in claimed[t] /\ i < Front(g)
  <2>1. 1 \in 1..Len(b)
    BY ONLY <1>2
  <2>2. b[1] \in claimed[t]
    BY ONLY <1>4, <2>1
  <2>3. b[1] < Front(g)
    BY ONLY <1>4, <2>2
  <2> QED BY <1>2, <2>2, <2>3 DEF TypeOK, LocalTypeOK
<1> HIDE DEF i, b
<1>6. ASSUME NEW h \in Gens, NEW j \in Indices
      PROVE  outcome'[h][j] = IF h = g /\ j = i THEN o ELSE outcome[h][j]
  BY <1>1, <1>5 DEF TypeOK, HistoryTypeOK
<1>7. \A h : Front(h)' = Front(h) /\ Done(h)' = Done(h)
  BY <1>1 DEF Front, Done, HeldBy
<1>8. QueueIsTail'
  <2>1. ASSUME NEW h \in Gens, NEW j \in Indices, j >= Front(h)
        PROVE  outcome'[h][j] = Unrun
    <3>1. outcome[h][j] = Unrun
      BY <2>1 DEF Ledger, QueueIsTail
    <3>2. Front(g) \in Int
      BY FrontType DEF Ledger
    <3>3. ~(h = g /\ j = i)
      BY ONLY <1>5, <2>1, <3>2, Constants
    <3> QED BY <1>6, <3>1, <3>3
  <2> QED BY <1>1, <1>7, <2>1 DEF Ledger, QueueIsTail
<1>9. BatchesHold'
  <2> SUFFICES ASSUME NEW u \in Threads
               PROVE  /\ pc[u] # "exec" => claimed[u] = {} /\ batch'[u] = <<>>
                      /\ \A j \in claimed[u] :
                            /\ j < Front(run[u])
                            /\ outcome'[run[u]][j] = Unrun => \E k \in 1..Len(batch'[u]) : batch'[u][k] = j
                      /\ \A k \in 1..Len(batch'[u]) :
                            /\ batch'[u][k] \in claimed[u]
                            /\ outcome'[run[u]][batch'[u][k]] = Unrun
                            /\ \A j \in 1..Len(batch'[u]) : batch'[u][j] = batch'[u][k] => j = k
    BY <1>1, <1>7 DEF BatchesHold
  <2>1. claimed[u] \subseteq Indices /\ (claimed[u] # {} => run[u] \in Gens)
    BY DEF Ledger, BatchesHold, Control, Holding, TypeOK, LocalTypeOK
  <2>2. CASE u = t
    <3>1. batch'[t] = Tail(b)
      BY <1>1 DEF TypeOK, LocalTypeOK
    <3>2. ASSUME NEW j \in claimed[t], outcome'[g][j] = Unrun
          PROVE  \E k \in 1..Len(Tail(b)) : Tail(b)[k] = j
      <4>1. j # i /\ outcome[g][j] = Unrun
        BY <1>2, <1>5, <1>6, <2>1, <2>2, <3>2
      <4>2. PICK k \in 1..Len(b) : b[k] = j
        BY ONLY <1>4, <4>1, j \in claimed[t]
      <4>3. k # 1
        BY <1>2, <4>1, <4>2
      <4> QED BY ONLY <1>3, <4>2, <4>3
    <3>3. ASSUME NEW k \in 1..Len(Tail(b))
          PROVE  /\ Tail(b)[k] \in claimed[t]
                 /\ outcome'[g][Tail(b)[k]] = Unrun
                 /\ \A j \in 1..Len(Tail(b)) : Tail(b)[j] = Tail(b)[k] => j = k
      <4>1. Tail(b)[k] = b[k + 1] /\ k + 1 \in 1..Len(b) /\ k + 1 # 1
        BY ONLY <1>3, k \in 1..Len(Tail(b))
      <4>2. b[k + 1] \in claimed[t] /\ outcome[g][b[k + 1]] = Unrun /\ b[k + 1] # i
        <5>1. 1 \in 1..Len(b)
          BY ONLY <1>2
        <5> QED BY <1>2, <1>4, <4>1, <5>1
      <4>3. ASSUME NEW j \in 1..Len(Tail(b)), Tail(b)[j] = Tail(b)[k] PROVE j = k
        <5>1. j + 1 \in 1..Len(b) /\ b[j + 1] = b[k + 1]
          BY ONLY <1>3, <4>1, <4>3
        <5>2. j + 1 = k + 1
          BY ONLY <1>4, <4>1, <5>1
        <5> QED BY ONLY <1>3, <5>2, j \in 1..Len(Tail(b)), k \in 1..Len(Tail(b))
      <4> QED BY <1>6, <2>1, <2>2, <4>1, <4>2, <4>3
    <3> QED BY ONLY <1>1, <1>4, <2>2, <3>1, <3>2, <3>3, g = run[t]
  <2>3. CASE u # t
    <3>1. batch'[u] = batch[u]
      BY <1>1, <2>3 DEF TypeOK, LocalTypeOK
    <3>2. ASSUME NEW j \in claimed[u] PROVE outcome'[run[u]][j] = outcome[run[u]][j]
      <4>1. ~(run[u] = g /\ j = i)
        BY <1>5, <2>3 DEF Ledger, BatchesDisjoint
      <4> QED BY <1>6, <2>1, <4>1
    <3> QED BY <3>1, <3>2 DEF Ledger, BatchesHold
  <2> QED BY <2>2, <2>3
<1>10. BatchesDisjoint'
  BY <1>1 DEF Ledger, BatchesDisjoint
<1>11. Counted'
  <2>1. ASSUME NEW h \in Gens, NEW j \in Done(h) PROVE outcome'[h][j] # Unrun
    <3>1. j \in Indices /\ outcome[h][j] # Unrun
      BY DEF Ledger, Counted, Done
    <3> QED BY ONLY <1>2, <1>6, <3>1, h \in Gens
  <2> QED BY <1>1, <1>7, <2>1 DEF Ledger, Counted
<1> QED BY <1>7, <1>8, <1>9, <1>10, <1>11 DEF Ledger

(* Publishing a finished batch adds exactly its tasks to the published ones. *)
LEMMA PublishLedger ==
    ASSUME TypeOK, Control, Ledger, NEW t \in Threads, Publish(t),
           NEW g \in Gens, g = run[t]
    PROVE  /\ Ledger'
           /\ Done(g)' = Done(g) \cup claimed[t]
           /\ \A h \in Gens : h # g => Done(h)' = Done(h)
<1>1. /\ pc[t] = "exec" /\ batch[t] = <<>>
      /\ completed' = [completed EXCEPT ![g] = @ + Cardinality(claimed[t])]
      /\ claimed' = [claimed EXCEPT ![t] = {}]
      /\ UNCHANGED <<pending, registered, batch, outcome, answer, run>>
  BY DEF Publish, history
<1>2. /\ pc'[t] = "claim"
      /\ \A u \in Threads : u # t => (pc'[u] = "exec" <=> pc[u] = "exec")
  BY DEF Publish
<1>3. claimed'[t] = {} /\ \A u \in Threads : u # t => claimed'[u] = claimed[u]
  BY <1>1 DEF TypeOK, LocalTypeOK
<1>4. \A j \in claimed[t] : j \in Indices /\ j < Front(g) /\ outcome[g][j] # Unrun
  BY <1>1 DEF Ledger, BatchesHold, TypeOK, LocalTypeOK
<1>5. \A h : Front(h)' = Front(h)
  BY <1>1 DEF Front
<1>6. QueueIsTail'
  BY <1>1, <1>5 DEF Ledger, QueueIsTail
<1>7. BatchesHold'
  BY <1>1, <1>2, <1>3, <1>5 DEF Ledger, BatchesHold
<1>8. BatchesDisjoint'
  BY <1>1, <1>3 DEF Ledger, BatchesDisjoint
<1>9. ASSUME NEW h \in Gens, h # g PROVE Done(h)' = Done(h)
  BY <1>1, <1>3, <1>5, <1>9 DEF Done, HeldBy
<1>10. Done(g)' = Done(g) \cup claimed[t] /\ Done(g) \cap claimed[t] = {}
  <2>1. ASSUME NEW j \in Indices
        PROVE  HeldBy(g, j) <=> (HeldBy(g, j)' \/ j \in claimed[t])
    BY <1>1, <1>3 DEF HeldBy
  <2>2. ASSUME NEW j \in claimed[t] PROVE ~HeldBy(g, j)'
    BY <1>1, <1>3 DEF HeldBy, Ledger, BatchesDisjoint
  <2> QED BY <1>4, <1>5, <2>1, <2>2 DEF Done
<1>11. /\ IsFiniteSet(Done(g)) /\ IsFiniteSet(claimed[t])
       /\ Cardinality(Done(g)) \in Nat /\ Cardinality(claimed[t]) \in Nat
  <2>1. IsFiniteSet(Indices)
    BY Constants, FS_Interval
  <2>2. Done(g) \in SUBSET Indices /\ claimed[t] \in SUBSET Indices
    BY DEF Done, TypeOK, LocalTypeOK
  <2> QED BY ONLY <2>1, <2>2, FS_Subset, FS_CardinalityType
<1>12. Cardinality(Done(g) \cup claimed[t]) = Cardinality(Done(g)) + Cardinality(claimed[t])
  <2>1. Cardinality(Done(g) \cap claimed[t]) = 0
    BY ONLY <1>10, FS_EmptySet
  <2>2. Cardinality(Done(g) \cup claimed[t])
          = Cardinality(Done(g)) + Cardinality(claimed[t]) - Cardinality(Done(g) \cap claimed[t])
    BY ONLY <1>11, FS_Union
  <2> QED BY ONLY <1>11, <2>1, <2>2
<1>13. ASSUME NEW h \in Gens
       PROVE  completed'[h] = IF h = g THEN completed[h] + Cardinality(claimed[t])
                                       ELSE completed[h]
  BY <1>1 DEF TypeOK, GenerationTypeOK
<1>14. answer[g] # NoAnswer => completed'[g] = completed[g]
  <2>1. SUFFICES ASSUME answer[g] # NoAnswer PROVE Cardinality(claimed[t]) = 0 /\ completed[g] \in Nat
    BY <1>13
  <2>2. claimed[t] = {}
    BY <2>1, FullCount DEF Ledger, Counted
  <2> QED BY <2>2, FS_EmptySet DEF TypeOK, GenerationTypeOK
<1>15. Counted'
  <2> SUFFICES ASSUME NEW h \in Gens
               PROVE  /\ completed'[h] = Cardinality(Done(h)')
                      /\ \A j \in Done(h)' : outcome[h][j] # Unrun
                      /\ answer[h] # NoAnswer => completed'[h] = registered[h]
    BY <1>1 DEF Counted
  <2>1. /\ completed[h] = Cardinality(Done(h))
        /\ \A j \in Done(h) : outcome[h][j] # Unrun
        /\ answer[h] # NoAnswer => completed[h] = registered[h]
    BY DEF Ledger, Counted
  <2>2. CASE h = g
    BY <1>4, <1>10, <1>12, <1>13, <1>14, <2>1, <2>2
  <2>3. CASE h # g
    BY <1>9, <1>13, <2>1, <2>3
  <2> QED BY <2>2, <2>3
<1> QED BY <1>6, <1>7, <1>8, <1>9, <1>10, <1>15 DEF Ledger

(* The ledger is inductive relative to typing and control. *)
LEMMA LedgerStep ==
    TypeOK /\ Control /\ Ledger /\ [Next]_vars => Ledger'
<1> SUFFICES ASSUME TypeOK, Control, Ledger, [Next]_vars PROVE Ledger'
  OBVIOUS
<1>1. CASE UNCHANGED vars
  <2>1. \A g \in Gens : answer[g] # NoAnswer => completed[g] = registered[g]
    BY DEF Ledger, Counted
  <2> QED BY <1>1, <2>1, LedgerFrame DEF vars, genVars, localVars, history
<1>2. ASSUME NEW t \in Threads, Run(t) PROVE Ledger'
  <2>1. run[t] \in Gens
    BY <1>2 DEF Run, Claim, Execute, Publish, Control, Holding
  <2>2. CASE Claim(t) /\ pending[run[t]] = <<>>
    BY <2>2, IdleLedger
  <2>3. CASE Claim(t) /\ pending[run[t]] # <<>>
    BY <2>1, <2>3, ClaimLedger
  <2>4. CASE Publish(t)
    BY <2>1, <2>4, PublishLedger
  <2>5. ASSUME NEW o \in Outcomes, Execute(t, o) PROVE Ledger'
    BY <2>1, <2>5, ExecuteLedger
  <2> QED BY <1>2, <2>2, <2>3, <2>4, <2>5 DEF Run
<1>3. CASE Next
  BY <1>2, <1>3, RegisterLedger, CallerLedger, IdleLedger, Constants
  DEF Next, Step, UserCall
<1> QED BY <1>1, <1>3

(* The inductive invariant. *)
THEOREM Inductive == Spec => [](TypeOK /\ Control /\ Ledger)
<1>1. Init => TypeOK /\ Control /\ Ledger
  BY TypeInit, LedgerInit
<1>2. TypeOK /\ Control /\ Ledger /\ [Next]_vars => (TypeOK /\ Control /\ Ledger)'
  BY TypeStep, LedgerStep
<1> QED BY <1>1, <1>2, PTL DEF Spec

-----------------------------------------------------------------------------
(* The safety properties, for every pool size and every bound *)

(* The scheduler's state keeps its shape. *)
THEOREM TypeCorrect == Spec => []TypeOK
  BY Inductive, PTL

(* A wait or end returns only after every task registered in its           *)
(* generation has run, whichever thread claimed it.                        *)
THEOREM JoinBarrier == Spec => []JoinIsBarrier
<1>1. TypeOK /\ Ledger => JoinIsBarrier
  BY FullCount DEF JoinIsBarrier, Ledger, Counted
<1> QED BY <1>1, Inductive, PTL

(* No task is executed twice: a queued or batched task has not run, and    *)
(* two threads never hold the same task.                                   *)
THEOREM AtMostOnce == Spec => []ClaimedOnce
<1>1. TypeOK /\ Ledger => ClaimedOnce
  <2> SUFFICES ASSUME TypeOK, Ledger PROVE ClaimedOnce
    OBVIOUS
  <2>1. ASSUME NEW g \in Gens, NEW k \in 1..Len(pending[g])
        PROVE  outcome[g][pending[g][k]] = Unrun
    <3>1. /\ pending[g][k] = Front(g) + k - 1 /\ pending[g] \in Seq(Indices)
          /\ Front(g) \in 0..registered[g] /\ registered[g] \in 0..MaxTasks
          /\ Len(pending[g]) \in Nat
      BY FrontType DEF Ledger, QueueIsTail
    <3>2. pending[g][k] \in Indices /\ pending[g][k] >= Front(g)
      BY ONLY <3>1, k \in 1..Len(pending[g]), Constants
    <3> QED BY <3>2 DEF Ledger, QueueIsTail
  <2> QED BY <2>1 DEF ClaimedOnce, Ledger, BatchesHold, BatchesDisjoint
<1> QED BY <1>1, Inductive, PTL

(* A thread that runs a task holds an unanswered generation, so the group  *)
(* has not been reclaimed.                                                 *)
LEMMA StillLive == TypeOK /\ Control /\ Ledger => NoTouchAfterJoin
<1> SUFFICES ASSUME TypeOK, Control, Ledger, NEW t \in Threads, Running(t)
             PROVE  arena = "live" /\ answer[run[t]] = NoAnswer
  BY DEF NoTouchAfterJoin
<1>1. PICK g \in Gens : g = run[t]
  BY DEF Running, Control, Holding
<1>2. PICK i : i \in claimed[t]
  <2>1. batch[t] \in Seq(Indices) /\ batch[t] # <<>>
    BY DEF TypeOK, LocalTypeOK, Running
  <2>2. 1 \in 1..Len(batch[t])
    BY ONLY <2>1
  <2> QED BY <2>2 DEF Ledger, BatchesHold
<1>3. answer[g] = NoAnswer
  BY <1>1, <1>2, FullCount DEF Ledger, Counted
<1>4. registered[g] # 0
  <2>1. /\ registered[g] \in 0..MaxTasks /\ Front(g) \in 0..registered[g]
        /\ i \in Indices /\ i < Front(g)
    BY <1>1, <1>2, FrontType DEF Ledger, BatchesHold, TypeOK, LocalTypeOK
  <2> QED BY ONLY <2>1, Constants
<1>5. arena = "live"
  BY <1>1, <1>3, <1>4, Constants
  DEF Control, CallerPhase, Opened, TypeOK, GroupTypeOK
<1> QED BY <1>1, <1>3, <1>5

(* No task touches its environment, slots or captures after its            *)
(* generation was joined or the group's arena was released.                *)
THEOREM NoLateTouch == Spec => []NoTouchAfterJoin
  BY StillLive, Inductive, PTL
=============================================================================
