--------------------------- MODULE ReapTasksProofs ---------------------------
(***************************************************************************)
(* Theorems about ReapTasks, for any number of overlapping runs, tasks and *)
(* containers, any batch size, and any failures.                           *)
(*                                                                         *)
(* A step of a run changes that run alone, and at most takes a task out of *)
(* wanted or a session out of late.  What a run that takes up its next     *)
(* task becomes is stated once, in TakenUp.                                *)
(***************************************************************************)
EXTENDS ReapTasks, FiniteSetTheorems, TLAPS

Described == UNION {[D -> [Container -> Boxes]] : D \in SUBSET Task}

\* What TakeUp makes of run r.
TakenUp(r, rest, later) ==
  /\ due' \in [Run -> Described] /\ due'[r] = rest
  /\ pc' \in [Run -> Stages] /\ current' \in [Run -> Task \cup {None}]
  /\ cleared' \in [Run -> SUBSET Container] /\ cleared'[r] = {}
  /\ \A q \in Run \ {r} :
       due'[q] = due[q] /\ pc'[q] = pc[q] /\ current'[q] = current[q] /\ cleared'[q] = cleared[q]
  /\ \/ /\ DOMAIN rest = {} /\ pc'[r] \in {"idle", "describe"}
        /\ pc'[r] = "idle" <=> later = {}
     \/ /\ pc'[r] \in {"check", "stop"} /\ current'[r] \in DOMAIN rest
        /\ pc'[r] = "stop" => exec[current'[r]] = "no"

LEMMA DisjointUnion ==
  ASSUME NEW A, NEW B, IsFiniteSet(A), IsFiniteSet(B), A \cap B = {}
  PROVE  IsFiniteSet(A \cup B) /\ Cardinality(A \cup B) = Cardinality(A) + Cardinality(B)
<1>1. Cardinality(A) \in Nat /\ Cardinality(B) \in Nat
  BY FS_CardinalityType
<1>2. Cardinality(A \cap B) = 0
  BY FS_EmptySet
<1>3. Cardinality(A \cup B) = Cardinality(A) + Cardinality(B) - Cardinality(A \cap B)
  BY FS_Union
<1>. QED BY <1>1, <1>2, <1>3, FS_Union

LEMMA DescribedType ==
  ASSUME NEW f \in Described
  PROVE  /\ DOMAIN f \in SUBSET Task /\ f \in [DOMAIN f -> [Container -> Boxes]]
         /\ IsFiniteSet(DOMAIN f)
<1>1. PICK D \in SUBSET Task : f \in [D -> [Container -> Boxes]]
  BY DEF Described
<1>. QED BY <1>1, TaskAssumption, FS_Subset

LEMMA NothingDescribed == Nothing \in Described /\ DOMAIN Nothing = {}
<1>1. Nothing \in [{} -> [Container -> Boxes]]
  BY DEF Nothing
<1>2. {} \in SUBSET Task
  OBVIOUS
<1>3. Nothing \in Described
  BY <1>1, <1>2 DEF Described
<1>. QED BY <1>3 DEF Nothing

LEMMA TakeUpTakes ==
  ASSUME TypeOK, NEW r \in Run, NEW rest \in Described, NEW later, TakeUp(r, rest, later)
  PROVE  TakenUp(r, rest, later)
<1>1. DOMAIN rest \in SUBSET Task
  BY DescribedType
<1>2. /\ pc \in [Run -> Stages] /\ due \in [Run -> Described]
      /\ current \in [Run -> Task \cup {None}] /\ cleared \in [Run -> SUBSET Container]
  BY DEF TypeOK, RunType, Described
<1>3. /\ due' \in [Run -> Described] /\ due'[r] = rest /\ \A q \in Run \ {r} : due'[q] = due[q]
  BY <1>2 DEF TakeUp
<1>4. /\ cleared' \in [Run -> SUBSET Container] /\ cleared'[r] = {}
      /\ \A q \in Run \ {r} : cleared'[q] = cleared[q]
  BY <1>2 DEF TakeUp
<1>5. CASE rest = Nothing
  <2>1. /\ pc' = [pc EXCEPT ![r] = IF later = {} THEN "idle" ELSE "describe"]
        /\ current' = [current EXCEPT ![r] = None]
    BY <1>5 DEF TakeUp, Goto
  <2>2. pc' \in [Run -> Stages] /\ current' \in [Run -> Task \cup {None}]
    BY <1>2, <2>1 DEF Stages
  <2>. QED BY <1>2, <1>3, <1>4, <1>5, <2>1, <2>2, NothingDescribed DEF TakenUp
<1>6. CASE rest # Nothing
  <2>1. PICK t \in DOMAIN rest :
          /\ pc' = [pc EXCEPT ![r] = IF exec[t] = "no" THEN "stop" ELSE "check"]
          /\ current' = [current EXCEPT ![r] = t]
    BY <1>6 DEF TakeUp, Goto
  <2>2. pc' \in [Run -> Stages] /\ current' \in [Run -> Task \cup {None}]
    BY <1>1, <1>2, <2>1 DEF Stages
  <2>. QED BY <1>2, <1>3, <1>4, <2>1, <2>2 DEF TakenUp
<1>. QED BY <1>5, <1>6

-----------------------------------------------------------------------------
(* Types. *)

\* Done takes up the next of the tasks that are left.
Left(r) == [t \in DOMAIN due[r] \ {current[r]} |-> due[r][t]]

LEMMA DoneTakes ==
  ASSUME TypeOK, NEW r \in Run, Done(r)
  PROVE  Left(r) \in Described /\ TakenUp(r, Left(r), todo[r])
<1>1. due[r] \in Described
  BY DEF TypeOK, RunType, Described
<1>2. DOMAIN due[r] \in SUBSET Task /\ due[r] \in [DOMAIN due[r] -> [Container -> Boxes]]
  BY <1>1, DescribedType
<1>3. Left(r) \in [DOMAIN due[r] \ {current[r]} -> [Container -> Boxes]]
  BY <1>2 DEF Left
<1>4. DOMAIN due[r] \ {current[r]} \in SUBSET Task
  BY <1>2
<1>5. Left(r) \in Described
  BY <1>3, <1>4 DEF Described
<1>. QED BY <1>5, TakeUpTakes DEF Done, Left

LEMMA CountType ==
  ASSUME TypeOK, NEW r \in Run, NEW o \in Outcomes, NEW n \in Nat, Count(r, o, n)
  PROVE  /\ counts' \in [Run -> [Outcomes -> Nat]]
         /\ \A q \in Run \ {r} : counts'[q] = counts[q]
         /\ counts'[r] = [counts[r] EXCEPT ![o] = @ + n]
<1>1. counts \in [Run -> [Outcomes -> Nat]]
  BY DEF TypeOK, RunType
<1>2. [counts[r] EXCEPT ![o] = @ + n] \in [Outcomes -> Nat]
  BY <1>1
<1>3. counts' = [counts EXCEPT ![r] = [counts[r] EXCEPT ![o] = @ + n]]
  BY <1>1 DEF Count
<1>. QED BY <1>1, <1>2, <1>3

\* One batch: what becomes of the run, and of the report.
Batched(r, batch) ==
  \/ /\ NoFault
     /\ \E missing \in SUBSET (batch \ wanted) :
          LET expired == {t \in batch \ missing : Expired(t, now[r])}
              unsure == {t \in expired :
                           \/ exec[t] = "unknown"
                           \/ exec[t] = "yes" /\ \A c \in Container : ~Up(box[t][c])}
          IN /\ CountBatch(r, (batch \ missing) \ expired, missing, unsure)
             /\ TakeUp(r, [t \in expired \ unsure |-> box[t]], todo'[r])
  \/ /\ Fault
     /\ Count(r, "errors", Cardinality(batch))
     /\ TakeUp(r, Nothing, todo'[r])

\* A batch is counted: each task of it is left for later or counted once, and one that cannot
\* be told apart is an error.  rest are those left for later.
Counted(r, batch, rest) ==
  /\ rest \in Described
  /\ DOMAIN rest \subseteq batch
  /\ \A t \in DOMAIN rest : Expired(t, now[r]) /\ exec[t] # "unknown" /\ rest[t] = box[t]
  /\ TakenUp(r, rest, todo'[r])
  /\ counts' \in [Run -> [Outcomes -> Nat]]
  /\ \A q \in Run \ {r} : counts'[q] = counts[q]
  /\ counts'[r].stopped = counts[r].stopped /\ counts'[r].protected = counts[r].protected
  /\ counts'[r].errors >= counts[r].errors
  /\ counts'[r].errors = counts[r].errors =>
       \A t \in batch : t \in DOMAIN rest \/ ~Expired(t, now[r])
  /\ counts'[r].skipped + counts'[r].errors + Cardinality(DOMAIN rest)
       = counts[r].skipped + counts[r].errors + Cardinality(batch)

LEMMA BatchCounts ==
  ASSUME TypeOK, NEW r \in Run, NEW batch \in SUBSET todo[r], Batched(r, batch)
  PROVE  \E rest : Counted(r, batch, rest)
<1>1. batch \in SUBSET Task /\ IsFiniteSet(batch) /\ Cardinality(batch) \in Nat
  BY TaskAssumption, FS_Subset, FS_CardinalityType DEF TypeOK, RunType
<1>2. counts \in [Run -> [Outcomes -> Nat]] /\ counts[r] \in [Outcomes -> Nat]
  BY DEF TypeOK, RunType
<1>3. /\ counts[r].stopped \in Nat /\ counts[r].protected \in Nat
      /\ counts[r].errors \in Nat /\ counts[r].skipped \in Nat
  BY <1>2 DEF Outcomes
<1>4. CASE Fault /\ Count(r, "errors", Cardinality(batch)) /\ TakeUp(r, Nothing, todo'[r])
  <2>1. Nothing \in Described /\ DOMAIN Nothing = {} /\ Cardinality(DOMAIN Nothing) = 0
    BY NothingDescribed, FS_EmptySet
  <2>2. TakenUp(r, Nothing, todo'[r])
    BY <1>4, <2>1, TakeUpTakes
  <2>3. /\ counts' \in [Run -> [Outcomes -> Nat]]
        /\ \A q \in Run \ {r} : counts'[q] = counts[q]
        /\ counts'[r] = [counts[r] EXCEPT !["errors"] = @ + Cardinality(batch)]
    BY <1>1, <1>4, CountType DEF Outcomes
  <2>4. /\ counts'[r].stopped = counts[r].stopped /\ counts'[r].protected = counts[r].protected
        /\ counts'[r].skipped = counts[r].skipped
        /\ counts'[r].errors = counts[r].errors + Cardinality(batch)
    BY <1>2, <2>3 DEF Outcomes
  <2>5. counts'[r].errors = counts[r].errors => batch = {}
    BY <1>1, <1>3, <2>4, FS_EmptySet
  <2>6. Counted(r, batch, Nothing)
    BY <1>1, <1>3, <2>1, <2>2, <2>3, <2>4, <2>5 DEF Counted
  <2>. QED BY <2>6
<1>5. ASSUME NEW missing \in SUBSET (batch \ wanted), NEW expired, NEW unsure,
             expired = {t \in batch \ missing : Expired(t, now[r])},
             unsure = {t \in expired :
                         \/ exec[t] = "unknown"
                         \/ exec[t] = "yes" /\ \A c \in Container : ~Up(box[t][c])},
             CountBatch(r, (batch \ missing) \ expired, missing, unsure),
             TakeUp(r, [t \in expired \ unsure |-> box[t]], todo'[r])
      PROVE  \E rest : Counted(r, batch, rest)
  <2>. DEFINE skipped == (batch \ missing) \ expired
              rest == [t \in expired \ unsure |-> box[t]]
  <2>1. /\ skipped \in SUBSET batch /\ missing \in SUBSET batch /\ unsure \in SUBSET batch
        /\ expired \ unsure \in SUBSET batch /\ DOMAIN rest = expired \ unsure
    BY <1>5
  <2>2. box \in [Task -> [Container -> Boxes]]
    BY DEF TypeOK, EcsType
  <2>3. rest \in [expired \ unsure -> [Container -> Boxes]] /\ expired \ unsure \in SUBSET Task
    BY <1>1, <2>1, <2>2
  <2>4. rest \in Described
    BY <2>3 DEF Described
  <2>5. TakenUp(r, rest, todo'[r])
    BY <1>5, <2>4, TakeUpTakes
  <2>6. /\ IsFiniteSet(skipped) /\ Cardinality(skipped) \in Nat
        /\ IsFiniteSet(missing) /\ Cardinality(missing) \in Nat
        /\ IsFiniteSet(unsure) /\ Cardinality(unsure) \in Nat
        /\ IsFiniteSet(expired \ unsure) /\ Cardinality(expired \ unsure) \in Nat
    BY <1>1, <2>1, FS_Subset, FS_CardinalityType
  <2>7. Cardinality(batch) = Cardinality(skipped) + Cardinality(missing) + Cardinality(unsure)
                               + Cardinality(expired \ unsure)
    <3>1. IsFiniteSet(skipped \cup missing)
          /\ Cardinality(skipped \cup missing) = Cardinality(skipped) + Cardinality(missing)
      <4>1. skipped \cap missing = {}
        OBVIOUS
      <4>. HIDE DEF skipped
      <4>. QED BY <2>6, <4>1, DisjointUnion
    <3>2. IsFiniteSet(unsure \cup (expired \ unsure))
          /\ Cardinality(unsure \cup (expired \ unsure)) = Cardinality(unsure) + Cardinality(expired \ unsure)
      <4>1. unsure \cap (expired \ unsure) = {}
        OBVIOUS
      <4>. QED BY <2>6, <4>1, DisjointUnion
    <3>3. (skipped \cup missing) \cap (unsure \cup (expired \ unsure)) = {}
      BY <1>5
    <3>4. batch = (skipped \cup missing) \cup (unsure \cup (expired \ unsure))
      BY <1>5
    <3>. HIDE DEF skipped
    <3>5. Cardinality(batch) = Cardinality(skipped \cup missing)
                                 + Cardinality(unsure \cup (expired \ unsure))
      BY <3>1, <3>2, <3>3, <3>4, DisjointUnion
    <3>. QED BY <2>6, <3>1, <3>2, <3>5
  <2>. HIDE DEF skipped, rest
  <2>8. counts' = [counts EXCEPT ![r].skipped = @ + Cardinality(skipped),
                                 ![r].errors = @ + Cardinality(missing) + Cardinality(unsure)]
    BY <1>5 DEF CountBatch, skipped
  <2>9. /\ counts' \in [Run -> [Outcomes -> Nat]]
        /\ \A q \in Run \ {r} : counts'[q] = counts[q]
        /\ counts'[r].stopped = counts[r].stopped /\ counts'[r].protected = counts[r].protected
        /\ counts'[r].skipped = counts[r].skipped + Cardinality(skipped)
        /\ counts'[r].errors = counts[r].errors + Cardinality(missing) + Cardinality(unsure)
    <3>. DEFINE row == [counts[r] EXCEPT !["skipped"] = @ + Cardinality(skipped),
                                         !["errors"] = @ + Cardinality(missing) + Cardinality(unsure)]
    <3>1. counts' = [counts EXCEPT ![r] = row]
      BY <1>2, <2>8 DEF Outcomes
    <3>2. /\ row \in [Outcomes -> Nat]
          /\ row.stopped = counts[r].stopped /\ row.protected = counts[r].protected
          /\ row.skipped = counts[r].skipped + Cardinality(skipped)
          /\ row.errors = counts[r].errors + Cardinality(missing) + Cardinality(unsure)
      BY <1>2, <1>3, <2>6 DEF Outcomes
    <3>. HIDE DEF row
    <3>. QED BY <1>2, <3>1, <3>2
  <2>10. counts'[r].errors = counts[r].errors =>
           \A t \in batch : t \in DOMAIN rest \/ ~Expired(t, now[r])
    <3>1. counts'[r].errors = counts[r].errors => missing = {} /\ unsure = {}
      BY <1>3, <2>6, <2>9, FS_EmptySet
    <3>. QED BY <1>5, <2>1, <3>1
  <2>11. \A t \in DOMAIN rest : Expired(t, now[r]) /\ exec[t] # "unknown" /\ rest[t] = box[t]
    BY <1>5 DEF rest
  <2>12. Counted(r, batch, rest)
    BY <1>3, <2>1, <2>4, <2>5, <2>6, <2>7, <2>9, <2>10, <2>11 DEF Counted
  <2>. QED BY <2>12
<1>. QED BY <1>4, <1>5 DEF Batched

-----------------------------------------------------------------------------
(* The inductive invariant. *)

\* A session is on a running container of a task that can have one.
SessionsRun ==
  \A t \in Task, c \in Container :
    <<t, c>> \in sessions => box[t][c] = "running" /\ exec[t] # "no"

\* What a run holds against the tasks that it is about to deal with.
Justified(r) ==
  /\ now[r] <= clock
  /\ \A t \in DOMAIN due[r] : Expired(t, now[r]) /\ exec[t] # "unknown"
  /\ pc[r] = "stop" => exec[current[r]] = "no" \/ AllAsked(r, cleared[r])
  /\ \A t \in Task, c \in Container :
       RuledOut(r, t, c) /\ <<t, c>> \in sessions => <<r, t, c>> \in late

\* Between two batches nothing is left of the last one.
BatchIsOver(r) ==
  /\ pc[r] \in {"idle", "list", "describe"} => DOMAIN due[r] = {}
  /\ pc[r] = "idle" => todo[r] = {}
  /\ pc[r] = "list" => counts[r] = NoCounts

Accounted(r) ==
  pc[r] \notin {"list", "failed"} =>
    Total(r) + Cardinality(DOMAIN due[r]) + Cardinality(todo[r]) = Cardinality(listed[r])

\* As long as the report is clean, a listed task that is to run is not dealt with yet, or not
\* past its deadline.
CleanSoFar(r) ==
  /\ pc[r] \notin {"list", "failed"} /\ counts[r].errors = 0 /\ counts[r].protected = 0
  => \A t \in listed[r] \cap wanted :
       t \in todo[r] \/ t \in DOMAIN due[r] \/ ~Expired(t, now[r])

RunInv(r) == Justified(r) /\ BatchIsOver(r) /\ Accounted(r) /\ CleanSoFar(r)

ReapInv == TypeOK /\ SessionsRun /\ \A r \in Run : RunInv(r)

LEMMA InitReap == Init => ReapInv
<1>. SUFFICES ASSUME Init PROVE ReapInv
  OBVIOUS
<1>1. Nothing \in Described /\ DOMAIN Nothing = {} /\ Cardinality({}) = 0
  BY NothingDescribed, FS_EmptySet
<1>2. NoCounts \in [Outcomes -> Nat]
  BY DEF NoCounts
<1>3. TypeOK
  <2>1. EcsType
    <3>1. clock \in 0..MaxClock /\ deadline \in [Task -> Nat \cup {NoDeadline}]
      BY BoundsAssumption DEF Init
    <3>. QED BY <3>1 DEF Init, EcsType, Boxes
  <2>2. RunType
    <3>1. due \in [Run -> Described]
      BY <1>1 DEF Init
    <3>2. counts \in [Run -> [Outcomes -> Nat]]
      BY <1>2 DEF Init
    <3>3. now \in [Run -> 0..MaxClock]
      BY BoundsAssumption DEF Init
    <3>. QED BY <3>1, <3>2, <3>3 DEF Init, RunType, Described, Stages
  <2>3. faults \in 0..FaultBudget
    BY BoundsAssumption DEF Init
  <2>. QED BY <2>1, <2>2, <2>3 DEF Init, TypeOK
<1>4. SessionsRun
  BY DEF Init, SessionsRun
<1>5. ASSUME NEW r \in Run PROVE RunInv(r)
  <2>1. due[r] = Nothing /\ todo[r] = {} /\ listed[r] = {} /\ counts[r] = NoCounts /\ pc[r] = "idle"
        /\ now[r] = 0 /\ clock = 0
    BY DEF Init
  <2>2. Total(r) = 0
    BY <2>1 DEF Total, NoCounts, Outcomes
  <2>3. Justified(r)
    BY <1>1, <2>1 DEF Init, Justified
  <2>. QED BY <1>1, <2>1, <2>2, <2>3 DEF RunInv, BatchIsOver, Accounted, CleanSoFar
<1>. QED BY <1>3, <1>4, <1>5 DEF ReapInv

\* A run that does not step, while others and its environment do.
RunKept(q) ==
  /\ pc'[q] = pc[q] /\ now'[q] = now[q] /\ todo'[q] = todo[q] /\ due'[q] = due[q]
  /\ current'[q] = current[q] /\ cleared'[q] = cleared[q] /\ counts'[q] = counts[q]
  /\ listed'[q] = listed[q]

\* It keeps its part of the invariant if a new session on what it has ruled out is in late.
LEMMA RestKeeps ==
  ASSUME TypeOK, NEW q \in Run, RunInv(q), RunKept(q), UNCHANGED <<deadline, exec>>,
         wanted' \subseteq wanted, clock' \in Nat, clock <= clock',
         \A t \in Task, c \in Container :
           <<t, c>> \in sessions' =>
             \/ <<t, c>> \in sessions /\ (<<q, t, c>> \in late => <<q, t, c>> \in late')
             \/ RuledOut(q, t, c) => <<q, t, c>> \in late'
  PROVE  RunInv(q)'
<1>1. clock \in Nat /\ now[q] \in Nat
  BY BoundsAssumption DEF TypeOK, EcsType, RunType
<1>2. \A t \in Task, c \in Container : RuledOut(q, t, c)' <=> RuledOut(q, t, c)
  BY DEF RunKept, RuledOut
<1>3. \A t : Expired(t, now[q])' <=> Expired(t, now[q])
  BY DEF RunKept, Expired
<1>4. Justified(q)'
  <2>1. now'[q] <= clock'
    BY <1>1 DEF RunInv, Justified, RunKept
  <2>2. \A t \in DOMAIN due'[q] : Expired(t, now[q])' /\ exec'[t] # "unknown"
    BY <1>3 DEF RunInv, Justified, RunKept
  <2>3. pc'[q] = "stop" => exec'[current'[q]] = "no" \/ AllAsked(q, cleared[q])'
    BY DEF RunInv, Justified, RunKept, AllAsked
  <2>4. \A t \in Task, c \in Container :
          RuledOut(q, t, c)' /\ <<t, c>> \in sessions' => <<q, t, c>> \in late'
    BY <1>2 DEF RunInv, Justified
  <2>. QED BY <2>1, <2>2, <2>3, <2>4 DEF Justified
<1>5. BatchIsOver(q)'
  BY DEF RunInv, BatchIsOver, RunKept
<1>6. Accounted(q)'
  BY DEF RunInv, Accounted, Total, RunKept
<1>7. CleanSoFar(q)'
  BY <1>3 DEF RunInv, CleanSoFar, RunKept
<1>. QED BY <1>4, <1>5, <1>6, <1>7 DEF RunInv

-----------------------------------------------------------------------------
(* The steps of a run. *)

\* What every step of run r leaves alone.
OthersKept(r) ==
  /\ UNCHANGED <<clock, deadline, exec, box, sessions>>
  /\ wanted' \subseteq wanted
  /\ \A q \in Run \ {r} : RunKept(q)
  /\ \A q \in Run \ {r}, t \in Task, c \in Container : <<q, t, c>> \in late => <<q, t, c>> \in late'

LEMMA RunStep ==
  ASSUME ReapInv, NEW r \in Run, OthersKept(r), TypeOK', RunInv(r)'
  PROVE  ReapInv'
<1>1. SessionsRun'
  BY DEF ReapInv, SessionsRun, OthersKept
<1>2. clock' \in Nat /\ clock <= clock'
  BY BoundsAssumption DEF OthersKept, ReapInv, TypeOK, EcsType
<1>3. ASSUME NEW q \in Run, q # r PROVE RunInv(q)'
  BY <1>2, <1>3, RestKeeps DEF OthersKept, ReapInv
<1>. QED BY <1>1, <1>3 DEF ReapInv

LEMMA StartKeeps == ASSUME ReapInv, NEW r \in Run, StartRun(r) PROVE ReapInv'
<1>0. TypeOK /\ RunInv(r)
  BY DEF ReapInv
<1>1. /\ pc' = [pc EXCEPT ![r] = "list"] /\ now' = [now EXCEPT ![r] = clock]
      /\ todo' = [todo EXCEPT ![r] = {}] /\ due' = [due EXCEPT ![r] = Nothing]
      /\ current' = [current EXCEPT ![r] = None] /\ cleared' = [cleared EXCEPT ![r] = {}]
      /\ counts' = [counts EXCEPT ![r] = NoCounts] /\ listed' = [listed EXCEPT ![r] = {}]
      /\ UNCHANGED <<ecsVars, late, faults>>
  BY DEF StartRun, Goto
<1>2. NoCounts \in [Outcomes -> Nat]
  BY DEF NoCounts
<1>3. TypeOK'
  <2>1. due' \in [Run -> Described]
    BY <1>0, <1>1, NothingDescribed DEF TypeOK, RunType, Described
  <2>2. /\ pc' \in [Run -> Stages] /\ now' \in [Run -> 0..MaxClock] /\ todo' \in [Run -> SUBSET Task]
        /\ current' \in [Run -> Task \cup {None}] /\ cleared' \in [Run -> SUBSET Container]
        /\ counts' \in [Run -> [Outcomes -> Nat]] /\ listed' \in [Run -> SUBSET Task]
    BY <1>0, <1>1, <1>2 DEF TypeOK, RunType, EcsType, Stages
  <2>3. \A q \in Run : pc'[q] \in {"check", "stop"} => current'[q] \in DOMAIN due'[q]
    BY <1>0, <1>1 DEF TypeOK, RunType
  <2>. QED BY <1>0, <1>1, <2>1, <2>2, <2>3 DEF TypeOK, EcsType, RunType, Described, ecsVars
<1>4. OthersKept(r)
  BY <1>0, <1>1 DEF OthersKept, RunKept, TypeOK, RunType, ecsVars
<1>5. /\ pc'[r] = "list" /\ now'[r] = clock /\ todo'[r] = {} /\ due'[r] = Nothing
      /\ current'[r] = None /\ counts'[r] = NoCounts /\ clock' = clock
  BY <1>0, <1>1 DEF TypeOK, RunType, ecsVars
<1>6. Justified(r)'
  <2>1. clock \in Nat
    BY <1>0, BoundsAssumption DEF TypeOK, EcsType
  <2>. QED BY <1>5, <2>1, NothingDescribed DEF Justified, RuledOut
<1>7. BatchIsOver(r)' /\ Accounted(r)' /\ CleanSoFar(r)'
  BY <1>5, NothingDescribed DEF BatchIsOver, Accounted, CleanSoFar
<1>. QED BY <1>3, <1>4, <1>6, <1>7, RunStep DEF RunInv

LEMMA ListKeeps == ASSUME ReapInv, NEW r \in Run, ListRunningTasks(r) PROVE ReapInv'
<1>0. TypeOK /\ RunInv(r) /\ pc[r] = "list"
  BY DEF ReapInv, ListRunningTasks
<1>1. /\ pc' \in [Run -> Stages] /\ todo' \in [Run -> SUBSET Task] /\ listed' \in [Run -> SUBSET Task]
      /\ faults' \in 0..FaultBudget
      /\ \A q \in Run \ {r} : pc'[q] = pc[q] /\ todo'[q] = todo[q] /\ listed'[q] = listed[q]
      /\ \/ pc'[r] = "failed"
         \/ /\ pc'[r] \in {"idle", "describe"}
            /\ pc'[r] = "idle" => todo'[r] = {}
            /\ todo'[r] = listed'[r]
      /\ UNCHANGED <<ecsVars, now, due, current, cleared, counts, late>>
  <2>1. wanted \in SUBSET Task /\ faults \in 0..FaultBudget /\ FaultBudget \in Nat
    BY <1>0, BoundsAssumption DEF TypeOK, EcsType
  <2>2. /\ pc \in [Run -> Stages] /\ todo \in [Run -> SUBSET Task] /\ listed \in [Run -> SUBSET Task]
    BY <1>0 DEF TypeOK, RunType
  <2>3. CASE NoFault
    BY <2>1, <2>2, <2>3 DEF ListRunningTasks, Goto, Fault, NoFault, Stages
  <2>4. CASE Fault
    BY <2>1, <2>2, <2>4 DEF ListRunningTasks, Goto, Fault, NoFault, Stages
  <2>. QED BY <2>3, <2>4 DEF ListRunningTasks
<1>2. TypeOK'
  <2>1. \A q \in Run : pc'[q] \in {"check", "stop"} => current'[q] \in DOMAIN due'[q]
    BY <1>0, <1>1 DEF TypeOK, RunType
  <2>. QED BY <1>0, <1>1, <2>1 DEF TypeOK, EcsType, RunType, ecsVars
<1>3. OthersKept(r)
  BY <1>1 DEF OthersKept, RunKept, ecsVars
<1>4. DOMAIN due[r] = {} /\ counts[r] = NoCounts
  BY <1>0 DEF RunInv, BatchIsOver
<1>5. Justified(r)'
  BY <1>0, <1>1, <1>4 DEF RunInv, Justified, RuledOut, ecsVars, Expired
<1>6. BatchIsOver(r)'
  BY <1>1, <1>4 DEF BatchIsOver
<1>7. Accounted(r)'
  <2>1. Total(r)' = 0
    BY <1>1, <1>4 DEF Total, NoCounts, Outcomes
  <2>2. IsFiniteSet(listed'[r]) /\ Cardinality(listed'[r]) \in Nat
    BY <1>1, TaskAssumption, FS_Subset, FS_CardinalityType
  <2>3. Cardinality(DOMAIN due'[r]) = 0
    BY <1>1, <1>4, FS_EmptySet
  <2>. QED BY <1>1, <2>1, <2>2, <2>3 DEF Accounted
<1>8. CleanSoFar(r)'
  BY <1>1 DEF CleanSoFar
<1>. QED BY <1>2, <1>3, <1>5, <1>6, <1>7, <1>8, RunStep DEF RunInv

LEMMA TimeoutKeeps == ASSUME ReapInv, NEW r \in Run, RunTimesOut(r) PROVE ReapInv'
<1>0. TypeOK /\ RunInv(r)
  BY DEF ReapInv
<1>1. /\ pc' \in [Run -> Stages] /\ pc'[r] = "failed" /\ \A q \in Run \ {r} : pc'[q] = pc[q]
      /\ faults' \in 0..FaultBudget
      /\ UNCHANGED <<ecsVars, now, todo, due, current, cleared, counts, listed, late>>
  BY <1>0, BoundsAssumption DEF RunTimesOut, TypeOK, RunType, Goto, Fault, Stages
<1>2. TypeOK'
  <2>1. \A q \in Run : pc'[q] \in {"check", "stop"} => current'[q] \in DOMAIN due'[q]
    BY <1>0, <1>1 DEF TypeOK, RunType
  <2>. QED BY <1>0, <1>1, <2>1 DEF TypeOK, EcsType, RunType, ecsVars
<1>3. OthersKept(r)
  BY <1>1 DEF OthersKept, RunKept, ecsVars
<1>4. Justified(r)'
  BY <1>0, <1>1 DEF RunInv, Justified, RuledOut, ecsVars, Expired
<1>5. BatchIsOver(r)' /\ Accounted(r)' /\ CleanSoFar(r)'
  BY <1>1 DEF BatchIsOver, Accounted, CleanSoFar
<1>. QED BY <1>2, <1>3, <1>4, <1>5, RunStep DEF RunInv

\* What is common to the steps that take up tasks: the batch that is left is justified, since
\* each of its tasks is as it was described, and nothing has been asked about it yet.
LEMMA TakenUpKeeps ==
  ASSUME ReapInv, NEW r \in Run, NEW rest \in Described, TakenUp(r, rest, todo'[r]),
         UNCHANGED <<clock, deadline, exec, box, sessions, now, listed>>,
         wanted' \subseteq wanted, faults' \in 0..FaultBudget,
         todo' \in [Run -> SUBSET Task], \A q \in Run \ {r} : todo'[q] = todo[q],
         counts' \in [Run -> [Outcomes -> Nat]], \A q \in Run \ {r} : counts'[q] = counts[q],
         late' \subseteq late,
         \A q \in Run \ {r}, t \in Task, c \in Container : <<q, t, c>> \in late => <<q, t, c>> \in late',
         \A t \in DOMAIN rest : Expired(t, now[r]) /\ exec[t] # "unknown",
         \A t \in DOMAIN rest, c \in Container :
            ~Up(rest[t][c]) /\ <<t, c>> \in sessions => <<r, t, c>> \in late',
         pc[r] \notin {"list", "failed"},
         Total(r)' + Cardinality(DOMAIN rest) + Cardinality(todo'[r])
           = Total(r) + Cardinality(DOMAIN due[r]) + Cardinality(todo[r]),
         CleanSoFar(r)'
  PROVE  ReapInv'
<1>1. TypeOK /\ RunInv(r) /\ DOMAIN rest \in SUBSET Task
  BY DescribedType DEF ReapInv
<1>2. TypeOK'
  <2>1. \A q \in Run : pc'[q] \in {"check", "stop"} => current'[q] \in DOMAIN due'[q]
    BY <1>1 DEF TypeOK, RunType, TakenUp
  <2>. QED BY <1>1, <2>1 DEF TypeOK, EcsType, RunType, TakenUp, Described
<1>3. OthersKept(r)
  BY DEF OthersKept, RunKept, TakenUp
<1>4. /\ due'[r] = rest /\ cleared'[r] = {} /\ now'[r] = now[r]
      /\ pc'[r] \in {"idle", "describe"} => DOMAIN rest = {}
      /\ pc'[r] \in {"idle", "describe", "check", "stop"}
      /\ pc'[r] = "idle" => todo'[r] = {}
      /\ pc'[r] = "stop" => exec[current'[r]] = "no"
  BY DEF TakenUp
<1>5. Justified(r)'
  <2>1. now'[r] <= clock'
    BY <1>1 DEF RunInv, Justified
  <2>2. \A t \in DOMAIN due'[r] : Expired(t, now[r])' /\ exec'[t] # "unknown"
    BY <1>4 DEF Expired
  <2>3. pc'[r] = "stop" => exec'[current'[r]] = "no"
    BY <1>4
  <2>4. \A t \in Task, c \in Container :
          RuledOut(r, t, c)' /\ <<t, c>> \in sessions' => <<r, t, c>> \in late'
    BY <1>4 DEF RuledOut
  <2>. QED BY <2>1, <2>2, <2>3, <2>4 DEF Justified
<1>6. BatchIsOver(r)'
  BY <1>4 DEF BatchIsOver
<1>7. Accounted(r)'
  BY <1>1, <1>4 DEF RunInv, Accounted
<1>. QED BY <1>2, <1>3, <1>5, <1>6, <1>7, RunStep DEF RunInv

LEMMA DescribeKeeps == ASSUME ReapInv, NEW r \in Run, DescribeBatch(r) PROVE ReapInv'
<1>0. TypeOK /\ RunInv(r) /\ SessionsRun /\ pc[r] = "describe"
  BY DEF ReapInv, DescribeBatch
<1>1. PICK batch \in SUBSET todo[r] : todo' = [todo EXCEPT ![r] = @ \ batch] /\ Batched(r, batch)
  BY DEF DescribeBatch, Batches, Batched
<1>2. PICK rest : Counted(r, batch, rest)
  BY <1>0, <1>1, BatchCounts
<1>3. /\ todo' \in [Run -> SUBSET Task] /\ \A q \in Run \ {r} : todo'[q] = todo[q]
      /\ todo'[r] = todo[r] \ batch /\ todo[r] \in SUBSET Task
  BY <1>0, <1>1 DEF TypeOK, RunType
<1>4. faults' \in 0..FaultBudget
  BY <1>0, <1>1, BoundsAssumption DEF Batched, NoFault, Fault, TypeOK
<1>5. /\ late' \subseteq late
      /\ \A q \in Run \ {r}, t \in Task, c \in Container : <<q, t, c>> \in late => <<q, t, c>> \in late'
      /\ UNCHANGED <<clock, deadline, exec, box, sessions, now, listed, wanted>>
  BY DEF DescribeBatch, ecsVars
<1>6. \A t \in DOMAIN rest, c \in Container : ~Up(rest[t][c]) => <<t, c>> \notin sessions
  <2>1. DOMAIN rest \in SUBSET Task
    BY <1>2, DescribedType DEF Counted
  <2>. QED BY <1>0, <1>2, <2>1 DEF Counted, SessionsRun, Up
<1>7. DOMAIN due[r] = {} /\ Cardinality(DOMAIN due[r]) = 0
  BY <1>0, FS_EmptySet DEF RunInv, BatchIsOver
<1>8. /\ counts[r] \in [Outcomes -> Nat] /\ counts'[r] \in [Outcomes -> Nat]
      /\ \A o \in Outcomes : counts[r][o] \in Nat /\ counts'[r][o] \in Nat
  BY <1>0, <1>2 DEF TypeOK, RunType, Counted
<1>9. Total(r)' + Cardinality(DOMAIN rest) + Cardinality(todo'[r])
        = Total(r) + Cardinality(DOMAIN due[r]) + Cardinality(todo[r])
  <2>1. IsFiniteSet(todo[r]) /\ IsFiniteSet(batch) /\ IsFiniteSet(todo'[r]) /\ IsFiniteSet(DOMAIN rest)
    <3>1. IsFiniteSet(DOMAIN rest)
      BY <1>2, DescribedType DEF Counted
    <3>2. batch \subseteq Task /\ todo'[r] \subseteq Task /\ todo[r] \subseteq Task
      BY <1>3
    <3>. QED BY <3>1, <3>2, TaskAssumption, FS_Subset
  <2>2. Cardinality(todo[r]) = Cardinality(batch) + Cardinality(todo'[r])
    <3>1. todo[r] = batch \cup todo'[r] /\ batch \cap todo'[r] = {}
      BY <1>3
    <3>. QED BY <2>1, <3>1, DisjointUnion
  <2>3. /\ Cardinality(todo[r]) \in Nat /\ Cardinality(batch) \in Nat /\ Cardinality(todo'[r]) \in Nat
        /\ Cardinality(DOMAIN rest) \in Nat
    BY <2>1, FS_CardinalityType
  <2>4. /\ counts'[r].stopped = counts[r].stopped /\ counts'[r].protected = counts[r].protected
        /\ counts'[r].skipped + counts'[r].errors + Cardinality(DOMAIN rest)
             = counts[r].skipped + counts[r].errors + Cardinality(batch)
    BY <1>2 DEF Counted
  <2>5. /\ counts[r].stopped \in Nat /\ counts[r].protected \in Nat
        /\ counts[r].skipped \in Nat /\ counts[r].errors \in Nat
        /\ counts'[r].skipped \in Nat /\ counts'[r].errors \in Nat
    BY <1>8 DEF Outcomes
  <2>6. Total(r)' + Cardinality(DOMAIN rest) = Total(r) + Cardinality(batch)
    BY <2>3, <2>4, <2>5 DEF Total
  <2>7. Total(r) \in Nat /\ Total(r)' \in Nat
    BY <2>4, <2>5 DEF Total
  <2>. QED BY <1>7, <2>2, <2>3, <2>6, <2>7
<1>10. CleanSoFar(r)'
  <2>. SUFFICES ASSUME counts'[r].errors = 0, counts'[r].protected = 0,
                       NEW t \in listed'[r] \cap wanted'
                PROVE  t \in todo'[r] \/ t \in DOMAIN due'[r] \/ ~Expired(t, now[r])'
    BY DEF CleanSoFar
  <2>1. counts[r].errors \in Nat /\ counts[r].protected \in Nat
    BY <1>8 DEF Outcomes
  <2>2. counts[r].errors = 0 /\ counts[r].protected = 0 /\ counts'[r].errors = counts[r].errors
    BY <1>2, <2>1 DEF Counted
  <2>3. t \in todo[r] \/ ~Expired(t, now[r])
    BY <1>0, <1>5, <1>7, <2>2 DEF RunInv, CleanSoFar
  <2>4. t \in batch => t \in DOMAIN due'[r] \/ ~Expired(t, now[r])
    BY <1>2, <2>2 DEF Counted, TakenUp
  <2>5. Expired(t, now[r])' <=> Expired(t, now[r])
    BY <1>5 DEF Expired
  <2>. QED BY <1>3, <2>3, <2>4, <2>5
<1>11. /\ rest \in Described /\ TakenUp(r, rest, todo'[r])
       /\ counts' \in [Run -> [Outcomes -> Nat]] /\ \A q \in Run \ {r} : counts'[q] = counts[q]
       /\ \A t \in DOMAIN rest : Expired(t, now[r]) /\ exec[t] # "unknown"
  BY <1>2 DEF Counted
<1>. QED BY <1>0, <1>3, <1>4, <1>5, <1>6, <1>9, <1>10, <1>11, TakenUpKeeps

\* A task is dealt with: it is counted, and no longer due.
LEMMA DealtWith ==
  ASSUME ReapInv, NEW r \in Run, pc[r] \in {"check", "stop"}, Done(r),
         NEW o \in {"stopped", "protected", "errors"}, Count(r, o, 1),
         UNCHANGED <<clock, deadline, exec, box, sessions, now, todo, listed, late>>,
         wanted' \subseteq wanted, faults' \in 0..FaultBudget,
         o = "stopped" => current[r] \notin wanted'
  PROVE  ReapInv'
<1>0. TypeOK /\ RunInv(r)
  BY DEF ReapInv
<1>1. /\ due[r] \in Described /\ current[r] \in DOMAIN due[r] /\ todo[r] \in SUBSET Task
      /\ todo \in [Run -> SUBSET Task]
  BY <1>0 DEF TypeOK, RunType, Described
<1>2. Left(r) \in Described /\ TakenUp(r, Left(r), todo[r])
  BY <1>0, DoneTakes
<1>3. /\ DOMAIN Left(r) = DOMAIN due[r] \ {current[r]}
      /\ \A t \in DOMAIN Left(r) : Left(r)[t] = due[r][t]
  BY DEF Left
<1>4. /\ counts' \in [Run -> [Outcomes -> Nat]] /\ \A q \in Run \ {r} : counts'[q] = counts[q]
      /\ counts'[r] = [counts[r] EXCEPT ![o] = @ + 1]
  <2>1. o \in Outcomes /\ 1 \in Nat
    BY DEF Outcomes
  <2>. QED BY <1>0, <2>1, CountType
<1>5. counts[r] \in [Outcomes -> Nat]
  BY <1>0 DEF TypeOK, RunType
<1>6. Total(r)' = Total(r) + 1 /\ Total(r) \in Nat
  BY <1>4, <1>5 DEF Total, Outcomes
<1>7. IsFiniteSet(DOMAIN due[r]) /\ Cardinality(DOMAIN due[r]) \in Nat /\ DOMAIN due[r] \in SUBSET Task
  BY <1>1, DescribedType, FS_CardinalityType
<1>8. Cardinality(DOMAIN Left(r)) = Cardinality(DOMAIN due[r]) - 1
  BY <1>1, <1>3, <1>7, FS_RemoveElement
<1>9. Cardinality(todo[r]) \in Nat
  BY <1>1, TaskAssumption, FS_Subset, FS_CardinalityType
<1>10. Total(r)' + Cardinality(DOMAIN Left(r)) + Cardinality(todo'[r])
         = Total(r) + Cardinality(DOMAIN due[r]) + Cardinality(todo[r])
  BY <1>6, <1>7, <1>8, <1>9
<1>11. CleanSoFar(r)'
  <2>. SUFFICES ASSUME counts'[r].errors = 0, counts'[r].protected = 0,
                       NEW t \in listed'[r] \cap wanted'
                PROVE  t \in todo'[r] \/ t \in DOMAIN due'[r] \/ ~Expired(t, now[r])'
    BY DEF CleanSoFar
  <2>1. o = "stopped" /\ counts[r].errors = 0 /\ counts[r].protected = 0
    BY <1>4, <1>5 DEF Outcomes
  <2>2. t \in todo[r] \/ t \in DOMAIN due[r] \/ ~Expired(t, now[r])
    BY <1>0, <2>1 DEF RunInv, CleanSoFar
  <2>3. due'[r] = Left(r) /\ t # current[r]
    BY <1>2, <2>1 DEF TakenUp
  <2>4. Expired(t, now[r])' <=> Expired(t, now[r])
    BY DEF Expired
  <2>. QED BY <1>3, <2>2, <2>3, <2>4
<1>12. \A t \in DOMAIN Left(r) : Expired(t, now[r]) /\ exec[t] # "unknown"
  BY <1>0, <1>3 DEF RunInv, Justified
<1>13. \A t \in DOMAIN Left(r), c \in Container :
         ~Up(Left(r)[t][c]) /\ <<t, c>> \in sessions => <<r, t, c>> \in late'
  BY <1>0, <1>3, <1>7 DEF RunInv, Justified, RuledOut
<1>14. todo' = todo
  OBVIOUS
<1>. QED BY <1>1, <1>2, <1>4, <1>10, <1>11, <1>12, <1>13, <1>14, TakenUpKeeps

\* A container that SSM has no session for.
LEMMA ClearedKeeps ==
  ASSUME ReapInv, NEW r \in Run, pc[r] = "check", NEW c \in Container,
         <<current[r], c>> \notin sessions,
         cleared' = [cleared EXCEPT ![r] = @ \cup {c}],
         Goto(r, IF AllAsked(r, cleared'[r]) THEN "stop" ELSE "check"),
         UNCHANGED <<ecsVars, now, todo, due, current, counts, listed, late, faults>>
  PROVE  ReapInv'
<1>0. TypeOK /\ RunInv(r)
  BY DEF ReapInv
<1>1. /\ pc' \in [Run -> Stages] /\ cleared' \in [Run -> SUBSET Container]
      /\ \A q \in Run \ {r} : pc'[q] = pc[q] /\ cleared'[q] = cleared[q]
      /\ pc'[r] \in {"check", "stop"} /\ cleared'[r] = cleared[r] \cup {c}
      /\ pc'[r] = "stop" => AllAsked(r, cleared'[r])
  BY <1>0 DEF TypeOK, RunType, Goto, Stages
<1>2. TypeOK'
  <2>1. \A q \in Run : pc'[q] \in {"check", "stop"} => current'[q] \in DOMAIN due'[q]
    BY <1>0, <1>1 DEF TypeOK, RunType
  <2>. QED BY <1>0, <1>1, <2>1 DEF TypeOK, EcsType, RunType, ecsVars
<1>3. OthersKept(r)
  BY <1>1 DEF OthersKept, RunKept, ecsVars
<1>4. Justified(r)'
  <2>1. now'[r] <= clock' /\ \A t \in DOMAIN due'[r] : Expired(t, now[r])' /\ exec'[t] # "unknown"
    BY <1>0 DEF RunInv, Justified, Expired, ecsVars
  <2>2. pc'[r] = "stop" => AllAsked(r, cleared[r])'
    BY <1>1 DEF AllAsked
  <2>3. \A t \in Task, d \in Container :
          RuledOut(r, t, d)' /\ <<t, d>> \in sessions' => <<r, t, d>> \in late'
    BY <1>0, <1>1 DEF RunInv, Justified, RuledOut, ecsVars
  <2>. QED BY <2>1, <2>2, <2>3 DEF Justified
<1>5. BatchIsOver(r)'
  BY <1>1 DEF BatchIsOver
<1>6. Accounted(r)'
  BY <1>0, <1>1 DEF RunInv, Accounted, Total
<1>7. CleanSoFar(r)'
  BY <1>0, <1>1 DEF RunInv, CleanSoFar, Expired, ecsVars
<1>. QED BY <1>2, <1>3, <1>4, <1>5, <1>6, <1>7, RunStep DEF RunInv

LEMMA CheckKeeps == ASSUME ReapInv, NEW r \in Run, HasActiveSsmSession(r) PROVE ReapInv'
<1>0. TypeOK /\ pc[r] = "check" /\ UNCHANGED <<ecsVars, now, todo, listed, late>>
  BY DEF ReapInv, HasActiveSsmSession
<1>1. NoFault \/ Fault => faults' \in 0..FaultBudget
  BY <1>0, BoundsAssumption DEF TypeOK, NoFault, Fault
<1>2. CASE Done(r) /\ (NoFault \/ Fault) /\ \E o \in {"protected", "errors"} : Count(r, o, 1)
  <2>1. PICK o \in {"protected", "errors"} : Count(r, o, 1)
    BY <1>2
  <2>2. o \in {"stopped", "protected", "errors"} /\ o # "stopped"
    OBVIOUS
  <2>3. UNCHANGED <<clock, deadline, exec, box, sessions, now, todo, listed, late>> /\ wanted' = wanted
    BY <1>0 DEF ecsVars
  <2>. QED BY <1>0, <1>1, <1>2, <2>1, <2>2, <2>3, DealtWith
<1>3. CASE \E c \in Container :
             /\ <<current[r], c>> \notin sessions /\ NoFault
             /\ cleared' = [cleared EXCEPT ![r] = @ \cup {c}]
             /\ Goto(r, IF AllAsked(r, cleared'[r]) THEN "stop" ELSE "check")
             /\ UNCHANGED <<counts, due, current>>
  BY <1>0, <1>3, ClearedKeeps DEF NoFault
<1>. QED BY <1>2, <1>3 DEF HasActiveSsmSession

LEMMA StopKeeps == ASSUME ReapInv, NEW r \in Run, StopTask(r) PROVE ReapInv'
<1>0. /\ TypeOK /\ pc[r] \in {"check", "stop"} /\ Done(r)
      /\ UNCHANGED <<clock, deadline, exec, box, sessions, now, todo, listed, late>>
  BY DEF ReapInv, StopTask
<1>1. NoFault \/ Fault => faults' \in 0..FaultBudget
  BY <1>0, BoundsAssumption DEF TypeOK, NoFault, Fault
<1>2. PICK o \in {"stopped", "protected", "errors"} :
        /\ Count(r, o, 1) /\ (NoFault \/ Fault) /\ wanted' \subseteq wanted
        /\ o = "stopped" => current[r] \notin wanted'
  BY DEF StopTask
<1>. QED BY <1>0, <1>1, <1>2, DealtWith

-----------------------------------------------------------------------------
(* The steps of ECS and of operators. *)

LEMMA EnvironmentKeeps == ASSUME ReapInv, Environment PROVE ReapInv'
<1>0. TypeOK /\ SessionsRun
  BY DEF ReapInv
<1>1. UNCHANGED <<deadline, exec, runVars, faults>> /\ wanted' \subseteq wanted
  BY DEF Environment, Tick, TaskToldToStop, ContainerStarts, ContainerStops, OpenSession,
         CloseSession
<1>2. clock' \in 0..MaxClock /\ clock <= clock' /\ clock' \in Nat
  <2>1. clock \in 0..MaxClock /\ MaxClock \in Nat
    BY <1>0, BoundsAssumption DEF TypeOK, EcsType
  <2>2. clock' = clock \/ (clock < MaxClock /\ clock' = clock + 1)
    BY DEF Environment, Tick, TaskToldToStop, ContainerStarts, ContainerStops, OpenSession,
           CloseSession
  <2>. QED BY <2>1, <2>2
<1>3. box' \in [Task -> [Container -> Boxes]]
  <2>1. box \in [Task -> [Container -> Boxes]]
    BY <1>0 DEF TypeOK, EcsType
  <2>2. ASSUME NEW t \in Task, NEW c \in Container, ContainerStarts(t, c) PROVE box' \in [Task -> [Container -> Boxes]]
    BY <2>1, <2>2 DEF ContainerStarts, Boxes
  <2>3. ASSUME NEW t \in Task, NEW c \in Container, ContainerStops(t, c) PROVE box' \in [Task -> [Container -> Boxes]]
    BY <2>1, <2>3 DEF ContainerStops, Boxes
  <2>. QED BY <2>1, <2>2, <2>3 DEF Environment, Tick, TaskToldToStop, OpenSession, CloseSession
<1>4. sessions' \in SUBSET (Task \X Container) /\ late' \in SUBSET (Run \X Task \X Container)
  <2>1. sessions \in SUBSET (Task \X Container) /\ late \in SUBSET (Run \X Task \X Container)
    BY <1>0 DEF TypeOK, EcsType
  <2>2. ASSUME NEW t \in Task, NEW c \in Container, OpenSession(t, c)
        PROVE  sessions' \in SUBSET (Task \X Container) /\ late' \in SUBSET (Run \X Task \X Container)
    <3>1. {<<r, t, c>> : r \in {q \in Run : RuledOut(q, t, c)}} \in SUBSET (Run \X Task \X Container)
      OBVIOUS
    <3>. QED BY <2>1, <2>2, <3>1 DEF OpenSession
  <2>3. \/ \E t \in Task, c \in Container : OpenSession(t, c)
        \/ sessions' \subseteq sessions /\ late' \subseteq late
    BY DEF Environment, Tick, TaskToldToStop, ContainerStarts, ContainerStops, CloseSession
  <2>. QED BY <2>1, <2>2, <2>3
<1>5. TypeOK'
  BY <1>0, <1>1, <1>2, <1>3, <1>4 DEF TypeOK, EcsType, RunType, runVars
<1>6. SessionsRun'
  <2>1. CASE Tick \/ \E t \in Task : TaskToldToStop(t)
    BY <1>0, <2>1 DEF SessionsRun, Tick, TaskToldToStop
  <2>2. ASSUME NEW t \in Task, NEW c \in Container, ContainerStarts(t, c) PROVE SessionsRun'
    BY <1>0, <2>2 DEF SessionsRun, ContainerStarts, TypeOK, EcsType
  <2>3. ASSUME NEW t \in Task, NEW c \in Container, ContainerStops(t, c) PROVE SessionsRun'
    BY <1>0, <2>3 DEF SessionsRun, ContainerStops, TypeOK, EcsType
  <2>4. ASSUME NEW t \in Task, NEW c \in Container, OpenSession(t, c) \/ CloseSession(t, c) PROVE SessionsRun'
    BY <1>0, <2>4 DEF SessionsRun, OpenSession, CloseSession
  <2>. QED BY <2>1, <2>2, <2>3, <2>4 DEF Environment
<1>7. ASSUME NEW q \in Run PROVE RunInv(q)'
  <2>1. \A t \in Task, c \in Container :
          <<t, c>> \in sessions' =>
            \/ <<t, c>> \in sessions /\ (<<q, t, c>> \in late => <<q, t, c>> \in late')
            \/ RuledOut(q, t, c) => <<q, t, c>> \in late'
    <3>1. CASE Tick \/ \E t \in Task : TaskToldToStop(t)
      BY <3>1 DEF Tick, TaskToldToStop
    <3>2. ASSUME NEW t \in Task, NEW c \in Container, ContainerStarts(t, c) PROVE sessions' = sessions /\ late' = late
      BY <3>2 DEF ContainerStarts
    <3>3. ASSUME NEW t \in Task, NEW c \in Container, ContainerStops(t, c) \/ CloseSession(t, c),
                 NEW u \in Task, NEW d \in Container, <<u, d>> \in sessions'
          PROVE  <<u, d>> \in sessions /\ (<<q, u, d>> \in late => <<q, u, d>> \in late')
      <4>1. /\ sessions' = sessions \ {<<t, c>>}
            /\ late' = {s \in late : s[2] # t \/ s[3] # c}
        BY <3>3 DEF ContainerStops, CloseSession
      <4>2. <<u, d>> # <<t, c>> /\ <<q, u, d>>[2] = u /\ <<q, u, d>>[3] = d
        BY <3>3, <4>1
      <4>3. <<q, u, d>>[2] # t \/ <<q, u, d>>[3] # c
        BY <4>2
      <4>. QED BY <3>3, <4>1, <4>3
    <3>4. ASSUME NEW t \in Task, NEW c \in Container, OpenSession(t, c)
          PROVE  /\ sessions' = sessions \cup {<<t, c>>} /\ late \subseteq late'
                 /\ RuledOut(q, t, c) => <<q, t, c>> \in late'
      BY <3>4 DEF OpenSession
    <3>5. ASSUME NEW t \in Task, NEW c \in Container, OpenSession(t, c),
                 NEW u \in Task, NEW d \in Container, <<u, d>> \in sessions'
          PROVE  \/ <<u, d>> \in sessions /\ (<<q, u, d>> \in late => <<q, u, d>> \in late')
                 \/ RuledOut(q, u, d) => <<q, u, d>> \in late'
      <4>1. CASE <<u, d>> \in sessions
        BY <3>4, <3>5, <4>1
      <4>2. CASE u = t /\ d = c
        BY <3>4, <3>5, <4>2
      <4>3. <<u, d>> \in sessions \/ <<u, d>> = <<t, c>>
        BY <3>4, <3>5
      <4>4. <<u, d>> = <<t, c>> => u = t /\ d = c
        OBVIOUS
      <4>. QED BY <4>1, <4>2, <4>3, <4>4
    <3>. QED BY <3>1, <3>2, <3>3, <3>5 DEF Environment
  <2>2. RunKept(q)
    BY <1>1 DEF RunKept, runVars
  <2>3. RunInv(q)
    BY DEF ReapInv
  <2>. QED BY <1>0, <1>1, <1>2, <2>1, <2>2, <2>3, RestKeeps
<1>. QED BY <1>5, <1>6, <1>7 DEF ReapInv

-----------------------------------------------------------------------------
(* The theorems. *)

\* The invariant of the runs, over all their stages, from which the three theorems follow
\* (reap-tasks/handler.py as a whole).
THEOREM ReapInvariant == Spec => []ReapInv
<1>1. ReapInv /\ [Next]_vars => ReapInv'
  <2>. SUFFICES ASSUME ReapInv, [Next]_vars PROVE ReapInv'
    OBVIOUS
  <2>1. CASE UNCHANGED vars
    BY <2>1 DEF vars, ecsVars, runVars, ReapInv, TypeOK, EcsType, RunType, SessionsRun, RunInv,
                Justified,
                BatchIsOver, Accounted, CleanSoFar, Total, RuledOut, AllAsked, Expired
  <2>2. CASE Next
    BY <2>2, StartKeeps, ListKeeps, DescribeKeeps, CheckKeeps, StopKeeps, TimeoutKeeps,
       EnvironmentKeeps
       DEF Next, Reap
  <2>. QED BY <2>1, <2>2
<1>. QED BY <1>1, InitReap, PTL DEF Spec

\* A stop is justified by the clock and by what its run has seen, for any number of overlapping
\* runs, of tasks and of containers (reap-tasks/handler.py 132-156, 246-323).
THEOREM StopsAreJustified == Spec => StopIsJustified
<1>1. ASSUME ReapInv, NEW r \in Run, NEW t \in Task, Stops(r, t)
      PROVE  /\ Expired(t, clock) /\ exec[t] # "unknown"
             /\ \A c \in Container : <<t, c>> \in sessions => <<r, t, c>> \in late
  <2>1. TypeOK /\ SessionsRun /\ Justified(r) /\ pc[r] = "stop" /\ current[r] = t
    BY <1>1 DEF ReapInv, RunInv, Stops
  <2>2. t \in DOMAIN due[r] /\ now[r] \in Nat /\ clock \in Nat
    BY <2>1, BoundsAssumption DEF TypeOK, RunType, EcsType
  <2>3. Expired(t, clock) /\ exec[t] # "unknown"
    BY <2>1, <2>2 DEF Justified, Expired
  <2>4. ASSUME NEW c \in Container, <<t, c>> \in sessions PROVE RuledOut(r, t, c)
    BY <2>1, <2>2, <2>4 DEF Justified, AllAsked, RuledOut, SessionsRun
  <2>. QED BY <2>1, <2>3, <2>4 DEF Justified
<1>2. ReapInv /\ [Next]_vars =>
        [\A r \in Run, t \in Task :
           Stops(r, t) =>
             /\ Expired(t, clock)
             /\ exec[t] # "unknown"
             /\ \A c \in Container : <<t, c>> \in sessions => <<r, t, c>> \in late]_vars
  BY <1>1
<1>. QED BY <1>2, ReapInvariant, PTL DEF Spec, StopIsJustified

\* The report counts every listed task once, whatever fails (reap-tasks/handler.py 72-76, 105-182).
THEOREM ReportIsComplete == Spec => []EveryTaskAccountedFor
<1>1. ReapInv => EveryTaskAccountedFor
  BY DEF ReapInv, RunInv, Accounted, EveryTaskAccountedFor
<1>. QED BY <1>1, ReapInvariant, PTL

\* A clean report can be relied on: what was past its deadline has been told to stop
\* (reap-tasks/handler.py 105-182).
THEOREM CleanReportsAreTrue == Spec => []CleanReportIsTrue
<1>1. ReapInv => CleanReportIsTrue
  BY DEF ReapInv, RunInv, BatchIsOver, CleanSoFar, CleanReportIsTrue
<1>. QED BY <1>1, ReapInvariant, PTL

-----------------------------------------------------------------------------
(* A run ends by itself.  Its calls have an order: the listing, then a batch leaves todo, or a *)
(* task leaves due, or one more container of the current task is cleared.  Task is finite, and *)
(* so is the order for finitely many containers.                                              *)

Running(r) == pc[r] \notin {"idle", "failed"}

Smaller(S, T) == S \subseteq T /\ S # T

\* Run r is over, or strictly further in that order.
Nearer(r) ==
  \/ pc'[r] \in {"idle", "failed"}
  \/ /\ pc'[r] # "list"
     /\ \/ pc[r] = "list"
        \/ Smaller(todo'[r], todo[r])
        \/ todo'[r] = todo[r] /\ Smaller(DOMAIN due'[r], DOMAIN due[r])
        \/ todo'[r] = todo[r] /\ due'[r] = due[r] /\ Smaller(cleared[r], cleared'[r])

Untouched(r) ==
  /\ pc'[r] = pc[r] /\ todo'[r] = todo[r]
  /\ due'[r] = due[r] /\ cleared'[r] = cleared[r]

RunsMoveOn ==
  [][\A r \in Run :
       Running(r) => IF Reap(r) \/ RunTimesOut(r) THEN Nearer(r) ELSE Untouched(r)]_vars

\* A run describes only what it has listed and not described yet.
SomeToDescribe == \A r \in Run : pc[r] = "describe" => todo[r] # {}

LEMMA BatchShrinks ==
  ASSUME NEW r \in Run, SomeToDescribe, pc[r] = "describe", NEW batch \in Batches(r)
  PROVE  Smaller(todo[r] \ batch, todo[r])
<1>1. batch \subseteq todo[r]
  BY DEF Batches
<1>2. batch # {}
  <2>1. Cardinality({}) = 0
    BY FS_EmptySet
  <2>. QED BY <2>1, BatchAssumption DEF Batches, SomeToDescribe
<1>. QED BY <1>1, <1>2 DEF Smaller

\* What a run that makes a step becomes.  The tasks of a batch that is over are in rest.
LEMMA StepTakes ==
  ASSUME TypeOK, NEW r \in Run, DescribeBatch(r) \/ HasActiveSsmSession(r) \/ StopTask(r)
  PROVE  \/ /\ pc[r] = "describe"
            /\ \E batch \in Batches(r) : todo' = [todo EXCEPT ![r] = @ \ batch]
            /\ \E rest : TakenUp(r, rest, todo'[r])
         \/ /\ pc[r] \in {"check", "stop"} /\ todo' = todo
            /\ TakenUp(r, Left(r), todo[r])
         \/ /\ pc[r] = "check" /\ todo' = todo /\ due' = due
            /\ \E c \in Container \ cleared[r], stage \in {"check", "stop"} :
                 Goto(r, stage) /\ cleared' = [cleared EXCEPT ![r] = @ \cup {c}]
<1>1. CASE DescribeBatch(r)
  <2>1. PICK batch \in Batches(r) : todo' = [todo EXCEPT ![r] = @ \ batch] /\ Batched(r, batch)
    BY <1>1 DEF DescribeBatch, Batched
  <2>2. batch \in SUBSET todo[r]
    BY DEF Batches
  <2>. QED BY <1>1, <2>1, <2>2, BatchCounts DEF DescribeBatch, Counted
<1>2. CASE HasActiveSsmSession(r)
  <2>1. pc[r] = "check" /\ todo' = todo
    BY <1>2 DEF HasActiveSsmSession
  <2>2. \/ Done(r)
        \/ /\ due' = due
           /\ \E c \in Container \ cleared[r], stage \in {"check", "stop"} :
                Goto(r, stage) /\ cleared' = [cleared EXCEPT ![r] = @ \cup {c}]
    BY <1>2 DEF HasActiveSsmSession
  <2>. QED BY <2>1, <2>2, DoneTakes
<1>3. CASE StopTask(r)
  BY <1>3, DoneTakes DEF StopTask
<1>. QED BY <1>1, <1>2, <1>3

\* A step of one run leaves the others alone, and so does whatever else happens.
LEMMA OthersUntouched ==
  ASSUME TypeOK, Next, NEW r \in Run, ~Reap(r), ~RunTimesOut(r)
  PROVE  Untouched(r)
<1>1. ASSUME NEW q \in Run \ {r}, Reap(q) \/ RunTimesOut(q) PROVE Untouched(r)
  <2>1. CASE StartRun(q) \/ ListRunningTasks(q) \/ RunTimesOut(q)
    BY <1>1, <2>1 DEF StartRun, ListRunningTasks, RunTimesOut, Goto, Untouched, TypeOK, RunType
  <2>2. CASE DescribeBatch(q) \/ HasActiveSsmSession(q) \/ StopTask(q)
    <3>1. \/ \E batch : todo' = [todo EXCEPT ![q] = @ \ batch]
          \/ todo' = todo
      BY <2>2, StepTakes
    <3>2. todo'[r] = todo[r]
      BY <1>1, <3>1 DEF TypeOK, RunType
    <3>3. \/ \E rest, later : TakenUp(q, rest, later)
          \/ due' = due /\ \E c, stage : Goto(q, stage) /\ cleared' = [cleared EXCEPT ![q] = @ \cup {c}]
      BY <2>2, StepTakes
    <3>4. due'[r] = due[r] /\ pc'[r] = pc[r] /\ cleared'[r] = cleared[r]
      BY <1>1, <3>3 DEF TakenUp, Goto, TypeOK, RunType
    <3>. QED BY <3>2, <3>4 DEF Untouched
  <2>. QED BY <1>1, <2>1, <2>2 DEF Reap
<1>2. CASE Environment
  BY <1>2 DEF Environment, Tick, TaskToldToStop, ContainerStarts, ContainerStops, OpenSession,
              CloseSession, runVars, Untouched
<1>. QED BY <1>1, <1>2 DEF Next

LEMMA RunComesNearer ==
  ASSUME TypeOK, SomeToDescribe, NEW r \in Run, Running(r), Reap(r) \/ RunTimesOut(r)
  PROVE  Nearer(r)
<1>1. CASE RunTimesOut(r) \/ ListRunningTasks(r)
  BY <1>1 DEF RunTimesOut, ListRunningTasks, Goto, Nearer, TypeOK, RunType
<1>2. ~StartRun(r)
  BY DEF StartRun, Running
<1>3. CASE DescribeBatch(r) \/ HasActiveSsmSession(r) \/ StopTask(r)
  <2>1. CASE /\ pc[r] = "describe"
             /\ \E batch \in Batches(r) : todo' = [todo EXCEPT ![r] = @ \ batch]
             /\ \E rest : TakenUp(r, rest, todo'[r])
    <3>1. PICK batch \in Batches(r) : todo' = [todo EXCEPT ![r] = @ \ batch]
      BY <2>1
    <3>2. Smaller(todo'[r], todo[r])
      BY <2>1, <3>1, BatchShrinks DEF TypeOK, RunType
    <3>. QED BY <2>1, <3>2 DEF Nearer, TakenUp
  <2>2. CASE pc[r] \in {"check", "stop"} /\ todo' = todo /\ TakenUp(r, Left(r), todo[r])
    <3>1. Smaller(DOMAIN due'[r], DOMAIN due[r])
      BY <2>2 DEF TakenUp, Left, Smaller, TypeOK, RunType
    <3>. QED BY <2>2, <3>1 DEF Nearer, TakenUp
  <2>3. CASE /\ pc[r] = "check" /\ todo' = todo /\ due' = due
             /\ \E c \in Container \ cleared[r], stage \in {"check", "stop"} :
                  Goto(r, stage) /\ cleared' = [cleared EXCEPT ![r] = @ \cup {c}]
    <3>1. Smaller(cleared[r], cleared'[r]) /\ pc'[r] # "list"
      BY <2>3 DEF Goto, Smaller, TypeOK, RunType
    <3>. QED BY <2>3, <3>1 DEF Nearer
  <2>. QED BY <1>3, <2>1, <2>2, <2>3, StepTakes
<1>. QED BY <1>1, <1>2, <1>3 DEF Reap

LEMMA SomeToDescribeHolds == Spec => []SomeToDescribe
<1>1. Init => SomeToDescribe
  BY DEF Init, SomeToDescribe
<1>2. TypeOK /\ SomeToDescribe /\ [Next]_vars => SomeToDescribe'
  <2>. SUFFICES ASSUME TypeOK, SomeToDescribe, [Next]_vars, NEW r \in Run, pc'[r] = "describe"
                PROVE  todo'[r] # {}
    BY DEF SomeToDescribe
  <2>1. CASE UNCHANGED vars \/ (Next /\ ~Reap(r) /\ ~RunTimesOut(r))
    BY <2>1, OthersUntouched DEF vars, runVars, Untouched, SomeToDescribe
  <2>2. CASE StartRun(r) \/ ListRunningTasks(r) \/ RunTimesOut(r)
    BY <2>2 DEF StartRun, ListRunningTasks, RunTimesOut, Goto, TypeOK, RunType
  <2>3. CASE DescribeBatch(r) \/ HasActiveSsmSession(r) \/ StopTask(r)
    <3>1. \/ \E rest : TakenUp(r, rest, todo'[r])
          \/ \E stage \in {"check", "stop"} : Goto(r, stage)
      BY <2>3, StepTakes
    <3>. QED BY <3>1 DEF TakenUp, Goto, TypeOK, RunType
  <2>. QED BY <2>1, <2>2, <2>3 DEF Reap
<1>3. ReapInv => TypeOK
  BY DEF ReapInv
<1>. QED BY <1>1, <1>2, <1>3, ReapInvariant, PTL DEF Spec

\* No run goes on for ever, whatever starts, stops and fails beside it: with each call of its own
\* it is over or nearer its end, and nobody else sets it back (reap-tasks/handler.py 58-182).
THEOREM RunsEnd == Spec => RunsMoveOn
<1>1. ReapInv /\ SomeToDescribe /\ [Next]_vars =>
        [\A r \in Run :
           Running(r) => IF Reap(r) \/ RunTimesOut(r) THEN Nearer(r) ELSE Untouched(r)]_vars
  BY RunComesNearer, OthersUntouched DEF ReapInv
<1>. QED BY <1>1, ReapInvariant, SomeToDescribeHolds, PTL DEF Spec, RunsMoveOn

=============================================================================
