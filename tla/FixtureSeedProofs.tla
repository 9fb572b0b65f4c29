------------------------- MODULE FixtureSeedProofs -------------------------
(***************************************************************************)
(* Proofs about FixtureSeed, for every number of processes, batches and    *)
(* streams.  ContentInv needs no assumption on how processes overlap: the  *)
(* store only grows, and each stage knows what was written before it.      *)
(* OrderInv holds until a process begins while another creates the seed    *)
(* state (raced): from then on the checkpoint can be reset.                *)
(***************************************************************************)
EXTENDS FixtureSeedProperties, FiniteSetTheorems, TLAPS

(* The units a sum over S counts: W[x] of them for each x.                     *)
Units(W, S) == {p \in S \X Nat : p[2] \in 1..W[p[1]]}

(* A nonempty set of subsets of a finite set has a smallest member: what stands *)
(* for induction over finite sets below.                                        *)
LEMMA SmallestSubset ==
    ASSUME NEW S, IsFiniteSet(S)
    PROVE  \A Bad \in SUBSET SUBSET S : Bad # {} =>
                \E T \in Bad : \A U \in Bad : U \subseteq T => U = T
<1>. SUFFICES ASSUME NEW Bad \in SUBSET SUBSET S, Bad # {}
              PROVE  \E T \in Bad : \A U \in Bad : U \subseteq T => U = T
    OBVIOUS
<1>1. IsWellFoundedOn(StrictSubsetOrdering(S), FiniteSubsetsOf(S))
    BY FS_StrictSubsetOrderingWellFounded
<1>2. FiniteSubsetsOf(S) = SUBSET S
    BY FS_FiniteSubsetsOfFinite
<1>3. \E T \in Bad : \A U \in Bad : <<U, T>> \notin StrictSubsetOrdering(S)
    BY <1>1, <1>2, WFMin
<1>. QED BY <1>3 DEF StrictSubsetOrdering

(* Disjoint finite sets add up.                                                *)
LEMMA DisjointUnion ==
    ASSUME NEW S, IsFiniteSet(S), NEW T, IsFiniteSet(T), S \cap T = {}
    PROVE  /\ IsFiniteSet(S \cup T)
           /\ Cardinality(S \cup T) = Cardinality(S) + Cardinality(T)
<1>1. /\ IsFiniteSet(S \cup T)
      /\ Cardinality(S \cup T) = Cardinality(S) + Cardinality(T) - Cardinality(S \cap T)
    BY FS_Union
<1>2. Cardinality(S) \in Nat /\ Cardinality(T) \in Nat /\ Cardinality(S \cap T) = 0
    BY FS_CardinalityType, FS_EmptySet
<1>. QED BY <1>1, <1>2

(* An element adds its units to those of the others.                           *)
LEMMA UnitsOfOneMore ==
    ASSUME NEW W, NEW T, NEW x \in T, W[x] \in Nat, IsFiniteSet(Units(W, T \ {x}))
    PROVE  /\ IsFiniteSet(Units(W, T))
           /\ Cardinality(Units(W, T)) = W[x] + Cardinality(Units(W, T \ {x}))
<1>. DEFINE Own == {x} \X (1..W[x])
            Others == Units(W, T \ {x})
<1>1. Units(W, T) = Others \cup Own
    BY DEF Units
<1>2. Others \cap Own = {}
    BY DEF Units
<1>3. IsFiniteSet(Own) /\ Cardinality(Own) = W[x]
  <2>1. IsFiniteSet({x}) /\ Cardinality({x}) = 1
    BY FS_Singleton
  <2>2. IsFiniteSet(1..W[x]) /\ Cardinality(1..W[x]) = W[x]
    BY FS_Interval
  <2>3. IsFiniteSet(Own) /\ Cardinality(Own) = 1 * W[x]
    BY <2>1, <2>2, FS_Product
  <2>. QED BY <2>3
<1>4. IsFiniteSet(Others)
    OBVIOUS
<1>. HIDE DEF Own, Others
<1>5. /\ IsFiniteSet(Others \cup Own)
      /\ Cardinality(Others \cup Own) = Cardinality(Others) + Cardinality(Own)
    BY <1>2, <1>3, <1>4, DisjointUnion
<1>6. Cardinality(Others) \in Nat
    BY <1>4, FS_CardinalityType
<1>7. Cardinality(Others \cup Own) = W[x] + Cardinality(Others)
    BY <1>3, <1>5, <1>6
<1>. QED BY <1>1, <1>5, <1>7 DEF Others

(* A finite set has finitely many units.                                       *)
LEMMA UnitsFinite ==
    ASSUME NEW S, IsFiniteSet(S), NEW W, \A x \in S : W[x] \in Nat
    PROVE  IsFiniteSet(Units(W, S))
<1>. DEFINE Bad == {U \in SUBSET S : ~IsFiniteSet(Units(W, U))}
<1>. SUFFICES ASSUME Bad # {} PROVE FALSE
    OBVIOUS
<1>1. PICK U \in Bad : \A V \in Bad : V \subseteq U => V = U
  <2>1. Bad \in SUBSET SUBSET S
    OBVIOUS
  <2>. HIDE DEF Bad
  <2>. QED BY <2>1, SmallestSubset
<1>2. Units(W, {}) = {}
    BY DEF Units
<1>3. PICK x \in U : TRUE
    BY <1>2, FS_EmptySet
<1>4. IsFiniteSet(Units(W, U \ {x}))
    BY <1>1, <1>3
<1>. QED BY <1>3, <1>4, UnitsOfOneMore

(* A sum is the number of its units, in whichever order SumFunctionOnSet adds. *)
LEMMA SumIsUnits ==
    ASSUME NEW S, IsFiniteSet(S), NEW W, \A x \in S : W[x] \in Nat
    PROVE  SumFunctionOnSet(W, S) = Cardinality(Units(W, S))
<1>. DEFINE pick(s) == CHOOSE x \in s : TRUE
            Adds(f) == f = [s \in SUBSET S |->
                        IF s = {} THEN 0 ELSE W[pick(s)] + f[s \ {pick(s)}]]
            sum == CHOOSE f : Adds(f)
            count == [s \in SUBSET S |-> Cardinality(Units(W, s))]
<1>1. SumFunctionOnSet(W, S) = sum[S]
    BY DEF SumFunctionOnSet, FoldFunctionOnSet, MapThenFoldSet
<1>2. ASSUME NEW s \in SUBSET S, s # {}
      PROVE  Cardinality(Units(W, s)) = W[pick(s)] + Cardinality(Units(W, s \ {pick(s)}))
  <2>1. pick(s) \in s
    BY <1>2
  <2>. HIDE DEF pick
  <2>2. IsFiniteSet(s \ {pick(s)})
    BY FS_Subset
  <2>3. IsFiniteSet(Units(W, s \ {pick(s)}))
    BY <2>2, UnitsFinite
  <2>4. W[pick(s)] \in Nat
    BY <2>1
  <2>. QED BY <2>1, <2>3, <2>4, UnitsOfOneMore
<1>3. Cardinality(Units(W, {})) = 0
  <2>1. Units(W, {}) = {}
    BY DEF Units
  <2>. QED BY <2>1, FS_EmptySet
<1>4. Adds(count)
    BY <1>2, <1>3
<1>5. Adds(sum)
    BY <1>4
<1>. DEFINE Bad == {s \in SUBSET S : sum[s] # count[s]}
<1>6. ASSUME Bad # {} PROVE FALSE
  <2>1. PICK s \in Bad : \A t \in Bad : t \subseteq s => t = s
    <3>1. Bad \in SUBSET SUBSET S
      OBVIOUS
    <3>. HIDE DEF Bad
    <3>. QED BY <1>6, <3>1, SmallestSubset
  <2>2. s # {}
    BY <1>3, <1>5
  <2>3. PICK x : x = pick(s)
    OBVIOUS
  <2>4. x \in s
    BY <2>2, <2>3
  <2>5. sum[s \ {x}] = count[s \ {x}]
    <3>1. s \ {x} \in SUBSET S /\ s \ {x} \subseteq s /\ s \ {x} # s
      BY <2>4
    <3>. HIDE DEF sum, count
    <3>. QED BY <2>1, <3>1
  <2>6. sum[s] = W[x] + sum[s \ {x}]
    BY <1>5, <2>2, <2>3
  <2>7. count[s] = W[x] + count[s \ {x}]
    BY <1>4, <2>2, <2>3
  <2>. QED BY <2>5, <2>6, <2>7
<1>. QED BY <1>1, <1>6

(* Nothing sums up to zero.                                                    *)
LEMMA SumOfNothing == ASSUME NEW W PROVE SumFunctionOnSet(W, {}) = 0
<1>1. Units(W, {}) = {}
    BY DEF Units
<1>. QED BY <1>1, SumIsUnits, FS_EmptySet

(* Functions that agree on a set have the same sum there.                      *)
LEMMA SumOfEquals ==
    ASSUME NEW S, IsFiniteSet(S), NEW V, NEW W, \A x \in S : V[x] = W[x] /\ W[x] \in Nat
    PROVE  SumFunctionOnSet(V, S) = SumFunctionOnSet(W, S)
<1>1. Units(V, S) = Units(W, S)
    BY DEF Units
<1>. QED BY <1>1, SumIsUnits

(* Disjoint sets add up.                                                       *)
LEMMA SumOfParts ==
    ASSUME NEW S, IsFiniteSet(S), NEW T, IsFiniteSet(T), S \cap T = {},
           NEW W, \A x \in S \cup T : W[x] \in Nat
    PROVE  SumFunctionOnSet(W, S \cup T) = SumFunctionOnSet(W, S) + SumFunctionOnSet(W, T)
<1>1. IsFiniteSet(S \cup T)
    BY FS_Union
<1>2. Units(W, S \cup T) = Units(W, S) \cup Units(W, T) /\ Units(W, S) \cap Units(W, T) = {}
    BY DEF Units
<1>3. IsFiniteSet(Units(W, S)) /\ IsFiniteSet(Units(W, T))
    BY UnitsFinite
<1>4. Cardinality(Units(W, S \cup T)) = Cardinality(Units(W, S)) + Cardinality(Units(W, T))
    BY <1>2, <1>3, DisjointUnion
<1>5. /\ SumFunctionOnSet(W, S) = Cardinality(Units(W, S))
      /\ SumFunctionOnSet(W, T) = Cardinality(Units(W, T))
    BY SumIsUnits
<1>6. SumFunctionOnSet(W, S \cup T) = Cardinality(Units(W, S \cup T))
    BY <1>1, SumIsUnits
<1>. QED BY <1>4, <1>5, <1>6

Stages == {"off", "create", "apply", "objects", "links", "checkpoint", "publish", "done", "threw"}

\* The type invariant; counts are left out.
Types ==
    /\ DOMAIN seed = {"status", "next", "records"}
    /\ seed.status \in {"absent", "seeding", "ready"}
    /\ seed.next \in 1..(CutPoint + 1)
    /\ digests \in [Batches -> Streams \cup {None}]
    /\ DOMAIN writers = Writers
    /\ \A w \in Writers :
        /\ DOMAIN writers[w] = {"at", "stream", "pos", "records"}
        /\ writers[w].at \in Stages
        /\ writers[w].stream \in Streams
        /\ writers[w].pos \in 1..(CutPoint + 1)

\* What a process wrote of its group before the stage it is in.
Written(w) ==
    /\ writers[w].at \in {"links", "checkpoint"} =>
        ObjectsIn(writers[w].stream, Group(w)) \subseteq objects
    /\ writers[w].at = "checkpoint" =>
        LinksIn(writers[w].stream, Group(w)) \subseteq links

ContentInv == Types /\ CheckpointCoversContent /\ \A w \in Writers : Written(w)

\* The stages in which a process has planned its group.
Planned(w) == writers[w].at \in {"objects", "links", "checkpoint"}

\* The committed batches are those before the boundary; a ready store has them all.
BoundaryInv ==
    /\ seed.status = "absent" => \A b \in Batches : digests[b] = None
    /\ PrefixCommitted
    /\ seed.status = "ready" => seed.next = CutPoint + 1

\* What a process relies on: it creates the seed state alone, a planned group has no
\* batch of another stream, and a count verified stays verified.
Reliance(w) ==
    /\ writers[w].at = "create" =>
        seed.status = "absent" /\ \A v \in Writers \ {w} : ~Running(v)
    /\ Running(w) /\ writers[w].at # "create" => seed.status # "absent"
    /\ Planned(w) =>
        /\ writers[w].pos <= CutPoint
        /\ \A b \in Group(w) : digests[b] \in {None, writers[w].stream}
    /\ writers[w].at = "publish" => seed.next = CutPoint + 1

OneStream ==
    \A v, w \in Writers : Running(v) /\ Running(w) => writers[v].stream = writers[w].stream

OrderInv == Types /\ BoundaryInv /\ OneStream /\ \A w \in Writers : Reliance(w)

USE SeedAssumption DEF Batches, PrefixCommitted

(* The next position of a process lies within the stream or just behind it.  *)
LEMMA AfterTyped ==
    ASSUME Types, NEW w \in Writers
    PROVE  After(w) \in 1..(CutPoint + 1)
  BY DEF Types, After

(* Moving one process to another stage keeps the processes well typed.       *)
LEMMA MovesTyped ==
    ASSUME Types, NEW w \in Writers, NEW at \in Stages, Moves(w, at)
    PROVE  /\ DOMAIN writers' = Writers
           /\ \A v \in Writers :
                /\ DOMAIN writers'[v] = DOMAIN writers[v]
                /\ writers'[v].stream = writers[v].stream
                /\ writers'[v].pos = writers[v].pos
                /\ writers'[v].at = IF v = w THEN at ELSE writers[v].at
  BY DEF Types, Moves

(* The same of a process that goes on to its next group.                     *)
LEMMA ProceedsTyped ==
    ASSUME Types, NEW w \in Writers, Proceeds(w)
    PROVE  /\ DOMAIN writers' = Writers
           /\ \A v \in Writers :
                /\ DOMAIN writers'[v] = DOMAIN writers[v]
                /\ writers'[v].stream = writers[v].stream
                /\ writers'[v].pos = IF v = w THEN After(w) ELSE writers[v].pos
                /\ writers'[v].at = IF v = w THEN "apply" ELSE writers[v].at
  BY DEF Types, Proceeds

(* Every step keeps the checkpoint and the processes well typed.             *)
LEMMA TypesStep == ASSUME Types, [Next]_vars PROVE Types'
<1>. DEFINE T == Types'
<1>0. CASE UNCHANGED vars
    BY <1>0 DEF Types, vars, store, After, Group
<1>1. ASSUME NEW w \in Writers, NEW s \in Streams, Start(w, s) PROVE T
    BY <1>1 DEF Types, Start, Stages, store
<1>2. ASSUME NEW w \in Writers, Create(w) PROVE T
    BY <1>2, MovesTyped DEF Types, Create, Stages
<1>3. ASSUME NEW w \in Writers, Replay(w) \/ Yield(w) PROVE T
    BY <1>3, ProceedsTyped, AfterTyped DEF Types, Replay, Yield, Stages, store
<1>4. ASSUME NEW w \in Writers, Plan(w) PROVE T
    BY <1>4 DEF Types, Plan, Stages, store
<1>5. ASSUME NEW w \in Writers, Reject(w) \/ Lose(w) \/ Refuse(w) \/ LosePublication(w) PROVE T
  <2>1. Moves(w, "threw") /\ UNCHANGED store
    BY <1>5 DEF Reject, Lose, Refuse, LosePublication, Throws
  <2>. QED BY <2>1, MovesTyped DEF Types, Stages, store
<1>6. ASSUME NEW w \in Writers, WriteObjects(w) PROVE T
    BY <1>6, MovesTyped DEF Types, WriteObjects, Stages
<1>7. ASSUME NEW w \in Writers, WriteLinks(w) PROVE T
    BY <1>7, MovesTyped DEF Types, WriteLinks, Stages
<1>8. ASSUME NEW w \in Writers, Checkpoint(w) PROVE T
  <2>1. DOMAIN seed' = {"status", "next", "records"} /\ seed'.status = seed.status
        /\ seed'.next = After(w)
    BY <1>8 DEF Types, Checkpoint
  <2>2. digests' \in [Batches -> Streams \cup {None}]
    BY <1>8 DEF Types, Checkpoint
  <2>. QED BY <1>8, <2>1, <2>2, ProceedsTyped, AfterTyped DEF Types, Checkpoint, Stages
<1>9. ASSUME NEW w \in Writers, Verify(w) PROVE T
  <2>1. PICK at \in {"done", "publish"} : Moves(w, at) /\ UNCHANGED store
    BY <1>9 DEF Verify
  <2>2. at \in Stages
    BY DEF Stages
  <2>. QED BY <2>1, <2>2, MovesTyped DEF Types, store
<1>10. ASSUME NEW w \in Writers, Publish(w) PROVE T
    BY <1>10, MovesTyped DEF Types, Publish, Stages
<1>11. ASSUME NEW w \in Writers, Crash(w) PROVE T
    BY <1>11, MovesTyped DEF Types, Crash, Stages, store
<1>. QED BY <1>0, <1>1, <1>2, <1>3, <1>4, <1>5, <1>6, <1>7, <1>8, <1>9, <1>10, <1>11
    DEF Next, Step

(* A process whose group, stream and stage are the same, or that left its     *)
(* writing stages, still has written what it had, since nothing is removed.   *)
LEMMA WrittenKept ==
    ASSUME NEW w \in Writers, Written(w),
           objects \subseteq objects', links \subseteq links',
           \/ writers'[w].at \notin {"links", "checkpoint"}
           \/ /\ writers'[w].at = writers[w].at
              /\ writers'[w].stream = writers[w].stream
              /\ writers'[w].pos = writers[w].pos
    PROVE  Written(w)'
  BY DEF Written, ObjectsIn, LinksIn, Group

(* Nothing is ever removed from the store.                                    *)
LEMMA StoreGrows ==
    ASSUME [Next]_vars PROVE objects \subseteq objects' /\ links \subseteq links'
  BY DEF Next, vars, store, Step, Start, Create, Replay, Plan, Reject, WriteObjects,
         WriteLinks, Checkpoint, Yield, Lose, Verify, Refuse, Publish, LosePublication,
         Crash, Throws

(* Every step keeps committed batches covered: the checkpoint of a group is    *)
(* reached only through the stages that wrote its objects and relationships.   *)
LEMMA ContentStep == ASSUME ContentInv, [Next]_vars PROVE ContentInv'
<1>. USE DEF ContentInv
<1>1. Types'
    BY TypesStep
<1>2. objects \subseteq objects' /\ links \subseteq links'
    BY StoreGrows
<1>3. ASSUME UNCHANGED digests PROVE CheckpointCoversContent'
    BY <1>2, <1>3 DEF CheckpointCoversContent
<1>4. ASSUME UNCHANGED digests,
             \A v \in Writers :
                \/ writers'[v].at \notin {"links", "checkpoint"}
                \/ /\ writers'[v].at = writers[v].at
                   /\ writers'[v].stream = writers[v].stream
                   /\ writers'[v].pos = writers[v].pos
      PROVE  ContentInv'
    BY <1>1, <1>2, <1>3, <1>4, WrittenKept
<1>5. CASE UNCHANGED vars
    BY <1>4, <1>5 DEF vars, store
<1>6. ASSUME NEW w \in Writers, NEW s \in Streams, Start(w, s) PROVE ContentInv'
    BY <1>4, <1>6 DEF Start, store, Types
<1>7. ASSUME NEW w \in Writers, Create(w) PROVE ContentInv'
    BY <1>4, <1>7, MovesTyped DEF Create, Stages
<1>8. ASSUME NEW w \in Writers, Replay(w) \/ Yield(w) PROVE ContentInv'
    BY <1>4, <1>8, ProceedsTyped DEF Replay, Yield, store
<1>9. ASSUME NEW w \in Writers, Plan(w) PROVE ContentInv'
    BY <1>4, <1>9 DEF Plan, store, Types
<1>10. ASSUME NEW w \in Writers,
              Reject(w) \/ Lose(w) \/ Refuse(w) \/ LosePublication(w)
       PROVE  ContentInv'
  <2>1. Moves(w, "threw") /\ UNCHANGED store
    BY <1>10 DEF Reject, Lose, Refuse, LosePublication, Throws
  <2>. QED BY <1>4, <2>1, MovesTyped DEF Stages, store
<1>11. ASSUME NEW w \in Writers, WriteObjects(w) PROVE ContentInv'
  <2>1. UNCHANGED digests /\ Moves(w, "links")
    BY <1>11 DEF WriteObjects
  <2>2. \A v \in Writers : writers'[v].stream = writers[v].stream
                          /\ writers'[v].pos = writers[v].pos
                          /\ writers'[v].at = IF v = w THEN "links" ELSE writers[v].at
    BY <2>1, MovesTyped DEF Stages
  <2>3. Written(w)'
    BY <1>11, <2>2 DEF Written, WriteObjects, ObjectsIn, Group
  <2>4. \A v \in Writers : v # w => Written(v)'
    BY <1>2, <2>2, WrittenKept
  <2>. QED BY <1>1, <1>3, <2>1, <2>3, <2>4
<1>12. ASSUME NEW w \in Writers, WriteLinks(w) PROVE ContentInv'
  <2>1. UNCHANGED digests /\ Moves(w, "checkpoint")
    BY <1>12 DEF WriteLinks
  <2>2. \A v \in Writers : writers'[v].stream = writers[v].stream
                          /\ writers'[v].pos = writers[v].pos
                          /\ writers'[v].at = IF v = w THEN "checkpoint" ELSE writers[v].at
    BY <2>1, MovesTyped DEF Stages
  <2>3. Written(w)'
    BY <1>12, <2>2 DEF Written, WriteLinks, ObjectsIn, LinksIn, Group
  <2>4. \A v \in Writers : v # w => Written(v)'
    BY <1>2, <2>2, WrittenKept
  <2>. QED BY <1>1, <1>3, <2>1, <2>3, <2>4
<1>13. ASSUME NEW w \in Writers, Checkpoint(w) PROVE ContentInv'
  <2>1. CheckpointCoversContent'
    <3>1. SUFFICES ASSUME NEW b \in Batches, digests'[b] # None
                   PROVE  /\ Objects[digests'[b]][b] \subseteq objects
                          /\ Links[digests'[b]][b] \subseteq links
        BY <1>13 DEF CheckpointCoversContent, Checkpoint
    <3>2. CASE b \in Group(w)
        BY <1>13, <3>2 DEF Checkpoint, Written, ObjectsIn, LinksIn
    <3>3. CASE b \notin Group(w)
        BY <1>13, <3>1, <3>3 DEF Checkpoint, CheckpointCoversContent
    <3>. QED BY <3>2, <3>3
  <2>2. \A v \in Writers : Written(v)'
    BY <1>2, <1>13, ProceedsTyped, WrittenKept DEF Checkpoint
  <2>. QED BY <1>1, <2>1, <2>2
<1>14. ASSUME NEW w \in Writers, Verify(w) PROVE ContentInv'
  <2>1. PICK at \in {"done", "publish"} : Moves(w, at) /\ UNCHANGED store
    BY <1>14 DEF Verify
  <2>2. at \in Stages
    BY DEF Stages
  <2>. QED BY <1>4, <2>1, <2>2, MovesTyped DEF store
<1>15. ASSUME NEW w \in Writers, Publish(w) PROVE ContentInv'
    BY <1>4, <1>15, MovesTyped DEF Publish, Stages
<1>16. ASSUME NEW w \in Writers, Crash(w) PROVE ContentInv'
    BY <1>4, <1>16, MovesTyped DEF Crash, Stages, store
<1>. QED BY <1>5, <1>6, <1>7, <1>8, <1>9, <1>10, <1>11, <1>12, <1>13, <1>14, <1>15, <1>16
    DEF Next, Step

(* The content invariant holds initially, when nothing is committed.           *)
LEMMA ContentInit == Init => ContentInv
<1>. SUFFICES ASSUME Init PROVE ContentInv
    OBVIOUS
<1>1. Types
    BY DEF Init, Types, Stages
<1>. QED BY <1>1 DEF Init, ContentInv, CheckpointCoversContent, Written

(* The seed state, the digests and every process keep their types.             *)
THEOREM SeedTypes == Spec => []Types
<1>1. ContentInv /\ [Next]_vars => ContentInv'
    BY ContentStep
<1>2. ContentInv => Types
    BY DEF ContentInv
<1>. QED BY ContentInit, <1>1, <1>2, PTL DEF Spec

(* A batch that is recorded as committed is in the store, whatever crashed    *)
(* and however processes overlap, also while the seed state is created.       *)
THEOREM CommittedIsStored == Spec => []CheckpointCoversContent
<1>1. ContentInv /\ [Next]_vars => ContentInv'
    BY ContentStep
<1>2. ContentInv => CheckpointCoversContent
    BY DEF ContentInv
<1>. QED BY ContentInit, <1>1, <1>2, PTL DEF Spec

(* A step that begins no process leaves every process on its stream, and no    *)
(* process runs that did not run before.                                       *)
LEMMA StepsKeepStreams ==
    ASSUME Types, NEW w \in Writers, Step(w)
    PROVE  /\ \A v \in Writers : writers'[v].stream = writers[v].stream
           /\ \A v \in Writers : Running(v)' => Running(v)
           /\ \A v \in Writers \ {w} : /\ writers'[v].at = writers[v].at
                                       /\ writers'[v].pos = writers[v].pos
<1>1. ASSUME NEW at \in Stages, Moves(w, at), Running(w)
      PROVE  /\ \A v \in Writers : writers'[v].stream = writers[v].stream
             /\ \A v \in Writers : Running(v)' => Running(v)
             /\ \A v \in Writers \ {w} : /\ writers'[v].at = writers[v].at
                                         /\ writers'[v].pos = writers[v].pos
    BY <1>1, MovesTyped DEF Running
<1>2. ASSUME Proceeds(w), Running(w)
      PROVE  /\ \A v \in Writers : writers'[v].stream = writers[v].stream
             /\ \A v \in Writers : Running(v)' => Running(v)
             /\ \A v \in Writers \ {w} : /\ writers'[v].at = writers[v].at
                                         /\ writers'[v].pos = writers[v].pos
    BY <1>2, ProceedsTyped DEF Running
<1>3. CASE Replay(w) \/ Checkpoint(w) \/ Yield(w)
    BY <1>2, <1>3 DEF Replay, Checkpoint, Yield, Applying, Running
<1>4. CASE Plan(w)
    BY <1>4 DEF Plan, Applying, Running, Types
<1>5. CASE Create(w) \/ Reject(w) \/ WriteObjects(w) \/ WriteLinks(w) \/ Lose(w)
            \/ Verify(w) \/ Refuse(w) \/ Publish(w) \/ LosePublication(w) \/ Crash(w)
  <2>1. Running(w)
    BY <1>5 DEF Create, Reject, WriteObjects, WriteLinks, Lose, Verify, Refuse, Publish,
                LosePublication, Crash, Applying, Finished, Running
  <2>2. PICK at \in {"apply", "links", "checkpoint", "done", "publish", "off", "threw"} :
            Moves(w, at)
    BY <1>5 DEF Create, Reject, WriteObjects, WriteLinks, Lose, Verify, Refuse, Publish,
                LosePublication, Crash, Throws
  <2>3. at \in Stages
    BY DEF Stages
  <2>. QED BY <1>1, <2>1, <2>2, <2>3
<1>. QED BY <1>3, <1>4, <1>5 DEF Step

(* A process that stays where it is still relies on what it did: no process     *)
(* began, the store was created already or is untouched, the batches of its     *)
(* group belong to its stream, and a verified boundary did not move.            *)
LEMMA RelianceKept ==
    ASSUME NEW v \in Writers, Reliance(v),
           writers'[v].at = writers[v].at, writers'[v].pos = writers[v].pos,
           writers'[v].stream = writers[v].stream,
           \A u \in Writers : Running(u)' => Running(u),
           seed.status # "absent" => seed'.status # "absent",
           writers[v].at = "create" => seed'.status = seed.status,
           Planned(v) => \A b \in Batches :
                digests'[b] \in {digests[b], writers[v].stream},
           writers[v].at = "publish" => seed'.next = seed.next
    PROVE  Reliance(v)'
  BY DEF Reliance, Running, Planned, Group

(* Every step keeps the order invariant.  Create acts alone, so it resets only *)
(* an empty checkpoint; Checkpoint extends the prefix by exactly its group;     *)
(* Publish is reached only when the boundary was verified to be the last.       *)
LEMMA OrderStep ==
    ASSUME ~raced', OrderInv, [Next]_vars PROVE OrderInv'
<1>. USE DEF OrderInv
<1>1. Types'
    BY TypesStep
<1>2. CASE UNCHANGED vars
    BY <1>1, <1>2 DEF vars, store, BoundaryInv, OneStream, Reliance, Running, Planned, Group
<1>3. ASSUME NEW w \in Writers, NEW s \in Streams, Start(w, s) PROVE OrderInv'
  <2>1. /\ \A v \in Writers \ {w} : writers'[v] = writers[v]
        /\ writers'[w].at \in {"create", "apply"} /\ writers'[w].stream = s
        /\ writers'[w].at = "create" <=> seed.status = "absent"
    BY <1>3 DEF Start, Types
  <2>2. UNCHANGED store
    BY <1>3 DEF Start
  <2>3. BoundaryInv'
    BY <2>2 DEF BoundaryInv, store
  <2>4. OneStream'
    BY <1>3, <2>1 DEF OneStream, Start, Running
  <2>5. \A v \in Writers : Running(v) => seed.status # "absent"
    BY <1>3 DEF Reliance, Start, Running
  <2>6. Reliance(w)'
    BY <2>1, <2>2, <2>5 DEF Reliance, Running, Planned, store
  <2>7. ASSUME NEW v \in Writers \ {w} PROVE Reliance(v)'
    BY <1>3, <2>1, <2>2, <2>5 DEF Reliance, Start, Running, Planned, Group, store
  <2>. QED BY <1>1, <2>3, <2>4, <2>6, <2>7
<1>4. ASSUME NEW w \in Writers, Step(w) PROVE OrderInv'
  <2>1. /\ \A v \in Writers : writers'[v].stream = writers[v].stream
        /\ \A v \in Writers : Running(v)' => Running(v)
        /\ \A v \in Writers \ {w} : /\ writers'[v].at = writers[v].at
                                    /\ writers'[v].pos = writers[v].pos
    BY <1>4, StepsKeepStreams
  <2>2. OneStream'
    BY <2>1 DEF OneStream
  <2>3. ASSUME UNCHANGED <<seed, digests>>, Reliance(w)' PROVE OrderInv'
    <3>1. BoundaryInv'
        BY <2>3 DEF BoundaryInv
    <3>2. ASSUME NEW v \in Writers \ {w} PROVE Reliance(v)'
        BY <2>1, <2>3, RelianceKept DEF Types
    <3>. QED BY <1>1, <2>2, <2>3, <3>1, <3>2
  <2>4. CASE Create(w)
    <3>1. /\ seed.status = "absent" /\ \A v \in Writers \ {w} : ~Running(v)
          /\ \A b \in Batches : digests[b] = None
        BY <2>4 DEF Create, Reliance, BoundaryInv
    <3>2. seed'.status = "seeding" /\ seed'.next = 1 /\ digests' = digests
        BY <2>4 DEF Create
    <3>3. BoundaryInv'
        BY <3>1, <3>2 DEF BoundaryInv
    <3>4. writers'[w].at = "apply"
        BY <2>4, MovesTyped DEF Create, Stages
    <3>5. Reliance(w)'
        BY <3>2, <3>4 DEF Reliance, Planned
    <3>6. ASSUME NEW v \in Writers \ {w} PROVE Reliance(v)'
        BY <2>1, <3>1 DEF Reliance, Running, Planned
    <3>. QED BY <1>1, <2>2, <3>3, <3>5, <3>6
  <2>5. CASE Replay(w) \/ Yield(w)
    <3>1. writers'[w].at = "apply" /\ UNCHANGED <<seed, digests>>
        BY <2>5, ProceedsTyped DEF Replay, Yield, store
    <3>2. seed.status # "absent"
        BY <2>5 DEF Replay, Yield, Applying, Reliance, Running
    <3>. QED BY <2>3, <3>1, <3>2 DEF Reliance, Planned
  <2>6. CASE Plan(w)
    <3>1. /\ writers'[w].at = "objects" /\ writers'[w].pos = writers[w].pos
          /\ UNCHANGED <<seed, digests>>
        BY <2>6 DEF Plan, store, Types
    <3>2. seed.status = "seeding" /\ writers[w].pos <= CutPoint
          /\ \A b \in Group(w) : digests[b] = None
        BY <2>6 DEF Plan, Writable, Applying
    <3>. QED BY <2>3, <3>1, <3>2 DEF Reliance, Planned, Group
  <2>7. CASE Reject(w) \/ Lose(w) \/ Refuse(w) \/ LosePublication(w) \/ Crash(w)
    <3>1. writers'[w].at \in {"threw", "off"} /\ UNCHANGED <<seed, digests>>
        BY <2>7, MovesTyped DEF Reject, Lose, Refuse, LosePublication, Crash, Throws, Stages, store
    <3>. QED BY <2>3, <3>1 DEF Reliance, Planned, Running
  <2>8. CASE WriteObjects(w) \/ WriteLinks(w)
    <3>1. /\ Planned(w) /\ writers'[w].at \in {"links", "checkpoint"}
          /\ writers'[w].pos = writers[w].pos
          /\ UNCHANGED <<seed, digests>>
        BY <2>8, MovesTyped DEF WriteObjects, WriteLinks, Planned, Stages
    <3>. QED BY <2>1, <2>3, <3>1 DEF Reliance, Planned, Running, Group
  <2>9. CASE Checkpoint(w)
    <3>1. /\ Planned(w) /\ seed.next = writers[w].pos /\ writers[w].pos <= CutPoint
          /\ seed.status # "absent"
        BY <2>9 DEF Checkpoint, Unmoved, Planned, Reliance, Running
    <3>2. /\ seed'.next = After(w) /\ seed'.status = seed.status
          /\ \A b \in Batches :
                digests'[b] = IF b \in Group(w) THEN writers[w].stream ELSE digests[b]
        BY <2>9 DEF Checkpoint, Types
    <3>3. \A b \in Batches : b < After(w) <=> b < writers[w].pos \/ b \in Group(w)
        BY DEF After, Group, Types
    <3>4. BoundaryInv'
        BY <3>1, <3>2, <3>3 DEF BoundaryInv, Types
    <3>5. writers'[w].at = "apply"
        BY <2>9, ProceedsTyped DEF Checkpoint
    <3>6. Reliance(w)'
        BY <3>1, <3>2, <3>5 DEF Reliance, Planned
    <3>7. ASSUME NEW v \in Writers \ {w} PROVE Reliance(v)'
      <4>1. Running(w)
          BY <2>9 DEF Checkpoint, Running
      <4>2. writers[v].at # "create" /\ writers[v].at # "publish"
          BY <3>1, <4>1 DEF Reliance, Types
      <4>3. Planned(v) => writers[v].stream = writers[w].stream
          BY <4>1 DEF OneStream, Planned, Running
      <4>4. Planned(v) => \A b \in Batches : digests'[b] \in {digests[b], writers[v].stream}
          BY <3>2, <4>3
      <4>. QED BY <2>1, <3>1, <3>2, <4>2, <4>4, RelianceKept
    <3>. QED BY <1>1, <2>2, <3>4, <3>6, <3>7
  <2>10. CASE Verify(w)
    <3>1. /\ writers'[w].at \in {"done", "publish"} /\ seed.next = CutPoint + 1
          /\ seed.status # "absent" /\ UNCHANGED <<seed, digests>>
        BY <2>10, MovesTyped DEF Verify, Verified, Finished, Reliance, Running, Stages, store
    <3>. QED BY <2>3, <3>1 DEF Reliance, Planned
  <2>11. CASE Publish(w)
    <3>1. /\ seed.status = "seeding" /\ seed.next = CutPoint + 1
          /\ seed'.status = "ready" /\ seed'.next = seed.next /\ digests' = digests
        BY <2>11 DEF Publish, Reliance, Types
    <3>2. BoundaryInv'
        BY <3>1 DEF BoundaryInv
    <3>3. writers'[w].at = "done"
        BY <2>11, MovesTyped DEF Publish, Stages
    <3>4. Reliance(w)'
        BY <3>3 DEF Reliance, Planned, Running
    <3>5. ASSUME NEW v \in Writers \ {w} PROVE Reliance(v)'
      <4>1. writers[v].at # "create"
          BY <2>11 DEF Publish, Reliance, Running
      <4>. QED BY <2>1, <3>1, <4>1, RelianceKept
    <3>. QED BY <1>1, <2>2, <3>2, <3>4, <3>5
  <2>. QED BY <1>4, <2>4, <2>5, <2>6, <2>7, <2>8, <2>9, <2>10, <2>11 DEF Step
<1>. QED BY <1>2, <1>3, <1>4 DEF Next

(* The order invariant holds initially, when no process runs.                  *)
LEMMA OrderInit == Init => OrderInv
<1>. SUFFICES ASSUME Init PROVE OrderInv
    OBVIOUS
<1>1. Types
    BY DEF Init, Types, Stages
<1>. QED BY <1>1 DEF Init, OrderInv, BoundaryInv, OneStream, Reliance, Running, Planned

(* A race is not forgotten, so what holds until one is kept by every step.       *)
LEMMA RaceStays == ASSUME [Next]_vars, ~raced' PROVE ~raced
  BY DEF Next, Start, Step, Create, Replay, Plan, Reject, WriteObjects, WriteLinks, Checkpoint,
         Yield, Lose, Verify, Refuse, Publish, LosePublication, Crash, Throws, vars, history

(* The order invariant for as long as there was none.                           *)
Ordered == ~raced => OrderInv
LEMMA OrderedStep == Ordered /\ [Next]_vars => Ordered'
  BY OrderStep, RaceStays DEF Ordered

(* The committed batches are those before the resume boundary, until a process *)
(* starts while another creates the seed state.                                *)
THEOREM CommittedIsPrefix == Spec => []CheckpointIsPrefix
<1>1. Init => Ordered
    BY OrderInit DEF Ordered
<1>2. Ordered => CheckpointIsPrefix
    BY DEF Ordered, OrderInv, BoundaryInv, CheckpointIsPrefix
<1>. QED BY <1>1, <1>2, OrderedStep, PTL DEF Spec

(* Every batch has a size.                                                     *)
LEMMA SizeTyped ==
    ASSUME NEW s \in Streams, NEW b \in Batches PROVE Size(s)[b] \in Nat
<1>1. IsFiniteSet(Objects[s][b]) /\ IsFiniteSet(Links[s][b])
    BY BatchesAssumption
<1>. QED BY <1>1, FS_CardinalityType DEF Size

(* So has every set of batches.                                                *)
LEMMA BatchesFinite == ASSUME NEW B, B \subseteq Batches PROVE IsFiniteSet(B)
<1>1. IsFiniteSet(Batches)
    BY FS_Interval
<1>. QED BY <1>1, FS_Subset

(* Every step keeps the count: a checkpoint adds the sizes of batches that were  *)
(* not committed, and creation resets the count when nothing is.                 *)
LEMMA CountStep ==
    ASSUME OrderInv, ~raced, RecordsCountedOnce, [Next]_vars PROVE RecordsCountedOnce'
<1>. USE DEF OrderInv
<1>. DEFINE done == {b \in Batches : digests[b] # None}
            sizes == [b \in done |-> Size(digests[b])[b]]
<1>1. RecordsCountedOnce' <=> (~raced' => seed'.records = SumFunctionOnSet(sizes', done'))
    BY DEF RecordsCountedOnce, SumFunction
<1>2. seed.records = SumFunctionOnSet(sizes, done)
    BY DEF RecordsCountedOnce, SumFunction
<1>3. CASE seed'.records = seed.records /\ digests' = digests
    BY <1>1, <1>2, <1>3
<1>4. ASSUME NEW w \in Writers, Create(w) PROVE RecordsCountedOnce'
  <2>1. seed'.records = 0 /\ digests' = digests /\ done = {}
    BY <1>4 DEF Create, Reliance, BoundaryInv
  <2>2. SumFunctionOnSet(sizes', done') = 0
    BY <2>1, SumOfNothing
  <2>. QED BY <1>1, <2>1, <2>2
<1>5. ASSUME NEW w \in Writers, Checkpoint(w) PROVE RecordsCountedOnce'
  <2>. DEFINE s == writers[w].stream
  <2>1. /\ seed'.records = seed.records + SumFunctionOnSet(Size(s), Group(w))
        /\ digests' = [b \in Batches |-> IF b \in Group(w) THEN s ELSE digests[b]]
    BY <1>5 DEF Checkpoint, RecordsIn, Types
  <2>2. s \in Streams /\ s # None /\ Group(w) \subseteq Batches
    BY DEF Types, Group
  <2>3. Group(w) \cap done = {} /\ done' = done \cup Group(w)
    <3>1. \A b \in Group(w) : digests[b] = None
        BY <1>5 DEF Checkpoint, Unmoved, Group, BoundaryInv, Types
    <3>. QED BY <2>1, <2>2, <3>1
  <2>4. /\ \A b \in done : sizes'[b] = sizes[b] /\ sizes[b] \in Nat
        /\ \A b \in Group(w) : sizes'[b] = Size(s)[b] /\ Size(s)[b] \in Nat
    BY <2>1, <2>2, <2>3, SizeTyped DEF Types
  <2>5. IsFiniteSet(done) /\ IsFiniteSet(Group(w))
    BY <2>2, BatchesFinite
  <2>. HIDE DEF sizes, done, s
  <2>6. SumFunctionOnSet(sizes', done \cup Group(w))
            = SumFunctionOnSet(sizes', done) + SumFunctionOnSet(sizes', Group(w))
    BY <2>3, <2>4, <2>5, SumOfParts
  <2>7. SumFunctionOnSet(sizes', done) = SumFunctionOnSet(sizes, done)
    BY <2>4, <2>5, SumOfEquals
  <2>8. SumFunctionOnSet(sizes', Group(w)) = SumFunctionOnSet(Size(s), Group(w))
    BY <2>4, <2>5, SumOfEquals
  <2>. QED BY <1>1, <1>2, <2>1, <2>3, <2>6, <2>7, <2>8
<1>6. ASSUME NEW w \in Writers, Publish(w) PROVE seed'.records = seed.records /\ digests' = digests
    BY <1>6 DEF Publish, Types
<1>. QED BY <1>3, <1>4, <1>5, <1>6 DEF Next, vars, store, Step, Start, Replay, Plan, Reject,
         WriteObjects, WriteLinks, Yield, Lose, Verify, Refuse, LosePublication, Crash, Throws

(* Nothing is counted initially.                                                *)
LEMMA RecordsInit == Init => RecordsCountedOnce
<1>. SUFFICES ASSUME Init PROVE RecordsCountedOnce
    OBVIOUS
<1>1. {b \in Batches : digests[b] # None} = {} /\ seed.records = 0
    BY DEF Init
<1>. QED BY <1>1, SumOfNothing DEF RecordsCountedOnce, SumFunction

(* The record count is that of the committed batches, each counted once, whoever *)
(* replays a group and whoever wrote the same one meanwhile, until a race.        *)
THEOREM RecordsAreCountedOnce == Spec => []RecordsCountedOnce
<1>1. Init => Ordered
    BY OrderInit DEF Ordered
<1>2. Ordered /\ RecordsCountedOnce /\ [Next]_vars => RecordsCountedOnce'
  <2>. SUFFICES ASSUME Ordered, RecordsCountedOnce, [Next]_vars, ~raced'
                PROVE  RecordsCountedOnce'
    BY DEF RecordsCountedOnce
  <2>1. ~raced
    BY RaceStays
  <2>. QED BY <2>1, CountStep DEF Ordered
<1>. QED BY <1>1, <1>2, RecordsInit, OrderedStep, PTL DEF Spec

(* A step from a ready store changes nothing of it: what a process that planned *)
(* its group before still writes is there already.                              *)
LEMMA ReadyStep ==
    ASSUME OrderInv, ContentInv, [Next]_vars, seed.status = "ready" PROVE UNCHANGED store
<1>. USE DEF OrderInv, ContentInv
<1>1. seed.next = CutPoint + 1 /\ \A b \in Batches : digests[b] # None
    BY DEF BoundaryInv
<1>2. ASSUME NEW w \in Writers, Planned(w)
      PROVE  /\ ObjectsIn(writers[w].stream, Group(w)) \subseteq objects
             /\ LinksIn(writers[w].stream, Group(w)) \subseteq links
    BY <1>1, <1>2 DEF Reliance, CheckpointCoversContent, ObjectsIn, LinksIn, Group
<1>3. ASSUME NEW w \in Writers PROVE ~Create(w) /\ ~Checkpoint(w) /\ ~Publish(w)
    BY <1>1 DEF Create, Checkpoint, Publish, Unmoved, Reliance, Planned, Types
<1>4. ASSUME NEW w \in Writers, WriteObjects(w) PROVE UNCHANGED store
    BY <1>2, <1>4 DEF WriteObjects, Planned, store
<1>5. ASSUME NEW w \in Writers, WriteLinks(w) PROVE UNCHANGED store
    BY <1>2, <1>5 DEF WriteLinks, Planned, store
<1>6. CASE UNCHANGED vars
    BY <1>6 DEF vars
<1>7. ASSUME NEW w \in Writers,
             \/ \E s \in Streams : Start(w, s)
             \/ Replay(w) \/ Plan(w) \/ Reject(w) \/ Yield(w) \/ Lose(w)
             \/ Verify(w) \/ Refuse(w) \/ LosePublication(w) \/ Crash(w)
      PROVE  UNCHANGED store
    BY <1>7 DEF Start, Replay, Plan, Reject, Yield, Lose, Verify, Refuse, LosePublication,
                Crash, Throws
<1>. QED BY <1>3, <1>4, <1>5, <1>6, <1>7 DEF Next, Step

(* From ready on the store is frozen, whatever processes planned before, unless  *)
(* one began while another was creating the seed state.                          *)
THEOREM ReadyStoreFrozen == Spec => ReadyIsFrozen
<1>1. Init => Ordered
    BY OrderInit DEF Ordered
<1>2. ContentInv /\ [Next]_vars => ContentInv'
    BY ContentStep
<1>3. Ordered /\ ContentInv /\ [Next]_vars =>
        [seed.status = "ready" /\ ~raced => UNCHANGED store]_vars
    BY ReadyStep DEF Ordered
<1>. QED BY ContentInit, <1>1, OrderedStep, <1>2, <1>3, PTL DEF Spec, ReadyIsFrozen

(* What ReadyIsExact says of a ready store.                                      *)
Exact ==
    /\ \A b \in Batches : digests[b] # None
    /\ objects = UNION {Objects[digests[b]][b] : b \in Batches}
    /\ links = UNION {Links[digests[b]][b] : b \in Batches}

(* A planned group has no batch of another stream.                               *)
OwnGroup(w) == Planned(w) => \A b \in Group(w) : digests[b] \in {None, writers[w].stream}

(* What also a race leaves true: processes that overlap read one stream, and the  *)
(* batches before the boundary are committed, if not only they.                   *)
RaceInv ==
    /\ Types /\ OneStream
    /\ \A b \in Batches : b < seed.next => digests[b] # None
    /\ \A w \in Writers : OwnGroup(w)

(* A process that stays where it is, and whose group stays its own, keeps OwnGroup. *)
LEMMA OwnGroupKept ==
    ASSUME NEW v \in Writers, OwnGroup(v),
           writers'[v].at = writers[v].at, writers'[v].pos = writers[v].pos,
           writers'[v].stream = writers[v].stream,
           Planned(v) => \A b \in Batches : digests'[b] \in {digests[b], writers[v].stream}
    PROVE  OwnGroup(v)'
  BY DEF OwnGroup, Planned, Group

(* Every step keeps it: a checkpoint succeeds only at the boundary, and creation   *)
(* moves the boundary back.                                                       *)
LEMMA RaceStep == ASSUME RaceInv, [Next]_vars PROVE RaceInv'
<1>. USE DEF RaceInv
<1>1. Types'
    BY TypesStep
<1>2. CASE UNCHANGED vars
    BY <1>1, <1>2 DEF vars, store, OneStream, OwnGroup, Running, Planned, Group
<1>3. ASSUME NEW w \in Writers, NEW s \in Streams, Start(w, s) PROVE RaceInv'
  <2>1. /\ \A v \in Writers \ {w} : writers'[v] = writers[v]
        /\ writers'[w].at \in {"create", "apply"} /\ writers'[w].stream = s
    BY <1>3 DEF Start, Types
  <2>2. UNCHANGED store
    BY <1>3 DEF Start
  <2>3. OneStream'
    BY <1>3, <2>1 DEF OneStream, Start, Running
  <2>4. OwnGroup(w)'
    BY <2>1 DEF OwnGroup, Planned
  <2>5. \A v \in Writers \ {w} : OwnGroup(v)'
    BY <2>1, <2>2, OwnGroupKept DEF store
  <2>. QED BY <1>1, <2>2, <2>3, <2>4, <2>5 DEF store
<1>4. ASSUME NEW w \in Writers, Step(w) PROVE RaceInv'
  <2>1. /\ \A v \in Writers : writers'[v].stream = writers[v].stream
        /\ \A v \in Writers : Running(v)' => Running(v)
        /\ \A v \in Writers \ {w} : /\ writers'[v].at = writers[v].at
                                    /\ writers'[v].pos = writers[v].pos
    BY <1>4, StepsKeepStreams
  <2>2. OneStream'
    BY <2>1 DEF OneStream
  <2>3. ASSUME UNCHANGED digests,
               \A b \in Batches : b < seed'.next => b < seed.next,
               OwnGroup(w)'
        PROVE  RaceInv'
    <3>1. \A v \in Writers \ {w} : OwnGroup(v)'
        BY <2>1, <2>3, OwnGroupKept
    <3>. QED BY <1>1, <2>2, <2>3, <3>1
  <2>4. CASE Create(w)
    <3>1. digests' = digests /\ seed'.next = 1 /\ writers'[w].at = "apply"
        BY <2>4, MovesTyped DEF Create, Stages
    <3>. QED BY <2>3, <3>1 DEF OwnGroup, Planned
  <2>5. CASE Replay(w) \/ Yield(w)
    <3>1. writers'[w].at = "apply" /\ UNCHANGED <<seed, digests>>
        BY <2>5, ProceedsTyped DEF Replay, Yield, store
    <3>. QED BY <2>3, <3>1 DEF OwnGroup, Planned
  <2>6. CASE Plan(w)
    <3>1. /\ writers'[w].at = "objects" /\ writers'[w].pos = writers[w].pos
          /\ UNCHANGED <<seed, digests>> /\ \A b \in Group(w) : digests[b] = None
        BY <2>6 DEF Plan, Writable, store, Types
    <3>. QED BY <2>3, <3>1 DEF OwnGroup, Group
  <2>7. CASE Reject(w) \/ Lose(w) \/ Refuse(w) \/ LosePublication(w) \/ Crash(w) \/ Verify(w)
    <3>1. PICK at \in {"threw", "off", "done", "publish"} :
                Moves(w, at) /\ UNCHANGED <<seed, digests>>
        BY <2>7 DEF Reject, Lose, Refuse, LosePublication, Crash, Verify, Throws, store
    <3>2. writers'[w].at = at
        BY <3>1, MovesTyped DEF Stages
    <3>. QED BY <2>3, <3>1, <3>2 DEF OwnGroup, Planned
  <2>8. CASE WriteObjects(w) \/ WriteLinks(w)
    <3>1. /\ Planned(w) /\ writers'[w].pos = writers[w].pos
          /\ UNCHANGED <<seed, digests>>
        BY <2>8, MovesTyped DEF WriteObjects, WriteLinks, Planned, Stages
    <3>. QED BY <2>1, <2>3, <3>1 DEF OwnGroup, Planned, Group
  <2>9. CASE Checkpoint(w)
    <3>1. Planned(w) /\ Running(w) /\ seed.next = writers[w].pos
        BY <2>9 DEF Checkpoint, Unmoved, Planned, Running
    <3>2. /\ seed'.next = After(w)
          /\ \A b \in Batches :
                digests'[b] = IF b \in Group(w) THEN writers[w].stream ELSE digests[b]
        BY <2>9 DEF Checkpoint, Types
    <3>3. \A b \in Batches : b < seed'.next => digests'[b] # None
      <4>1. writers[w].stream # None
          BY DEF Types
      <4>2. \A b \in Batches : b < After(w) => b < writers[w].pos \/ b \in Group(w)
          BY DEF After, Group, Types
      <4>. QED BY <3>1, <3>2, <4>1, <4>2
    <3>4. OwnGroup(w)'
        BY <2>9, ProceedsTyped DEF Checkpoint, OwnGroup, Planned
    <3>5. ASSUME NEW v \in Writers \ {w} PROVE OwnGroup(v)'
      <4>1. Planned(v) => writers[v].stream = writers[w].stream
          BY <3>1 DEF OneStream, Planned, Running
      <4>2. Planned(v) => \A b \in Batches : digests'[b] \in {digests[b], writers[v].stream}
          BY <3>2, <4>1
      <4>. QED BY <2>1, <4>2, OwnGroupKept
    <3>. QED BY <1>1, <2>2, <3>3, <3>4, <3>5
  <2>10. CASE Publish(w)
    <3>1. seed'.next = seed.next /\ digests' = digests /\ writers'[w].at = "done"
        BY <2>10, MovesTyped DEF Publish, Stages, Types
    <3>. QED BY <2>3, <3>1 DEF OwnGroup, Planned
  <2>. QED BY <1>4, <2>4, <2>5, <2>6, <2>7, <2>8, <2>9, <2>10 DEF Step
<1>. QED BY <1>2, <1>3, <1>4 DEF Next

LEMMA RaceInit == Init => RaceInv
  BY ContentInit DEF ContentInv, Init, RaceInv, OneStream, OwnGroup, Running, Planned

(* Once every batch is committed and stored no step changes what is stored: what   *)
(* planned processes still write is there already.                                *)
LEMMA ExactStays ==
    ASSUME RaceInv, ContentInv, Exact, [Next]_vars
    PROVE  UNCHANGED <<digests, objects, links>>
<1>. USE DEF RaceInv
<1>1. ASSUME NEW w \in Writers, Planned(w)
      PROVE  /\ \A b \in Group(w) : digests[b] = writers[w].stream
             /\ ObjectsIn(writers[w].stream, Group(w)) \subseteq objects
             /\ LinksIn(writers[w].stream, Group(w)) \subseteq links
  <2>1. \A b \in Group(w) : b \in Batches /\ digests[b] = writers[w].stream
    BY <1>1 DEF OwnGroup, Exact, Group
  <2>. QED BY <2>1 DEF ContentInv, CheckpointCoversContent, ObjectsIn, LinksIn, Exact
<1>2. ASSUME NEW w \in Writers, WriteObjects(w) PROVE UNCHANGED <<digests, objects, links>>
    BY <1>1, <1>2 DEF WriteObjects, Planned
<1>3. ASSUME NEW w \in Writers, WriteLinks(w) PROVE UNCHANGED <<digests, objects, links>>
    BY <1>1, <1>3 DEF WriteLinks, Planned
<1>4. ASSUME NEW w \in Writers, Checkpoint(w) PROVE UNCHANGED <<digests, objects, links>>
    BY <1>1, <1>4 DEF Checkpoint, Planned, Types
<1>5. ASSUME NEW w \in Writers,
             \/ \E s \in Streams : Start(w, s)
             \/ Create(w) \/ Replay(w) \/ Plan(w) \/ Reject(w) \/ Yield(w) \/ Lose(w)
             \/ Verify(w) \/ Refuse(w) \/ Publish(w) \/ LosePublication(w) \/ Crash(w)
      PROVE  UNCHANGED <<digests, objects, links>>
    BY <1>5 DEF Start, Create, Replay, Plan, Reject, Yield, Lose, Verify, Refuse, Publish,
                LosePublication, Crash, Throws, store
<1>6. CASE UNCHANGED vars
    BY <1>6 DEF vars, store
<1>. QED BY <1>2, <1>3, <1>4, <1>5, <1>6 DEF Next, Step

(* A store holds finitely many objects and relationships.                         *)
FiniteStore == IsFiniteSet(objects) /\ IsFiniteSet(links)

(* The contents of a set of batches, taken from whichever streams, are finite.     *)
LEMMA ContentFinite ==
    ASSUME NEW D \in [Batches -> Streams], NEW B, B \subseteq Batches
    PROVE  /\ IsFiniteSet(UNION {Objects[D[b]][b] : b \in B})
           /\ IsFiniteSet(UNION {Links[D[b]][b] : b \in B})
<1>. DEFINE O == {Objects[D[b]][b] : b \in B}
            L == {Links[D[b]][b] : b \in B}
            o == [b \in B |-> Objects[D[b]][b]]
            l == [b \in B |-> Links[D[b]][b]]
<1>1. IsFiniteSet(B)
    BY BatchesFinite
<1>2. o \in Surjection(B, O) /\ l \in Surjection(B, L)
    BY DEF Surjection
<1>3. \A T \in O \cup L : IsFiniteSet(T)
    BY BatchesAssumption
<1>. HIDE DEF O, L, o, l
<1>4. IsFiniteSet(O) /\ IsFiniteSet(L)
    BY <1>1, <1>2, FS_Surjection
<1>5. IsFiniteSet(UNION O) /\ IsFiniteSet(UNION L)
    BY <1>3, <1>4, FS_UNION
<1>. QED BY <1>5 DEF O, L

(* So is what a group contains.                                                   *)
LEMMA GroupFinite ==
    ASSUME NEW s \in Streams, NEW B, B \subseteq Batches
    PROVE  IsFiniteSet(ObjectsIn(s, B)) /\ IsFiniteSet(LinksIn(s, B))
<1>. DEFINE D == [b \in Batches |-> s]
<1>1. D \in [Batches -> Streams]
    OBVIOUS
<1>2. /\ ObjectsIn(s, B) = UNION {Objects[D[b]][b] : b \in B}
      /\ LinksIn(s, B) = UNION {Links[D[b]][b] : b \in B}
    BY DEF ObjectsIn, LinksIn
<1>. HIDE DEF D
<1>. QED BY <1>1, <1>2, ContentFinite

(* Every step leaves the store finite.                                            *)
LEMMA FiniteStep == ASSUME Types, FiniteStore, [Next]_vars PROVE FiniteStore'
<1>1. ASSUME NEW w \in Writers
      PROVE  /\ IsFiniteSet(ObjectsIn(writers[w].stream, Group(w)))
             /\ IsFiniteSet(LinksIn(writers[w].stream, Group(w)))
  <2>1. writers[w].stream \in Streams /\ Group(w) \subseteq Batches
    BY DEF Types, Group
  <2>. QED BY <2>1, GroupFinite
<1>2. ASSUME NEW w \in Writers, WriteObjects(w) PROVE FiniteStore'
    BY <1>1, <1>2, FS_Union DEF WriteObjects, FiniteStore
<1>3. ASSUME NEW w \in Writers, WriteLinks(w) PROVE FiniteStore'
    BY <1>1, <1>3, FS_Union DEF WriteLinks, FiniteStore
<1>4. CASE UNCHANGED <<objects, links>>
    BY <1>4 DEF FiniteStore
<1>. QED BY <1>2, <1>3, <1>4 DEF Next, vars, store, Step, Start, Create, Replay, Plan, Reject,
         Checkpoint, Yield, Lose, Verify, Refuse, Publish, LosePublication, Crash, Throws

(* A process that verified the counts, and a ready store, had every batch.         *)
Verifies == \E w \in Writers : writers[w].at = "publish"
ExactInv == RaceInv /\ ContentInv /\ FiniteStore /\ (seed.status = "ready" \/ Verifies => Exact)

(* Verification finds a store exact: it has every committed batch, which is no     *)
(* less than the manifest counts, and no more than that.                           *)
LEMMA VerifiedIsExact ==
    ASSUME NoShortStream, RaceInv, ContentInv, FiniteStore, Verified PROVE Exact
<1>. DEFINE O == UNION {Objects[digests[b]][b] : b \in Batches}
            L == UNION {Links[digests[b]][b] : b \in Batches}
            fo == Cardinality(ObjectsIn(Fixture, Batches))
            fl == Cardinality(LinksIn(Fixture, Batches))
<1>1. \A b \in Batches : digests[b] # None
    BY DEF RaceInv, Verified, Types
<1>2. digests \in [Batches -> Streams]
    BY <1>1 DEF RaceInv, Types
<1>3. O \subseteq objects /\ L \subseteq links
    BY <1>1 DEF ContentInv, CheckpointCoversContent
<1>4. fo <= Cardinality(O) /\ fl <= Cardinality(L)
    BY <1>2 DEF NoShortStream
<1>5. Cardinality(objects) = fo /\ Cardinality(links) = fl
    BY DEF Verified, CountsMatch
<1>6. IsFiniteSet(O) /\ IsFiniteSet(L)
    BY <1>2, ContentFinite
<1>. HIDE DEF O, L, fo, fl
<1>7. /\ Cardinality(objects) \in Nat /\ Cardinality(O) \in Nat
      /\ Cardinality(links) \in Nat /\ Cardinality(L) \in Nat
    BY <1>6, FS_CardinalityType DEF FiniteStore
<1>8. Cardinality(O) <= Cardinality(objects) /\ Cardinality(L) <= Cardinality(links)
    BY <1>3, FS_Subset DEF FiniteStore
<1>9. Cardinality(objects) = Cardinality(O) /\ Cardinality(links) = Cardinality(L)
    BY <1>4, <1>5, <1>7, <1>8
<1>10. objects = O /\ links = L
    BY <1>3, <1>9, FS_Subset DEF FiniteStore
<1>. QED BY <1>1, <1>10 DEF Exact, O, L

(* Only a process that verified publishes, and only verification makes one of it.  *)
LEMMA ExactStep == ASSUME Verified => Exact, ExactInv, [Next]_vars PROVE ExactInv'
<1>. USE DEF ExactInv
<1>1. RaceInv' /\ ContentInv'
    BY RaceStep, ContentStep
<1>2. FiniteStore'
    BY FiniteStep DEF RaceInv
<1>3. ASSUME Exact PROVE Exact'
    BY <1>3, ExactStays DEF Exact
<1>4. ASSUME NEW w \in Writers, Verify(w) PROVE Exact
    BY <1>4 DEF Verify
<1>5. ASSUME NEW w \in Writers, Publish(w) PROVE Exact
    BY <1>5 DEF Publish, Verifies
<1>6. ASSUME NEW w \in Writers, ~Verify(w), ~Publish(w),
             Step(w) \/ \E s \in Streams : Start(w, s),
             seed'.status = "ready" \/ Verifies'
      PROVE  seed.status = "ready" \/ Verifies
  <2>1. CASE \E s \in Streams : Start(w, s)
    BY <1>6, <2>1 DEF Start, store, Verifies, RaceInv, Types
  <2>2. CASE Plan(w)
    BY <1>6, <2>2 DEF Plan, store, Verifies, RaceInv, Types
  <2>3. CASE Replay(w) \/ Yield(w) \/ Checkpoint(w)
    <3>1. seed'.status = seed.status /\ Proceeds(w)
        BY <2>3 DEF Replay, Yield, Checkpoint, store, RaceInv, Types
    <3>. QED BY <1>6, <3>1, ProceedsTyped DEF Verifies, RaceInv
  <2>4. CASE Create(w) \/ Reject(w) \/ WriteObjects(w) \/ WriteLinks(w) \/ Lose(w)
            \/ Refuse(w) \/ LosePublication(w) \/ Crash(w)
    <3>1. PICK at \in {"apply", "threw", "links", "checkpoint", "off"} :
                Moves(w, at) /\ seed'.status \in {seed.status, "seeding"}
        BY <2>4 DEF Create, Reject, WriteObjects, WriteLinks, Lose, Refuse, LosePublication,
                    Crash, Throws, store
    <3>2. \A v \in Writers : writers'[v].at = IF v = w THEN at ELSE writers[v].at
        BY <3>1, MovesTyped DEF Stages, RaceInv
    <3>. QED BY <1>6, <3>1, <3>2 DEF Verifies
  <2>. QED BY <1>6, <2>1, <2>2, <2>3, <2>4 DEF Step
<1>7. CASE UNCHANGED vars
    BY <1>1, <1>2, <1>3, <1>7 DEF vars, store, Verifies
<1>. QED BY <1>1, <1>2, <1>3, <1>4, <1>5, <1>6, <1>7 DEF Next

LEMMA ExactInit == Init => ExactInv
<1>. SUFFICES ASSUME Init PROVE ExactInv
    OBVIOUS
<1>1. FiniteStore
    BY FS_EmptySet DEF Init, FiniteStore
<1>2. seed.status # "ready" /\ ~Verifies
    BY DEF Init, Verifies
<1>. QED BY <1>1, <1>2, RaceInit, ContentInit DEF ExactInv

(* A ready store holds exactly its batches, also after processes raced to create   *)
(* the seed state, if the manifest's counts tell the streams apart.                *)
THEOREM ReadyStoreExact == ASSUME NoShortStream PROVE Spec => []ReadyIsExact
<1>1. ExactInv /\ [Next]_vars => ExactInv'
    BY ExactStep, VerifiedIsExact DEF ExactInv
<1>2. ExactInv => ReadyIsExact
    BY DEF ExactInv, Exact, ReadyIsExact
<1>. QED BY ExactInit, <1>1, <1>2, PTL DEF Spec

(* The boundaries of groups; a process is at one before each group.                *)
Boundary(p) == p = CutPoint + 1 \/ \E k \in Nat : p = 1 + k * GroupSize

(* While every process reads the fixture, the store has nothing else.               *)
OnlyFixture ==
    /\ \A w \in Writers : writers[w].stream = Fixture
    /\ \A b \in Batches : digests[b] \in {None, Fixture}
    /\ objects \subseteq ObjectsIn(Fixture, Batches)
    /\ links \subseteq LinksIn(Fixture, Batches)

(* No process is ahead of the checkpoint, one that is level with it has read its    *)
(* record count, and one that threw found the store ready.                          *)
Resumes(w) ==
    /\ Running(w) => Boundary(writers[w].pos) /\ writers[w].pos <= seed.next
    /\ Planned(w) /\ writers[w].pos = seed.next => writers[w].records = seed.records
    /\ writers[w].at = "threw" => seed.status = "ready"

ReplayInv ==
    /\ ~raced /\ OrderInv /\ ContentInv /\ OnlyFixture /\ RecordsCountedOnce
    /\ Boundary(seed.next)
    /\ \A w \in Writers : Resumes(w)

(* The next boundary is one.                                                        *)
LEMMA AfterIsBoundary ==
    ASSUME Types, NEW w \in Writers, Boundary(writers[w].pos) PROVE Boundary(After(w))
<1>1. CASE After(w) = CutPoint + 1
    BY <1>1 DEF Boundary
<1>2. CASE After(w) # CutPoint + 1
  <2>1. After(w) = writers[w].pos + GroupSize /\ writers[w].pos # CutPoint + 1
    BY <1>2 DEF After, Types
  <2>2. PICK k \in Nat : writers[w].pos = 1 + k * GroupSize
    BY <2>1 DEF Boundary
  <2>3. k + 1 \in Nat /\ After(w) = 1 + (k + 1) * GroupSize
    BY <2>1, <2>2
  <2>. QED BY <2>3 DEF Boundary
<1>. QED BY <1>1, <1>2

(* A group that begins before the checkpoint ends before it: it was committed       *)
(* wholly or not at all.                                                            *)
LEMMA GroupsAreWhole ==
    ASSUME Types, NEW w \in Writers, Boundary(writers[w].pos), Boundary(seed.next),
           writers[w].pos < seed.next
    PROVE  After(w) <= seed.next /\ \A b \in Group(w) : b < seed.next
<1>1. CASE seed.next = CutPoint + 1
    BY <1>1, AfterTyped DEF Group
<1>2. CASE seed.next # CutPoint + 1
  <2>1. PICK m \in Nat : seed.next = 1 + m * GroupSize
    BY <1>2 DEF Boundary
  <2>2. writers[w].pos # CutPoint + 1
    BY DEF Types
  <2>3. PICK k \in Nat : writers[w].pos = 1 + k * GroupSize
    BY <2>2 DEF Boundary
  <2>4. k < m
    <3>1. CASE m <= k
      <4>1. m * GroupSize <= k * GroupSize
          BY <3>1
      <4>. QED BY <2>1, <2>3, <4>1 DEF Types
    <3>. QED BY <3>1
  <2>5. (k + 1) * GroupSize <= m * GroupSize
    BY <2>4
  <2>6. (k + 1) * GroupSize = k * GroupSize + GroupSize
    OBVIOUS
  <2>7. writers[w].pos + GroupSize <= seed.next
    <3>1. k * GroupSize \in Nat /\ m * GroupSize \in Nat
        OBVIOUS
    <3>. QED BY <2>1, <2>3, <2>5, <2>6, <3>1
  <2>. QED BY <2>7 DEF After, Group, Types
<1>. QED BY <1>1, <1>2

(* No step writes anything else.                                                    *)
LEMMA OnlyFixtureStep ==
    ASSUME Types, OnlyFixture, used' \subseteq {Fixture}, [Next]_vars
    PROVE  OnlyFixture' /\ used \subseteq {Fixture}
<1>. USE DEF OnlyFixture
<1>1. CASE UNCHANGED vars
    BY <1>1 DEF vars, store, history
<1>2. ASSUME NEW w \in Writers, NEW s \in Streams, Start(w, s)
      PROVE  OnlyFixture' /\ used \subseteq {Fixture}
    BY <1>2 DEF Start, store, Types
<1>3. ASSUME NEW w \in Writers, Step(w) PROVE OnlyFixture' /\ used \subseteq {Fixture}
  <2>1. \A v \in Writers : writers'[v].stream = Fixture
    BY <1>3, StepsKeepStreams
  <2>2. UNCHANGED used
    BY <1>3 DEF Step, Create, Replay, Plan, Reject, WriteObjects, WriteLinks, Checkpoint, Yield,
                Lose, Verify, Refuse, Publish, LosePublication, Crash, Throws, history
  <2>3. /\ ObjectsIn(Fixture, Group(w)) \subseteq ObjectsIn(Fixture, Batches)
        /\ LinksIn(Fixture, Group(w)) \subseteq LinksIn(Fixture, Batches)
    BY DEF ObjectsIn, LinksIn, Group
  <2>4. /\ digests' = digests \/ Checkpoint(w)
        /\ objects' \subseteq objects \cup ObjectsIn(Fixture, Group(w))
        /\ links' \subseteq links \cup LinksIn(Fixture, Group(w))
    BY <1>3 DEF Step, Create, Replay, Plan, Reject, WriteObjects, WriteLinks, Checkpoint, Yield,
                Lose, Verify, Refuse, Publish, LosePublication, Crash, Throws, store
  <2>5. \A b \in Batches : digests'[b] \in {None, Fixture}
    BY <2>4 DEF Checkpoint
  <2>. QED BY <2>1, <2>2, <2>3, <2>4, <2>5
<1>. QED BY <1>1, <1>2, <1>3 DEF Next

(* A store of the fixture alone that has every batch is exact without counting.     *)
LEMMA AllOfFixtureIsExact ==
    ASSUME OnlyFixture, CheckpointCoversContent, \A b \in Batches : digests[b] # None
    PROVE  /\ \A b \in Batches : digests[b] = Fixture
           /\ objects = ObjectsIn(Fixture, Batches) /\ links = LinksIn(Fixture, Batches)
           /\ Exact
<1>1. \A b \in Batches : digests[b] = Fixture
    BY DEF OnlyFixture
<1>2. objects = ObjectsIn(Fixture, Batches) /\ links = LinksIn(Fixture, Batches)
    BY <1>1 DEF OnlyFixture, CheckpointCoversContent, ObjectsIn, LinksIn
<1>. QED BY <1>1, <1>2 DEF Exact, ObjectsIn, LinksIn

(* What a ready store holds as long as every process read the fixture.              *)
ReadyIsFixture ==
    used \subseteq {Fixture} /\ seed.status = "ready" =>
        /\ \A b \in Batches : digests[b] = Fixture
        /\ objects = ObjectsIn(Fixture, Batches) /\ links = LinksIn(Fixture, Batches)

(* The fixture and nothing else, also after a race, whatever the batches contain.   *)
THEOREM ReadyStoreIsFixture == Spec => []ReadyIsFixture
<1>. DEFINE Inv == used \subseteq {Fixture} => OnlyFixture /\ ExactInv
<1>1. Init => Inv
    BY ExactInit DEF Init, OnlyFixture
<1>2. Inv /\ [Next]_vars => Inv'
  <2>. SUFFICES ASSUME Inv, [Next]_vars, used' \subseteq {Fixture} PROVE OnlyFixture' /\ ExactInv'
    OBVIOUS
  <2>1. used \subseteq {Fixture}
    BY DEF Next, vars, history, Start, Step, Create, Replay, Plan, Reject, WriteObjects,
           WriteLinks, Checkpoint, Yield, Lose, Verify, Refuse, Publish, LosePublication, Crash,
           Throws
  <2>2. OnlyFixture'
    BY <2>1, OnlyFixtureStep DEF ExactInv, RaceInv
  <2>3. ASSUME Verified PROVE Exact
    <3>1. \A b \in Batches : digests[b] # None
        BY <2>1, <2>3 DEF ExactInv, RaceInv, Verified, Types
    <3>. QED BY <2>1, <3>1, AllOfFixtureIsExact DEF ExactInv, ContentInv
  <2>. QED BY <2>1, <2>2, <2>3, ExactStep
<1>3. Inv => ReadyIsFixture
    BY AllOfFixtureIsExact DEF ExactInv, ContentInv, Exact, ReadyIsFixture
<1>. QED BY <1>1, <1>2, <1>3, PTL DEF Spec

(* A process at the end of its stream finds the counts right.                       *)
LEMMA FinishedIsVerified ==
    ASSUME ReplayInv, NEW w \in Writers, Finished(w) PROVE Verified
<1>. USE DEF ReplayInv, OrderInv
<1>1. seed.next = CutPoint + 1
    BY DEF Finished, Resumes, Running, Types
<1>2. \A b \in Batches : digests[b] # None
    BY <1>1 DEF BoundaryInv
<1>3. /\ \A b \in Batches : digests[b] = Fixture
      /\ objects = ObjectsIn(Fixture, Batches) /\ links = LinksIn(Fixture, Batches)
    BY <1>2, AllOfFixtureIsExact DEF ContentInv
<1>4. seed.records = RecordsIn(Fixture, Batches)
  <2>. DEFINE sizes == [b \in {c \in Batches : digests[c] # None} |-> Size(digests[b])[b]]
  <2>1. ~raced
    BY DEF ReplayInv
  <2>2. seed.records = SumFunctionOnSet(sizes, Batches)
    BY <1>2, <2>1 DEF RecordsCountedOnce, SumFunction
  <2>3. \A b \in Batches : sizes[b] = Size(Fixture)[b] /\ Size(Fixture)[b] \in Nat
    BY <1>2, <1>3, SizeTyped
  <2>4. IsFiniteSet(Batches)
    BY BatchesFinite
  <2>. HIDE DEF sizes
  <2>. QED BY <2>2, <2>3, <2>4, SumOfEquals DEF RecordsIn
<1>. QED BY <1>1, <1>3, <1>4 DEF Verified, CountsMatch

(* A process that begins no other leaves the others as they are.                    *)
LEMMA StepsLeaveOthers ==
    ASSUME Types, NEW w \in Writers, Step(w)
    PROVE  \A v \in Writers \ {w} : writers'[v] = writers[v]
  BY DEF Step, Create, Replay, Plan, Reject, WriteObjects, WriteLinks, Checkpoint, Yield,
         Lose, Verify, Refuse, Publish, LosePublication, Crash, Throws, Moves, Proceeds, Types

(* What a step of another process must leave for a process to resume.               *)
LEMMA ResumesKept ==
    ASSUME NEW v \in Writers, Resumes(v), Types, writers'[v] = writers[v],
           seed'.next \in Int, seed.next <= seed'.next,
           seed.status = "ready" => seed'.status = "ready",
           seed'.next = seed.next => seed'.records = seed.records,
           seed'.next # seed.next => writers[v].pos <= seed.next /\ seed.next < seed'.next
    PROVE  Resumes(v)'
<1>1. (Running(v) <=> Running(v)') /\ (Planned(v) <=> Planned(v)')
    BY DEF Running, Planned
<1>2. ASSUME Running(v) PROVE Boundary(writers'[v].pos) /\ writers'[v].pos <= seed'.next
    BY <1>2 DEF Resumes, Types
<1>3. ASSUME Planned(v), writers[v].pos = seed'.next PROVE writers[v].records = seed'.records
    BY <1>3 DEF Resumes, Types
<1>. QED BY <1>1, <1>2, <1>3 DEF Resumes

(* No process that resumes is refused: a group before the checkpoint is committed,   *)
(* one at the checkpoint can be written, a lost checkpoint was won by the same        *)
(* group, and at the end the counts are right.                                       *)
LEMMA NoneIsRefused ==
    ASSUME ReplayInv, NEW w \in Writers
    PROVE  ~Reject(w) /\ ~Lose(w) /\ ~Refuse(w)
<1>. USE DEF ReplayInv, OrderInv
<1>1. ASSUME Running(w), writers[w].pos < seed.next PROVE Committed(w)
  <2>1. \A b \in Group(w) : b < seed.next
    BY <1>1, GroupsAreWhole DEF Resumes
  <2>2. \A b \in Group(w) : b \in Batches /\ digests[b] = Fixture
    BY <2>1 DEF BoundaryInv, OnlyFixture, Group
  <2>. QED BY <2>2 DEF Committed, OnlyFixture
<1>2. ASSUME Applying(w), writers[w].pos = seed.next PROVE Writable(w)
  <2>1. seed.status = "seeding"
    BY <1>2 DEF Applying, Reliance, Running, BoundaryInv, Types
  <2>2. \A b \in Group(w) : digests[b] = None
    BY <1>2 DEF BoundaryInv, Group, Types
  <2>. QED BY <1>2, <2>1, <2>2 DEF Writable
<1>3. Running(w) => writers[w].pos < seed.next \/ writers[w].pos = seed.next
    BY DEF Resumes, Types
<1>4. ~Reject(w)
    BY <1>1, <1>2, <1>3 DEF Reject, Applying, Running
<1>5. ~Lose(w)
    BY <1>1, <1>3 DEF Lose, Unmoved, Resumes, Planned, Running
<1>6. ~Refuse(w)
    BY FinishedIsVerified DEF Refuse
<1>. QED BY <1>4, <1>5, <1>6

(* A process goes on past a committed group without overtaking the checkpoint.       *)
LEMMA PassesCommitted ==
    ASSUME ReplayInv, NEW w \in Writers, Running(w), Committed(w), writers[w].pos <= CutPoint
    PROVE  Boundary(After(w)) /\ After(w) <= seed.next
<1>. USE DEF ReplayInv, OrderInv
<1>1. Boundary(After(w))
    BY AfterIsBoundary DEF Resumes
<1>2. writers[w].pos \in Group(w)
    BY DEF Group, Types
<1>3. writers[w].pos < seed.next
    BY <1>2 DEF Committed, BoundaryInv, Group, OnlyFixture
<1>4. After(w) <= seed.next
    BY <1>3, GroupsAreWhole DEF Resumes
<1>. QED BY <1>1, <1>4

(* Every step keeps every process resuming.                                          *)
LEMMA ResumesStep ==
    ASSUME ReplayInv, NEW w \in Writers, Step(w)
    PROVE  Boundary(seed.next)' /\ \A v \in Writers : Resumes(v)'
<1>. USE DEF ReplayInv, OrderInv
<1>1. \A v \in Writers \ {w} : writers'[v] = writers[v]
    BY StepsLeaveOthers
<1>2. Types'
    BY TypesStep DEF Next
<1>3. ASSUME UNCHANGED seed, Resumes(w)'
      PROVE  Boundary(seed.next)' /\ \A v \in Writers : Resumes(v)'
  <2>1. \A v \in Writers \ {w} : Resumes(v)'
    BY <1>1, <1>2, <1>3, ResumesKept DEF Types
  <2>. QED BY <1>3, <2>1 DEF Boundary
<1>4. CASE Create(w)
  <2>1. seed'.next = 1 /\ \A v \in Writers \ {w} : ~Running(v)
    BY <1>4 DEF Create, Reliance
  <2>2. writers'[w].pos = writers[w].pos /\ writers'[w].at = "apply"
    BY <1>4, MovesTyped DEF Create, Stages
  <2>3. \A v \in Writers : writers[v].at # "threw"
    BY <1>4 DEF Create, Reliance, Resumes
  <2>4. Boundary(1)
    BY DEF Boundary
  <2>5. seed.next = 1
    BY <1>4 DEF Create, Reliance, BoundaryInv, Types
  <2>6. Resumes(w)'
    BY <1>4, <2>1, <2>2, <2>5 DEF Resumes, Planned, Running, Create, Boundary
  <2>7. \A v \in Writers \ {w} : Resumes(v)'
    BY <1>1, <2>1, <2>3 DEF Resumes, Planned, Running
  <2>. QED BY <2>1, <2>4, <2>6, <2>7 DEF Boundary
<1>5. CASE Replay(w) \/ Yield(w)
  <2>1. writers'[w].pos = After(w) /\ writers'[w].at = "apply" /\ UNCHANGED seed
    BY <1>5, ProceedsTyped DEF Replay, Yield, store
  <2>2. Running(w) /\ Committed(w) /\ writers[w].pos <= CutPoint
    BY <1>5 DEF Replay, Yield, Applying, Running, Reliance, Planned
  <2>3. Boundary(After(w)) /\ After(w) <= seed.next
    BY <2>2, PassesCommitted
  <2>. QED BY <1>3, <2>1, <2>3 DEF Resumes, Planned, Boundary
<1>6. CASE Plan(w)
  <2>1. /\ writers'[w] = [writers[w] EXCEPT !.at = "objects", !.records = seed.records]
        /\ UNCHANGED seed /\ Running(w)
    BY <1>6 DEF Plan, Applying, Running, store, Types
  <2>2. /\ writers'[w].at = "objects" /\ writers'[w].pos = writers[w].pos
        /\ writers'[w].records = seed.records
    BY <2>1 DEF Types
  <2>. QED BY <1>3, <2>1, <2>2 DEF Resumes, Planned, Boundary
<1>7. CASE Reject(w) \/ Lose(w) \/ Refuse(w)
    BY <1>7, NoneIsRefused
<1>8. CASE WriteObjects(w) \/ WriteLinks(w)
  <2>1. PICK at \in {"links", "checkpoint"} : Moves(w, at) /\ UNCHANGED seed
    BY <1>8 DEF WriteObjects, WriteLinks
  <2>2. /\ writers'[w].at = at /\ writers'[w].pos = writers[w].pos
        /\ writers'[w].records = writers[w].records
    BY <2>1 DEF Moves, Types
  <2>3. Running(w) /\ Planned(w)
    BY <1>8 DEF WriteObjects, WriteLinks, Running, Planned
  <2>. QED BY <1>3, <2>1, <2>2, <2>3 DEF Resumes, Planned, Boundary
<1>9. CASE Checkpoint(w)
  <2>1. /\ writers[w].pos = seed.next /\ writers[w].pos <= CutPoint /\ Running(w)
        /\ seed'.next = After(w) /\ seed'.status = seed.status
    BY <1>9 DEF Checkpoint, Unmoved, Reliance, Planned, Running, Types
  <2>2. writers'[w].pos = After(w) /\ writers'[w].at = "apply"
    BY <1>9, ProceedsTyped DEF Checkpoint
  <2>3. Boundary(After(w)) /\ seed.next < After(w)
    BY <2>1, AfterIsBoundary DEF Resumes, After, Types
  <2>4. Resumes(w)'
    BY <2>1, <2>2, <2>3, AfterTyped DEF Resumes, Planned, Boundary
  <2>5. ASSUME NEW v \in Writers \ {w} PROVE Resumes(v)'
    <3>1. /\ writers'[v] = writers[v] /\ seed'.next \in Int /\ seed.next < seed'.next
          /\ seed.next \in Int /\ writers[v].pos \in Int
        BY <1>1, <2>1, <2>3, AfterTyped DEF Types
    <3>2. (Running(v) => writers[v].pos <= seed.next)
        BY DEF Resumes
    <3>3. CASE Running(v)
        BY <2>1, <3>1, <3>2, <3>3, ResumesKept
    <3>4. CASE ~Running(v)
        BY <2>1, <3>1, <3>4 DEF Resumes, Running, Planned
    <3>. QED BY <3>3, <3>4
  <2>. QED BY <2>1, <2>3, <2>4, <2>5 DEF Boundary
<1>10. CASE Verify(w) \/ Crash(w)
  <2>1. PICK at \in {"done", "publish", "off"} : Moves(w, at) /\ UNCHANGED seed /\ Running(w)
    BY <1>10 DEF Verify, Crash, Finished, Running, store
  <2>2. writers'[w].at = at /\ writers'[w].pos = writers[w].pos
    BY <2>1, MovesTyped DEF Stages
  <2>. QED BY <1>3, <2>1, <2>2 DEF Resumes, Planned, Running, Boundary
<1>11. CASE Publish(w)
  <2>1. seed'.next = seed.next /\ seed'.records = seed.records /\ seed'.status = "ready"
    BY <1>11 DEF Publish, Types
  <2>2. writers'[w].at = "done"
    BY <1>11, MovesTyped DEF Publish, Stages
  <2>3. Resumes(w)'
    BY <2>2 DEF Resumes, Planned, Running
  <2>4. \A v \in Writers \ {w} : Resumes(v)'
    BY <1>1, <2>1, ResumesKept DEF Types
  <2>. QED BY <2>1, <2>3, <2>4 DEF Boundary
<1>12. CASE LosePublication(w)
  <2>1. seed.status = "ready"
    BY <1>12 DEF LosePublication, Reliance, Running, Types
  <2>2. writers'[w].at = "threw" /\ UNCHANGED seed
    BY <1>12, MovesTyped DEF LosePublication, Throws, Stages, store
  <2>. QED BY <1>3, <2>1, <2>2 DEF Resumes, Planned, Running
<1>. QED BY <1>4, <1>5, <1>6, <1>7, <1>8, <1>9, <1>10, <1>11, <1>12 DEF Step

(* A process begins at the first boundary.                                            *)
LEMMA ResumesStart ==
    ASSUME ReplayInv, NEW w \in Writers, NEW s \in Streams, Start(w, s)
    PROVE  Boundary(seed.next)' /\ \A v \in Writers : Resumes(v)'
<1>. USE DEF ReplayInv, OrderInv
<1>1. /\ \A v \in Writers \ {w} : writers'[v] = writers[v]
      /\ writers'[w].at \in {"create", "apply"} /\ writers'[w].pos = 1
      /\ UNCHANGED seed
    BY DEF Start, store, Types
<1>2. Boundary(1)
    BY DEF Boundary
<1>3. Resumes(w)'
    BY <1>1, <1>2 DEF Resumes, Planned, Boundary, Types
<1>4. \A v \in Writers \ {w} : Resumes(v)'
    BY <1>1, ResumesKept DEF Types
<1>. QED BY <1>1, <1>3, <1>4 DEF Boundary

(* Seeding is resumable: as long as every process reads the fixture and none began    *)
(* while another was creating the seed state, none is ever refused, wherever the ones  *)
(* before it crashed and whichever batch a competitor commits first.                   *)
THEOREM ReplaysAlwaysSucceed == Spec => []ReplaysSucceed
<1>. DEFINE Inv == used \subseteq {Fixture} /\ ~raced => ReplayInv
<1>1. Init => Inv
  <2>. SUFFICES ASSUME Init, ~raced PROVE ReplayInv
    OBVIOUS
  <2>1. RecordsCountedOnce
    BY RecordsInit
  <2>2. Boundary(seed.next)
    BY DEF Init, Boundary
  <2>3. OnlyFixture /\ \A w \in Writers : Resumes(w)
    BY DEF Init, OnlyFixture, Resumes, Running, Planned
  <2>. QED BY <2>1, <2>2, <2>3, OrderInit, ContentInit DEF ReplayInv
<1>2. Inv /\ [Next]_vars => Inv'
  <2>. SUFFICES ASSUME Inv, [Next]_vars, used' \subseteq {Fixture}, ~raced' PROVE ReplayInv'
    OBVIOUS
  <2>1. ~raced
    BY RaceStays
  <2>2. used \subseteq {Fixture}
    BY DEF Next, vars, history, Start, Step, Create, Replay, Plan, Reject, WriteObjects,
           WriteLinks, Checkpoint, Yield, Lose, Verify, Refuse, Publish, LosePublication, Crash,
           Throws
  <2>3. ReplayInv
    BY <2>1, <2>2
  <2>4. OrderInv' /\ ContentInv' /\ OnlyFixture' /\ RecordsCountedOnce'
    BY <2>3, OrderStep, ContentStep, OnlyFixtureStep, CountStep DEF ReplayInv, OrderInv
  <2>5. Boundary(seed.next)' /\ \A w \in Writers : Resumes(w)'
    <3>1. CASE UNCHANGED vars
        BY <2>3, <3>1 DEF vars, store, ReplayInv, Boundary, Resumes, Running, Planned
    <3>. QED BY <2>3, <3>1, ResumesStep, ResumesStart DEF Next
  <2>. QED BY <2>4, <2>5 DEF ReplayInv
<1>3. Inv => ReplaysSucceed
    BY DEF ReplayInv, Resumes, ReplaysSucceed
<1>. QED BY <1>1, <1>2, <1>3, PTL DEF Spec
=============================================================================
