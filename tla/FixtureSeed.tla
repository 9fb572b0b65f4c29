---------------------------- MODULE FixtureSeed ----------------------------
(***************************************************************************)
(* Resumable seeding of the canonical fixture into a durable store.  A     *)
(* process streams the fixture's batches in groups (of four to Datahike,   *)
(* of one to Datomic).  Of each group it writes the objects, then the      *)
(* relationships, and then advances a checkpoint by compare-and-set; after *)
(* the last group it verifies the counts and marks the store ready.  A     *)
(* process may die between any two of these transactions, and a competing  *)
(* one may be replaying the same stream.                                   *)
(***************************************************************************)
EXTENDS Integers, FiniteSets, Functions

CONSTANTS
    Writers,         \* seeding processes
    Streams,         \* batch streams of one manifest; a batch digest names its stream
    Fixture,         \* the stream whose counts the manifest states
    None,
    CutPoint,        \* number of batches
    GroupSize,       \* batches per group
    Objects,         \* Objects[s][b]: the objects of batch b of stream s
    Links,           \* Links[s][b]: its relationships
    MaxRuns          \* bound on the processes ever started

ASSUME SeedAssumption ==
    /\ None \notin Streams /\ Fixture \in Streams
    /\ CutPoint \in Nat \ {0} /\ GroupSize \in Nat \ {0} /\ MaxRuns \in Nat
ASSUME BatchesAssumption ==
    \A s \in Streams, b \in 1..CutPoint :
        IsFiniteSet(Objects[s][b]) /\ IsFiniteSet(Links[s][b])

VARIABLES
    seed,        \* the checkpoint: seed status, next batch, record count
    digests,     \* batch entities: the stream a checkpointed batch came from
    objects,     \* objects in the store
    links,       \* relationships in the store
    writers,     \* where each process is
    used,        \* streams ever started
    runs,        \* processes ever started
    raced        \* has one started while another was creating the seed state?
store == <<seed, digests, objects, links>>
history == <<used, runs, raced>>
vars == <<store, writers, history>>

Batches == 1..CutPoint

\* Objects and relationships carry identities, so writing one again adds nothing.
ObjectsIn(s, B) == UNION {Objects[s][b] : b \in B}
LinksIn(s, B) == UNION {Links[s][b] : b \in B}
Size(s) == [b \in Batches |-> Cardinality(Objects[s][b]) + Cardinality(Links[s][b])]
RecordsIn(s, B) == SumFunctionOnSet(Size(s), B)

Init ==
    /\ seed = [status |-> "absent", next |-> 1, records |-> 0]
    /\ digests = [b \in Batches |-> None]
    /\ objects = {} /\ links = {}
    /\ writers = [w \in Writers |-> [at |-> "off", stream |-> Fixture, pos |-> 1, records |-> 0]]
    /\ used = {} /\ runs = 0 /\ raced = FALSE

Moves(w, at) == writers' = [writers EXCEPT ![w].at = at]
Throws(w) == Moves(w, "threw") /\ UNCHANGED <<store, history>>

\* The contiguous batches a process submits next, and the boundary after them.
Group(w) == {b \in Batches : writers[w].pos <= b /\ b < writers[w].pos + GroupSize}
After(w) ==
    IF writers[w].pos + GroupSize <= CutPoint THEN writers[w].pos + GroupSize ELSE CutPoint + 1
Proceeds(w) == writers' = [writers EXCEPT ![w].at = "apply", ![w].pos = After(w)]
Applying(w) == writers[w].at = "apply" /\ writers[w].pos <= CutPoint

Running(w) == writers[w].at \notin {"off", "done", "threw"}

StartAfresh(w, s) ==
    /\ ~Running(w) /\ runs < MaxRuns
    /\ \A v \in Writers : Running(v) => writers[v].stream = s
    /\ writers' = [writers EXCEPT ![w] =
           [at |-> "create", stream |-> s, pos |-> 1, records |-> 0]]
    /\ used' = used \cup {s} /\ runs' = runs + 1
    /\ raced' = (raced \/ \E v \in Writers : writers[v].at = "create")
    /\ UNCHANGED store
\* initialize-seed! looks for the seed state.  Processes that overlap read the same
\* verified stream.
Start(w, s) ==
    /\ ~Running(w) /\ runs < MaxRuns
    /\ \A v \in Writers : Running(v) => writers[v].stream = s
    /\ writers' = [writers EXCEPT ![w] =
           [at |-> IF seed.status = "absent" THEN "create" ELSE "apply",
            stream |-> s, pos |-> 1, records |-> 0]]
    /\ used' = used \cup {s} /\ runs' = runs + 1
    /\ raced' = (raced \/ \E v \in Writers : writers[v].at = "create")
    /\ UNCHANGED store

\* The seed state is created by its identity: an existing one is overwritten.
Create(w) ==
    /\ writers[w].at = "create"
    /\ seed' = [status |-> "seeding", next |-> 1, records |-> 0]
    /\ Moves(w, "apply")
    /\ UNCHANGED <<digests, objects, links, history>>

\* Every batch of the group is checkpointed, with this stream's digests.
Committed(w) == \A b \in Group(w) : digests[b] = writers[w].stream
\* No batch of the group is, and the group starts at the resume boundary.
Writable(w) ==
    /\ \A b \in Group(w) : digests[b] = None
    /\ seed.status = "seeding" /\ seed.next = writers[w].pos

\* apply-batch-group! decides on the database it read ...
Replay(w) ==
    /\ Applying(w) /\ Committed(w)
    /\ Proceeds(w)
    /\ UNCHANGED <<store, history>>
Plan(w) ==
    /\ Applying(w) /\ Writable(w)
    /\ writers' = [writers EXCEPT ![w].at = "objects", ![w].records = seed.records]
    /\ UNCHANGED <<store, history>>
Reject(w) == Applying(w) /\ ~Committed(w) /\ ~Writable(w) /\ Throws(w)

WriteObjectsOnly(w) ==
    /\ writers[w].at = "objects"
    /\ objects' = objects \cup ObjectsIn(writers[w].stream, Group(w))
    /\ Moves(w, "checkpoint")
    /\ UNCHANGED <<seed, digests, links, history>>
\* ... and writes in three transactions.
WriteObjects(w) ==
    /\ writers[w].at = "objects"
    /\ objects' = objects \cup ObjectsIn(writers[w].stream, Group(w))
    /\ Moves(w, "links")
    /\ UNCHANGED <<seed, digests, links, history>>
WriteLinks(w) ==
    /\ writers[w].at = "links"
    /\ links' = links \cup LinksIn(writers[w].stream, Group(w))
    /\ Moves(w, "checkpoint")
    /\ UNCHANGED <<seed, digests, objects, history>>

AlwaysUnmoved(w) == TRUE
\* Both compare-and-sets of the checkpoint succeed.
Unmoved(w) == seed.next = writers[w].pos /\ seed.records = writers[w].records
Checkpoint(w) ==
    /\ writers[w].at = "checkpoint" /\ Unmoved(w)
    /\ seed' = [seed EXCEPT !.next = After(w),
                            !.records = @ + RecordsIn(writers[w].stream, Group(w))]
    /\ digests' = [b \in Batches |-> IF b \in Group(w) THEN writers[w].stream ELSE digests[b]]
    /\ Proceeds(w)
    /\ UNCHANGED <<objects, links, history>>
\* A competing exact replay won the checkpoint.
Yield(w) ==
    /\ writers[w].at = "checkpoint" /\ ~Unmoved(w) /\ Committed(w)
    /\ Proceeds(w)
    /\ UNCHANGED <<store, history>>
LoseUncompared(w) == writers[w].at = "checkpoint" /\ ~Unmoved(w) /\ Throws(w)
Lose(w) == writers[w].at = "checkpoint" /\ ~Unmoved(w) /\ ~Committed(w) /\ Throws(w)

\* verify-counts against the manifest.
CountsMatch ==
    /\ Cardinality(objects) = Cardinality(ObjectsIn(Fixture, Batches))
    /\ Cardinality(links) = Cardinality(LinksIn(Fixture, Batches))
    /\ seed.records = RecordsIn(Fixture, Batches)
Finished(w) == writers[w].at = "apply" /\ writers[w].pos > CutPoint
BoundaryReached == seed.next = CutPoint + 1
Verified == seed.next = CutPoint + 1 /\ CountsMatch

\* finalize-seed! verifies a database, then compares and sets the status.
Verify(w) ==
    /\ Finished(w) /\ Verified
    /\ Moves(w, IF seed.status = "ready" THEN "done" ELSE "publish")
    /\ UNCHANGED <<store, history>>
Refuse(w) == Finished(w) /\ ~Verified /\ Throws(w)
Publish(w) ==
    /\ writers[w].at = "publish" /\ seed.status = "seeding"
    /\ seed' = [seed EXCEPT !.status = "ready"]
    /\ Moves(w, "done")
    /\ UNCHANGED <<digests, objects, links, history>>
LosePublication(w) == writers[w].at = "publish" /\ seed.status # "seeding" /\ Throws(w)

\* The process dies, or a transaction fails, between two transactions.
Crash(w) == Running(w) /\ Moves(w, "off") /\ UNCHANGED <<store, history>>

Step(w) ==
    \/ Create(w)
    \/ Replay(w) \/ Plan(w) \/ Reject(w)
    \/ WriteObjects(w) \/ WriteLinks(w)
    \/ Checkpoint(w) \/ Yield(w) \/ Lose(w)
    \/ Verify(w) \/ Refuse(w) \/ Publish(w) \/ LosePublication(w)
    \/ Crash(w)
Next == \E w \in Writers : Step(w) \/ \E s \in Streams : Start(w, s)
Spec == Init /\ [][Next]_vars
=============================================================================
