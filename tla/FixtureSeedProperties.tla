----------------------- MODULE FixtureSeedProperties -----------------------
(***************************************************************************)
(* What a crash, a replay or a competing process may never do to a seed.   *)
(***************************************************************************)
EXTENDS FixtureSeed

\* "The checkpoint and every input-batch digest are advanced atomically only after
\* both object and relationship transactions succeed": a batch that is recorded as
\* committed is in the store, whatever crashed and whoever replayed it.
CheckpointCoversContent ==
    \A b \in Batches : digests[b] # None =>
        /\ Objects[digests[b]][b] \subseteq objects
        /\ Links[digests[b]][b] \subseteq links

\* The committed batches are those before the resume boundary: a process that
\* resumes there, or replays from the first batch, skips none.  This and the count need
\* that no process began while another was creating the seed state, which would reset it.
PrefixCommitted == \A b \in Batches : digests[b] # None <=> b < seed.next
CheckpointIsPrefix == ~raced => PrefixCommitted

\* The record count is that of the committed batches: no replay of a group and no
\* competitor that wrote the same one counts it twice.
RecordsCountedOnce ==
    ~raced => seed.records = SumFunction([b \in {c \in Batches : digests[c] # None} |->
                                              Size(digests[b])[b]])

\* A ready store holds what its committed batches hold and nothing that an
\* abandoned process left behind, and all batches are committed, also after a race.
ReadyIsExact ==
    seed.status = "ready" =>
        /\ \A b \in Batches : digests[b] # None
        /\ objects = UNION {Objects[digests[b]][b] : b \in Batches}
        /\ links = UNION {Links[digests[b]][b] : b \in Batches}

\* Exactness rests on the manifest's counts alone: they tell streams apart only if no
\* choice of a stream for each batch stays below them (a stray object could else make
\* up for a missing one).
NoShortStream ==
    \A D \in [Batches -> Streams] :
        /\ Cardinality(ObjectsIn(Fixture, Batches)) <=
                Cardinality(UNION {Objects[D[b]][b] : b \in Batches})
        /\ Cardinality(LinksIn(Fixture, Batches)) <=
                Cardinality(UNION {Links[D[b]][b] : b \in Batches})

\* finalize-seed! "freezes the compact-source lifecycle at ready": from then on no
\* process, also one that planned its group before, changes the store.
ReadyIsFrozen == [][seed.status = "ready" /\ ~raced => UNCHANGED store]_vars

\* Seeding is resumable: as long as every process reads the fixture, none is ever
\* refused, wherever the ones before it crashed and whichever batch a competitor
\* commits first; one may only find that the store has been made ready.
ReplaysSucceed ==
    used = {Fixture} /\ ~raced =>
        \A w \in Writers : writers[w].at = "threw" => seed.status = "ready"
=============================================================================
