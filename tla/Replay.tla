------------------------------- MODULE Replay -------------------------------
(***************************************************************************)
(* What replay (replay.py) makes of the file of a run's log, before and    *)
(* after the schema migration (schema_migration.py), and after somebody    *)
(* has altered it.  The hash of an event digests the payloads up to it, as *)
(* in EventStore: it is the sequence of these.                             *)
(***************************************************************************)
EXTENDS Naturals, SequencesExt

CONSTANTS Payload,
          None,      \* no payload
          MaxLogged, \* bound: events in the file
          MaxEdits   \* bound: alterations

ASSUME ReplayAssumption == None \notin Payload

VARIABLES file,   \* the events, their schema version, if any, and how their fields are spelled
          logged, \* history: the payloads that were logged
          legacy, \* history: how many of them, the first ones, before rows had hashes
          edits

replayVars == <<file, logged, legacy, edits>>

Genesis == <<>>
NoHash == <<None>>
ComputeHash(prev, payload) == Append(prev, payload)

\* export_run_log() writes the fields of SquadEvent, which has no hashes; other files have
\* those of the rows, and a row of an old database has none.  The first row with a hash
\* takes the genesis hash for its predecessor's.
Plain(payload) == [payload |-> payload, prev |-> NoHash, hash |-> NoHash]
Hashed(log, i) == [payload |-> log[i], prev |-> SubSeq(log, 1, i - 1), hash |-> SubSeq(log, 1, i)]
HashedPart == SubSeq(logged, legacy + 1, Len(logged))
Lines == [i \in DOMAIN logged |-> IF i <= legacy THEN Plain(logged[i])
                                  ELSE Hashed(HashedPart, i - legacy)]

Spelling == {"camel", "snake"}     \* eventHash or event_hash
Export == [events |-> Lines, version |-> "none", spelling |-> "camel"]

ReplayInit == /\ logged \in BoundedSeq(Payload, MaxLogged)
              /\ legacy \in 0..Len(logged)
              /\ \/ file = Export /\ legacy = Len(logged)
                 \/ \E sp \in Spelling : file = [Export EXCEPT !.version = "1.0", !.spelling = sp]
              /\ edits = 0

\* Somebody alters the file: a payload, or an event cut out before the last one.
Edit(events) ==
    /\ edits < MaxEdits
    /\ edits' = edits + 1
    /\ file' = [file EXCEPT !.events = events]
    /\ UNCHANGED <<logged, legacy>>
Alter == \E i \in DOMAIN file.events, p \in Payload :
            /\ file.events[i].payload # p
            /\ Edit([file.events EXCEPT ![i].payload = p])
CutOut == \E i \in 1..(Len(file.events) - 1) : Edit(RemoveAt(file.events, i))

\* validate_or_migrate() of a file that says "1.0"; a "2.0" stays what it is, and of an
\* export, which says nothing, there is only a report.  _HASH_FIELDS has one spelling.
Strip(event) == Plain(event.payload)
StripHashes(f) == IF f.spelling = "camel" THEN [i \in DOMAIN f.events |-> Strip(f.events[i])]
                  ELSE f.events
Migrate ==
    /\ file.version = "1.0"
    /\ file' = [file EXCEPT !.version = "2.0", !.events = StripHashes(file)]
    /\ UNCHANGED <<logged, legacy, edits>>

ReplayNext == Alter \/ CutOut \/ Migrate

ReplaySpec == ReplayInit /\ [][ReplayNext]_replayVars
-----------------------------------------------------------------------------
(***************************************************************************)
(* verify_event_chain(): an event without hashes is an error and is passed *)
(* over; each of the others must follow the one before it.  It knows both  *)
(* spellings.                                                              *)
(***************************************************************************)
HasHash(event) == event.hash # NoHash

PrevHash(events, i) ==
    LET last == SelectLastInSubSeq(events, 1, i - 1, HasHash)
    IN  IF last = 0 THEN Genesis ELSE events[last].hash

FollowsByLink(events, i) == events[i].prev = PrevHash(events, i)     \* mutant: no payload
Follows(events, i) ==
    /\ events[i].prev = PrevHash(events, i)
    /\ events[i].hash = ComputeHash(PrevHash(events, i), events[i].payload)

VerifyEventChain(events) == \A i \in DOMAIN events : HasHash(events[i]) /\ Follows(events, i)

\* reconstruct_state(): it fails only on a chain that does not verify and has a hash that it
\* finds; it looks for one spelling.
HasAnyHash(f) == f.spelling = "camel" /\ \E i \in DOMAIN f.events : HasHash(f.events[i])
Reconstructs(f) == VerifyEventChain(f.events) \/ ~HasAnyHash(f)

\* A log that verifies has the payloads that were logged with a hash: not altered, nor cut out
\* of it, however often and wherever, unless that was undone; and it verifies as long as it
\* keeps these and its hashes.  In camelCase no other log with hashes is reconstructed --
\* not even one as it was written, if it begins with rows that have none (replay.py:16-26).
Payloads(events) == [i \in DOMAIN events |-> events[i].payload]
KeepsHashes == ~(file.version = "2.0" /\ file.spelling = "camel") /\ legacy < Len(logged)
AlteredLogRejected ==
    KeepsHashes =>
        /\ VerifyEventChain(file.events) => Payloads(file.events) = HashedPart
        /\ legacy = 0 /\ Payloads(file.events) = logged => VerifyEventChain(file.events)
        /\ file.spelling = "camel" => (Reconstructs(file) <=> VerifyEventChain(file.events))

\* Hashes are never made up: a log that never had any, or whose hashes the migration has
\* found, never verifies, whatever it was before; it is reconstructed with its events as
\* warnings (schema_migration.py:57-67, replay.py:20-26).
NothingFabricated ==
    ~KeepsHashes /\ file.events # <<>> => ~VerifyEventChain(file.events) /\ Reconstructs(file)

\* A replay trusts the hashes that are there and claims none that are not.
ReplayIsSound == AlteredLogRejected /\ NothingFabricated

(***************************************************************************)
(* Why a replay sees every alteration: the last event stays in the file,   *)
(* with a hash that digests all that was logged with one; and while no     *)
(* event has been cut out, the hashes are those that were written.         *)
(***************************************************************************)
HashOf == Seq(Payload \cup {None})
LogEvent == [payload : Payload, prev : HashOf, hash : HashOf]
LogFile == [events : Seq(LogEvent), version : {"none", "1.0", "2.0"}, spelling : Spelling]

Digested(events) ==
    /\ events # <<>> /\ events[Len(events)].hash = HashedPart
    /\ Len(events) <= Len(logged)
    /\ legacy = 0 =>
         /\ \A i \in DOMAIN events : HasHash(events[i])
         /\ Len(events) = Len(logged) =>
              \A i \in DOMAIN events : /\ events[i].prev = SubSeq(logged, 1, i - 1)
                                       /\ events[i].hash = SubSeq(logged, 1, i)

ReplayInv ==
    /\ file \in LogFile /\ logged \in Seq(Payload) /\ legacy \in 0..Len(logged)
    /\ KeepsHashes => Digested(file.events)
    /\ ~KeepsHashes => \A i \in DOMAIN file.events : ~HasHash(file.events[i])
=============================================================================
