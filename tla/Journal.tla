------------------------------- MODULE Journal ------------------------------
(***************************************************************************)
(* What the session hub keeps of each request, in memory and under the     *)
(* data directory: the records of the journal (sessions.go), their payload *)
(* files (payload.go) and the history of the stats (stats.go).             *)
(*                                                                         *)
(* A record holds one request, so both are one here.  Which records are    *)
(* the least recently seen ones is left open (HotPath keeps their order);  *)
(* the one that was just added never is.  Any write to a file may fail,    *)
(* and leave it as it was, whole or torn; a file that is to be removed is  *)
(* removed.  A crash is a step whose remaining writes fail, and a Restart. *)
(***************************************************************************)
EXTENDS Integers, FiniteSets

CONSTANTS Ids,       \* record ids, random and never drawn twice
          MaxCards,  \* maxSessionCards
          NoRecord,  \* not in the map, or no file
          Torn       \* a record file that cannot be parsed

Record == [seq : Nat, final : BOOLEAN]

ASSUME JournalAssumption ==
    /\ IsFiniteSet(Ids)
    /\ MaxCards \in Nat \ {0}
    /\ NoRecord # Torn /\ {NoRecord, Torn} \cap Record = {}

VARIABLES records,  \* hub.records
          nextID,   \* the last sequence number given away
          indexed,  \* keys of hub.statsIndex
          history,  \* history[i]: entries of request i in hub.history
          disk,     \* disk[i]: sessions/<i>.json
          bodies,   \* ids with a .request file
          answers,  \* ids with a .response file
          log,      \* stats.jsonl: lines of each request, and how it ends
          pc,       \* pc[i]: where the request is
          evicted,  \* ids that were evicted
          lost      \* ids whose stats line was not written, or not readably

memory == <<records, nextID, indexed, history>>
files == <<disk, bodies, answers, log>>
vars == <<memory, files, pc, evicted, lost>>

Live(recs) == {i \in Ids : recs[i] \in Record}

Without(recs, out) == [i \in Ids |-> IF i \in out THEN NoRecord ELSE recs[i]]

-----------------------------------------------------------------------------
Init == /\ records = [i \in Ids |-> NoRecord]
        /\ nextID = 0 /\ indexed = {}
        /\ history = [i \in Ids |-> 0]
        /\ disk = records
        /\ bodies = {} /\ answers = {}
        /\ log = [lines |-> history, tail |-> "empty"]
        /\ pc = [i \in Ids |-> "new"]
        /\ evicted = {} /\ lost = {}

\* saveRecordLocked: whatever becomes of the file, nobody is told.
Written(d, i, rec) == {d, [d EXCEPT ![i] = Torn], [d EXCEPT ![i] = rec]}

\* evictLocked: the records beyond maxSessionCards, but not the new one.
Evicted(recs, i) ==
    {out \in SUBSET (Live(recs) \ {i}) :
        LET kept == Cardinality(Live(recs) \ out) IN
            kept <= MaxCards /\ (out # {} => kept = MaxCards)}

\* start: the payload file of the answer is created first (or not), the
\* record is saved last.
Start(i) ==
    /\ pc[i] = "new"
    /\ pc' = [pc EXCEPT ![i] = "open"]
    /\ nextID' = nextID + 1
    /\ LET rec == [seq |-> nextID + 1, final |-> FALSE]
           all == [records EXCEPT ![i] = rec]
       IN \E out \in Evicted(all, i) :
             /\ records' = Without(all, out)
             /\ disk' \in Written(Without(disk, out), i, rec)
             /\ bodies' = bodies \ out
             /\ answers' \in {answers \ out, (answers \cup {i}) \ out}
             /\ evicted' = evicted \cup out
    /\ UNCHANGED <<indexed, history, log, lost>>

\* setRequestBody finds the key of the payload and lets go of the lock ...
ReadKey(i) ==
    /\ pc[i] = "open" /\ records[i] # NoRecord
    /\ pc' = [pc EXCEPT ![i] = "body"]
    /\ UNCHANGED <<memory, files, evicted, lost>>

\* ... and writes the file.
WriteBody(i) ==
    /\ pc[i] = "body"
    /\ pc' = [pc EXCEPT ![i] = "sized"]
    /\ bodies' \in {bodies, bodies \cup {i}}
    /\ UNCHANGED <<memory, disk, answers, log, evicted, lost>>

\* persistStatsEntryLocked: a line that follows a torn one is lost with it.
AppendLine(i) ==
    \/ /\ log.tail # "torn"
       /\ log' = [lines |-> [log.lines EXCEPT ![i] = @ + 1], tail |-> "clean"]
       /\ UNCHANGED lost
    \/ /\ log' \in {log, [log EXCEPT !.tail = "torn"],
                    [log EXCEPT !.tail = IF @ = "torn" THEN "clean" ELSE @]}
       /\ lost' = lost \cup {i}

\* syncStatsEntry: an entry for a sequence number that has none.
Sync(i, seq) ==
    \/ seq \in indexed /\ UNCHANGED <<indexed, history>>
    \/ /\ seq \notin indexed
       /\ indexed' = indexed \cup {seq}
       /\ history' = [history EXCEPT ![i] = @ + 1]

\* (mutant) The record is saved all the same.
NoRecordButSaved(i) ==
    /\ records[i] = NoRecord
    /\ disk' \in Written(disk, i, [seq |-> nextID, final |-> TRUE])
    /\ UNCHANGED <<memory, log, lost>>

\* The record was evicted meanwhile.
NoRecordLeft(i) ==
    /\ records[i] = NoRecord
    /\ UNCHANGED <<memory, disk, log, lost>>

\* updateRequest of a request that is (now) final or not.
UpdateRequest(i, final) ==
    \/ NoRecordLeft(i)
    \/ /\ records[i] # NoRecord
       /\ LET rec == [records[i] EXCEPT !.final = final] IN
             /\ records' = [records EXCEPT ![i] = rec]
             /\ disk' \in Written(disk, i, rec)
       /\ \/ final /\ ~records[i].final /\ AppendLine(i)
          \/ (final => records[i].final) /\ UNCHANGED <<log, lost>>
       /\ \/ final /\ Sync(i, records[i].seq)
          \/ ~final /\ UNCHANGED <<indexed, history>>
       /\ UNCHANGED nextID

\* Another detail is recorded, or a piece of the answer.
Progress(i) ==
    /\ pc[i] = "open"
    /\ UpdateRequest(i, FALSE)
    /\ UNCHANGED <<bodies, answers, pc, evicted>>

\* setRequestBody notes how large the body was.
NoteBody(i) ==
    /\ pc[i] = "sized"
    /\ pc' = [pc EXCEPT ![i] = "open"]
    /\ UpdateRequest(i, FALSE)
    /\ UNCHANGED <<bodies, answers, evicted>>

\* complete.
Complete(i) ==
    /\ pc[i] = "open"
    /\ pc' = [pc EXCEPT ![i] = "charge"]
    /\ UpdateRequest(i, TRUE)
    /\ UNCHANGED <<bodies, answers, evicted>>

\* chargeFromSession adds the cost to the record.
Annotate(i) ==
    /\ pc[i] = "charge"
    /\ pc' = [pc EXCEPT ![i] = "gone"]
    /\ UpdateRequest(i, TRUE)
    /\ UNCHANGED <<bodies, answers, evicted>>

-----------------------------------------------------------------------------
\* loadRecords: files that cannot be parsed are passed over.
Loaded == [i \in Ids |-> IF disk[i] = Torn THEN NoRecord ELSE disk[i]]

SequencesOf(recs) == {recs[i].seq : i \in Live(recs)}

\* (mutant) Numbers start again.
IsLastSequenceForgotten(n, recs) == n = 0

IsLastSequence(n, recs) == /\ n \in SequencesOf(recs) \cup {0}
                           /\ \A seq \in SequencesOf(recs) : seq <= n

\* (mutant) The file is opened, not read.
OpenHistory ==
    /\ log.tail # "empty"
    /\ history' = [i \in Ids |-> 0] /\ indexed' = {}
    /\ UNCHANGED <<log, lost>>

\* loadStatsHistory: there are stats already.
ReadHistory ==
    /\ log.tail # "empty"
    /\ history' = log.lines /\ indexed' = {}
    /\ UNCHANGED <<log, lost>>

\* (mutant) Whatever the log holds.
BackfillAgain ==
    LET finals == {i \in Live(disk) : disk[i].final} IN
        /\ history' = [i \in Ids |-> log.lines[i] + IF i \in finals THEN 1 ELSE 0]
        /\ indexed' = {disk[i].seq : i \in finals}
        /\ log' = [lines |-> history', tail |-> "clean"]
        /\ UNCHANGED lost

\* backfillStatsFromSessions: there are none, and the final requests of the
\* journal become both the history and, as far as they can be written, the log.
Backfill ==
    LET finals == {i \in Live(disk) : disk[i].final} IN
        /\ log.tail = "empty"
        /\ history' = [i \in Ids |-> IF i \in finals THEN 1 ELSE 0]
        /\ indexed' = {disk[i].seq : i \in finals}
        /\ \E done \in SUBSET finals, tail \in {"empty", "clean", "torn"} :
              /\ log' = [lines |-> [i \in Ids |-> IF i \in done THEN 1 ELSE 0],
                         tail |-> tail]
              /\ done # {} => tail # "empty"
              /\ done = finals => tail # "torn"
              /\ finals = {} => tail = "empty"
              /\ lost' = (lost \ done) \cup (finals \ done)

\* The gateway stops and starts again (newSessionHubPersistent).
Restart ==
    /\ ReadHistory \/ Backfill
    /\ records' = Loaded
    /\ \E n \in SequencesOf(Loaded) \cup {0} :
          IsLastSequence(n, Loaded) /\ nextID' = n
    /\ pc' = [i \in Ids |-> IF pc[i] = "new" THEN "new" ELSE "gone"]
    /\ UNCHANGED <<disk, bodies, answers, evicted>>

Next == \/ \E i \in Ids : \/ Start(i) \/ ReadKey(i) \/ WriteBody(i)
                          \/ NoteBody(i) \/ Progress(i) \/ Complete(i) \/ Annotate(i)
        \/ Restart

Spec == Init /\ [][Next]_vars

-----------------------------------------------------------------------------
(* Every variable stays within its type, and no two records share the      *)
(* sequence number the stats know them by, over restarts that forget the   *)
(* highest ones (sessions.go:263-282, 590-597).                            *)
TypeOK ==
    /\ records \in [Ids -> Record \cup {NoRecord}]
    /\ disk \in [Ids -> Record \cup {NoRecord, Torn}]
    /\ nextID \in Nat /\ indexed \subseteq Nat
    /\ history \in [Ids -> Nat]
    /\ bodies \subseteq Ids /\ answers \subseteq Ids
    /\ log \in [lines : [Ids -> Nat], tail : {"empty", "clean", "torn"}]
    /\ pc \in [Ids -> {"new", "open", "body", "sized", "charge", "gone"}]
    /\ evicted \subseteq Ids /\ lost \subseteq Ids
    /\ \A i, j \in Live(records) : records[i].seq = records[j].seq => i = j

(* A request is never counted twice, neither in the history nor by the log *)
(* the next start reads, and the two only differ in requests whose line    *)
(* could not be written (sessions.go:463-490, stats.go:613-672).           *)
CountedOnce ==
    \A i \in Ids :
        /\ history[i] \in {0, 1} /\ log.lines[i] \in {0, 1}
        /\ i \notin lost => history[i] = log.lines[i]

(* A request that the journal shows as final is in the stats, unless its   *)
(* line could not be written: a crash may leave it in the stats and        *)
(* running in the journal, never the other way round (sessions.go:473-485).*)
FinalIsCounted ==
    \A i \in Live(records) : records[i].final /\ i \notin lost => history[i] = 1

(* An evicted record is gone for good: what its request still records, and *)
(* the restarts that follow, bring back neither it nor its answer's file   *)
(* (sessions.go:325-348, 466-469, 516-522).                                *)
EvictedIsGone ==
    \A i \in evicted : /\ records[i] = NoRecord /\ disk[i] = NoRecord
                       /\ i \notin answers

(* The journal never exceeds its limit, though a start loads all there is  *)
(* (sessions.go:250-282, 327-348).                                         *)
CardsBounded == Cardinality(Live(records)) <= MaxCards
=============================================================================
