------------------------------- MODULE HubProofs ------------------------------
(***************************************************************************)
(* What the hubs promise for any number of requests, cards, readers and    *)
(* pages: Journal, what the session hub keeps, and Feeds, what it and the  *)
(* log hub show.                                                           *)
(*                                                                         *)
(* Journal: a request is counted at most once, a final one is counted      *)
(* unless its line failed, an evicted one does not come back, and the      *)
(* journal keeps its limit.  None of it is inductive.  It rests on what    *)
(* the stats index holds while a request runs (Running), on sequence       *)
(* numbers that identify records though a start may hand out old ones      *)
(* again (Numbered), and on a file never being ahead of its record         *)
(* (NotAhead).                                                             *)
(*                                                                         *)
(* Feeds: for the log hub the argument is about one sequence per reader:   *)
(* what it showed, followed by what it has yet to replay, followed by its  *)
(* channel.  Only Subscribe and Write change it; showing a line moves the  *)
(* line from one part to the next.  It stays increasing because no line of *)
(* it is later than the last one written.  The file and the history keep   *)
(* each other as long as the file has every line: then the history is its  *)
(* end.  For the session hub, a page with a free channel that rendered has *)
(* seen what was published, also while it still sends what it rendered.    *)
(***************************************************************************)
EXTENDS Journal, Feeds, FiniteSetTheorems, SequenceTheorems, TLAPS

-----------------------------------------------------------------------------
(* The journal.                                                            *)

Typed ==
    /\ records \in [Ids -> Record \cup {NoRecord}]
    /\ disk \in [Ids -> Record \cup {NoRecord, Torn}]
    /\ nextID \in Nat /\ indexed \subseteq Nat
    /\ history \in [Ids -> Nat]
    /\ bodies \subseteq Ids /\ answers \subseteq Ids
    /\ log \in [lines : [Ids -> Nat], tail : {"empty", "clean", "torn"}]
    /\ pc \in [Ids -> {"new", "open", "body", "sized", "charge", "gone"}]
    /\ evicted \subseteq Ids /\ lost \subseteq Ids

Numbered ==
    /\ \A i \in Live(records) : records[i].seq <= nextID
    /\ \A i, j \in Live(records) : records[i].seq = records[j].seq => i = j
    /\ \A seq \in indexed : seq <= nextID

NotAhead ==
    \A i \in Live(disk) : /\ i \in Live(records)
                          /\ disk[i].seq = records[i].seq
                          /\ disk[i].final => records[i].final

Running ==
    \A i \in Ids :
        /\ pc[i] = "new" =>
              records[i] = NoRecord /\ disk[i] = NoRecord /\ i \notin evicted
        /\ pc[i] \in {"new", "open", "body", "sized"} =>
              /\ history[i] = 0 /\ log.lines[i] = 0
              /\ records[i] # NoRecord =>
                    ~records[i].final /\ records[i].seq \notin indexed
        /\ pc[i] = "charge" /\ records[i] # NoRecord =>
              records[i].final /\ records[i].seq \in indexed

IInv == /\ Typed /\ Numbered /\ NotAhead /\ Running
        /\ CountedOnce /\ FinalIsCounted /\ EvictedIsGone /\ CardsBounded

-----------------------------------------------------------------------------
\* What Live picks out of a map of records.
LEMMA LiveIsRecord ==
    ASSUME NEW recs \in [Ids -> Record \cup {NoRecord, Torn}], NEW i \in Ids
    PROVE  i \in Live(recs) <=> recs[i] # NoRecord /\ recs[i] # Torn
BY JournalAssumption DEF Live

LEMMA LiveOfMemory ==
    ASSUME Typed, NEW i \in Ids
    PROVE  /\ i \in Live(records) <=> records[i] # NoRecord
           /\ i \in Live(records) <=> records[i] \in Record
BY JournalAssumption DEF Typed, Live

LEMMA LiveFinite ==
    ASSUME NEW recs
    PROVE  IsFiniteSet(Live(recs)) /\ Cardinality(Live(recs)) \in Nat
<1>1. Live(recs) \subseteq Ids
  BY DEF Live
<1>2. QED
  BY <1>1, JournalAssumption, FS_Subset, FS_CardinalityType

\* Fewer records are not more than the limit.
LEMMA FewerBounded ==
    ASSUME NEW recs, NEW more, Live(recs) \subseteq Live(more),
           Cardinality(Live(more)) <= MaxCards
    PROVE  Cardinality(Live(recs)) <= MaxCards
<1>1. Cardinality(Live(recs)) <= Cardinality(Live(more))
  BY LiveFinite, FS_Subset
<1>2. QED
  BY <1>1, LiveFinite, JournalAssumption

-----------------------------------------------------------------------------
LEMMA InitIInv == Init => IInv
<1> SUFFICES ASSUME Init
             PROVE  IInv
  OBVIOUS
<1> USE JournalAssumption DEF Init
<1>1. Live(records) = {} /\ Live(disk) = {}
  BY DEF Live
<1>2. Typed
  BY DEF Typed
<1>3. Numbered /\ NotAhead
  BY <1>1 DEF Numbered, NotAhead
<1>4. Running
  BY DEF Running
<1>5. CountedOnce /\ FinalIsCounted /\ EvictedIsGone
  BY <1>1 DEF CountedOnce, FinalIsCounted, EvictedIsGone
<1>6. CardsBounded
  BY <1>1, FS_EmptySet DEF CardsBounded
<1>7. QED
  BY <1>2, <1>3, <1>4, <1>5, <1>6 DEF IInv

-----------------------------------------------------------------------------
(* start.                                                                  *)

LEMMA StartIInv ==
    ASSUME IInv, NEW i \in Ids, Start(i)
    PROVE  IInv'
<1> DEFINE rec == [seq |-> nextID + 1, final |-> FALSE]
           all == [records EXCEPT ![i] = rec]
<1>0. /\ Typed /\ Numbered /\ NotAhead /\ Running
      /\ CountedOnce /\ FinalIsCounted /\ EvictedIsGone
  BY DEF IInv
<1>1. PICK out \in Evicted(all, i) :
          /\ records' = Without(all, out)
          /\ disk' \in Written(Without(disk, out), i, rec)
          /\ bodies' = bodies \ out
          /\ answers' \in {answers \ out, (answers \cup {i}) \ out}
          /\ evicted' = evicted \cup out
  BY DEF Start
<1>2. /\ pc[i] = "new" /\ pc' = [pc EXCEPT ![i] = "open"]
      /\ nextID' = nextID + 1
      /\ UNCHANGED <<indexed, history, log, lost>>
  BY DEF Start
<1>3. rec \in Record /\ rec.seq = nextID + 1 /\ ~rec.final
  BY <1>0 DEF Typed, Record
<1>4. out \subseteq Live(all) \ {i} /\ Cardinality(Live(all) \ out) <= MaxCards
  BY <1>1 DEF Evicted
<1> HIDE DEF rec
<1>5. out \subseteq Ids /\ i \notin out
  BY <1>4 DEF Live
<1>6. /\ records'[i] = rec
      /\ disk'[i] \in {NoRecord, Torn, rec}
      /\ \A j \in Ids \ {i} :
            /\ records'[j] = IF j \in out THEN NoRecord ELSE records[j]
            /\ disk'[j] = IF j \in out THEN NoRecord ELSE disk[j]
  <2>1. disk[i] = NoRecord
    BY <1>0, <1>2 DEF Running
  <2>2. QED
    BY <1>0, <1>1, <1>5, <2>1 DEF Typed, Without, Written
<1>7. Typed'
  <2>1. records' \in [Ids -> Record \cup {NoRecord}]
    BY <1>0, <1>1, <1>3 DEF Typed, Without
  <2>2. disk' \in [Ids -> Record \cup {NoRecord, Torn}]
    BY <1>0, <1>1, <1>3 DEF Typed, Without, Written
  <2>3. bodies' \subseteq Ids /\ answers' \subseteq Ids /\ evicted' \subseteq Ids
    BY <1>0, <1>1, <1>5 DEF Typed
  <2>4. pc' \in [Ids -> {"new", "open", "body", "sized", "charge", "gone"}]
    BY <1>0, <1>2 DEF Typed
  <2>5. /\ nextID' \in Nat /\ indexed' \subseteq Nat
        /\ history' \in [Ids -> Nat] /\ lost' \subseteq Ids
        /\ log' \in [lines : [Ids -> Nat], tail : {"empty", "clean", "torn"}]
    BY <1>0, <1>2 DEF Typed
  <2>6. QED
    BY <2>1, <2>2, <2>3, <2>4, <2>5 DEF Typed
<1>8. /\ i \in Live(records')
      /\ \A j \in Ids \ {i} : j \in Live(records') <=> j \in Live(records) \ out
      /\ \A j \in Ids \ {i} : j \in Live(disk') <=> j \in Live(disk) \ out
  BY <1>3, <1>6, JournalAssumption DEF Live
<1>9. Numbered'
  <2>1. \A j \in Live(records) : records[j].seq \in Nat /\ records[j].seq <= nextID
    BY <1>0 DEF Numbered, Live, Record
  <2>2. nextID \in Nat /\ indexed \subseteq Nat
    BY <1>0 DEF Typed
  <2>3. ASSUME NEW j \in Live(records')
        PROVE  /\ records'[j].seq <= nextID'
               /\ j # i => j \in Live(records) /\ records'[j] = records[j]
    BY <1>2, <1>3, <1>6, <1>8, <2>1, <2>2 DEF Live
  <2>4. ASSUME NEW j \in Live(records'), NEW k \in Live(records'),
               records'[j].seq = records'[k].seq
        PROVE  j = k
    BY <1>0, <1>3, <1>6, <2>1, <2>2, <2>3, <2>4 DEF Numbered
  <2>5. \A seq \in indexed' : seq <= nextID'
    BY <1>0, <1>2, <2>2 DEF Numbered
  <2>6. QED
    BY <2>3, <2>4, <2>5 DEF Numbered
<1>10. NotAhead'
  <2> SUFFICES ASSUME NEW j \in Live(disk')
               PROVE  /\ j \in Live(records')
                      /\ disk'[j].seq = records'[j].seq
                      /\ disk'[j].final => records'[j].final
    BY DEF NotAhead
  <2>0. j \in Ids
    BY DEF Live
  <2>1. CASE j = i
    BY <1>6, <1>8, <2>1, JournalAssumption DEF Live
  <2>2. CASE j # i
    BY <1>0, <1>6, <1>8, <2>0, <2>2 DEF NotAhead, Live
  <2>3. QED
    BY <2>1, <2>2
<1>11. Running'
  <2> SUFFICES ASSUME NEW j \in Ids
               PROVE  Running!(j)'
    BY DEF Running
  <2>1. CASE j = i
    <3>1. rec.seq \notin indexed
      BY <1>0, <1>3 DEF Numbered, Typed
    <3>2. QED
      BY <1>0, <1>2, <1>3, <1>6, <2>1, <3>1 DEF Running, Typed
  <2>2. CASE j # i
    <3>1. pc'[j] = pc[j]
      BY <1>0, <1>2, <2>2 DEF Typed
    <3>2. j \in out => pc[j] # "new"
      BY <1>0, <1>1, <1>4, <2>2, JournalAssumption DEF Running, Live, Typed
    <3>3. QED
      BY <1>0, <1>1, <1>2, <1>6, <2>2, <3>1, <3>2 DEF Running
  <2>3. QED
    BY <2>1, <2>2
<1>12. CountedOnce'
  BY <1>0, <1>2 DEF CountedOnce
<1>13. FinalIsCounted'
  BY <1>0, <1>2, <1>3, <1>6, <1>8 DEF FinalIsCounted, Live
<1>14. EvictedIsGone'
  <2>1. i \notin evicted
    BY <1>0, <1>2 DEF Running
  <2>2. QED
    BY <1>0, <1>1, <1>5, <1>6, <2>1 DEF EvictedIsGone, Typed
<1>15. CardsBounded'
  <2>1. Live(records') \subseteq Live(all) \ out
    BY <1>1, <1>5, JournalAssumption DEF Live, Without
  <2>2. IsFiniteSet(Live(all) \ out)
    BY LiveFinite, FS_Subset
  <2>3. Cardinality(Live(records')) <= Cardinality(Live(all) \ out)
    BY <2>1, <2>2, FS_Subset
  <2>4. Cardinality(Live(all) \ out) \in Nat /\ Cardinality(Live(records')) \in Nat
    BY <2>2, LiveFinite, FS_CardinalityType
  <2>5. QED
    BY <1>4, <2>3, <2>4, JournalAssumption DEF CardsBounded
<1>16. QED
  BY <1>7, <1>9, <1>10, <1>11, <1>12, <1>13, <1>14, <1>15 DEF IInv

-----------------------------------------------------------------------------
(* setRequestBody.                                                         *)

LEMMA BodyIInv ==
    ASSUME IInv, NEW i \in Ids, ReadKey(i) \/ WriteBody(i)
    PROVE  IInv'
<1>0. /\ Typed /\ Numbered /\ NotAhead /\ Running
      /\ CountedOnce /\ FinalIsCounted /\ EvictedIsGone /\ CardsBounded
  BY DEF IInv
<1>1. /\ UNCHANGED <<records, nextID, indexed, history, disk, answers, log,
                     evicted, lost>>
      /\ bodies' \in {bodies, bodies \cup {i}}
      /\ pc[i] \in {"open", "body"}
      /\ pc' = [pc EXCEPT ![i] = "body"] \/ pc' = [pc EXCEPT ![i] = "sized"]
  BY DEF ReadKey, WriteBody, memory, files
<1>2. /\ \A j \in Ids \ {i} : pc'[j] = pc[j]
      /\ pc'[i] \in {"body", "sized"}
      /\ pc' \in [Ids -> {"new", "open", "body", "sized", "charge", "gone"}]
  BY <1>0, <1>1 DEF Typed
<1>3. Typed'
  BY <1>0, <1>1, <1>2 DEF Typed
<1>4. Numbered' /\ NotAhead'
  BY <1>0, <1>1 DEF Numbered, NotAhead, Live
<1>5. Running'
  BY <1>0, <1>1, <1>2 DEF Running
<1>6. CountedOnce' /\ FinalIsCounted' /\ EvictedIsGone' /\ CardsBounded'
  BY <1>0, <1>1
     DEF CountedOnce, FinalIsCounted, EvictedIsGone, CardsBounded, Live
<1>7. QED
  BY <1>3, <1>4, <1>5, <1>6 DEF IInv

-----------------------------------------------------------------------------
(* updateRequest.                                                          *)

\* The place of a request moves on as it becomes final.
Moves(i, final) ==
    \/ ~final /\ pc[i] = "open" /\ pc' = pc
    \/ ~final /\ pc[i] = "sized" /\ pc' = [pc EXCEPT ![i] = "open"]
    \/ final /\ pc[i] = "open" /\ pc' = [pc EXCEPT ![i] = "charge"]
    \/ final /\ pc[i] = "charge" /\ pc' = [pc EXCEPT ![i] = "gone"]

\* The request is counted now, and its line is written or lost.
CountsNow(i) ==
    /\ ~records[i].final /\ pc[i] = "open"
    /\ indexed' = indexed \cup {records[i].seq}
    /\ history' = [history EXCEPT ![i] = 1]
    /\ log' \in [lines : [Ids -> Nat], tail : {"empty", "clean", "torn"}]
    /\ \A j \in Ids \ {i} : log'.lines[j] = log.lines[j]
    /\ \/ log'.lines[i] = 1 /\ lost' = lost
       \/ log'.lines[i] = 0 /\ lost' = lost \cup {i}

LEMMA UpdateEffect ==
    ASSUME Typed, Running, NEW i \in Ids, NEW final \in BOOLEAN,
           Moves(i, final), UpdateRequest(i, final), records[i] # NoRecord
    PROVE  \/ /\ UNCHANGED <<indexed, history, log, lost>>
              /\ final <=> records[i].final
           \/ final /\ CountsNow(i)
<1>1. /\ pc[i] \in {"open", "sized"} =>
            /\ ~records[i].final /\ records[i].seq \notin indexed
            /\ history[i] = 0 /\ log.lines[i] = 0
      /\ pc[i] = "charge" => records[i].final /\ records[i].seq \in indexed
  BY DEF Running
<1>2. CASE ~final
  BY <1>1, <1>2 DEF UpdateRequest, NoRecordLeft, Moves
<1>3. CASE final /\ pc[i] = "charge"
  BY <1>1, <1>3 DEF UpdateRequest, NoRecordLeft, Sync
<1>4. CASE final /\ pc[i] = "open"
  <2>1. AppendLine(i) /\ Sync(i, records[i].seq)
    BY <1>1, <1>4 DEF UpdateRequest, NoRecordLeft
  <2>2. /\ indexed' = indexed \cup {records[i].seq}
        /\ history' = [history EXCEPT ![i] = 1]
    BY <1>1, <1>4, <2>1 DEF Sync, Typed
  <2>3. /\ log.lines \in [Ids -> Nat]
        /\ log.tail \in {"empty", "clean", "torn"}
        /\ log = [lines |-> log.lines, tail |-> log.tail]
    BY DEF Typed
  <2>4. CASE /\ log' = [lines |-> [log.lines EXCEPT ![i] = @ + 1],
                        tail |-> "clean"]
             /\ UNCHANGED lost
    BY <1>1, <1>4, <2>2, <2>3, <2>4 DEF CountsNow
  <2>5. CASE /\ log' \in {log, [log EXCEPT !.tail = "torn"],
                          [log EXCEPT !.tail = IF @ = "torn" THEN "clean" ELSE @]}
             /\ lost' = lost \cup {i}
    <3>1. PICK t \in {"empty", "clean", "torn"} :
              log' = [lines |-> log.lines, tail |-> t]
      <4>1. [log EXCEPT !.tail = "torn"] = [lines |-> log.lines, tail |-> "torn"]
        BY <2>3
      <4>2. PICK t \in {"empty", "clean", "torn"} :
                [log EXCEPT !.tail = IF @ = "torn" THEN "clean" ELSE @]
                  = [lines |-> log.lines, tail |-> t]
        BY <2>3
      <4>3. QED
        BY <2>3, <2>5, <4>1, <4>2
    <3>2. log'.lines = log.lines
      BY <3>1
    <3>3. log' \in [lines : [Ids -> Nat], tail : {"empty", "clean", "torn"}]
      BY <2>3, <3>1
    <3>4. QED
      BY <1>1, <1>4, <2>2, <2>5, <3>2, <3>3 DEF CountsNow
  <2>6. QED
    BY <1>4, <2>1, <2>4, <2>5 DEF AppendLine
<1>5. QED
  BY <1>2, <1>3, <1>4 DEF Moves

LEMMA UpdateIInv ==
    ASSUME IInv, NEW i \in Ids, NEW final \in BOOLEAN,
           Moves(i, final), UpdateRequest(i, final),
           UNCHANGED <<bodies, answers, evicted>>
    PROVE  IInv'
<1>0. /\ Typed /\ Numbered /\ NotAhead /\ Running
      /\ CountedOnce /\ FinalIsCounted /\ EvictedIsGone /\ CardsBounded
  BY DEF IInv
<1>1. /\ \A j \in Ids \ {i} : pc'[j] = pc[j]
      /\ pc'[i] \in {"open", "charge", "gone"}
      /\ pc'[i] = "open" => ~final /\ pc[i] \in {"open", "sized"}
      /\ pc'[i] = "charge" => final
      /\ pc' \in [Ids -> {"new", "open", "body", "sized", "charge", "gone"}]
  BY <1>0 DEF Typed, Moves
<1>2. CASE records[i] = NoRecord
  <2>1. UNCHANGED <<records, nextID, indexed, history, disk, log, lost>>
    BY <1>2 DEF UpdateRequest, NoRecordLeft, memory
  <2>2. Typed'
    BY <1>0, <1>1, <2>1 DEF Typed
  <2>3. Numbered' /\ NotAhead'
    BY <1>0, <2>1 DEF Numbered, NotAhead, Live
  <2>4. Running'
    BY <1>0, <1>1, <1>2, <2>1 DEF Running
  <2>5. CountedOnce' /\ FinalIsCounted' /\ EvictedIsGone' /\ CardsBounded'
    BY <1>0, <2>1
       DEF CountedOnce, FinalIsCounted, EvictedIsGone, CardsBounded, Live
  <2>6. QED
    BY <2>2, <2>3, <2>4, <2>5 DEF IInv
<1>3. CASE records[i] # NoRecord
  <2> DEFINE rec == [records[i] EXCEPT !.final = final]
  <2>1. /\ records' = [records EXCEPT ![i] = rec]
        /\ disk' \in Written(disk, i, rec)
        /\ nextID' = nextID
    BY <1>3 DEF UpdateRequest, NoRecordLeft
  <2>2. records[i] \in Record
    BY <1>0, <1>3 DEF Typed
  <2>3. rec \in Record /\ rec.seq = records[i].seq /\ rec.final = final
    BY <2>2 DEF Record
  <2> HIDE DEF rec
  <2>4. /\ records'[i] = rec
        /\ disk'[i] \in {disk[i], Torn, rec}
        /\ \A j \in Ids \ {i} : records'[j] = records[j] /\ disk'[j] = disk[j]
    BY <1>0, <2>1 DEF Typed, Written
  <2>5. \/ /\ UNCHANGED <<indexed, history, log, lost>>
           /\ final <=> records[i].final
        \/ final /\ CountsNow(i)
    BY <1>0, <1>3, UpdateEffect
  <2>6. /\ Live(records') = Live(records) /\ i \in Live(records)
        /\ \A j \in Ids \ {i} : j \in Live(disk') <=> j \in Live(disk)
    BY <2>2, <2>3, <2>4 DEF Live
  <2>7. \A j \in Ids : records'[j] # NoRecord => records'[j].seq = records[j].seq
    BY <2>3, <2>4
  <2>8. Typed'
    <3>1. /\ records' \in [Ids -> Record \cup {NoRecord}]
          /\ disk' \in [Ids -> Record \cup {NoRecord, Torn}]
      BY <1>0, <2>1, <2>3 DEF Typed, Written
    <3>2. records[i].seq \in Nat
      BY <2>2 DEF Record
    <3>3. /\ indexed' \subseteq Nat /\ history' \in [Ids -> Nat]
          /\ log' \in [lines : [Ids -> Nat], tail : {"empty", "clean", "torn"}]
          /\ lost' \subseteq Ids
      <4>1. CASE UNCHANGED <<indexed, history, log, lost>>
        BY <1>0, <4>1 DEF Typed
      <4>2. CASE CountsNow(i)
        <5>1. indexed' \subseteq Nat
          BY <1>0, <3>2, <4>2 DEF Typed, CountsNow
        <5>2. history' \in [Ids -> Nat] /\ lost' \subseteq Ids
          BY <1>0, <4>2 DEF Typed, CountsNow
        <5>3. QED
          BY <4>2, <5>1, <5>2 DEF CountsNow
      <4>3. QED
        BY <2>5, <4>1, <4>2
    <3>4. QED
      BY <1>0, <1>1, <2>1, <3>1, <3>3 DEF Typed
  <2>9. Numbered'
    <3>1. \A seq \in indexed' : seq \in indexed \/ seq = records[i].seq
      BY <2>5 DEF CountsNow
    <3>2. QED
      BY <1>0, <2>1, <2>3, <2>4, <2>6, <3>1 DEF Numbered, Live
  <2>10. NotAhead'
    <3> SUFFICES ASSUME NEW j \in Live(disk')
                 PROVE  /\ j \in Live(records')
                        /\ disk'[j].seq = records'[j].seq
                        /\ disk'[j].final => records'[j].final
      BY DEF NotAhead
    <3>0. j \in Ids
      BY DEF Live
    <3>1. CASE j # i
      BY <1>0, <2>4, <2>6, <3>0, <3>1 DEF NotAhead
    <3>2. CASE j = i /\ disk'[i] = rec
      BY <2>4, <2>6, <3>2
    <3>3. CASE j = i /\ disk'[i] # rec
      <4>1. disk'[i] = disk[i] /\ i \in Live(disk)
        BY <2>4, <3>3, JournalAssumption DEF Live
      <4>2. disk[i].final => final
        BY <1>0, <2>5, <4>1 DEF NotAhead
      <4>3. QED
        BY <1>0, <2>3, <2>4, <2>6, <3>3, <4>1, <4>2 DEF NotAhead
    <3>4. QED
      BY <3>1, <3>2, <3>3
  <2>11. Running'
    <3> SUFFICES ASSUME NEW j \in Ids
                 PROVE  Running!(j)'
      BY DEF Running
    <3>1. CASE j = i
      <4>1. pc'[i] = "open" => UNCHANGED <<indexed, history, log, lost>>
        BY <1>1, <2>5
      <4>2. pc'[i] = "charge" => records[i].seq \in indexed'
        <5>1. CASE CountsNow(i)
          BY <5>1 DEF CountsNow
        <5>2. CASE pc'[i] = "charge" /\ ~CountsNow(i)
          BY <1>0, <1>3, <2>5, <5>2 DEF Running, Moves, Typed
        <5>3. QED
          BY <5>1, <5>2
      <4>3. QED
        BY <1>0, <1>1, <1>3, <2>3, <2>4, <3>1, <4>1, <4>2 DEF Running
    <3>2. CASE j # i
      <4>1. history'[j] = history[j] /\ log'.lines[j] = log.lines[j]
        BY <1>0, <2>5, <3>2 DEF CountsNow, Typed
      <4>2. /\ \A seq \in indexed' : seq \in indexed \/ seq = records[i].seq
            /\ indexed \subseteq indexed'
        BY <2>5 DEF CountsNow
      <4>3. records[j] # NoRecord => records[j].seq # records[i].seq
        BY <1>0, <2>6, <3>2, LiveOfMemory DEF Numbered
      <4>4. QED
        BY <1>0, <1>1, <2>4, <3>2, <4>1, <4>2, <4>3 DEF Running
    <3>3. QED
      BY <3>1, <3>2
  <2>12. CountedOnce'
    BY <1>0, <2>5 DEF CountedOnce, CountsNow, Typed
  <2>13. FinalIsCounted'
    <3> SUFFICES ASSUME NEW j \in Live(records'), records'[j].final, j \notin lost'
                 PROVE  history'[j] = 1
      BY DEF FinalIsCounted
    <3>1. CASE CountsNow(i)
      BY <1>0, <2>4, <2>6, <3>1 DEF FinalIsCounted, CountsNow, Typed, Live
    <3>2. CASE UNCHANGED <<indexed, history, log, lost>> /\ (final <=> records[i].final)
      BY <1>0, <2>3, <2>4, <2>6, <3>2 DEF FinalIsCounted, Live
    <3>3. QED
      BY <2>5, <3>1, <3>2
  <2>14. EvictedIsGone'
    <3>1. i \notin evicted
      BY <1>0, <1>3 DEF EvictedIsGone
    <3>2. QED
      BY <1>0, <2>4, <3>1 DEF EvictedIsGone, Typed
  <2>15. CardsBounded'
    BY <1>0, <2>6 DEF CardsBounded
  <2>16. QED
    BY <2>8, <2>9, <2>10, <2>11, <2>12, <2>13, <2>14, <2>15 DEF IInv
<1>4. QED
  BY <1>2, <1>3
-----------------------------------------------------------------------------
(* The start.                                                              *)

\* Nothing is loaded that was not in memory.
LEMMA LoadedIsRecord ==
    ASSUME Typed
    PROVE  /\ Loaded \in [Ids -> Record \cup {NoRecord}]
           /\ Live(Loaded) = Live(disk)
           /\ \A i \in Live(disk) : Loaded[i] = disk[i]
BY JournalAssumption DEF Typed, Loaded, Live

LEMMA RestartIInv ==
    ASSUME IInv, Restart
    PROVE  IInv'
<1>0. /\ Typed /\ Numbered /\ NotAhead /\ Running
      /\ CountedOnce /\ FinalIsCounted /\ EvictedIsGone /\ CardsBounded
  BY DEF IInv
<1>1. /\ records' = Loaded
      /\ pc' = [i \in Ids |-> IF pc[i] = "new" THEN "new" ELSE "gone"]
      /\ UNCHANGED <<disk, bodies, answers, evicted>>
      /\ ReadHistory \/ Backfill
  BY DEF Restart
<1>2. /\ Live(records') = Live(disk) /\ Live(disk) \subseteq Live(records)
      /\ \A i \in Live(disk) : records'[i] = disk[i]
      /\ \A i \in Live(disk) : i \in Ids /\ disk[i].seq \in Nat
      /\ records' \in [Ids -> Record \cup {NoRecord}]
  BY <1>0, <1>1, LoadedIsRecord DEF NotAhead, Live, Record
<1>3. /\ nextID' \in Nat
      /\ \A i \in Live(disk) : disk[i].seq <= nextID'
  <2>1. PICK n \in SequencesOf(Loaded) \cup {0} :
            IsLastSequence(n, Loaded) /\ nextID' = n
    BY DEF Restart
  <2>2. SequencesOf(Loaded) = {disk[i].seq : i \in Live(disk)}
    BY <1>0, LoadedIsRecord DEF SequencesOf
  <2>3. QED
    BY <1>2, <2>1, <2>2 DEF IsLastSequence
<1>4. /\ indexed' \subseteq {disk[i].seq : i \in Live(disk)}
      /\ history' \in [Ids -> {0, 1}] /\ lost' \subseteq Ids
      /\ log' \in [lines : [Ids -> {0, 1}], tail : {"empty", "clean", "torn"}]
      /\ \A i \in Ids : i \notin lost' => history'[i] = log'.lines[i]
      /\ \A i \in Live(disk) : disk[i].final /\ i \notin lost' => history'[i] = 1
      /\ \A i \in Ids : pc[i] = "new" => history'[i] = 0 /\ log'.lines[i] = 0
  <2>1. CASE ReadHistory
    <3>1. /\ history' = log.lines /\ indexed' = {}
          /\ UNCHANGED <<log, lost>>
      BY <2>1 DEF ReadHistory
    <3>2. /\ log.lines \in [Ids -> {0, 1}]
          /\ log = [lines |-> log.lines, tail |-> log.tail]
          /\ log.tail \in {"empty", "clean", "torn"}
      BY <1>0 DEF Typed, CountedOnce
    <3>3. log \in [lines : [Ids -> {0, 1}], tail : {"empty", "clean", "torn"}]
      BY <3>2
    <3>4. ASSUME NEW i \in Live(disk), disk[i].final, i \notin lost
          PROVE  log.lines[i] = 1
      BY <1>0, <1>2, <3>4 DEF NotAhead, FinalIsCounted, CountedOnce
    <3>5. \A i \in Ids : pc[i] = "new" => log.lines[i] = 0
      BY <1>0 DEF Running
    <3>6. QED
      BY <1>0, <3>1, <3>2, <3>3, <3>4, <3>5 DEF Typed
  <2>2. CASE Backfill
    <3> DEFINE finals == {i \in Live(disk) : disk[i].final}
    <3>1. /\ history' = [i \in Ids |-> IF i \in finals THEN 1 ELSE 0]
          /\ indexed' = {disk[i].seq : i \in finals}
      BY <2>2 DEF Backfill
    <3>2. PICK done \in SUBSET finals, tail \in {"empty", "clean", "torn"} :
              /\ log' = [lines |-> [i \in Ids |-> IF i \in done THEN 1 ELSE 0],
                         tail |-> tail]
              /\ lost' = (lost \ done) \cup (finals \ done)
      BY <2>2 DEF Backfill
    <3>3. /\ log'.lines = [i \in Ids |-> IF i \in done THEN 1 ELSE 0]
          /\ log' \in [lines : [Ids -> {0, 1}], tail : {"empty", "clean", "torn"}]
      <4>1. [i \in Ids |-> IF i \in done THEN 1 ELSE 0] \in [Ids -> {0, 1}]
        OBVIOUS
      <4>2. QED
        BY <3>2, <4>1
    <3>4. finals \subseteq Ids /\ finals \subseteq Live(disk)
      BY <1>2
    <3>5. ASSUME NEW i \in Ids, pc[i] = "new"
          PROVE  i \notin finals
      BY <1>0, <3>5, JournalAssumption DEF Running, Live
    <3>6. /\ history' \in [Ids -> {0, 1}] /\ lost' \subseteq Ids
          /\ indexed' \subseteq {disk[i].seq : i \in Live(disk)}
      BY <1>0, <3>1, <3>2, <3>4 DEF Typed
    <3>7. \A i \in Ids : i \notin lost' => history'[i] = log'.lines[i]
      BY <3>1, <3>2, <3>3
    <3>8. \A i \in finals : history'[i] = 1
      BY <3>1, <3>4
    <3>9. \A i \in Ids : i \notin finals => history'[i] = 0 /\ log'.lines[i] = 0
      BY <3>1, <3>2, <3>3
    <3>10. QED
      BY <3>3, <3>5, <3>6, <3>7, <3>8, <3>9
  <2>3. QED
    BY <1>1, <2>1, <2>2
<1>5. Typed'
  <2>1. history' \in [Ids -> Nat]
    BY <1>4
  <2>2. log' \in [lines : [Ids -> Nat], tail : {"empty", "clean", "torn"}]
    BY <1>4
  <2>3. indexed' \subseteq Nat
    BY <1>2, <1>4
  <2>4. pc' \in [Ids -> {"new", "open", "body", "sized", "charge", "gone"}]
    BY <1>1
  <2>5. QED
    BY <1>0, <1>1, <1>2, <1>3, <1>4, <2>1, <2>2, <2>3, <2>4 DEF Typed
<1>6. Numbered'
  <2>1. \A i, j \in Live(disk) : disk[i].seq = disk[j].seq => i = j
    BY <1>0, <1>2 DEF Numbered, NotAhead
  <2>2. QED
    BY <1>2, <1>3, <1>4, <2>1 DEF Numbered
<1>7. NotAhead'
  BY <1>1, <1>2 DEF NotAhead, Live
<1>8. Running'
  <2> SUFFICES ASSUME NEW i \in Ids
               PROVE  Running!(i)'
    BY DEF Running
  <2>1. pc'[i] = IF pc[i] = "new" THEN "new" ELSE "gone"
    BY <1>1
  <2>2. disk[i] = NoRecord => records'[i] = NoRecord
    BY <1>1, JournalAssumption DEF Loaded
  <2>3. QED
    BY <1>0, <1>1, <1>4, <2>1, <2>2 DEF Running
<1>9. CountedOnce'
  BY <1>4 DEF CountedOnce
<1>10. FinalIsCounted'
  BY <1>2, <1>4 DEF FinalIsCounted
<1>11. EvictedIsGone'
  <2>1. \A i \in Ids : disk[i] = NoRecord => records'[i] = NoRecord
    BY <1>1, JournalAssumption DEF Loaded
  <2>2. QED
    BY <1>0, <1>1, <2>1 DEF EvictedIsGone, Typed
<1>12. CardsBounded'
  <2>1. Live(records') \subseteq Live(records)
    BY <1>2
  <2>2. QED
    BY <1>0, <2>1, FewerBounded DEF CardsBounded
<1>13. QED
  BY <1>5, <1>6, <1>7, <1>8, <1>9, <1>10, <1>11, <1>12 DEF IInv

-----------------------------------------------------------------------------
LEMMA StepIInv == IInv /\ [Next]_vars => IInv'
<1> SUFFICES ASSUME IInv, [Next]_vars
             PROVE  IInv'
  OBVIOUS
<1>1. CASE UNCHANGED vars
  BY <1>1 DEF vars, memory, files, IInv, Typed, Numbered, NotAhead, Running,
              CountedOnce, FinalIsCounted, EvictedIsGone, CardsBounded, Live
<1>2. ASSUME NEW i \in Ids, Progress(i)
      PROVE  IInv'
  BY <1>2, UpdateIInv DEF Progress, Moves
<1>3. ASSUME NEW i \in Ids, Complete(i)
      PROVE  IInv'
  BY <1>3, UpdateIInv DEF Complete, Moves
<1>4. ASSUME NEW i \in Ids, Annotate(i)
      PROVE  IInv'
  BY <1>4, UpdateIInv DEF Annotate, Moves
<1>5. ASSUME NEW i \in Ids, NoteBody(i)
      PROVE  IInv'
  BY <1>5, UpdateIInv DEF NoteBody, Moves
<1>6. QED
  BY <1>1, <1>2, <1>3, <1>4, <1>5, StartIInv, BodyIInv, RestartIInv DEF Next

(* IInv is an invariant for any number of requests and cards, whichever    *)
(* writes fail (sessionHub, loadRecords, loadStatsHistory).                *)
THEOREM JournalInvariant == Spec => []IInv
BY InitIInv, StepIInv, PTL DEF Spec

(* No two records share a sequence number, and the types hold.             *)
THEOREM JournalTypeOK == Spec => []TypeOK
<1>1. IInv => TypeOK
  BY DEF IInv, Typed, Numbered, TypeOK
<1>2. QED
  BY <1>1, JournalInvariant, PTL

(* A request is counted at most once, over any number of restarts,         *)
(* backfills and failing lines.                                            *)
THEOREM JournalCountedOnce == Spec => []CountedOnce
<1>1. IInv => CountedOnce
  BY DEF IInv
<1>2. QED
  BY <1>1, JournalInvariant, PTL

(* What the journal shows as final is in the stats, unless its line failed.*)
THEOREM JournalFinalIsCounted == Spec => []FinalIsCounted
<1>1. IInv => FinalIsCounted
  BY DEF IInv
<1>2. QED
  BY <1>1, JournalInvariant, PTL

(* An evicted record does not come back.                                   *)
THEOREM JournalEvictedIsGone == Spec => []EvictedIsGone
<1>1. IInv => EvictedIsGone
  BY DEF IInv
<1>2. QED
  BY <1>1, JournalInvariant, PTL

(* There are never more than MaxCards records.                             *)
THEOREM JournalCardsBounded == Spec => []CardsBounded
<1>1. IInv => CardsBounded
  BY DEF IInv
<1>2. QED
  BY <1>1, JournalInvariant, PTL

-----------------------------------------------------------------------------
(* The feeds.                                                              *)

States == {"off", "replay", "live"}
Stages == {"off", "render", "sent", "wait"}

\* The log hub: file and history hold lines in the order they were written.
LogInv ==
    /\ written \in Nat
    /\ file \in Seq(Lines) /\ Increasing(file) /\ Len(file) <= written
    /\ recent \in Seq(Lines) /\ Increasing(recent)
    /\ Len(recent) <= HistoryLimit
    /\ HistorySurvives

\* A reader, with the lines it showed or will show.
Feed(r) == shown[r] \o replay[r] \o channel[r]

ReadersTyped ==
    /\ reader \in [Readers -> States]
    /\ replay \in [Readers -> Seq(Lines)]
    /\ channel \in [Readers -> Seq(Lines)]
    /\ shown \in [Readers -> Seq(Lines)]
    /\ dropped \in [Readers -> SUBSET Lines]
    /\ since \in [Readers -> 0 .. written]

ReaderInv(r) ==
    /\ Len(channel[r]) <= ChannelSize
    /\ reader[r] = "live" => replay[r] = <<>>
    /\ Increasing(Feed(r))
    /\ reader[r] # "off" =>
          \A n \in since[r] + 1 .. written :
              n \in dropped[r] \cup ToSet(channel[r]) \cup ToSet(shown[r])

ReadersInv == ReadersTyped /\ \A r \in Readers : ReaderInv(r)

PagesInv ==
    /\ changes \in Nat /\ published \in 0 .. changes
    /\ page \in [Pages -> Stages] /\ wake \in [Pages -> BOOLEAN]
    /\ seen \in [Pages -> 0 .. changes]
    /\ \A p \in Pages :
          page[p] \in {"sent", "wait"} /\ ~wake[p] => seen[p] >= published

FeedsIInv == LogInv /\ ReadersInv /\ PagesInv

-----------------------------------------------------------------------------
(* Sequences.                                                              *)

\* What a sequence holds, after an addition and without its head.
LEMMA SetOfAppend ==
    ASSUME NEW S, NEW s \in Seq(S), NEW e \in S
    PROVE  ToSet(Append(s, e)) = ToSet(s) \cup {e}
<1>1. Append(s, e) \in Seq(S) /\ Len(Append(s, e)) = Len(s) + 1 /\ Len(s) \in Nat
  BY AppendProperties, LenProperties
<1>2. DOMAIN s = 1 .. Len(s) /\ DOMAIN Append(s, e) = 1 .. Len(s) + 1
  BY <1>1, LenProperties
<1>3. /\ \A i \in 1 .. Len(s) : Append(s, e)[i] = s[i]
      /\ Append(s, e)[Len(s) + 1] = e
  BY AppendProperties
<1>4. 1 .. Len(s) + 1 = (1 .. Len(s)) \cup {Len(s) + 1}
  BY <1>1
<1>5. QED
  BY <1>2, <1>3, <1>4 DEF ToSet

LEMMA SetOfHeadTail ==
    ASSUME NEW S, NEW s \in Seq(S), s # <<>>
    PROVE  /\ Head(s) \in S /\ Tail(s) \in Seq(S) /\ Len(Tail(s)) = Len(s) - 1
           /\ ToSet(s) = {Head(s)} \cup ToSet(Tail(s))
<1>1. /\ Head(s) \in S /\ Tail(s) \in Seq(S)
      /\ Len(Tail(s)) = Len(s) - 1
      /\ \A i \in 1 .. Len(Tail(s)) : Tail(s)[i] = s[i + 1]
  BY HeadTailProperties
<1>2. /\ Len(s) \in Nat /\ Len(s) # 0 /\ DOMAIN s = 1 .. Len(s)
      /\ DOMAIN Tail(s) = 1 .. Len(s) - 1
  BY <1>1, LenProperties, EmptySeq
<1>3. Head(s) = s[1]
  OBVIOUS
<1>4. ASSUME NEW i \in 1 .. Len(s), i # 1
      PROVE  i - 1 \in 1 .. Len(s) - 1 /\ s[i] = Tail(s)[i - 1]
  BY <1>1, <1>2, <1>4
<1>5. \A i \in 1 .. Len(s) - 1 : i + 1 \in 1 .. Len(s) /\ Tail(s)[i] = s[i + 1]
  BY <1>1, <1>2
<1>6. ToSet(s) \subseteq {Head(s)} \cup ToSet(Tail(s))
  BY <1>2, <1>3, <1>4 DEF ToSet
<1>7. {Head(s)} \cup ToSet(Tail(s)) \subseteq ToSet(s)
  BY <1>2, <1>3, <1>5 DEF ToSet
<1>8. QED
  BY <1>1, <1>6, <1>7

\* A head that moves to the end of the sequence before it changes nothing.
LEMMA HeadMoves ==
    ASSUME NEW S, NEW s \in Seq(S), NEW t \in Seq(S), t # <<>>
    PROVE  Append(s, Head(t)) \o Tail(t) = s \o t
<1>1. Head(t) \in S /\ Tail(t) \in Seq(S) /\ <<Head(t)>> \in Seq(S)
  BY HeadTailProperties
<1>2. Append(s, Head(t)) = s \o <<Head(t)>>
  BY <1>1, AppendIsConcat
<1>3. <<Head(t)>> \o Tail(t) = t
  <2> DEFINE u == <<Head(t)>> \o Tail(t)
  <2>1. /\ Len(Tail(t)) = Len(t) - 1 /\ Len(t) \in Nat /\ Len(t) # 0
        /\ \A i \in 1 .. Len(Tail(t)) : Tail(t)[i] = t[i + 1]
    BY HeadTailProperties, LenProperties, EmptySeq
  <2>2. /\ Len(<<Head(t)>>) = 1 /\ <<Head(t)>>[1] = t[1]
    OBVIOUS
  <2>3. /\ u \in Seq(S) /\ Len(u) = 1 + Len(Tail(t))
        /\ \A i \in 1 .. 1 + Len(Tail(t)) :
              u[i] = IF i <= 1 THEN <<Head(t)>>[i] ELSE Tail(t)[i - 1]
    BY <1>1, <2>2, ConcatProperties
  <2> HIDE DEF u
  <2>4. \A i \in 1 .. Len(t) : u[i] = t[i]
    BY <2>1, <2>2, <2>3
  <2>5. u = t
    BY <2>1, <2>3, <2>4, SeqEqual
  <2>6. QED
    BY <2>5 DEF u
<1>4. QED
  BY <1>1, <1>2, <1>3, ConcatAssociative

\* What is added to the last part is added to the whole.
LEMMA ConcatAppend ==
    ASSUME NEW S, NEW s \in Seq(S), NEW t \in Seq(S), NEW e \in S
    PROVE  s \o Append(t, e) = Append(s \o t, e)
<1>1. <<e>> \in Seq(S) /\ s \o t \in Seq(S)
  BY ConcatProperties
<1>2. Append(t, e) = t \o <<e>> /\ Append(s \o t, e) = (s \o t) \o <<e>>
  BY <1>1, AppendIsConcat
<1>3. QED
  BY <1>1, <1>2, ConcatAssociative

\* A later line at the end keeps the lines in order.
LEMMA LaterLine ==
    ASSUME NEW n \in Nat, NEW s \in Seq(1 .. n), Increasing(s)
    PROVE  Increasing(Append(s, n + 1))
<1>1. s \in Seq(Nat) /\ n + 1 \in Nat /\ Len(s) \in Nat
  BY SeqMonotonic, LenProperties
<1>2. /\ Len(Append(s, n + 1)) = Len(s) + 1
      /\ \A i \in 1 .. Len(s) : Append(s, n + 1)[i] = s[i]
      /\ Append(s, n + 1)[Len(s) + 1] = n + 1
  BY <1>1, AppendProperties
<1>3. \A i \in 1 .. Len(s) : s[i] \in 1 .. n
  BY ElementOfSeq
<1> DEFINE a == Append(s, n + 1)
<1> HIDE DEF a
<1>4. ASSUME NEW i \in 1 .. Len(s) + 1, NEW j \in 1 .. Len(s) + 1, i < j
      PROVE  a[i] < a[j]
  <2>1. i \in 1 .. Len(s) /\ a[i] = s[i] /\ s[i] \in 1 .. n
    BY <1>1, <1>2, <1>3, <1>4 DEF a
  <2>2. CASE j \in 1 .. Len(s)
    BY <1>2, <1>4, <2>1, <2>2 DEF a, Increasing
  <2>3. CASE j = Len(s) + 1
    BY <1>2, <2>1, <2>3 DEF a
  <2>4. QED
    BY <1>1, <2>2, <2>3
<1>5. QED
  BY <1>2, <1>4 DEF a, Increasing

\* How many lines come before the last ones.
Before(s) == IF Len(s) > HistoryLimit THEN Len(s) - HistoryLimit ELSE 0

LEMMA LastLinesProperties ==
    ASSUME NEW S, NEW s \in Seq(S)
    PROVE  /\ Before(s) \in 0 .. Len(s) /\ LastLines(s) \in Seq(S)
           /\ Len(LastLines(s)) = Len(s) - Before(s)
           /\ Len(LastLines(s)) <= HistoryLimit
           /\ \A i \in 1 .. Len(s) - Before(s) :
                 LastLines(s)[i] = s[Before(s) + i]
<1> DEFINE n == Len(s)
           k == Before(s)
<1>1. n \in Nat /\ HistoryLimit \in Nat \ {0} /\ \A i \in 1 .. n : s[i] \in S
  BY LenProperties, ElementOfSeq, FeedsAssumption
<1>2. k \in 0 .. n /\ n - k <= HistoryLimit
  BY <1>1 DEF Before
<1>3. LastLines(s) = SubSeq(s, k + 1, n)
  <2>1. (IF n > HistoryLimit THEN n - HistoryLimit + 1 ELSE 1) = k + 1
    BY <1>1 DEF Before
  <2>2. QED
    BY <2>1 DEF LastLines
<1> HIDE DEF n, k
<1>4. k + 1 \in Int /\ n \in Int /\ \A i \in k + 1 .. n : s[i] \in S
  BY <1>1, <1>2
<1>5. /\ LastLines(s) \in Seq(S)
      /\ Len(LastLines(s)) = IF k + 1 <= n THEN n - (k + 1) + 1 ELSE 0
      /\ \A i \in 1 .. n - (k + 1) + 1 : LastLines(s)[i] = s[(k + 1) + i - 1]
  BY <1>3, <1>4, SubSeqProperties
<1>6. Len(LastLines(s)) = n - k /\ n - (k + 1) + 1 = n - k
  BY <1>1, <1>2, <1>5
<1>7. \A i \in 1 .. n - k : (k + 1) + i - 1 = k + i
  BY <1>1, <1>2
<1>8. QED
  BY <1>2, <1>5, <1>6, <1>7 DEF n, k

\* The last lines of lines in order are in order.
LEMMA LastLinesInOrder ==
    ASSUME NEW n \in Nat, NEW s \in Seq(1 .. n), Increasing(s)
    PROVE  Increasing(LastLines(s))
<1> DEFINE k == Before(s)
<1>1. /\ Len(s) \in Nat /\ k \in 0 .. Len(s)
      /\ Len(LastLines(s)) = Len(s) - k
      /\ \A i \in 1 .. Len(s) - k : LastLines(s)[i] = s[k + i]
  BY LenProperties, LastLinesProperties
<1> HIDE DEF k
<1>2. ASSUME NEW i \in 1 .. Len(s) - k, NEW j \in 1 .. Len(s) - k, i < j
      PROVE  LastLines(s)[i] < LastLines(s)[j]
  <2>1. k + i \in 1 .. Len(s) /\ k + j \in 1 .. Len(s) /\ k + i < k + j
    BY <1>1, <1>2
  <2>2. QED
    BY <1>1, <2>1 DEF Increasing
<1>3. QED
  BY <1>1, <1>2 DEF Increasing

\* Nothing is lost by cutting to the last lines before another is added.
LEMMA LastLinesOfLastLines ==
    ASSUME NEW S, NEW s \in Seq(S), NEW e \in S
    PROVE  LastLines(Append(LastLines(s), e)) = LastLines(Append(s, e))
<1> DEFINE l == LastLines(s)
           a == Append(s, e)
           b == Append(l, e)
           n == Len(s)
           k == Before(s)
           p == Before(a)
           q == Before(b)
<1>1. n \in Nat /\ HistoryLimit \in Nat \ {0}
  BY LenProperties, FeedsAssumption
<1>2. /\ k \in 0 .. n /\ l \in Seq(S) /\ Len(l) = n - k
      /\ \A i \in 1 .. n - k : l[i] = s[k + i]
  BY LastLinesProperties
<1>3. /\ a \in Seq(S) /\ Len(a) = n + 1
      /\ \A i \in 1 .. n : a[i] = s[i]
      /\ a[n + 1] = e
  BY AppendProperties
<1> HIDE DEF l
<1>4. /\ b \in Seq(S) /\ Len(b) = (n - k) + 1
      /\ \A i \in 1 .. n - k : b[i] = l[i]
      /\ b[(n - k) + 1] = e
  BY <1>2, AppendProperties
<1> HIDE DEF a, b
<1>5. /\ p \in 0 .. Len(a)
      /\ LastLines(a) \in Seq(S) /\ Len(LastLines(a)) = Len(a) - p
      /\ \A i \in 1 .. Len(a) - p : LastLines(a)[i] = a[p + i]
  BY <1>3, LastLinesProperties
<1>6. /\ q \in 0 .. Len(b)
      /\ LastLines(b) \in Seq(S) /\ Len(LastLines(b)) = Len(b) - q
      /\ \A i \in 1 .. Len(b) - q : LastLines(b)[i] = b[q + i]
  BY <1>4, LastLinesProperties
<1>7. p = k + q /\ (n + 1) - p = ((n - k) + 1) - q
  <2>1. /\ k = IF n > HistoryLimit THEN n - HistoryLimit ELSE 0
        /\ p = IF n + 1 > HistoryLimit THEN (n + 1) - HistoryLimit ELSE 0
        /\ q = IF (n - k) + 1 > HistoryLimit
                THEN ((n - k) + 1) - HistoryLimit ELSE 0
    BY <1>3, <1>4 DEF Before
  <2> HIDE DEF k, p, q, n
  <2>2. QED
    BY <1>1, <2>1
<1> HIDE DEF k, p, q, n
<1>8. \A i \in 1 .. (n - k) + 1 : b[i] = a[k + i]
  <2> SUFFICES ASSUME NEW i \in 1 .. (n - k) + 1
               PROVE  b[i] = a[k + i]
    OBVIOUS
  <2>1. CASE i = (n - k) + 1
    <3>1. k + i = n + 1
      BY <1>1, <1>2, <2>1
    <3>2. QED
      BY <1>3, <1>4, <2>1, <3>1
  <2>2. CASE i \in 1 .. n - k
    <3>1. k + i \in 1 .. n
      BY <1>1, <1>2, <2>2
    <3>2. QED
      BY <1>2, <1>3, <1>4, <2>2, <3>1
  <2>3. QED
    BY <1>1, <1>2, <2>1, <2>2
<1>9. ASSUME NEW i \in 1 .. (n + 1) - p
      PROVE  LastLines(b)[i] = LastLines(a)[i]
  <2>1. /\ i \in 1 .. Len(a) - p /\ i \in 1 .. Len(b) - q
        /\ q + i \in 1 .. (n - k) + 1 /\ k + (q + i) = p + i
    BY <1>1, <1>2, <1>3, <1>4, <1>5, <1>6, <1>7
  <2>2. b[q + i] = a[p + i]
    BY <1>8, <2>1
  <2>3. QED
    BY <1>5, <1>6, <2>1, <2>2
<1>10. Len(LastLines(a)) = (n + 1) - p /\ Len(LastLines(b)) = (n + 1) - p
  BY <1>3, <1>4, <1>5, <1>6, <1>7
<1>11. LastLines(b) = LastLines(a)
  BY <1>5, <1>6, <1>9, <1>10, SeqEqual
<1>12. QED
  BY <1>11 DEF a, b, l

-----------------------------------------------------------------------------
(* The log hub.                                                            *)

LEMMA FeedsInitIInv == FeedsInit => FeedsIInv
<1> SUFFICES ASSUME FeedsInit
             PROVE  FeedsIInv
  OBVIOUS
<1>1. \A S : <<>> \in Seq(S) /\ Len(<<>>) = 0 /\ ToSet(<<>>) = {}
  BY EmptySeq DEF ToSet
<1>2. Increasing(<<>>)
  BY DEF Increasing
<1>3. LastLines(<<>>) = <<>>
  <2>1. LastLines(<<>>) = SubSeq(<<>>, 1, 0)
    BY FeedsAssumption DEF LastLines
  <2>2. QED
    BY <2>1, SubSeqEmpty
<1>4. LogInv
  BY <1>1, <1>2, <1>3, FeedsAssumption DEF FeedsInit, LogInv, HistorySurvives
<1>5. ReadersInv
  <2>1. \A r \in Readers : Feed(r) = <<>>
    BY ConcatEmptySeq, <1>1 DEF FeedsInit, Feed
  <2>2. ReadersTyped
    BY <1>1 DEF FeedsInit, ReadersTyped, States
  <2>3. QED
    BY <1>1, <1>2, <2>1, <2>2, FeedsAssumption DEF FeedsInit, ReadersInv, ReaderInv
<1>6. PagesInv
  BY DEF FeedsInit, PagesInv, Stages
<1>7. QED
  BY <1>4, <1>5, <1>6 DEF FeedsIInv

\* What is added to lines that are the last ones of the file leaves them so.
LEMMA WriteLog ==
    ASSUME LogInv, Write
    PROVE  LogInv'
<1> DEFINE n == written
<1>1. /\ n \in Nat /\ n + 1 \in Nat /\ written' = n + 1
      /\ HistoryLimit \in Nat \ {0}
  BY FeedsAssumption DEF LogInv, Write
<1>2. /\ file \in Seq(1 .. n) /\ recent \in Seq(1 .. n)
      /\ Increasing(file) /\ Increasing(recent)
      /\ Len(file) <= n /\ Len(file) \in Nat
  BY LenProperties DEF LogInv, Lines
<1>3. 1 .. n \subseteq 1 .. n + 1 /\ n + 1 \in 1 .. n + 1
  BY <1>1
<1>4. file \in Seq(1 .. n + 1) /\ recent \in Seq(1 .. n + 1)
  BY <1>2, <1>3, SeqMonotonic
<1>5. /\ Append(file, n + 1) \in Seq(1 .. n + 1)
      /\ Len(Append(file, n + 1)) = Len(file) + 1
      /\ Increasing(Append(file, n + 1))
  BY <1>1, <1>2, <1>3, <1>4, AppendProperties, LaterLine
<1>6. /\ Append(recent, n + 1) \in Seq(1 .. n + 1)
      /\ Increasing(Append(recent, n + 1))
  BY <1>1, <1>2, <1>3, <1>4, AppendProperties, LaterLine
<1>7. /\ recent' = LastLines(Append(recent, n + 1))
      /\ recent' \in Seq(1 .. n + 1) /\ Increasing(recent')
      /\ Len(recent') <= HistoryLimit
  BY <1>1, <1>6, LastLinesProperties, LastLinesInOrder DEF Write
<1>8. CASE file' = file
  <2>1. Len(file') # written'
    BY <1>1, <1>2, <1>8
  <2>2. QED
    BY <1>1, <1>2, <1>4, <1>7, <1>8, <2>1
    DEF LogInv, Lines, HistorySurvives, Increasing
<1>9. CASE file' = Append(file, n + 1)
  <2>1. ASSUME Len(file') = written'
        PROVE  recent' = LastLines(file')
    <3>1. recent = LastLines(file)
      BY <1>1, <1>2, <1>5, <1>9, <2>1 DEF LogInv, HistorySurvives
    <3>2. QED
      BY <1>3, <1>4, <1>7, <1>9, <3>1, LastLinesOfLastLines
  <2>2. Len(file') <= written'
    BY <1>1, <1>2, <1>5, <1>9
  <2>3. QED
    BY <1>1, <1>5, <1>7, <1>9, <2>1, <2>2
    DEF LogInv, Lines, HistorySurvives, Increasing, LastLines
<1>10. QED
  BY <1>8, <1>9 DEF Write

\* After a restart the history is the end of the file, by its definition.
LEMMA RestartLog ==
    ASSUME LogInv, FeedsRestart
    PROVE  LogInv'
<1>1. /\ written \in Nat /\ file \in Seq(1 .. written) /\ Increasing(file)
      /\ written' = written /\ file' = file /\ recent' = LastLines(file)
  BY DEF LogInv, Lines, FeedsRestart, Restored
<1>2. /\ recent' \in Seq(1 .. written) /\ Increasing(recent')
      /\ Len(recent') <= HistoryLimit
  BY <1>1, LastLinesProperties, LastLinesInOrder
<1>3. QED
  BY <1>1, <1>2 DEF LogInv, Lines, HistorySurvives, Increasing, LastLines

LEMMA LogStays ==
    ASSUME LogInv, UNCHANGED logHub
    PROVE  LogInv'
  BY DEF LogInv, logHub, Lines, HistorySurvives, Increasing, LastLines

-----------------------------------------------------------------------------
(* The readers.                                                            *)

\* The lines of a reader, all written so far.
LEMMA FeedTyped ==
    ASSUME LogInv, ReadersInv, NEW r \in Readers
    PROVE  /\ written \in Nat
           /\ shown[r] \in Seq(Lines) /\ replay[r] \in Seq(Lines)
           /\ channel[r] \in Seq(Lines) /\ dropped[r] \subseteq Lines
           /\ since[r] \in 0 .. written
           /\ Feed(r) \in Seq(Lines)
<1>1. /\ written \in Nat
      /\ shown[r] \in Seq(Lines) /\ replay[r] \in Seq(Lines)
      /\ channel[r] \in Seq(Lines) /\ dropped[r] \subseteq Lines
      /\ since[r] \in 0 .. written
  BY DEF LogInv, ReadersInv, ReadersTyped
<1>2. shown[r] \o replay[r] \in Seq(Lines)
  BY <1>1, ConcatProperties
<1>3. Feed(r) \in Seq(Lines)
  BY <1>1, <1>2, ConcatProperties DEF Feed
<1>4. QED
  BY <1>1, <1>3

\* A line goes to the end of the feed, or is dropped for a full channel.
LEMMA WriteReaders ==
    ASSUME LogInv, ReadersInv, Write
    PROVE  ReadersInv'
<1> DEFINE n == written
           L == 1 .. n
           M == 1 .. n + 1
<1>1. /\ n \in Nat /\ written' = n + 1 /\ Lines = L /\ Lines' = M
      /\ L \subseteq M /\ n + 1 \in M
  BY DEF LogInv, Write, Lines
<1>2. /\ UNCHANGED <<reader, replay, shown, since>>
      /\ channel' = [r \in Readers |->
                        IF reader[r] = "off" THEN channel[r] ELSE Send(r)]
      /\ dropped' = [r \in Readers |->
                        IF reader[r] # "off" /\ Full(r)
                        THEN dropped[r] \cup {n + 1} ELSE dropped[r]]
  BY DEF Write
<1>3. Seq(L) \subseteq Seq(M)
  BY <1>1, SeqMonotonic
<1> HIDE DEF L, M, n
<1>4. ASSUME NEW r \in Readers
      PROVE  /\ channel'[r] \in Seq(M) /\ dropped'[r] \subseteq M
             /\ ReaderInv(r)'
  <2>1. /\ shown[r] \in Seq(L) /\ replay[r] \in Seq(L)
        /\ channel[r] \in Seq(L) /\ dropped[r] \subseteq L
        /\ since[r] \in 0 .. n /\ Feed(r) \in Seq(L)
    BY <1>1, FeedTyped DEF n
  <2>2. /\ shown[r] \in Seq(M) /\ replay[r] \in Seq(M) /\ channel[r] \in Seq(M)
    BY <1>3, <2>1
  <2>3. /\ Len(channel[r]) <= ChannelSize /\ Len(channel[r]) \in Nat
        /\ ChannelSize \in Nat
        /\ reader[r] = "live" => replay[r] = <<>>
        /\ Increasing(Feed(r))
        /\ reader[r] # "off" =>
              \A i \in since[r] + 1 .. n :
                  i \in dropped[r] \cup ToSet(channel[r]) \cup ToSet(shown[r])
    BY <2>1, LenProperties, FeedsAssumption DEF ReadersInv, ReaderInv, n
  <2>4. Feed(r)' = (shown[r] \o replay[r]) \o channel'[r]
    BY <1>2 DEF Feed
  <2>5. CASE channel'[r] = channel[r]
             /\ (reader[r] = "off" \/ dropped'[r] = dropped[r] \cup {n + 1})
             /\ dropped'[r] \in {dropped[r], dropped[r] \cup {n + 1}}
    <3>1. Increasing(Feed(r))'
      BY <2>3, <2>4, <2>5 DEF Feed, Increasing
    <3>2. ASSUME reader[r] # "off", NEW i \in since[r] + 1 .. n + 1
          PROVE  i \in dropped'[r] \cup ToSet(channel'[r]) \cup ToSet(shown[r])
      <4>1. i = n + 1 \/ i \in since[r] + 1 .. n
        BY <1>1, <2>1, <3>2
      <4>2. QED
        BY <2>3, <2>5, <3>2, <4>1
    <3>3. dropped'[r] \subseteq M
      BY <1>1, <2>1, <2>5
    <3>4. QED
      BY <1>1, <1>2, <2>2, <2>3, <2>5, <3>1, <3>2, <3>3 DEF ReaderInv, ToSet
  <2>6. CASE /\ channel'[r] = Append(channel[r], n + 1) /\ ~Full(r)
             /\ dropped'[r] = dropped[r]
    <3>1. /\ channel'[r] \in Seq(M) /\ Len(channel'[r]) = Len(channel[r]) + 1
          /\ ToSet(channel'[r]) = ToSet(channel[r]) \cup {n + 1}
      BY <1>1, <2>2, <2>6, AppendProperties, SetOfAppend
    <3>2. Len(channel'[r]) <= ChannelSize
      BY <2>3, <2>6, <3>1 DEF Full
    <3>3. Feed(r)' = Append(Feed(r), n + 1)
      <4> DEFINE u == shown[r] \o replay[r]
                 c == channel[r]
      <4>1. u \in Seq(M) /\ c \in Seq(M) /\ n + 1 \in M
        BY <1>1, <2>2, ConcatProperties
      <4>2. Feed(r) = u \o c /\ Feed(r)' = u \o Append(c, n + 1)
        BY <2>4, <2>6 DEF Feed
      <4> HIDE DEF u, c
      <4>3. u \o Append(c, n + 1) = Append(u \o c, n + 1)
        BY <4>1, ConcatAppend
      <4>4. QED
        BY <4>2, <4>3
    <3>4. Increasing(Append(Feed(r), n + 1))
      BY <1>1, <2>1, <2>3, LaterLine DEF L
    <3>5. Increasing(Feed(r))'
      BY <3>3, <3>4 DEF Increasing
    <3>6. ASSUME reader[r] # "off", NEW i \in since[r] + 1 .. n + 1
          PROVE  i \in dropped'[r] \cup ToSet(channel'[r]) \cup ToSet(shown[r])
      <4>1. i = n + 1 \/ i \in since[r] + 1 .. n
        BY <1>1, <2>1, <3>6
      <4>2. QED
        BY <2>3, <2>6, <3>1, <3>6, <4>1
    <3>7. dropped'[r] \subseteq M
      BY <1>1, <2>1, <2>6
    <3>8. QED
      BY <1>1, <1>2, <2>3, <3>1, <3>2, <3>5, <3>6, <3>7 DEF ReaderInv, ToSet
  <2>7. QED
    BY <1>2, <2>5, <2>6 DEF Send, Full, n
<1>5. ReadersTyped'
  <2>1. channel' \in [Readers -> Seq(M)] /\ dropped' \in [Readers -> SUBSET M]
    BY <1>2, <1>4
  <2>2. /\ reader' \in [Readers -> States] /\ replay' \in [Readers -> Seq(M)]
        /\ shown' \in [Readers -> Seq(M)]
    BY <1>1, <1>2, <1>3 DEF ReadersInv, ReadersTyped
  <2>3. since' \in [Readers -> 0 .. n + 1]
    BY <1>1, <1>2 DEF ReadersInv, ReadersTyped, n
  <2>4. QED
    BY <1>1, <2>1, <2>2, <2>3 DEF ReadersTyped
<1>6. QED
  BY <1>4, <1>5 DEF ReadersInv

\* Showing a line moves it on: the feed is what it was.
LEMMA ShowReaders ==
    ASSUME LogInv, ReadersInv, NEW r \in Readers, Replay(r) \/ Show(r)
    PROVE  ReadersInv'
<1>1. /\ UNCHANGED <<written, reader, dropped, since>>
      /\ Lines' = Lines /\ written \in Nat
  BY DEF Replay, Show, logHub, Lines, LogInv
<1>2. /\ shown[r] \in Seq(Lines) /\ replay[r] \in Seq(Lines)
      /\ channel[r] \in Seq(Lines)
  BY FeedTyped
<1>3. /\ Len(channel[r]) \in Nat /\ ChannelSize \in Nat
      /\ Len(channel[r]) <= ChannelSize
      /\ reader[r] = "live" => replay[r] = <<>>
      /\ Increasing(Feed(r))
      /\ reader[r] # "off" =>
            \A i \in since[r] + 1 .. written :
                i \in dropped[r] \cup ToSet(channel[r]) \cup ToSet(shown[r])
  BY <1>2, LenProperties, FeedsAssumption DEF ReadersInv, ReaderInv
<1>4. /\ shown' \in [Readers -> Seq(Lines)] /\ replay' \in [Readers -> Seq(Lines)]
      /\ channel' \in [Readers -> Seq(Lines)]
      /\ ReaderInv(r)'
  <2>1. CASE Replay(r)
    <3>1. /\ reader[r] = "replay" /\ replay[r] # <<>> /\ UNCHANGED channel
          /\ shown' = [shown EXCEPT ![r] = Append(@, Head(replay[r]))]
          /\ replay' = [replay EXCEPT ![r] = Tail(@)]
      BY <2>1 DEF Replay
    <3>2. Head(replay[r]) \in Lines /\ Tail(replay[r]) \in Seq(Lines)
      BY <1>2, <3>1, SetOfHeadTail
    <3>3. /\ Append(shown[r], Head(replay[r])) \in Seq(Lines)
          /\ ToSet(shown[r]) \subseteq ToSet(Append(shown[r], Head(replay[r])))
      BY <1>2, <3>2, AppendProperties, SetOfAppend
    <3>4. /\ shown' \in [Readers -> Seq(Lines)]
          /\ replay' \in [Readers -> Seq(Lines)]
          /\ channel' \in [Readers -> Seq(Lines)]
          /\ shown'[r] = Append(shown[r], Head(replay[r]))
          /\ replay'[r] = Tail(replay[r])
      BY <3>1, <3>2, <3>3 DEF ReadersInv, ReadersTyped
    <3>5. Feed(r)' = Feed(r)
      <4>1. shown'[r] \o replay'[r] = shown[r] \o replay[r]
        BY <1>2, <3>1, <3>4, HeadMoves
      <4>2. QED
        BY <3>1, <4>1 DEF Feed
    <3>6. Increasing(Feed(r))'
      BY <1>3, <3>5 DEF Increasing
    <3>7. reader[r] # "off" =>
             \A i \in since[r] + 1 .. written :
                i \in dropped[r] \cup ToSet(channel[r]) \cup ToSet(shown'[r])
      BY <1>3, <3>3, <3>4
    <3>8. QED
      BY <1>1, <1>3, <3>1, <3>4, <3>6, <3>7 DEF ReaderInv
  <2>2. CASE Show(r)
    <3>1. /\ reader[r] = "live" /\ channel[r] # <<>> /\ UNCHANGED replay
          /\ shown' = [shown EXCEPT ![r] = Append(@, Head(channel[r]))]
          /\ channel' = [channel EXCEPT ![r] = Tail(@)]
      BY <2>2 DEF Show
    <3>2. /\ Head(channel[r]) \in Lines /\ Tail(channel[r]) \in Seq(Lines)
          /\ Len(Tail(channel[r])) = Len(channel[r]) - 1
          /\ ToSet(channel[r]) = {Head(channel[r])} \cup ToSet(Tail(channel[r]))
      BY <1>2, <3>1, SetOfHeadTail
    <3>3. /\ Append(shown[r], Head(channel[r])) \in Seq(Lines)
          /\ ToSet(Append(shown[r], Head(channel[r])))
                = ToSet(shown[r]) \cup {Head(channel[r])}
      BY <1>2, <3>2, AppendProperties, SetOfAppend
    <3>4. /\ shown' \in [Readers -> Seq(Lines)]
          /\ replay' \in [Readers -> Seq(Lines)]
          /\ channel' \in [Readers -> Seq(Lines)]
          /\ shown'[r] = Append(shown[r], Head(channel[r]))
          /\ channel'[r] = Tail(channel[r])
      BY <3>1, <3>2, <3>3 DEF ReadersInv, ReadersTyped
    <3>5. Feed(r)' = Feed(r)
      <4>1. replay[r] = <<>>
        BY <1>3, <3>1
      <4>2. /\ shown'[r] \o replay'[r] = Append(shown[r], Head(channel[r]))
            /\ shown[r] \o replay[r] = shown[r]
        BY <1>2, <3>1, <3>3, <3>4, <4>1, ConcatEmptySeq
      <4>3. Append(shown[r], Head(channel[r])) \o Tail(channel[r])
              = shown[r] \o channel[r]
        BY <1>2, <3>1, HeadMoves
      <4>4. QED
        BY <3>4, <4>2, <4>3 DEF Feed
    <3>6. Len(channel'[r]) <= ChannelSize
      BY <1>3, <3>2, <3>4
    <3>7. ToSet(channel'[r]) \cup ToSet(shown'[r])
            = ToSet(channel[r]) \cup ToSet(shown[r])
      BY <3>2, <3>3, <3>4
    <3>8. Increasing(Feed(r))'
      BY <1>3, <3>5 DEF Increasing
    <3>9. \A i \in since[r] + 1 .. written :
             i \in dropped[r] \cup ToSet(channel'[r]) \cup ToSet(shown'[r])
      BY <1>3, <3>1, <3>7
    <3>10. QED
      BY <1>1, <1>3, <3>1, <3>4, <3>6, <3>8, <3>9 DEF ReaderInv, ToSet
  <2>3. QED
    BY <2>1, <2>2
<1>5. ASSUME NEW q \in Readers \ {r}
      PROVE  ReaderInv(q)'
  <2>1. /\ shown'[q] = shown[q] /\ replay'[q] = replay[q]
        /\ channel'[q] = channel[q]
    BY DEF Replay, Show, ReadersInv, ReadersTyped
  <2>2. QED
    BY <1>1, <2>1 DEF ReadersInv, ReaderInv, Feed
<1>6. ReadersTyped'
  BY <1>1, <1>4 DEF ReadersInv, ReadersTyped
<1>7. QED
  BY <1>4, <1>5, <1>6 DEF ReadersInv

\* A reader starts with the history, and with nothing it could have missed.
LEMMA SubscribeReaders ==
    ASSUME LogInv, ReadersInv, NEW r \in Readers, Subscribe(r)
    PROVE  ReadersInv'
<1>1. /\ UNCHANGED <<written, recent>> /\ Lines' = Lines /\ written \in Nat
      /\ recent \in Seq(Lines) /\ Increasing(recent)
      /\ <<>> \in Seq(Lines) /\ Len(<<>>) = 0
  BY EmptySeq DEF Subscribe, logHub, Lines, LogInv
<1>2. ReadersTyped'
  BY <1>1 DEF Subscribe, ReadersInv, ReadersTyped, States
<1>3. /\ reader'[r] = "replay" /\ replay'[r] = recent /\ channel'[r] = <<>>
      /\ shown'[r] = <<>> /\ since'[r] = written
  BY DEF Subscribe, ReadersInv, ReadersTyped
<1>4. Feed(r)' = recent
  BY <1>1, <1>3, ConcatEmptySeq DEF Feed
<1>5. ReaderInv(r)'
  <2>1. Increasing(Feed(r))'
    BY <1>1, <1>4 DEF Increasing
  <2>2. written' = written /\ ~(since'[r] + 1 <= written')
    BY <1>1, <1>3
  <2>3. \A i \in since'[r] + 1 .. written' : FALSE
    BY <1>1, <1>3
  <2>4. Len(channel'[r]) <= ChannelSize
    BY <1>1, <1>3, FeedsAssumption
  <2>5. QED
    BY <1>3, <2>1, <2>3, <2>4 DEF ReaderInv
<1>6. ASSUME NEW q \in Readers \ {r}
      PROVE  ReaderInv(q)'
  <2>1. /\ shown'[q] = shown[q] /\ replay'[q] = replay[q] /\ since'[q] = since[q]
        /\ channel'[q] = channel[q] /\ dropped'[q] = dropped[q]
        /\ reader'[q] = reader[q]
    BY DEF Subscribe, ReadersInv, ReadersTyped
  <2>2. QED
    BY <1>1, <2>1 DEF ReadersInv, ReaderInv, Feed
<1>7. QED
  BY <1>2, <1>5, <1>6 DEF ReadersInv

\* Readers that come to the end of the history, leave, or are left alone.
LEMMA ReadersStay ==
    ASSUME ReadersInv, reader' \in [Readers -> States],
           UNCHANGED <<written, replay, channel, shown, dropped, since>>,
           \A r \in Readers :
              \/ reader'[r] \in {reader[r], "off"}
              \/ reader[r] = "replay" /\ reader'[r] = "live" /\ replay[r] = <<>>
    PROVE  ReadersInv'
<1>1. ReadersTyped' /\ Lines' = Lines
  BY DEF ReadersInv, ReadersTyped, Lines
<1>2. ASSUME NEW r \in Readers
      PROVE  ReaderInv(r)'
  BY <1>1 DEF ReadersInv, ReaderInv, Feed
<1>3. QED
  BY <1>1, <1>2 DEF ReadersInv

-----------------------------------------------------------------------------
(* The pages.                                                              *)

LEMMA PagesStay ==
    ASSUME PagesInv, UNCHANGED pages
    PROVE  PagesInv'
  BY DEF PagesInv, pages

LEMMA StepPages ==
    ASSUME PagesInv,
           \/ Change \/ ChangeQuietly \/ Publish \/ FeedsRestart
           \/ \E p \in Pages : Open(p) \/ Render(p) \/ Sent(p) \/ Wake(p) \/ Close(p)
    PROVE  PagesInv'
<1> USE DEF PagesInv, Stages
<1>0. ASSUME wake' = Wakened
      PROVE  /\ wake' \in [Pages -> BOOLEAN]
             /\ \A p \in Pages : page[p] # "off" => wake'[p]
  BY <1>0, Zenon DEF Wakened
<1>1. CASE Change
  BY <1>0, <1>1 DEF Change
<1>2. CASE ChangeQuietly
  BY <1>2 DEF ChangeQuietly
<1>3. CASE Publish
  BY <1>0, <1>3 DEF Publish
<1>4. CASE FeedsRestart
  BY <1>4 DEF FeedsRestart
<1>5. ASSUME NEW p \in Pages, Open(p)
      PROVE  PagesInv'
  BY <1>5 DEF Open
<1>6. ASSUME NEW p \in Pages, Render(p)
      PROVE  PagesInv'
  BY <1>6 DEF Render
<1>7. ASSUME NEW p \in Pages, Sent(p)
      PROVE  PagesInv'
  BY <1>7 DEF Sent
<1>8. ASSUME NEW p \in Pages, Wake(p)
      PROVE  PagesInv'
  BY <1>8 DEF Wake
<1>9. ASSUME NEW p \in Pages, Close(p)
      PROVE  PagesInv'
  BY <1>9 DEF Close
<1>10. QED
  BY <1>1, <1>2, <1>3, <1>4, <1>5, <1>6, <1>7, <1>8, <1>9

-----------------------------------------------------------------------------
LEMMA FeedsStepIInv == FeedsIInv /\ [FeedsNext]_feedsVars => FeedsIInv'
<1> SUFFICES ASSUME LogInv, ReadersInv, PagesInv, [FeedsNext]_feedsVars
             PROVE  FeedsIInv'
  BY DEF FeedsIInv
<1> USE DEF FeedsIInv
<1>1. CASE Write
  BY <1>1, WriteLog, WriteReaders, PagesStay DEF Write
<1>2. ASSUME NEW r \in Readers, Subscribe(r)
      PROVE  FeedsIInv'
  BY <1>2, LogStays, SubscribeReaders, PagesStay DEF Subscribe
<1>3. ASSUME NEW r \in Readers, Replay(r) \/ Show(r)
      PROVE  FeedsIInv'
  BY <1>3, LogStays, ShowReaders, PagesStay DEF Replay, Show
<1>4. ASSUME NEW r \in Readers, GoLive(r) \/ Unsubscribe(r)
      PROVE  FeedsIInv'
  <2>1. ReadersInv'
    BY <1>4, ReadersStay
    DEF GoLive, Unsubscribe, logHub, States, ReadersInv, ReadersTyped
  <2>2. QED
    BY <1>4, <2>1, LogStays, PagesStay DEF GoLive, Unsubscribe
<1>5. ASSUME UNCHANGED readers, UNCHANGED logHub
      PROVE  LogInv' /\ ReadersInv'
  <2>1. ReadersInv'
    BY <1>5, ReadersStay DEF readers, logHub, ReadersInv, ReadersTyped
  <2>2. QED
    BY <1>5, <2>1, LogStays
<1>6. CASE Change \/ ChangeQuietly \/ Publish
  <2>1. PagesInv'
    BY <1>6, StepPages
  <2>2. QED
    BY <1>5, <1>6, <2>1 DEF Change, ChangeQuietly, Publish
<1>7. ASSUME NEW p \in Pages,
             Open(p) \/ Render(p) \/ Sent(p) \/ Wake(p) \/ Close(p)
      PROVE  FeedsIInv'
  BY <1>5, <1>7, StepPages DEF Open, Render, Sent, Wake, Close
<1>8. CASE FeedsRestart
  <2>1. ReadersInv'
    BY <1>8, ReadersStay DEF FeedsRestart, States, ReadersInv, ReadersTyped
  <2>2. PagesInv'
    BY <1>8, StepPages
  <2>3. QED
    BY <1>8, <2>1, <2>2, RestartLog
<1>9. CASE UNCHANGED feedsVars
  BY <1>5, <1>9, PagesStay DEF feedsVars
<1>10. QED
  BY <1>1, <1>2, <1>3, <1>4, <1>6, <1>7, <1>8, <1>9 DEF FeedsNext

(* FeedsIInv is an invariant for any number of readers and pages, any      *)
(* sizes of history and channels, and any number of lines and changes      *)
(* (logHub, serveLogs, publishLocked, serveSessions).                      *)
THEOREM FeedsInvariant == FeedsSpec => []FeedsIInv
<1>1. QED
  BY FeedsInitIInv, FeedsStepIInv, PTL DEF FeedsSpec

(* The types, and with them the bounds: a channel never holds more than it *)
(* can and the history never more than its limit, whoever reads how slowly *)
(* (logHub.Write).                                                         *)
THEOREM FeedsTypeOK == FeedsSpec => []FeedsTyped
<1>1. FeedsIInv => FeedsTyped
  <2> SUFFICES ASSUME FeedsIInv
               PROVE  FeedsTyped
    OBVIOUS
  <2>1. \A s \in Seq(Lines) : ToSet(s) \subseteq Lines
    BY ElementOfSeq, LenProperties DEF ToSet
  <2>2. ASSUME NEW r \in Readers
        PROVE  /\ ToSet(replay[r]) \cup ToSet(channel[r]) \cup ToSet(shown[r])
                     \cup dropped[r] \subseteq Lines
               /\ Len(channel[r]) <= ChannelSize
               /\ since[r] \in 0 .. written
    BY <2>1 DEF FeedsIInv, ReadersInv, ReadersTyped, ReaderInv
  <2>3. QED
    BY <2>1, <2>2
    DEF FeedsIInv, LogInv, ReadersInv, ReadersTyped, PagesInv, States, Stages, FeedsTyped
<1>2. QED
  BY <1>1, FeedsInvariant, PTL

(* A reader shows the lines in the order they were written and none twice, *)
(* however lines arrive while it replays the history (subscribe, Write,    *)
(* serveLogs).                                                             *)
THEOREM FeedsShownInOrder == FeedsSpec => []ShownInOrder
<1>1. FeedsIInv => ShownInOrder
  BY DEF FeedsIInv, ReadersInv, ReaderInv, Feed, ShownInOrder
<1>2. QED
  BY <1>1, FeedsInvariant, PTL

(* A reader misses only lines its channel had no room for: the history and *)
(* the channel are handed out together, without a gap (subscribe, Write).  *)
THEOREM FeedsNothingElseMissed == FeedsSpec => []NothingElseMissed
<1>1. FeedsIInv => NothingElseMissed
  BY DEF FeedsIInv, ReadersInv, ReaderInv, NothingElseMissed
<1>2. QED
  BY <1>1, FeedsInvariant, PTL

(* A restart does not change the history, as long as the file took every   *)
(* line (newLogHubPersistent).                                             *)
THEOREM FeedsHistorySurvives == FeedsSpec => []HistorySurvives
<1>1. FeedsIInv => HistorySurvives
  BY DEF FeedsIInv, LogInv
<1>2. QED
  BY <1>1, FeedsInvariant, PTL

(* No page sleeps through a change it was woken for (publishLocked,        *)
(* serveSessions, serveStats).                                             *)
THEOREM FeedsNoWakeupLost == FeedsSpec => []NoWakeupLost
<1>1. FeedsIInv => NoWakeupLost
  BY DEF FeedsIInv, PagesInv, NoWakeupLost
<1>2. QED
  BY <1>1, FeedsInvariant, PTL
=============================================================================
