-------------------------------- MODULE Usage --------------------------------
(***************************************************************************)
(* The usage scanner (stats.go): it finds the usage objects in an answer   *)
(* that comes in chunks, keeps no more than the last bytes of it, and      *)
(* merges what it finds into the token counts the request is charged by.   *)
(*                                                                         *)
(* A byte is one of a few symbols.  The two keys, seven and fifteen bytes  *)
(* long, are two and three symbols here, and a field of an object is one.  *)
(* An answer is a sequence of pieces, so that what it says is known without *)
(* scanning it; no object in it is larger than usageScanMaxObject.         *)
(***************************************************************************)
EXTENDS Pricing, SequencesExt, FiniteSetsExt

CONSTANTS Models,     \* models asked for
          Tables,     \* price tables
          MaxPieces,  \* bound: pieces of an answer
          MaxChunk,   \* bytes that arrive at once (the buffer of io.Copy)
          Cap         \* usageScanBufferCap

UsageKey == <<"quote", "usage">>
MetadataKey == <<"quote", "usageM", "etadata">>
UsageKeys == {UsageKey, MetadataKey}

\* What a field counts: input, output, cache reads and cache writes, and
\* whether it says that cached tokens are not part of the input.
Field == [in1   |-> <<1, 0, 0, 0, 0>>, in2   |-> <<2, 0, 0, 0, 0>>,
          out1  |-> <<0, 1, 0, 0, 0>>, out2  |-> <<0, 2, 0, 0, 0>>,
          hit1  |-> <<0, 0, 1, 0, 0>>, read2 |-> <<0, 0, 2, 0, 1>>,
          made1 |-> <<0, 0, 0, 1, 1>>]

Kinds == 1 .. 5
Nothing == [kind \in Kinds |-> 0]

\* How each provider reports usage: an object behind a key and a colon.
Reports ==
    [openai    |-> {<<"quote", "usage", ":",
                      "open", "in2", "open", "hit1", "close", "out1", "close">>,
                    <<"quote", "usage", ":", "open", "in1", "close">>},
     anthropic |-> {<<"quote", "usage", ":",
                      "open", "in1", "read2", "made1", "close">>,
                    <<"quote", "usage", ":", "open", "out2", "close">>},
     gemini    |-> {<<"quote", "usageM", "etadata", ":",
                      "open", "in1", "out2", "close">>}]

\* What else is in an answer: other bytes, no object, one that does not
\* parse, and text that quotes a usage object.
Others ==
    {<<"text">>, <<"open">>, <<"close">>, <<"quote", "usage", ":", "text">>,
     <<"quote", "usageM", "etadata", ":", "open", "bad", "in2", "close">>,
     <<"\\", "quote", "usage", ":", "open", "out2", "close">>}

ASSUME UsageAssumption ==
    /\ MaxPieces \in Nat /\ MaxChunk \in Nat \ {0} /\ Cap \in Nat
    /\ \A provider \in DOMAIN Reports : \A piece \in Reports[provider] :
          Len(piece) + MaxChunk <= Cap + 1
    /\ Tables \subseteq Seq(Rules)

VARIABLES provider, \* who answers
          pieces,   \* the answer
          fed,      \* bytes of it that have arrived
          split,    \* a chunk ended within a key
          buf,      \* usageScanner.buf
          pos,      \* usageScanner.scanPos, counted from 1
          usage     \* usageScanner.usage

vars == <<provider, pieces, fed, split, buf, pos, usage>>

Answer == FlattenSeq(pieces)

Init == /\ provider \in DOMAIN Reports
        /\ pieces \in SeqOf(Reports[provider] \cup Others, MaxPieces)
        /\ fed = 0 /\ split = FALSE
        /\ buf = <<>> /\ pos = 1 /\ usage = Nothing

-----------------------------------------------------------------------------
\* findUsageKey: a key that is not escaped.
KeyAt(bytes, i) ==
    /\ ~ (i > 1 /\ bytes[i - 1] = "\\")
    /\ \E key \in UsageKeys : IsPrefix(key, SubSeq(bytes, i, Len(bytes)))

\* valueAfterKey: what follows the next colon.
ValuesAfter(bytes, i) ==
    LET colons == {c \in i .. Len(bytes) - 1 : bytes[c] = ":"}
    IN {Min(cs) + 1 : cs \in {colons} \ {{}}}

\* balancedObject: where as many braces were closed as opened.
ObjectEnds(bytes, start) ==
    LET Braces(e, brace) ==
            Cardinality({i \in start .. e : bytes[i] = brace})
        ends == {e \in start .. Len(bytes) :
                    Braces(e, "open") = Braces(e, "close")}
    IN {Min(es) : es \in {ends} \ {{}}}

\* merge: the larger count of each kind.
Merge(counts, object) ==
    LET fields == ToSet(object) \cap DOMAIN Field
    IN [kind \in Kinds |->
            Max({counts[kind]} \cup {Field[f][kind] : f \in fields})]

\* (mutant) An object that does not parse is merged as far as it goes.
MergeParsedLeniently(counts, object) == Merge(counts, object)

MergeParsed(counts, object) ==
    IF Contains(object, "bad") THEN counts ELSE Merge(counts, object)

\* No key is left: the scanner stays back by one byte less than the longest
\* key, unless there is not so much to stay back by.
AfterLastKey(bytes, from) ==
    LET back == Len(bytes) - Len(MetadataKey) + 2
    IN IF back > from THEN back ELSE Len(bytes) + 1

\* (mutant) What is incomplete is given up.
GiveUpAt(bytes, i) == Len(bytes) + 1

\* It waits at the key of what is incomplete.
WaitAt(bytes, i) == i

\* One round of the loop in scan, from a position on: it stops, or it goes on
\* behind what it found.
Round(bytes, from, counts) ==
    LET keys == {i \in from .. Len(bytes) : KeyAt(bytes, i)}
        key == Min(keys)
        values == ValuesAfter(bytes, key)
        value == Min(values)
        ends == ObjectEnds(bytes, value)
        end == Min(ends)
        State(next, at, c) == [next |-> next, pos |-> at, usage |-> c]
    IN IF keys = {} THEN State("stop", AfterLastKey(bytes, from), counts)
       ELSE IF values = {} THEN State("stop", WaitAt(bytes, key), counts)
       ELSE IF bytes[value] # "open" THEN State("scan", value + 1, counts)
       ELSE IF ends = {} THEN State("stop", WaitAt(bytes, key), counts)
       ELSE State("scan", end + 1,
                  MergeParsed(counts, SubSeq(bytes, value, end)))

\* scan: where it stops, and what it counted by then.
Scan(bytes, first, counts) ==
    LET Scanned[at \in [pos : 1 .. Len(bytes) + 1,
                        usage : [Kinds -> 0 .. 2]]] ==
          LET round == Round(bytes, at.pos, at.usage)
              there == [pos |-> round.pos, usage |-> round.usage]
          IN IF round.next = "stop" THEN there ELSE Scanned[there]
    IN Scanned[[pos |-> first, usage |-> counts]]

\* Where the position is once the bytes before it were dropped.
Rebased(first, drop) == IF first <= drop THEN 1 ELSE first - drop

\* (mutant) One byte too many is kept.
DroppedLess(arrived) == Max({0, Len(arrived) - Cap - 1})

\* The bytes that exceed the buffer, and are dropped before it is scanned.
Dropped(arrived) == Max({0, Len(arrived) - Cap})

\* feed.
Feed(size) ==
    LET arrived == buf \o SubSeq(Answer, fed + 1, fed + size)
        drop == Dropped(arrived)
        kept == SubSeq(arrived, drop + 1, Len(arrived))
        scan == Scan(kept, Rebased(pos, drop), usage)
    IN /\ buf' = kept
       /\ pos' = scan.pos /\ usage' = scan.usage

\* Whether there is a key around the end of what has arrived.
CutsKey(bytes, end) ==
    \E i \in 1 .. end, key \in UsageKeys :
        /\ IsPrefix(key, SubSeq(bytes, i, Len(bytes)))
        /\ end < i + Len(key) - 1

\* A chunk is written to the client (captureResponse).
Chunk ==
    /\ \E size \in 1 .. Min({MaxChunk, Len(Answer) - fed}) :
          /\ Feed(size)
          /\ fed' = fed + size
          /\ split' = (split \/ CutsKey(Answer, fed + size))
    /\ UNCHANGED <<provider, pieces>>

\* tally, as the charge reads it when the answer is over.
Tally(counts) == [input |-> counts[1], output |-> counts[2], read |-> counts[3],
                  write |-> counts[4], excluded |-> counts[5] = 1]

\* The answer is over.
Over == fed = Len(Answer) /\ UNCHANGED vars

Next == Chunk \/ Over

Spec == Init /\ [][Next]_vars

-----------------------------------------------------------------------------
\* What the first n pieces of the answer report: the most of each kind.
Reported(n) ==
    LET reports == {i \in 1 .. n : pieces[i] \in Reports[provider]}
        fields == {f \in DOMAIN Field :
                      \E i \in reports : Contains(pieces[i], f)}
    IN [kind \in Kinds |-> Max({0} \cup {Field[f][kind] : f \in fields})]

Arrived == Max({n \in 0 .. Len(pieces) :
                   Len(FlattenSeq(SubSeq(pieces, 1, n))) <= fed})

(* Every variable stays within its type, and the scanner's position stays  *)
(* within its buffer, which stays within its limit (stats.go:246-260).     *)
TypeOK ==
    /\ usage \in [Kinds -> 0 .. 2]
    /\ fed \in 0 .. Len(Answer) /\ split \in BOOLEAN
    /\ Len(buf) <= Cap /\ IsSuffix(buf, SubSeq(Answer, 1, fed))
    /\ pos \in 1 .. Len(buf) + 1

(* No chunking makes the scanner count what the answer does not report, or *)
(* before it has arrived, though it may have dropped the bytes before an   *)
(* object or waits for the rest of one (stats.go:246-302).                 *)
NeverOvercounts == \A kind \in Kinds : usage[kind] <= Reported(Arrived)[kind]

(* As long as no chunk ends within a key, every report that has arrived is *)
(* counted, however objects are split and whatever was dropped meanwhile   *)
(* (stats.go:246-302).                                                     *)
WholeKeysAreCounted == ~split => usage = Reported(Arrived)

(* Whatever the table, a provider's every reported token is charged once,  *)
(* at the rate of the longest rule that matches the model: cached ones     *)
(* beside the input for the provider that leaves them out of it, within it *)
(* for the others (stats.go:461-525, charge.go:51-69).                     *)
ChargedAsReported ==
    fed = Len(Answer) /\ ~split =>
        LET due == [Tally(Reported(Len(pieces)))
                       EXCEPT !.excluded = provider = "anthropic"]
        IN \A table \in Tables, model \in Models :
              Charge(table, model, Tally(usage)) =
                  Max({MinCharge} \cup
                      {DueBy(table[i], due) : i \in Best(table, model)})

-----------------------------------------------------------------------------
(* What a comment says and the code does not keep.                         *)

(* "Keep the tail unscanned so a key split across chunk boundaries ... is  *)
(* found once the next chunk arrives" (stats.go:270-271): how an answer is *)
(* cut makes no difference.                                                *)
SplitKeysAreCounted == usage = Reported(Arrived)
=============================================================================
