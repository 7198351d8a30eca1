-------------------------------- MODULE Feeds --------------------------------
(***************************************************************************)
(* What the open pages of the management UI get to see.  Two hubs feed     *)
(* them, each over a channel per page that is never waited for:            *)
(*                                                                         *)
(*  - the log hub (logs.go, serveLogs): a page replays the history it was  *)
(*    subscribed with, and then shows the lines that are put into its      *)
(*    channel; a line that finds the channel full is dropped for it;       *)
(*  - the session hub (sessions.go, serveSessions, and stats.go,           *)
(*    serveStats): a page renders everything each time its channel, of     *)
(*    size one, wakes it.                                                  *)
(*                                                                         *)
(* Lines and changes are counted from one.  Writing to a page may take for *)
(* ever, so nothing is assumed of when a page takes its next step.         *)
(***************************************************************************)
EXTENDS Integers, SequencesExt

CONSTANTS Readers,       \* pages that show the log
          Pages,         \* pages that show sessions or stats
          HistoryLimit,  \* logHub.historyLimit
          ChannelSize,   \* lines a reader's channel holds
          MaxLines,      \* bound: lines written
          MaxChanges     \* bound: changes of what pages show

ASSUME FeedsAssumption ==
    /\ HistoryLimit \in Nat \ {0} /\ ChannelSize \in Nat \ {0}
    /\ MaxLines \in Nat /\ MaxChanges \in Nat

VARIABLES written,   \* lines written so far
          file,      \* logs.jsonl
          recent,    \* logHub.history
          reader,    \* reader[r]: "off", "replay" or "live"
          replay,    \* replay[r]: what it has yet to replay
          channel,   \* channel[r]: what it has yet to be sent
          shown,     \* shown[r]: what it showed
          dropped,   \* dropped[r]: lines that found its channel full
          since,     \* since[r]: lines written when it subscribed
          changes,   \* changes of what pages show
          published, \* the last of them that pages were woken for
          page,      \* page[p]: "off", "render", "sent" or "wait"
          wake,      \* wake[p]: its channel is full
          seen       \* seen[p]: the last change it rendered

logHub == <<written, file, recent>>
readers == <<reader, replay, channel, shown, dropped, since>>
pages == <<changes, published, page, wake, seen>>
feedsVars == <<logHub, readers, pages>>

-----------------------------------------------------------------------------
FeedsInit == /\ written = 0 /\ file = <<>> /\ recent = <<>>
        /\ reader = [r \in Readers |-> "off"]
        /\ replay = [r \in Readers |-> <<>>]
        /\ channel = replay /\ shown = replay
        /\ dropped = [r \in Readers |-> {}]
        /\ since = [r \in Readers |-> 0]
        /\ changes = 0 /\ published = 0
        /\ page = [p \in Pages |-> "off"]
        /\ wake = [p \in Pages |-> FALSE]
        /\ seen = [p \in Pages |-> 0]

\* (mutant) One line too many is kept.
LastLinesAndOne(lines) ==
    SubSeq(lines, IF Len(lines) > HistoryLimit THEN Len(lines) - HistoryLimit
                  ELSE 1, Len(lines))

LastLines(lines) ==
    SubSeq(lines, IF Len(lines) > HistoryLimit THEN Len(lines) - HistoryLimit + 1
                  ELSE 1, Len(lines))

Full(r) == Len(channel[r]) >= ChannelSize

\* (mutant) A full channel loses its oldest line.
SendOrShift(r) ==
    Append(IF Full(r) THEN Tail(channel[r]) ELSE channel[r], written + 1)

\* What the next line makes of a channel.
Send(r) == IF Full(r) THEN channel[r] ELSE Append(channel[r], written + 1)

\* logHub.Write; the file may refuse the line.
Write ==
    /\ written < MaxLines
    /\ written' = written + 1
    /\ file' \in {file, Append(file, written + 1)}
    /\ recent' = LastLines(Append(recent, written + 1))
    /\ channel' = [r \in Readers |->
                      IF reader[r] = "off" THEN channel[r] ELSE Send(r)]
    /\ dropped' = [r \in Readers |->
                      IF reader[r] # "off" /\ Full(r)
                      THEN dropped[r] \cup {written + 1} ELSE dropped[r]]
    /\ UNCHANGED <<reader, replay, shown, since, pages>>

\* serveLogs: subscribe hands out the history with the channel.
Subscribe(r) ==
    /\ reader[r] = "off"
    /\ reader' = [reader EXCEPT ![r] = "replay"]
    /\ replay' = [replay EXCEPT ![r] = recent]
    /\ channel' = [channel EXCEPT ![r] = <<>>]
    /\ shown' = [shown EXCEPT ![r] = <<>>]
    /\ dropped' = [dropped EXCEPT ![r] = {}]
    /\ since' = [since EXCEPT ![r] = written]
    /\ UNCHANGED <<logHub, pages>>

\* It shows the history, line by line ...
Replay(r) ==
    /\ reader[r] = "replay" /\ replay[r] # <<>>
    /\ shown' = [shown EXCEPT ![r] = Append(@, Head(replay[r]))]
    /\ replay' = [replay EXCEPT ![r] = Tail(@)]
    /\ UNCHANGED <<logHub, reader, channel, dropped, since, pages>>

\* (mutant) ... unless there is news, which goes first.
GoLiveEarly(r) ==
    /\ reader[r] = "replay" /\ (replay[r] = <<>> \/ channel[r] # <<>>)
    /\ reader' = [reader EXCEPT ![r] = "live"]
    /\ UNCHANGED <<logHub, replay, channel, shown, dropped, since, pages>>

\* ... all of it ...
GoLive(r) ==
    /\ reader[r] = "replay" /\ replay[r] = <<>>
    /\ reader' = [reader EXCEPT ![r] = "live"]
    /\ UNCHANGED <<logHub, replay, channel, shown, dropped, since, pages>>

\* ... and then what its channel brings.
Show(r) ==
    /\ reader[r] = "live" /\ channel[r] # <<>>
    /\ shown' = [shown EXCEPT ![r] = Append(@, Head(channel[r]))]
    /\ channel' = [channel EXCEPT ![r] = Tail(@)]
    /\ UNCHANGED <<logHub, reader, replay, dropped, since, pages>>

\* The page is closed.
Unsubscribe(r) ==
    /\ reader[r] # "off"
    /\ reader' = [reader EXCEPT ![r] = "off"]
    /\ UNCHANGED <<logHub, replay, channel, shown, dropped, since, pages>>

-----------------------------------------------------------------------------
\* publishLocked: a channel that is full stays full.
Wakened == [p \in Pages |-> page[p] # "off"]

\* Something pages show changes and they are told under the same lock: a
\* request starts, gets on or is over.
Change ==
    /\ changes < MaxChanges
    /\ changes' = changes + 1 /\ published' = changes'
    /\ wake' = Wakened
    /\ UNCHANGED <<logHub, readers, page, seen>>

\* A piece of an answer that comes too soon after the last one, or a new price
\* table: pages are told later.
ChangeQuietly ==
    /\ changes < MaxChanges
    /\ changes' = changes + 1
    /\ UNCHANGED <<logHub, readers, published, page, wake, seen>>

\* ... as publish does after the prices were set.
Publish ==
    /\ published' = changes
    /\ wake' = Wakened
    /\ UNCHANGED <<logHub, readers, changes, page, seen>>

\* serveSessions, serveStats.
Open(p) ==
    /\ page[p] = "off"
    /\ page' = [page EXCEPT ![p] = "render"]
    /\ wake' = [wake EXCEPT ![p] = FALSE]
    /\ UNCHANGED <<logHub, readers, changes, published, seen>>

\* cards or stats collect what there is, under the hub's lock ...
Render(p) ==
    /\ page[p] = "render"
    /\ page' = [page EXCEPT ![p] = "sent"]
    /\ seen' = [seen EXCEPT ![p] = changes]
    /\ UNCHANGED <<logHub, readers, changes, published, wake>>

\* (mutant) Wake-ups that came while it was sent are thrown away.
SentAndDrained(p) ==
    /\ page[p] = "sent"
    /\ page' = [page EXCEPT ![p] = "wait"]
    /\ wake' = [wake EXCEPT ![p] = FALSE]
    /\ UNCHANGED <<logHub, readers, changes, published, seen>>

\* ... which is formatted and sent without it.
Sent(p) ==
    /\ page[p] = "sent"
    /\ page' = [page EXCEPT ![p] = "wait"]
    /\ UNCHANGED <<logHub, readers, changes, published, wake, seen>>

Wake(p) ==
    /\ page[p] = "wait" /\ wake[p]
    /\ page' = [page EXCEPT ![p] = "render"]
    /\ wake' = [wake EXCEPT ![p] = FALSE]
    /\ UNCHANGED <<logHub, readers, changes, published, seen>>

Close(p) ==
    /\ page[p] # "off"
    /\ page' = [page EXCEPT ![p] = "off"]
    /\ UNCHANGED <<logHub, readers, changes, published, wake, seen>>

\* (mutant) The first lines of the file.
FirstRestored == SubSeq(file, 1, IF Len(file) < HistoryLimit THEN Len(file)
                                 ELSE HistoryLimit)

\* newLogHubPersistent: the last lines of the file.
Restored == LastLines(file)

\* The gateway stops and starts again.
FeedsRestart ==
    /\ recent' = Restored
    /\ reader' = [r \in Readers |-> "off"]
    /\ page' = [p \in Pages |-> "off"]
    /\ UNCHANGED <<written, file, replay, channel, shown, dropped, since,
                   changes, published, wake, seen>>

FeedsNext ==
    \/ Write
    \/ \E r \in Readers : \/ Subscribe(r) \/ Replay(r) \/ GoLive(r)
                          \/ Show(r) \/ Unsubscribe(r)
    \/ Change \/ ChangeQuietly \/ Publish
    \/ \E p \in Pages : Open(p) \/ Render(p) \/ Sent(p) \/ Wake(p) \/ Close(p)
    \/ FeedsRestart

FeedsSpec == FeedsInit /\ [][FeedsNext]_feedsVars

-----------------------------------------------------------------------------
Lines == 1 .. written

(* Every variable stays within its type; a channel never holds more than   *)
(* it can, and the history never more than its limit (logs.go:71-77).      *)
FeedsTyped ==
    /\ written \in Nat /\ ToSet(file) \subseteq Lines
    /\ ToSet(recent) \subseteq Lines /\ Len(recent) <= HistoryLimit
    /\ reader \in [Readers -> {"off", "replay", "live"}]
    /\ \A r \in Readers :
          /\ ToSet(replay[r]) \cup ToSet(channel[r]) \cup ToSet(shown[r])
                \cup dropped[r] \subseteq Lines
          /\ Len(channel[r]) <= ChannelSize
          /\ since[r] \in 0 .. written
    /\ changes \in Nat /\ published \in 0 .. changes
    /\ page \in [Pages -> {"off", "render", "sent", "wait"}]
    /\ wake \in [Pages -> BOOLEAN]
    /\ seen \in [Pages -> 0 .. changes]

Increasing(lines) == \A i, j \in 1 .. Len(lines) : i < j => lines[i] < lines[j]

(* A reader shows lines in the order they were written, none of them both  *)
(* from the history and from its channel, though lines arrive while it     *)
(* replays (logs.go:83-90, proxy.go:1467-1486).                            *)
ShownInOrder ==
    \A r \in Readers : Increasing(shown[r] \o replay[r] \o channel[r])

(* A reader that stays misses no line but those its channel had no room    *)
(* for: there is no gap between the history and the first line it is sent  *)
(* (logs.go:71-90).                                                        *)
NothingElseMissed ==
    \A r \in Readers : reader[r] # "off" =>
        \A n \in since[r] + 1 .. written :
            n \in dropped[r] \cup ToSet(channel[r]) \cup ToSet(shown[r])

(* As long as the file takes every line, a restart leaves the history as   *)
(* it was (newLogHubPersistent, logs.go:25-46).                            *)
HistorySurvives == Len(file) = written => recent = LastLines(file)

(* A page that waits, with nobody to wake it, shows the last change that   *)
(* was published: no wake-up is lost, however many come at once and        *)
(* whenever they come (sessions.go:652-680, 727-740, stats.go:1500-1512).  *)
NoWakeupLost ==
    \A p \in Pages : page[p] = "wait" /\ ~wake[p] => seen[p] >= published
=============================================================================
