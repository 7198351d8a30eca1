------------------------------ MODULE Sessions ------------------------------
(***************************************************************************)
(* session.go and its callers in auth.go and manage_auth.go: the bearer    *)
(* tokens of POST /v1/auth.                                                *)
(*                                                                         *)
(* Like the wallet's maps, the session table lives in memory (`sessions`)  *)
(* and is rebuilt by replaying wallet.jsonl, represented by what replaying *)
(* it now would yield (`disk`).  Unlike the wallet, the store writes its   *)
(* lines after it has released its lock, and a use of a session is not     *)
(* written at all, so a login and a logout are several steps each.         *)
(*                                                                         *)
(* A token is the session's identity: 32 random bytes, never drawn twice.  *)
(* The user and the hint of a session never change and decide nothing      *)
(* here; a caller whose X-Payer does not match is refused after the look-  *)
(* up, and so after the session was extended.                              *)
(***************************************************************************)
EXTENDS Integers

CONSTANTS Handlers,     \* slots for concurrent logins and logouts
          Tokens,       \* tokens that can be drawn
          NoToken,      \* what an idle slot holds
          NoSession,    \* a token without an entry in the table
          MaxLifetime,  \* SessionMaxLifetime
          IdleTimeout,  \* SessionIdleTimeout
          MaxTime,      \* bound: the clock stops here
          Untils,       \* until when a login may ask for its session
          Outcomes      \* what a write to wallet.jsonl may do: TRUE it is on
                        \* disk, FALSE it failed and left nothing

ASSUME SessionsAssumption ==
    /\ NoToken \notin Tokens
    /\ MaxLifetime \in Nat /\ IdleTimeout \in Nat /\ MaxTime \in Nat
    /\ Untils \subseteq Nat
    /\ NoSession \notin [exp : Nat, idle : Nat]
    /\ TRUE \in Outcomes /\ Outcomes \subseteq BOOLEAN

VARIABLES now,       \* the clock
          sessions,  \* SessionStore.sessions
          disk,      \* the table replaying wallet.jsonl would build
          pc,        \* pc[h]: where handler h is
          tok,       \* tok[h]: the token it works on
          rec,       \* rec[h]: the session a login has yet to write down
          shown,     \* tokens a login was answered with
          ended,     \* tokens for which a logout was answered ok
          unwritten, \* tokens whose removal from the table was never written
                     \* down: the line failed, or the process stopped before
          born,      \* born[t]: when t was created
          used       \* used[t]: when t was created or last looked up

store == <<sessions, disk>>
handlers == <<pc, tok, rec>>
past == <<shown, ended, unwritten, born, used>>
vars == <<now, store, handlers, past>>

Places == {"idle", "log", "revoke", "unlog"}

Session == [exp : Nat, idle : Nat]

Expired(s) == now > s.exp \/ now > s.idle

\* What Lookup accepts.
Accepted(t) == sessions[t] # NoSession /\ ~Expired(sessions[t])

-----------------------------------------------------------------------------
Init == /\ now = 0
        /\ sessions = [t \in Tokens |-> NoSession]
        /\ disk = [t \in Tokens |-> NoSession]
        /\ pc = [h \in Handlers |-> "idle"]
        /\ tok = [h \in Handlers |-> NoToken]
        /\ rec = [h \in Handlers |-> NoSession]
        /\ shown = {} /\ ended = {} /\ unwritten = {}
        /\ born = [t \in Tokens |-> 0]
        /\ used = [t \in Tokens |-> 0]

\* Handler h goes on with token t and session s, or is done.
Goto(h, from, to, t, s) == /\ pc[h] = from
                           /\ pc' = [pc EXCEPT ![h] = to]
                           /\ tok' = [tok EXCEPT ![h] = t]
                           /\ rec' = [rec EXCEPT ![h] = s]

Done(h, from) == Goto(h, from, "idle", NoToken, NoSession)

Drawn(t) == \/ sessions[t] # NoSession \/ disk[t] # NoSession
            \/ t \in shown
            \/ \E h \in Handlers : tok[h] = t

\* (mutant) The user gets what they asked for.
NewSessionUnclamped(until) == [exp |-> until, idle |-> now + IdleTimeout]

NewSession(until) ==
    [exp |-> IF until > now + MaxLifetime THEN now + MaxLifetime ELSE until,
     idle |-> now + IdleTimeout]

\* Create puts the session into the table ...
Create(h, t, until) ==
    /\ Goto(h, "idle", "log", t, NewSession(until))
    /\ ~Drawn(t)
    /\ until >= now
    /\ sessions' = [sessions EXCEPT ![t] = NewSession(until)]
    /\ born' = [born EXCEPT ![t] = now]
    /\ used' = [used EXCEPT ![t] = now]
    /\ UNCHANGED <<now, disk, shown, ended, unwritten>>

\* What a line does, if it is written.
Written(line, logged) == IF logged THEN line ELSE disk

\* (mutant) The login is answered while its line is still to be written.
LogCreateLater(h) ==
    /\ pc[h] = "log"
    /\ \/ /\ shown' = shown \cup {tok[h]}
          /\ UNCHANGED <<disk, handlers>>
       \/ /\ disk' = [disk EXCEPT ![tok[h]] = rec[h]]
          /\ Done(h, "log")
          /\ UNCHANGED shown
    /\ UNCHANGED <<now, sessions, ended, unwritten, born, used>>

\* ... writes it down, if it can, and the login is answered.
LogCreate(h) ==
    /\ Done(h, "log")
    /\ \E logged \in Outcomes :
          disk' = Written([disk EXCEPT ![tok[h]] = rec[h]], logged)
    /\ shown' = shown \cup {tok[h]}
    /\ UNCHANGED <<now, sessions, ended, unwritten, born, used>>

\* (mutant) The session is extended before it is looked at.
LookupExtendsFirst(t) ==
    /\ sessions[t] # NoSession
    /\ sessions' = [sessions EXCEPT ![t].idle = now + IdleTimeout]
    /\ used' = [used EXCEPT ![t] = IF Accepted(t) THEN now ELSE @]

\* Lookup accepts a token and extends its session, in memory.
Lookup(t) ==
    /\ Accepted(t)
    /\ sessions' = [sessions EXCEPT ![t].idle = now + IdleTimeout]
    /\ used' = [used EXCEPT ![t] = now]

\* A management call comes with a token.
Use(t) ==
    /\ t \in shown
    /\ Lookup(t)
    /\ UNCHANGED <<now, disk, handlers, shown, ended, unwritten, born>>

\* serveAuthLogout looks the token up; one that is not in the table, or too
\* old, is answered ok as "already gone" ...
AlreadyGone(t) ==
    /\ t \in shown
    /\ ~Accepted(t)
    /\ ended' = ended \cup {t}
    /\ UNCHANGED <<now, store, handlers, shown, unwritten, born, used>>

\* ... one that is accepted goes on to be revoked.
Logout(h, t) ==
    /\ t \in shown
    /\ Goto(h, "idle", "revoke", t, NoSession)
    /\ Lookup(t)
    /\ UNCHANGED <<now, disk, shown, ended, unwritten, born>>

\* Revoke removes the session from the table, if it still is there ("revoke
\* failed" otherwise) ...
Revoke(h) ==
    /\ \/ /\ Goto(h, "revoke", "unlog", tok[h], NoSession)
          /\ sessions[tok[h]] # NoSession
          /\ sessions' = [sessions EXCEPT ![tok[h]] = NoSession]
       \/ /\ Done(h, "revoke")
          /\ sessions[tok[h]] = NoSession
          /\ UNCHANGED sessions
    /\ UNCHANGED <<now, disk, past>>

\* (mutant) A session_revoke line does nothing on replay.
ReplayRevokeIgnored(t) == disk

\* What replaying a session_revoke line does.
ReplayRevoke(t) == [disk EXCEPT ![t] = NoSession]

\* ... and writes that down, if it can; the logout is answered either way.
LogRevoke(h) ==
    /\ Done(h, "unlog")
    /\ \E logged \in Outcomes :
          /\ disk' = Written(ReplayRevoke(tok[h]), logged)
          /\ unwritten' = IF logged THEN unwritten \ {tok[h]}
                                    ELSE unwritten \cup {tok[h]}
    /\ ended' = ended \cup {tok[h]}
    /\ UNCHANGED <<now, sessions, shown, born, used>>

\* Sweep is exported; nothing in the gateway calls it.
Sweep ==
    /\ sessions' = [t \in Tokens |-> IF Accepted(t) THEN sessions[t]
                                     ELSE NoSession]
    /\ UNCHANGED <<now, disk, handlers, past>>

\* Logouts that have removed their session and not written it down.
Unlogged == {h \in Handlers : pc[h] = "unlog"}

\* The process stops, or is killed, and NewWallet replays the file.
Restart ==
    /\ sessions' = disk
    /\ pc' = [h \in Handlers |-> "idle"]
    /\ tok' = [h \in Handlers |-> NoToken]
    /\ rec' = [h \in Handlers |-> NoSession]
    /\ unwritten' = unwritten \cup {tok[h] : h \in Unlogged}
    /\ UNCHANGED <<now, disk, shown, ended, born, used>>

Tick == /\ now < MaxTime
        /\ now' = now + 1
        /\ UNCHANGED <<store, handlers, past>>

Next ==
    \/ \E h \in Handlers :
          \/ \E t \in Tokens, until \in Untils : Create(h, t, until)
          \/ \E t \in Tokens : Logout(h, t)
          \/ LogCreate(h) \/ Revoke(h) \/ LogRevoke(h)
    \/ \E t \in Tokens : Use(t) \/ AlreadyGone(t)
    \/ Sweep \/ Restart \/ Tick

Spec == Init /\ [][Next]_vars

-----------------------------------------------------------------------------
(* Properties.                                                             *)

(* Every variable stays within its type, and a token is in one login's or  *)
(* logout's hands before it is shown to anybody (session.go:140-168).      *)
TypeOK ==
    /\ now \in 0 .. MaxTime
    /\ sessions \in [Tokens -> Session \cup {NoSession}]
    /\ disk \in [Tokens -> Session \cup {NoSession}]
    /\ pc \in [Handlers -> Places]
    /\ tok \in [Handlers -> Tokens \cup {NoToken}]
    /\ rec \in [Handlers -> Session \cup {NoSession}]
    /\ ended \subseteq shown /\ unwritten \subseteq shown /\ shown \subseteq Tokens
    /\ born \in [Tokens -> Nat] /\ used \in [Tokens -> Nat]
    /\ \A h \in Handlers : pc[h] = "log" => tok[h] \notin shown

(* A token is good for IdleTimeout after its last use and MaxLifetime      *)
(* after its login, and not a moment longer, however it is used, whichever *)
(* lines fail and whenever the gateway restarts (session.go:97, 130-134,   *)
(* 188-192, 249-267).                                                      *)
AcceptedIsFresh ==
    \A t \in Tokens : Accepted(t) =>
        now <= used[t] + IdleTimeout /\ now <= born[t] + MaxLifetime

(* A token for which a logout was answered ok, be it as "already gone", is *)
(* never accepted again, over restarts and whatever other logins and       *)
(* logouts are half done - unless the logout that took it out of the table *)
(* failed to write its line, or the process stopped before it did, and no  *)
(* later logout has written one (session.go:197-212, 264-266;              *)
(* auth.go:135-141).                                                       *)
LogoutIsFinal == \A t \in ended \ unwritten : ~Accepted(t)

(* As long as lines can be written, a token a login was answered with      *)
(* outlives a restart with the expiry it was promised, though not with     *)
(* what its uses added to its idle time (session.go:39-43, 191).           *)
SessionsDurable ==
    Outcomes = {TRUE} =>
        \A t \in shown : sessions[t] # NoSession =>
            /\ disk[t] # NoSession
            /\ disk[t].exp = sessions[t].exp
            /\ disk[t].idle <= sessions[t].idle

=============================================================================
