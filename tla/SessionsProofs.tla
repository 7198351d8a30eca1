--------------------------- MODULE SessionsProofs ---------------------------
(***************************************************************************)
(* Theorems about Sessions, for any number of handlers and tokens, any     *)
(* times and whichever lines fail.                                         *)
(*                                                                         *)
(* None of the properties is inductive by itself: a restart makes the      *)
(* file's entry the accepted one, and the file gets its entry from a login *)
(* that is half done.  The invariant therefore says of all three copies of *)
(* a session (table, file, login) that they promise no more than the token *)
(* was given, of every handler what it may assume about its token, and of  *)
(* every token that is not accepted that it is over in the file as well,   *)
(* or about to be, or that its removal was not written down.               *)
(***************************************************************************)
EXTENDS Manage, TLAPS

\* Session s promises no more than token t was given.
Modest(t, s) ==
    s # NoSession => /\ s.exp <= born[t] + MaxLifetime
                     /\ s.idle <= used[t] + IdleTimeout

\* A login owns its token, which nobody has seen; a logout works on one that
\* was shown, and has removed it before it writes the line.
Held ==
    \A h \in Handlers :
        /\ pc[h] = "idle" => tok[h] = NoToken
        /\ pc[h] # "idle" => tok[h] \in Tokens
        /\ pc[h] = "log" =>
              /\ rec[h] \in Session /\ Modest(tok[h], rec[h])
              /\ sessions[tok[h]] \in {NoSession, rec[h]}
              /\ sessions[tok[h]] = NoSession => Expired(rec[h])
              /\ disk[tok[h]] = NoSession
              /\ \A g \in Handlers : tok[g] = tok[h] => g = h
        /\ pc[h] \in {"revoke", "unlog"} => tok[h] \in shown
        /\ pc[h] = "unlog" => sessions[tok[h]] = NoSession

Promised ==
    \A t \in Tokens :
        used[t] <= now /\ Modest(t, sessions[t]) /\ Modest(t, disk[t])

\* What the file has to offer for a token that was shown.
Backed(t) == sessions[t] # NoSession =>
                /\ disk[t] # NoSession
                /\ disk[t].exp = sessions[t].exp
                /\ disk[t].idle <= sessions[t].idle

Sure == Outcomes = {TRUE} => \A t \in shown : Backed(t)

\* Where table and file both have a session, the file grants no more.
Kept == \A t \in shown : sessions[t] # NoSession /\ disk[t] # NoSession =>
                             /\ disk[t].exp = sessions[t].exp
                             /\ disk[t].idle <= sessions[t].idle

\* Session s is not accepted, now or later.
Dead(s) == s = NoSession \/ Expired(s)

\* Nothing brings token t back ...
Over(t) == Dead(sessions[t]) /\ Dead(disk[t])

\* ... but, for one that a logout is about to write down, a restart.
Unlogging(t) == /\ sessions[t] = NoSession
                /\ \E h \in Handlers : pc[h] = "unlog" /\ tok[h] = t

Settled(t) == Over(t) \/ Unlogging(t)

\* A token leaves the table for good, unless its removal was not written.
Final == /\ \A t \in shown \ unwritten : Accepted(t) \/ Settled(t)
         /\ \A t \in ended \ unwritten : Settled(t)

IInv == TypeOK /\ Held /\ Promised /\ Sure /\ Kept /\ Final

USE SessionsAssumption DEF Places

-----------------------------------------------------------------------------
LEMMA InitIInv == Init => IInv
  BY DEF Init, IInv, TypeOK, Held, Promised, Sure, Modest, Backed, Kept, Final

\* A token that is settled is not accepted.
LEMMA SettledGone == ASSUME NEW t, Settled(t) PROVE ~Accepted(t)
  BY DEF Settled, Over, Dead, Unlogging, Accepted

\* Logouts that have yet to write their line stay where they are.
UnlogsStay == \A g \in Handlers :
                 pc[g] = "unlog" => pc'[g] = "unlog" /\ tok'[g] = tok[g]

\* A step that touches no token that was shown keeps what is known of them.
LEMMA SameFinal ==
    ASSUME IInv, UnlogsStay, UNCHANGED <<now, disk, shown, ended, unwritten>>,
           \A u \in shown : sessions'[u] = sessions[u]
    PROVE  Kept' /\ Final'
<1>1. ASSUME NEW u \in shown
      PROVE  /\ Settled(u) => Settled(u)'
             /\ Accepted(u) => Accepted(u)'
  BY DEF Settled, Over, Dead, Unlogging, Accepted, Expired, UnlogsStay
<1>2. Final'
  BY <1>1 DEF IInv, TypeOK, Final
<1>3. Kept'
  BY DEF IInv, Kept
<1> QED
  BY <1>2, <1>3

\* What Create puts into the table is within the bounds.
LEMMA NewSessionType ==
    ASSUME TypeOK, NEW until \in Nat
    PROVE  /\ NewSession(until) \in Session
           /\ NewSession(until) # NoSession
           /\ NewSession(until).exp <= now + MaxLifetime
           /\ NewSession(until).idle = now + IdleTimeout
  BY DEF NewSession, Session, TypeOK

LEMMA CreateInv ==
    ASSUME IInv, NEW h \in Handlers, NEW t \in Tokens, NEW until \in Nat,
           Create(h, t, until)
    PROVE  IInv'
<1> DEFINE s == NewSession(until)
<1>1. /\ s \in Session /\ s # NoSession
      /\ s.exp <= now + MaxLifetime /\ s.idle = now + IdleTimeout
  BY NewSessionType DEF IInv
<1>2. /\ pc[h] = "idle" /\ pc' = [pc EXCEPT ![h] = "log"]
      /\ tok' = [tok EXCEPT ![h] = t] /\ rec' = [rec EXCEPT ![h] = s]
      /\ sessions' = [sessions EXCEPT ![t] = s]
      /\ born' = [born EXCEPT ![t] = now] /\ used' = [used EXCEPT ![t] = now]
      /\ UNCHANGED <<now, disk, shown, ended, unwritten>>
  BY DEF Create, Goto
<1>3. /\ t \notin shown /\ disk[t] = NoSession /\ sessions[t] = NoSession
      /\ \A g \in Handlers : tok[g] # t
  BY DEF Create, Drawn
<1> HIDE DEF s
<1>4. TypeOK'
  BY <1>1, <1>2, <1>3 DEF IInv, TypeOK
<1>5. Held'
  BY <1>1, <1>2, <1>3 DEF IInv, TypeOK, Held, Modest, Expired
<1>6. Promised'
  BY <1>1, <1>2, <1>3 DEF IInv, TypeOK, Promised, Modest
<1>7. Sure'
  BY <1>2, <1>3 DEF IInv, TypeOK, Sure, Backed
<1>8. UnlogsStay /\ \A u \in shown : sessions'[u] = sessions[u]
  BY <1>2, <1>3 DEF IInv, TypeOK, UnlogsStay
<1>9. Kept' /\ Final'
  BY <1>2, <1>8, SameFinal
<1> QED
  BY <1>4, <1>5, <1>6, <1>7, <1>9 DEF IInv

LEMMA LogCreateInv ==
    ASSUME IInv, NEW h \in Handlers, LogCreate(h)
    PROVE  IInv'
<1> PICK t \in Tokens, s \in Session : t = tok[h] /\ s = rec[h]
  BY DEF LogCreate, Done, Goto, IInv, Held
<1>1. /\ pc[h] = "log" /\ pc' = [pc EXCEPT ![h] = "idle"]
      /\ tok' = [tok EXCEPT ![h] = NoToken]
      /\ rec' = [rec EXCEPT ![h] = NoSession]
      /\ shown' = shown \cup {t}
      /\ UNCHANGED <<now, sessions, ended, unwritten, born, used>>
  BY DEF LogCreate, Done, Goto
<1>2. \/ disk' = [disk EXCEPT ![t] = s]
      \/ disk' = disk /\ Outcomes # {TRUE}
  BY DEF LogCreate, Written
<1>3. /\ Modest(t, s) /\ sessions[t] \in {NoSession, s} /\ t \notin shown
      /\ sessions[t] = NoSession => Expired(s)
      /\ disk[t] = NoSession
      /\ \A g \in Handlers : tok[g] = t => g = h
  BY <1>1 DEF IInv, Held, TypeOK
<1>4. s # NoSession
  BY DEF Session
<1>5. TypeOK'
  BY <1>1, <1>2, <1>3 DEF IInv, TypeOK
<1>6. Held'
  <2>1. ASSUME NEW g \in Handlers, g # h
        PROVE  /\ pc'[g] = pc[g] /\ tok'[g] = tok[g] /\ rec'[g] = rec[g]
               /\ tok[g] # t
    BY <1>1, <1>3, <2>1 DEF IInv, TypeOK
  <2>2. \A u \in Tokens : u # t => disk'[u] = disk[u]
    BY <1>2 DEF IInv, TypeOK
  <2>3. pc'[h] = "idle" /\ tok'[h] = NoToken
    BY <1>1 DEF IInv, TypeOK
  <2> QED
    BY <1>1, <2>1, <2>2, <2>3 DEF IInv, TypeOK, Held, Modest, Expired
<1>7. Promised'
  BY <1>1, <1>2, <1>3 DEF IInv, TypeOK, Promised, Modest
<1>8. Sure'
  <2> SUFFICES ASSUME Outcomes = {TRUE}
               PROVE  \A u \in shown' : Backed(u)'
    BY DEF Sure
  <2>1. disk' = [disk EXCEPT ![t] = s]
    BY <1>2
  <2>2. Backed(t)'
    BY <1>1, <1>3, <1>4, <2>1 DEF Backed, IInv, TypeOK, Session
  <2>3. \A u \in shown : Backed(u)'
    BY <1>1, <1>3, <2>1 DEF Backed, IInv, TypeOK, Sure
  <2> QED
    BY <1>1, <2>2, <2>3
<1>a. /\ disk'[t] \in {NoSession, s}
      /\ \A u \in shown : disk'[u] = disk[u]
  BY <1>2, <1>3 DEF IInv, TypeOK
<1>9. Kept'
  <2>1. s.idle <= s.idle
    BY DEF Session
  <2> QED
    BY <1>1, <1>3, <1>a, <2>1 DEF IInv, Kept
<1>10. Final'
  <2>1. ASSUME NEW u \in shown
        PROVE  /\ Settled(u) => Settled(u)'
               /\ Accepted(u) => Accepted(u)'
    <3>1. UnlogsStay
      BY <1>1 DEF IInv, TypeOK, UnlogsStay
    <3> QED
      BY <1>1, <1>a, <3>1
         DEF Settled, Over, Dead, Unlogging, Accepted, Expired, UnlogsStay
  <2>2. Accepted(t)' \/ Over(t)'
    BY <1>1, <1>3, <1>4, <1>a DEF Over, Dead, Accepted, Expired
  <2> QED
    BY <1>1, <2>1, <2>2 DEF IInv, TypeOK, Final, Settled
<1> QED
  BY <1>5, <1>6, <1>7, <1>8, <1>9, <1>10 DEF IInv

\* A look-up, by itself, keeps everything but the handlers' places.
LEMMA LookupInv ==
    ASSUME IInv, NEW t \in shown, Lookup(t),
           UNCHANGED <<now, disk, shown, ended, unwritten, born>>, UnlogsStay
    PROVE  /\ sessions' \in [Tokens -> Session \cup {NoSession}]
           /\ used' \in [Tokens -> Nat]
           /\ \A u \in Tokens : u # t => sessions'[u] = sessions[u]
           /\ \A u \in Tokens : sessions[u] = NoSession <=> sessions'[u] = NoSession
           /\ \A u \in Tokens : used[u] <= used'[u]
           /\ Promised'
           /\ Sure' /\ Kept' /\ Final'
<1>1. /\ sessions[t] \in Session /\ sessions[t] # NoSession /\ t \in Tokens
      /\ sessions' = [sessions EXCEPT ![t].idle = now + IdleTimeout]
      /\ used' = [used EXCEPT ![t] = now] /\ now \in Nat
  BY DEF Lookup, Accepted, IInv, TypeOK
<1>a. now + IdleTimeout \in Nat
  BY <1>1
<1>b. [exp |-> sessions[t].exp, idle |-> now + IdleTimeout] \in Session
  BY <1>1, <1>a DEF Session
<1> PICK s \in Session :
        s = [exp |-> sessions[t].exp, idle |-> now + IdleTimeout]
  BY <1>b
<1>c. [sessions[t] EXCEPT !.idle = now + IdleTimeout] = s
  BY <1>1, <1>a DEF Session
<1>d. [sessions EXCEPT ![t].idle = now + IdleTimeout]
          = [sessions EXCEPT ![t] = s]
  BY <1>1, <1>c DEF IInv, TypeOK
<1>2. /\ sessions' = [sessions EXCEPT ![t] = s]
      /\ s.exp = sessions[t].exp /\ s.idle = now + IdleTimeout
      /\ s # NoSession
  BY <1>1, <1>d DEF Session
<1>3. Promised'
  <2> SUFFICES ASSUME NEW u \in Tokens
               PROVE  /\ used'[u] <= now
                      /\ Modest(u, sessions[u])' /\ Modest(u, disk[u])'
    BY <1>1 DEF Promised
  <2>1. used[u] <= now /\ Modest(u, sessions[u]) /\ Modest(u, disk[u])
    BY DEF IInv, Promised
  <2>2. used[u] <= used'[u] /\ used'[u] <= now /\ used'[u] \in Nat
    BY <1>1, <2>1 DEF IInv, TypeOK
  <2>3. Modest(u, disk[u])'
    BY <2>1, <2>2 DEF Modest, IInv, TypeOK, Session
  <2>4. CASE u = t
    <3>1. sessions'[u] = s /\ used'[u] = now
      BY <1>1, <1>2, <2>4 DEF IInv, TypeOK
    <3> QED
      BY <1>1, <1>2, <2>1, <2>2, <2>3, <2>4, <3>1 DEF Modest
  <2>5. CASE u # t
    <3>1. sessions'[u] = sessions[u] /\ used'[u] = used[u]
      BY <1>1, <1>2, <2>5 DEF IInv, TypeOK
    <3> QED
      BY <2>1, <2>2, <2>3, <3>1 DEF Modest
  <2> QED
    BY <2>4, <2>5
<1>e. \A u \in shown : u # t => sessions'[u] = sessions[u]
  BY <1>2 DEF IInv, TypeOK
<1>f. sessions'[t] = s
  BY <1>1, <1>2 DEF IInv, TypeOK
<1>4. Kept' /\ Sure'
  <2>1. ASSUME disk[t] # NoSession
        PROVE  disk[t].exp = s.exp /\ disk[t].idle <= s.idle
    <3>1. disk[t] \in Session /\ disk[t].exp = sessions[t].exp
      BY <1>1, <2>1 DEF IInv, TypeOK, Kept
    <3>2. disk[t].idle <= used[t] + IdleTimeout /\ used[t] <= now
      BY <1>1, <2>1 DEF IInv, Promised, Modest
    <3> QED
      BY <1>1, <1>2, <3>1, <3>2 DEF Session, IInv, TypeOK
  <2>2. Kept'
    BY <1>e, <1>f, <2>1 DEF IInv, Kept
  <2>3. Sure'
    BY <1>1, <1>e, <1>f, <2>1 DEF IInv, Sure, Backed
  <2> QED
    BY <2>2, <2>3
<1>7. Final'
  <2>1. ASSUME NEW u \in shown, u # t
        PROVE  /\ Settled(u) => Settled(u)'
               /\ Accepted(u) => Accepted(u)'
    BY <1>e, <2>1
       DEF Settled, Over, Dead, Unlogging, Accepted, Expired, UnlogsStay
  <2>2. Accepted(t)'
    <3>1. Accepted(t) /\ now <= now + IdleTimeout
      BY <1>1 DEF Lookup
    <3> QED
      BY <1>1, <1>2, <1>f, <3>1, <1>a DEF Accepted, Expired, Session
  <2>3. t \notin ended \ unwritten
    BY SettledGone DEF IInv, Final, Lookup
  <2> QED
    BY <2>1, <2>2, <2>3 DEF IInv, TypeOK, Final
<1>5. /\ sessions' \in [Tokens -> Session \cup {NoSession}]
      /\ \A u \in Tokens : u # t => sessions'[u] = sessions[u]
      /\ \A u \in Tokens : sessions[u] = NoSession <=> sessions'[u] = NoSession
  <2>1. sessions \in [Tokens -> Session \cup {NoSession}]
    BY DEF IInv, TypeOK
  <2>2. sessions'[t] = s /\ \A u \in Tokens : u # t => sessions'[u] = sessions[u]
    BY <1>1, <1>2, <2>1
  <2>3. sessions' \in [Tokens -> Session \cup {NoSession}]
    BY <1>2, <2>1
  <2> QED
    BY <1>1, <1>2, <2>2, <2>3
<1>6. /\ used' \in [Tokens -> Nat]
      /\ \A u \in Tokens : used[u] <= used'[u]
  BY <1>1 DEF IInv, TypeOK, Promised
<1> QED
  BY <1>3, <1>4, <1>5, <1>6, <1>7

LEMMA UseInv ==
    ASSUME IInv, NEW t \in Tokens, Use(t)
    PROVE  IInv'
<1>1. /\ t \in shown /\ Lookup(t)
      /\ UNCHANGED <<now, disk, pc, tok, rec, shown, ended, unwritten, born>>
      /\ UnlogsStay
  BY DEF Use, handlers, UnlogsStay
<1>2. TypeOK'
  BY <1>1, LookupInv DEF IInv, TypeOK
<1>3. Held'
  BY <1>1, LookupInv DEF IInv, TypeOK, Held, Modest, Session, Expired
<1> QED
  BY <1>1, <1>2, <1>3, LookupInv DEF IInv

LEMMA LogoutInv ==
    ASSUME IInv, NEW h \in Handlers, NEW t \in Tokens, Logout(h, t)
    PROVE  IInv'
<1>1. /\ t \in shown /\ Lookup(t)
      /\ UNCHANGED <<now, disk, shown, ended, unwritten, born>>
      /\ pc[h] = "idle" /\ pc' = [pc EXCEPT ![h] = "revoke"]
      /\ tok' = [tok EXCEPT ![h] = t]
      /\ rec' = [rec EXCEPT ![h] = NoSession]
  BY DEF Logout, Goto
<1>a. UnlogsStay
  BY <1>1 DEF IInv, TypeOK, UnlogsStay
<1>2. TypeOK'
  BY <1>1, <1>a, LookupInv DEF IInv, TypeOK
<1>3. Held'
  BY <1>1, <1>a, LookupInv DEF IInv, TypeOK, Held, Modest, Session, Expired
<1> QED
  BY <1>1, <1>a, <1>2, <1>3, LookupInv DEF IInv

LEMMA AlreadyGoneInv ==
    ASSUME IInv, NEW t \in Tokens, AlreadyGone(t)
    PROVE  IInv'
<1>1. /\ t \in shown /\ ~Accepted(t) /\ ended' = ended \cup {t}
      /\ UNCHANGED <<now, sessions, disk, pc, tok, rec, shown, unwritten,
                     born, used>>
  BY DEF AlreadyGone, store, handlers
<1>2. TypeOK' /\ Held' /\ Promised' /\ Sure' /\ Kept'
  BY <1>1 DEF IInv, TypeOK, Held, Promised, Modest, Expired, Sure, Backed, Kept
<1>3. \A u \in Tokens : Settled(u)' = Settled(u) /\ Accepted(u)' = Accepted(u)
  BY <1>1 DEF Settled, Over, Dead, Unlogging, Accepted, Expired
<1>4. Final'
  BY <1>1, <1>3 DEF IInv, TypeOK, Final
<1> QED
  BY <1>2, <1>4 DEF IInv

LEMMA RevokeInv ==
    ASSUME IInv, NEW h \in Handlers, Revoke(h)
    PROVE  IInv'
<1>1. /\ pc[h] = "revoke" /\ tok[h] \in shown /\ tok[h] \in Tokens
      /\ UNCHANGED <<now, disk, shown, ended, unwritten, born, used>>
      /\ rec' = [rec EXCEPT ![h] = NoSession]
  BY DEF Revoke, Done, Goto, IInv, Held, TypeOK, past
<1>2. CASE /\ pc' = [pc EXCEPT ![h] = "unlog"] /\ tok' = tok
           /\ sessions' = [sessions EXCEPT ![tok[h]] = NoSession]
  <2>1. TypeOK'
    BY <1>1, <1>2 DEF IInv, TypeOK
  <2>2. Held'
    BY <1>1, <1>2 DEF IInv, TypeOK, Held, Modest, Expired
  <2>3. Promised' /\ Sure' /\ Kept'
    BY <1>1, <1>2 DEF IInv, TypeOK, Promised, Modest, Sure, Backed, Kept
  <2>4. /\ pc'[h] = "unlog" /\ tok'[h] = tok[h]
        /\ sessions'[tok[h]] = NoSession
        /\ \A u \in shown : u # tok[h] => sessions'[u] = sessions[u]
        /\ \A g \in Handlers : pc[g] = "unlog" => pc'[g] = "unlog"
    BY <1>1, <1>2 DEF IInv, TypeOK
  <2> PICK t \in shown : t = tok[h]
    BY <1>1
  <2>5. Settled(t)'
    BY <2>4 DEF Settled, Unlogging
  <2>6. ASSUME NEW u \in shown, u # t
        PROVE  /\ Settled(u) => Settled(u)'
               /\ Accepted(u) => Accepted(u)'
    <3>1. disk'[u] = disk[u] /\ sessions'[u] = sessions[u]
      BY <1>1, <2>4, <2>6
    <3>2. Unlogging(u) => Unlogging(u)'
      BY <1>2, <2>4, <3>1 DEF Unlogging
    <3>3. /\ Over(u) => Over(u)'
          /\ Accepted(u) => Accepted(u)'
      BY <1>1, <3>1 DEF Over, Dead, Accepted, Expired
    <3> QED
      BY <3>2, <3>3 DEF Settled
  <2>7. Final'
    BY <1>1, <2>5, <2>6 DEF IInv, TypeOK, Final
  <2> QED
    BY <2>1, <2>2, <2>3, <2>7 DEF IInv
<1>3. CASE /\ pc' = [pc EXCEPT ![h] = "idle"]
           /\ tok' = [tok EXCEPT ![h] = NoToken]
           /\ sessions' = sessions
  <2>1. TypeOK'
    BY <1>1, <1>3 DEF IInv, TypeOK
  <2>2. Held'
    BY <1>1, <1>3 DEF IInv, TypeOK, Held, Modest, Expired
  <2>3. Promised' /\ Sure'
    BY <1>1, <1>3 DEF IInv, TypeOK, Promised, Modest, Sure, Backed
  <2>4. UnlogsStay
    BY <1>1, <1>3 DEF IInv, TypeOK, UnlogsStay
  <2>5. Kept' /\ Final'
    BY <1>1, <1>3, <2>4, SameFinal
  <2> QED
    BY <2>1, <2>2, <2>3, <2>5 DEF IInv
<1>4. [tok EXCEPT ![h] = tok[h]] = tok
  BY DEF IInv, TypeOK
<1> QED
  BY <1>2, <1>3, <1>4 DEF Revoke, Done, Goto

LEMMA LogRevokeInv ==
    ASSUME IInv, NEW h \in Handlers, LogRevoke(h)
    PROVE  IInv'
<1> PICK t \in Tokens : t = tok[h]
  BY DEF LogRevoke, Done, Goto, IInv, Held
<1>1. /\ pc[h] = "unlog" /\ pc' = [pc EXCEPT ![h] = "idle"]
      /\ tok' = [tok EXCEPT ![h] = NoToken]
      /\ rec' = [rec EXCEPT ![h] = NoSession]
      /\ ended' = ended \cup {t}
      /\ UNCHANGED <<now, sessions, shown, born, used>>
  BY DEF LogRevoke, Done, Goto
<1>2. \/ /\ disk' = [disk EXCEPT ![t] = NoSession]
         /\ unwritten' = unwritten \ {t}
      \/ /\ disk' = disk /\ Outcomes # {TRUE}
         /\ unwritten' = unwritten \cup {t}
  BY DEF LogRevoke, Written, ReplayRevoke
<1>3. t \in shown /\ sessions[t] = NoSession
  BY <1>1 DEF IInv, Held
<1>4. TypeOK'
  BY <1>1, <1>2, <1>3 DEF IInv, TypeOK
<1>a. /\ disk'[t] = NoSession \/ (disk'[t] = disk[t] /\ t \in unwritten')
      /\ \A u \in Tokens : u # t => disk'[u] = disk[u]
  BY <1>2 DEF IInv, TypeOK
<1>b. \A u \in Tokens : u # t => (u \in unwritten' <=> u \in unwritten)
  BY <1>2
<1>5. Held'
  <2>1. \A g \in Handlers : pc[g] = "log" => tok[g] # t
    BY <1>1 DEF IInv, Held
  <2> QED
    BY <1>1, <1>a, <2>1 DEF IInv, TypeOK, Held, Modest, Expired
<1>6. Promised'
  BY <1>1, <1>2 DEF IInv, TypeOK, Promised, Modest
<1>7. Sure'
  BY <1>1, <1>2, <1>3 DEF IInv, TypeOK, Sure, Backed
<1>8. Kept'
  BY <1>1, <1>3, <1>a DEF IInv, TypeOK, Kept
<1>9. Final'
  <2>1. ASSUME NEW u \in shown, u # t
        PROVE  /\ Settled(u) => Settled(u)'
               /\ Accepted(u) => Accepted(u)'
    <3>1. disk'[u] = disk[u] /\ sessions'[u] = sessions[u]
      BY <1>1, <1>a, <2>1 DEF IInv, TypeOK
    <3>2. ASSUME NEW g \in Handlers, pc[g] = "unlog", tok[g] = u
          PROVE  pc'[g] = "unlog" /\ tok'[g] = u
      BY <1>1, <2>1, <3>2 DEF IInv, TypeOK
    <3>3. Unlogging(u) => Unlogging(u)'
      BY <3>1, <3>2 DEF Unlogging
    <3>4. /\ Over(u) => Over(u)'
          /\ Accepted(u) => Accepted(u)'
      BY <1>1, <3>1 DEF Over, Dead, Accepted, Expired
    <3> QED
      BY <3>3, <3>4 DEF Settled
  <2>2. t \notin unwritten' => Settled(t)'
    BY <1>1, <1>3, <1>a DEF Settled, Over, Dead
  <2> QED
    BY <1>1, <1>b, <2>1, <2>2 DEF IInv, TypeOK, Final
<1> QED
  BY <1>4, <1>5, <1>6, <1>7, <1>8, <1>9 DEF IInv

LEMMA SweepInv == ASSUME IInv, Sweep PROVE IInv'
<1>1. /\ UNCHANGED <<now, disk, pc, tok, rec, shown, ended, unwritten,
                     born, used>>
      /\ sessions' \in [Tokens -> Session \cup {NoSession}]
      /\ \A t \in Tokens : \/ sessions'[t] = sessions[t]
                           \/ sessions'[t] = NoSession /\ ~Accepted(t)
  BY DEF Sweep, handlers, past, IInv, TypeOK
<1>2. TypeOK'
  BY <1>1 DEF IInv, TypeOK
<1>3. Held'
  BY <1>1 DEF IInv, TypeOK, Held, Modest, Accepted, Expired
<1>4. Promised' /\ Sure' /\ Kept'
  BY <1>1 DEF IInv, TypeOK, Promised, Modest, Sure, Backed, Kept
<1>5. ASSUME NEW t \in shown
      PROVE  /\ Settled(t) => Settled(t)'
             /\ Accepted(t) => Accepted(t)'
  <2>1. t \in Tokens
    BY DEF IInv, TypeOK
  <2> QED
    BY <1>1, <2>1 DEF Settled, Over, Dead, Unlogging, Accepted, Expired
<1>6. Final'
  BY <1>1, <1>5 DEF IInv, TypeOK, Final
<1> QED
  BY <1>2, <1>3, <1>4, <1>6 DEF IInv

LEMMA RestartInv == ASSUME IInv, Restart PROVE IInv'
<1> USE DEF Unlogged
<1>1. TypeOK'
  BY DEF Restart, IInv, TypeOK, Held
<1>2. Held'
  BY DEF Restart, IInv, TypeOK, Held
<1>3. Promised'
  BY DEF Restart, IInv, TypeOK, Promised, Modest
<1>a. \A t \in shown : disk[t] # NoSession => disk[t].idle <= disk[t].idle
  BY DEF IInv, TypeOK, Session
<1>4. Sure' /\ Kept'
  BY <1>a DEF Restart, Sure, Backed, Kept
<1>5. ASSUME NEW t \in shown, t \notin unwritten'
      PROVE  /\ t \notin unwritten
             /\ Settled(t) => Over(t)'
             /\ Accepted(t) => Accepted(t)' \/ Over(t)'
  BY <1>5 DEF Restart, Settled, Over, Dead, Unlogging, Accepted, Expired
<1>6. Final'
  BY <1>5 DEF Restart, IInv, TypeOK, Final, Settled
<1> QED
  BY <1>1, <1>2, <1>3, <1>4, <1>6 DEF IInv

LEMMA TickInv == ASSUME IInv, Tick PROVE IInv'
<1>1. /\ now' = now + 1 /\ now < MaxTime
      /\ UNCHANGED <<sessions, disk, pc, tok, rec, shown, ended, unwritten,
                     born, used>>
  BY DEF Tick, store, handlers, past
<1>2. TypeOK'
  BY <1>1 DEF IInv, TypeOK
<1>3. Sure' /\ Kept'
  BY <1>1 DEF IInv, Sure, Backed, Kept
<1>a. ASSUME NEW s \in Session, Expired(s) PROVE Expired(s)'
  BY <1>1, <1>a DEF IInv, TypeOK, Expired, Session
<1>4. Held'
  BY <1>1, <1>a DEF IInv, TypeOK, Held, Modest
<1>5. Promised'
  BY <1>1 DEF IInv, TypeOK, Promised, Modest
<1>6. ASSUME NEW t \in shown
      PROVE  /\ Settled(t) => Settled(t)'
             /\ Accepted(t) => Accepted(t)' \/ Over(t)'
  <2>1. /\ sessions[t] \in Session \cup {NoSession}
        /\ disk[t] \in Session \cup {NoSession}
    BY DEF IInv, TypeOK
  <2>2. Settled(t) => Settled(t)'
    BY <1>1, <1>a, <2>1 DEF Settled, Over, Dead, Unlogging
  <2>3. ASSUME Accepted(t), ~Accepted(t)' PROVE Over(t)'
    <3>1. sessions[t] # NoSession /\ Expired(sessions[t])'
      BY <1>1, <2>3 DEF Accepted
    <3>2. CASE disk[t] = NoSession
      BY <1>1, <3>1, <3>2 DEF Over, Dead
    <3>3. CASE disk[t] # NoSession
      <4>1. /\ disk[t].exp = sessions[t].exp /\ disk[t].idle <= sessions[t].idle
            /\ disk[t] \in Session /\ sessions[t] \in Session
        BY <2>1, <3>1, <3>3 DEF IInv, Kept
      <4>2. Expired(disk[t])'
        BY <1>1, <3>1, <4>1 DEF IInv, TypeOK, Expired, Session
      <4> QED
        BY <1>1, <3>1, <4>2 DEF Over, Dead
    <3> QED
      BY <3>2, <3>3
  <2> QED
    BY <2>2, <2>3
<1>7. Final'
  BY <1>1, <1>6 DEF IInv, TypeOK, Final, Settled
<1> QED
  BY <1>2, <1>3, <1>4, <1>5, <1>7 DEF IInv

-----------------------------------------------------------------------------
(* IInv is inductive: table, file and half-done logins never promise more  *)
(* than a token was given, and a token that is not accepted is over in the *)
(* file too, or its removal is being, or was not, written down             *)
(* (session.go:124-267; auth.go:121-150).                                  *)
THEOREM SessionsInvariant == Spec => []IInv
<1>1. IInv /\ [Next]_vars => IInv'
  <2> SUFFICES ASSUME IInv, [Next]_vars
               PROVE  IInv'
    OBVIOUS
  <2>1. CASE UNCHANGED vars
    <3>1. TypeOK' /\ Held' /\ Promised' /\ Sure'
      BY <2>1 DEF vars, store, handlers, past, IInv, TypeOK, Held, Promised,
                  Modest, Expired, Sure, Backed
    <3>2. Kept' /\ Final'
      BY <2>1, SameFinal DEF vars, store, handlers, past, UnlogsStay
    <3> QED
      BY <3>1, <3>2 DEF IInv
  <2>2. ASSUME NEW h \in Handlers, NEW t \in Tokens,
               NEW until \in Untils, Create(h, t, until)
        PROVE  IInv'
    BY <2>2, CreateInv
  <2>3. ASSUME NEW h \in Handlers,
               LogCreate(h) \/ Revoke(h) \/ LogRevoke(h)
        PROVE  IInv'
    BY <2>3, LogCreateInv, RevokeInv, LogRevokeInv
  <2>4. ASSUME NEW h \in Handlers, NEW t \in Tokens, Logout(h, t)
        PROVE  IInv'
    BY <2>4, LogoutInv
  <2>5. ASSUME NEW t \in Tokens, Use(t) \/ AlreadyGone(t) PROVE IInv'
    BY <2>5, UseInv, AlreadyGoneInv
  <2>6. CASE Sweep \/ Restart \/ Tick
    BY <2>6, SweepInv, RestartInv, TickInv
  <2> QED
    BY <2>1, <2>2, <2>3, <2>4, <2>5, <2>6 DEF Next
<1> QED
  BY InitIInv, <1>1, PTL DEF Spec

(* Every variable stays within its type, and a login's token is shown to   *)
(* nobody before its line was tried.                                       *)
THEOREM SessionsTypeOK == Spec => []TypeOK
<1>1. IInv => TypeOK
  BY DEF IInv
<1> QED
  BY <1>1, SessionsInvariant, PTL

(* No token is accepted longer than MaxLifetime after its login, nor than  *)
(* IdleTimeout after its last use, restarts and failed lines included.     *)
THEOREM SessionsAcceptedIsFresh == Spec => []AcceptedIsFresh
<1>1. IInv => AcceptedIsFresh
  BY DEF IInv, TypeOK, Promised, Modest, AcceptedIsFresh, Accepted, Expired,
         Session
<1> QED
  BY <1>1, SessionsInvariant, PTL

(* A token for which a logout was answered ok, be it as "already gone", is *)
(* not accepted again over restarts, whichever lines fail - unless it is   *)
(* its removal that was not written down.                                  *)
THEOREM SessionsLogoutIsFinal == Spec => []LogoutIsFinal
<1>1. IInv => LogoutIsFinal
  BY SettledGone DEF IInv, Final, LogoutIsFinal
<1> QED
  BY <1>1, SessionsInvariant, PTL

(* While lines can be written, the file has every session that was shown,  *)
(* with its expiry and with no more idle time than memory grants.          *)
THEOREM SessionsSessionsDurable == Spec => []SessionsDurable
<1>1. IInv => SessionsDurable
  BY DEF IInv, Sure, Backed, SessionsDurable
<1> QED
  BY <1>1, SessionsInvariant, PTL

-----------------------------------------------------------------------------
(* Manage: whatever calls come, the session store is the one above.        *)

LEMMA ManageStepIsStep ==
    ASSUME [ManageNext]_manageVars
    PROVE  [Next]_vars
<1>1. CASE UNCHANGED manageVars
  BY <1>1 DEF manageVars
<1>2. ASSUME NEW c \in Callers, ReadBody(c) PROVE [Next]_vars
  <2>1. ASSUME NEW h \in Handlers, NEW t \in Tokens, Login(c, h, t)
        PROVE  [Next]_vars
    <3>1. PICK until \in Untils : call[c].ask = <<"login", until>>
      BY <2>1 DEF Login, Logins
    <3>2. Create(h, t, until)
      BY <2>1, <3>1 DEF Login
    <3> QED
      BY <3>2 DEF Next
  <2> QED
    BY <1>2, <2>1 DEF ReadBody, AdmitKeyCall
<1>3. ASSUME NEW c \in Callers, NEW t \in Tokens, NEW u \in Users,
             NEW ask \in KeyOps, ArriveBearer(c, t, u, ask)
      PROVE  [Next]_vars
  BY <1>3 DEF ArriveBearer, Next
<1>4. CASE Meanwhile \/ ManageRestart
  BY <1>4 DEF Meanwhile, ManageRestart, Next
<1>5. CASE \/ \E c \in Callers : Refuse(c) \/ Act(c)
           \/ \E c \in Callers, u \in Users, ask \in KeyOps \cup Logins,
                 ts \in Times : Arrive(c, u, ask, ts)
           \/ \E u \in Users : Register(u)
  BY <1>5 DEF Refuse, Act, Arrive, Register
<1> QED
  BY <1>1, <1>2, <1>3, <1>4, <1>5 DEF ManageNext

(* The calls do to the session store what Sessions says its callers may    *)
(* do, so that all that is proved of it holds with them.                   *)
THEOREM ManageImplementsSessions == ManageSpec => Spec
<1>1. ManageInit => Init
  BY DEF ManageInit
<1>2. [ManageNext]_manageVars => [Next]_vars
  BY ManageStepIsStep
<1> QED
  BY <1>1, <1>2, PTL DEF ManageSpec, Spec

\* Call q is proved to be user u's, in a way that no step takes back.
Good(u, q) == \/ SignedBy(u, q)
              \/ OpenedBy(u, q) /\ q.proof \in shown

\* Accounts are users', a waiting call came in its window, and one that will
\* act was proved to be its user's.
CallsProved ==
    /\ registered \subseteq Users
    /\ holder \in [Tokens -> Users \cup {NoUser}]
    /\ call = [c \in Callers |-> call[c]]
    /\ \A c \in Callers :
          /\ At(c, "body") =>
                /\ call[c].payer \in Users
                /\ call[c].ask \in KeyOps \cup Logins
                /\ call[c].ts \in Times
                /\ call[c].arrived - call[c].ts \in -Window .. Window
          /\ At(c, "act") => /\ call[c].user \in registered
                             /\ Good(call[c].user, call[c])

\* What the calls of a step leave alone, and what it does to the tokens that
\* were shown: nothing a proof rests on.
Steady == /\ registered \subseteq registered' /\ shown \subseteq shown'
          /\ \A t \in shown : born'[t] = born[t] /\ holder'[t] = holder[t]

LEMMA SteadyGood ==
    ASSUME Steady, NEW u, NEW q, Good(u, q)
    PROVE  Good(u, q)'
BY DEF Steady, Good, SignedBy, OpenedBy

\* Only a login gives a token its holder and its birth, before it is shown.
LEMMA StoreSteady ==
    ASSUME TypeOK, [Next]_vars
    PROVE  shown \subseteq shown' /\ \A t \in shown : born'[t] = born[t]
<1>1. ASSUME NEW h \in Handlers, NEW t \in Tokens, NEW until \in Untils,
             Create(h, t, until)
      PROVE  shown \subseteq shown' /\ \A x \in shown : born'[x] = born[x]
  BY <1>1 DEF Create, Drawn, TypeOK
<1>2. CASE UNCHANGED vars
  BY <1>2 DEF vars, past
<1>3. CASE \E h \in Handlers : LogCreate(h) \/ Revoke(h) \/ LogRevoke(h)
  BY <1>3 DEF LogCreate, Revoke, LogRevoke, past
<1>4. CASE \/ \E h \in Handlers, t \in Tokens : Logout(h, t)
           \/ \E t \in Tokens : Use(t) \/ AlreadyGone(t)
           \/ Sweep \/ Restart \/ Tick
  BY <1>4 DEF Logout, Use, AlreadyGone, Lookup, Sweep, Restart, Tick, past
<1>5. QED
  BY <1>1, <1>2, <1>3, <1>4 DEF Next

LEMMA SteadyStep ==
    ASSUME TypeOK, CallsProved, [ManageNext]_manageVars
    PROVE  Steady
<1>1. shown \subseteq shown' /\ \A t \in shown : born'[t] = born[t]
  BY StoreSteady, ManageStepIsStep
<1>2. registered \subseteq registered'
  BY DEF ManageNext, manageVars, Arrive, ReadBody, AdmitKeyCall, Login, Refuse,
         ArriveBearer, Act, Register, ManageRestart, Meanwhile
<1>3. ASSUME NEW c \in Callers, NEW h \in Handlers, NEW t \in Tokens, Login(c, h, t)
      PROVE  \A x \in shown : holder'[x] = holder[x]
  BY <1>3 DEF Login, Create, Drawn, CallsProved
<1>4. CASE holder' = holder
  BY <1>1, <1>2, <1>4 DEF Steady
<1>5. CASE \E c \in Callers, h \in Handlers, t \in Tokens : Login(c, h, t)
  BY <1>1, <1>2, <1>3, <1>5 DEF Steady
<1>6. QED
  BY <1>4, <1>5
     DEF ManageNext, manageVars, Arrive, ReadBody, AdmitKeyCall, Refuse,
         ArriveBearer, Act, Register, ManageRestart, Meanwhile

\* The other slots keep what they hold.
LEMMA OthersProved ==
    ASSUME CallsProved, Steady, registered' \subseteq Users,
           holder' \in [Tokens -> Users \cup {NoUser}],
           NEW c \in Callers, NEW q, call' = [call EXCEPT ![c] = q],
           q = Idle \/ (q.at = "act" => q.user \in registered' /\ Good(q.user, q)'),
           q = Idle \/ (q.at = "body" =>
                           /\ q.payer \in Users /\ q.ask \in KeyOps \cup Logins
                           /\ q.ts \in Times
                           /\ q.arrived - q.ts \in -Window .. Window)
    PROVE  CallsProved'
<1>1. /\ call' = [d \in Callers |-> call'[d]]
      /\ \A d \in Callers : call'[d] = IF d = c THEN q ELSE call[d]
  BY DEF CallsProved
<1>2. ASSUME NEW d \in Callers, d # c, At(d, "act")
      PROVE  call[d].user \in registered' /\ Good(call[d].user, call[d])'
  <2>1. call'[d] = call[d]
    BY <1>1, <1>2
  <2>2. call[d].user \in registered /\ Good(call[d].user, call[d])
    BY <1>2 DEF CallsProved
  <2>3. ASSUME NEW x, NEW y, Good(x, y) PROVE Good(x, y)'
    BY <2>3, SteadyGood
  <2>4. QED
    BY <2>1, <2>2, <2>3 DEF Steady, Good, SignedBy, OpenedBy
<1>3. QED
  BY <1>1, <1>2 DEF CallsProved, At, Good, SignedBy, OpenedBy

\* Calls that do not move are as proved as they were.
LEMMA SameCallsProved ==
    ASSUME CallsProved, Steady, registered' \subseteq Users,
           holder' \in [Tokens -> Users \cup {NoUser}],
           call' = call \/ call' = [c \in Callers |-> Idle]
    PROVE  CallsProved'
<1>1. ASSUME NEW d \in Callers, At(d, "act")
      PROVE  \/ call[d].user \in registered' /\ Good(call[d].user, call[d])'
             \/ call' # call
  <2>1. call[d].user \in registered /\ Good(call[d].user, call[d])
    BY <1>1 DEF CallsProved
  <2>2. ASSUME NEW x, NEW y, Good(x, y) PROVE Good(x, y)'
    BY <2>2, SteadyGood
  <2>3. QED
    BY <2>1, <2>2 DEF Steady, Good, SignedBy, OpenedBy
<1>2. QED
  BY <1>1 DEF CallsProved, At, Good, SignedBy, OpenedBy

LEMMA ArriveProved ==
    ASSUME TypeOK, CallsProved, Steady, NEW c \in Callers, NEW u \in Users,
           NEW ask \in KeyOps \cup Logins, NEW ts \in Times, Arrive(c, u, ask, ts)
    PROVE  CallsProved'
<1>1. PICK q : q = Waiting(u, ask, ts)
  OBVIOUS
<1>2. /\ call' = [call EXCEPT ![c] = q] /\ UNCHANGED <<holder, registered>>
  BY <1>1 DEF Arrive
<1>3. /\ q.at = "body" /\ q.payer = u /\ q.ask = ask /\ q.ts = ts
      /\ q.arrived = now
  BY <1>1 DEF Waiting
<1>4. now - ts \in -Window .. Window
  BY ManageAssumption DEF Arrive, InWindow, TypeOK, Times
<1>5. registered' \subseteq Users /\ holder' \in [Tokens -> Users \cup {NoUser}]
  BY <1>2 DEF CallsProved
<1>6. QED
  BY <1>2, <1>3, <1>4, <1>5, OthersProved

LEMMA AdmitProved ==
    ASSUME CallsProved, Steady, NEW c \in Callers, NEW s \in Signatures,
           At(c, "body"), Signs(s, call[c]), AdmitKeyCall(c, s)
    PROVE  CallsProved'
<1>1. PICK q : q = Admitted(call[c].payer, call[c].ask, s, call[c].arrived, {})
  OBVIOUS
<1>2. call' = [call EXCEPT ![c] = q] /\ UNCHANGED <<holder, registered>>
  BY <1>1 DEF AdmitKeyCall, CallsProved
<1>3. /\ q.at = "act" /\ q.user = call[c].payer /\ q.ask = call[c].ask
      /\ q.proof = s /\ q.arrived = call[c].arrived
  BY <1>1 DEF Admitted
<1>4. s = Signature(q.user, q.ask, call[c].ts, q.user) /\ s.ts = call[c].ts
  BY <1>3 DEF Signs, Signature
<1>5. call[c].arrived - call[c].ts \in -Window .. Window
  BY DEF CallsProved
<1>6. SignedBy(q.user, q)
  BY <1>3, <1>4, <1>5 DEF SignedBy
<1>7. q.user \in registered' /\ Good(q.user, q)'
  BY <1>2, <1>3, <1>6 DEF AdmitKeyCall, Good, SignedBy
<1>8. registered' \subseteq Users /\ holder' \in [Tokens -> Users \cup {NoUser}]
  BY <1>2 DEF CallsProved
<1>9. QED
  BY <1>2, <1>3, <1>7, <1>8, OthersProved

\* The token was accepted, so its session was neither too old nor ended.
LEMMA BearerProved ==
    ASSUME IInv, CallsProved, Steady, NEW c \in Callers, NEW t \in Tokens,
           NEW u \in Users, NEW ask \in KeyOps, ArriveBearer(c, t, u, ask)
    PROVE  CallsProved'
<1>1. UNCHANGED <<holder, registered, born>>
  BY DEF ArriveBearer, Use, Lookup
<1>2. registered' \subseteq Users /\ holder' \in [Tokens -> Users \cup {NoUser}]
  BY <1>1 DEF CallsProved
<1>3. CASE call' = call
  BY <1>2, <1>3, SameCallsProved
<1>4. ASSUME SessionUser(t, u) \in registered,
             call' = [call EXCEPT ![c] =
                         Admitted(SessionUser(t, u), ask, t, now,
                                  ended \ unwritten)]
      PROVE  CallsProved'
  <2>1. PICK q : q = Admitted(SessionUser(t, u), ask, t, now, ended \ unwritten)
    OBVIOUS
  <2>2. /\ q.at = "act" /\ q.user = SessionUser(t, u) /\ q.proof = t
        /\ q.arrived = now /\ q.gone = ended \ unwritten
    BY <2>1 DEF Admitted
  <2>3. holder[t] = q.user
    BY <1>4, <2>2, ManageAssumption DEF SessionUser, CallsProved
  <2>4. t \in shown /\ Accepted(t)
    BY DEF ArriveBearer, Use, Lookup
  <2>5. now <= born[t] + MaxLifetime
    BY <2>4 DEF IInv, TypeOK, Promised, Modest, Accepted, Expired, Session
  <2>6. t \notin ended \ unwritten
    BY <2>4, SettledGone DEF IInv, Final
  <2>7. OpenedBy(q.user, q)' /\ q.proof \in shown'
    BY <1>1, <2>2, <2>3, <2>4, <2>5, <2>6 DEF OpenedBy, Steady
  <2>8. q.user \in registered' /\ Good(q.user, q)'
    BY <1>1, <1>4, <2>2, <2>7 DEF Good
  <2>9. call' = [call EXCEPT ![c] = q]
    BY <1>4, <2>1
  <2>10. QED
    BY <1>2, <2>2, <2>8, <2>9, OthersProved
<1>5. QED
  BY <1>3, <1>4 DEF ArriveBearer

LEMMA CallsProvedStep ==
    ASSUME IInv, CallsProved, [ManageNext]_manageVars
    PROVE  CallsProved'
<1>1. Steady
  BY SteadyStep DEF IInv
<1>2. ASSUME NEW c \in Callers, call' = [call EXCEPT ![c] = Idle],
             registered' \subseteq Users,
             holder' \in [Tokens -> Users \cup {NoUser}]
      PROVE  CallsProved'
  BY <1>1, <1>2, OthersProved
<1>3. CASE UNCHANGED manageVars
  BY <1>1, <1>3, SameCallsProved DEF manageVars, CallsProved
<1>4. ASSUME NEW c \in Callers, NEW u \in Users, NEW ask \in KeyOps \cup Logins,
             NEW ts \in Times, Arrive(c, u, ask, ts)
      PROVE  CallsProved'
  BY <1>1, <1>4, ArriveProved DEF IInv
<1>5. ASSUME NEW c \in Callers, ReadBody(c) PROVE CallsProved'
  <2>1. PICK s \in Signatures :
           /\ Signs(s, call[c])
           /\ AdmitKeyCall(c, s) \/ \E h \in Handlers, t \in Tokens : Login(c, h, t)
    BY <1>5 DEF ReadBody
  <2>2. CASE AdmitKeyCall(c, s)
    BY <1>1, <1>5, <2>1, <2>2, AdmitProved DEF ReadBody
  <2>3. ASSUME NEW h \in Handlers, NEW t \in Tokens, Login(c, h, t)
        PROVE  CallsProved'
    <3>1. call[c].payer \in Users
      BY <1>5 DEF ReadBody, CallsProved
    <3>2. holder' \in [Tokens -> Users \cup {NoUser}]
      BY <2>3, <3>1 DEF Login, CallsProved
    <3>3. registered' \subseteq Users /\ call' = [call EXCEPT ![c] = Idle]
      BY <2>3 DEF Login, CallsProved
    <3>4. QED
      BY <1>2, <3>2, <3>3
  <2>4. QED
    BY <2>1, <2>2, <2>3
<1>6. ASSUME NEW c \in Callers, Refuse(c) \/ Act(c) PROVE CallsProved'
  BY <1>2, <1>6 DEF Refuse, Act, CallsProved
<1>7. ASSUME NEW c \in Callers, NEW t \in Tokens, NEW u \in Users,
             NEW ask \in KeyOps, ArriveBearer(c, t, u, ask)
      PROVE  CallsProved'
  BY <1>1, <1>7, BearerProved
<1>8. ASSUME NEW u \in Users, Register(u) PROVE CallsProved'
  <2>1. registered' \subseteq Users /\ holder' = holder /\ call' = call
    BY <1>8 DEF Register, CallsProved
  <2>2. QED
    BY <1>1, <2>1, SameCallsProved DEF CallsProved
<1>9. CASE ManageRestart \/ Meanwhile
  <2>1. /\ registered' = registered /\ holder' = holder
        /\ call' = call \/ call' = [c \in Callers |-> Idle]
    BY <1>9 DEF ManageRestart, Meanwhile
  <2>2. QED
    BY <1>1, <2>1, SameCallsProved DEF CallsProved
<1>10. QED
  BY <1>3, <1>4, <1>5, <1>6, <1>7, <1>8, <1>9 DEF ManageNext

LEMMA CallsProvedInvariant == ManageSpec => [](IInv /\ CallsProved)
<1>1. ManageSpec => []IInv
  BY ManageImplementsSessions, SessionsInvariant, PTL
<1>2. ManageInit => CallsProved
  BY DEF ManageInit, CallsProved, At
<1>3. IInv /\ CallsProved /\ [ManageNext]_manageVars => CallsProved'
  BY CallsProvedStep
<1>4. QED
  BY <1>1, <1>2, <1>3, PTL DEF ManageSpec

OwnersAreUsers == owner \in [Keys -> Users \cup {NoOwner}]

LEMMA OwnersStep ==
    ASSUME OwnersAreUsers, CallsProved, [ManageNext]_manageVars
    PROVE  OwnersAreUsers'
<1>1. ASSUME NEW c \in Callers, Act(c) PROVE OwnersAreUsers'
  <2>1. call[c].user \in Users
    BY <1>1 DEF Act, CallsProved
  <2>2. QED
    BY <1>1, <2>1 DEF Act, Serve, OwnersAreUsers, ring,
                      Ring!Issue, Ring!Rotate, Ring!Revoke
<1>2. CASE UNCHANGED ring
  BY <1>2 DEF OwnersAreUsers, ring
<1>3. QED
  BY <1>1, <1>2 DEF ManageNext, manageVars, Arrive, ReadBody, AdmitKeyCall,
                    Login, Refuse, ArriveBearer, Register, ManageRestart,
                    Meanwhile

LEMMA OwnersInvariant == ManageSpec => []OwnersAreUsers
<1>1. ManageInit => OwnersAreUsers
  BY DEF ManageInit, Ring!Init, OwnersAreUsers
<1>2. QED
  BY <1>1, OwnersStep, CallsProvedInvariant, PTL DEF ManageSpec

(* The calls do to the keys what the wallet promises of them (KeyRing,     *)
(* which Wallet implements): a key has one owner for good, a rotation      *)
(* retires the caller's keys and no other, and revoking is final, also     *)
(* when the call acts long after it was proved (keys.go:52-75).            *)
THEOREM ManageImplementsKeyRing == ManageSpec => Ring!Spec
<1>1. ManageInit => Ring!Init
  BY DEF ManageInit, Ring!Init
<1>2. ASSUME CallsProved, [ManageNext]_manageVars
      PROVE  [Ring!Next]_(Ring!vars)
  <2>1. ASSUME NEW c \in Callers, Act(c)
        PROVE  [Ring!Next]_(Ring!vars)
    <3> DEFINE u == call[c].user
    <3>1. u \in Users /\ Serve(u, call[c].ask)
      BY <1>2, <2>1 DEF Act, CallsProved
    <3> HIDE DEF u
    <3>2. \/ \E k \in Keys : Ring!Issue(u, k) \/ Ring!Rotate(u, k)
          \/ \E k \in Keys : Ring!Revoke(k)
          \/ UNCHANGED ring
      BY <3>1 DEF Serve
    <3>3. QED
      BY <3>1, <3>2 DEF Ring!Next, Ring!vars, ring
  <2>2. CASE UNCHANGED ring
    BY <2>2 DEF ring, Ring!vars
  <2>3. QED
    BY <1>2, <2>1, <2>2
       DEF ManageNext, manageVars, Arrive, ReadBody, AdmitKeyCall, Login, Refuse,
           ArriveBearer, Register, ManageRestart, Meanwhile
<1>3. QED
  BY <1>1, <1>2, CallsProvedInvariant, PTL DEF ManageSpec, Ring!Spec

(* For any users, calls, delays and repetitions: a user's keys change only *)
(* by a call that was proved to be that user's when it arrived, asking for *)
(* this change (manage_auth.go:106-134, 140-221).                          *)
THEOREM ManageKeysChangeAsProved == ManageSpec => KeysChangeAsProved
<1> DEFINE Change(k) ==
      /\ owner'[k] # owner[k] =>
            \E c \in Callers : /\ Proved(c, owner'[k])
                               /\ call[c].ask \in {<<"issue">>, <<"rotate">>}
      /\ k \in active \ active' =>
            \E c \in Callers : /\ Proved(c, owner[k])
                               /\ call[c].ask \in {<<"rotate">>, <<"revoke", k>>}
<1>1. ASSUME CallsProved, NEW c \in Callers, Act(c), NEW k \in Keys,
             OwnersAreUsers
      PROVE  Change(k)
  <2> DEFINE u == call[c].user
  <2>1. Proved(c, u) /\ Serve(u, call[c].ask)
    BY <1>1 DEF Act, CallsProved, Good, Proved
  <2>2. CASE call[c].ask = <<"issue">> /\ \E j \in Keys : Ring!Issue(u, j)
    BY <1>1, <2>1, <2>2 DEF Ring!Issue, OwnersAreUsers
  <2>3. CASE call[c].ask = <<"rotate">> /\ \E j \in Keys : Ring!Rotate(u, j)
    BY <1>1, <2>1, <2>3 DEF Ring!Rotate, Ring!KeysOf, OwnersAreUsers
  <2>4. ASSUME NEW j \in Keys, call[c].ask = <<"revoke", j>>,
               IF owner[j] = u /\ j \in active THEN Ring!Revoke(j)
                                              ELSE UNCHANGED ring
        PROVE  Change(k)
    BY <2>1, <2>4 DEF Ring!Revoke, ring
  <2>5. QED
    BY <2>1, <2>2, <2>3, <2>4 DEF Serve
<1>2. CallsProved /\ OwnersAreUsers /\ [ManageNext]_manageVars
         => [\A k \in Keys : Change(k)]_ring
  <2> SUFFICES ASSUME CallsProved, OwnersAreUsers, [ManageNext]_manageVars
               PROVE  [\A k \in Keys : Change(k)]_ring
    OBVIOUS
  <2>1. CASE \E c \in Callers : Act(c)
    BY <1>1, <2>1
  <2>2. CASE UNCHANGED ring
    BY <2>2
  <2>3. QED
    BY <2>1, <2>2 DEF ManageNext, manageVars, Arrive, ReadBody, AdmitKeyCall,
                      Login, Refuse, ArriveBearer, Register, ManageRestart,
                      Meanwhile
<1>3. ManageSpec => [][\A k \in Keys : Change(k)]_ring
  BY <1>2, CallsProvedInvariant, OwnersInvariant, PTL DEF ManageSpec
<1>4. QED
  BY <1>3 DEF KeysChangeAsProved
=============================================================================
