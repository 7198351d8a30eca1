------------------------------- MODULE Manage -------------------------------
(***************************************************************************)
(* manage_auth.go, keys.go and POST /v1/auth: who may change whose keys.   *)
(*                                                                         *)
(* Sessions with the calls that open and use a session, put next to the    *)
(* key ring the wallet implements.  A management call proves whom it acts  *)
(* for by a signature of the request or by a session token, once, when it  *)
(* arrives; it acts one or two steps later, whatever happened meanwhile.   *)
(* The gateway remembers no signature: the same request may arrive again.  *)
(*                                                                         *)
(* A message stands for the text that is hashed and signed: what is asked  *)
(* for (method, path and body), when and for whom.  A signature is the     *)
(* message that was signed and by whom.                                    *)
(***************************************************************************)
EXTENDS Sessions

CONSTANTS Callers,   \* slots for concurrent signed or bearer calls
          Users,     \* account addresses
          NoUser,    \* the owner of a token that was never drawn
          Keys,      \* API keys that can be drawn; their prefixes differ
          NoOwner,   \* the owner of a key that was never issued
          Window,    \* ManageSignatureWindow
          Idle       \* what a caller's slot holds between two calls

ASSUME ManageAssumption ==
    Window \in Nat /\ NoUser \notin Users /\ NoOwner \notin Users

VARIABLES holder,      \* holder[t]: the user of token t's session
          registered,  \* the users with an account
          owner,       \* owner[k]: the user key k was issued to
          active,      \* the keys that are not revoked
          call         \* call[c]: how far the call in slot c has got

ring == <<owner, active>>
manageVars == <<vars, holder, registered, ring, call>>

\* Management calls never fail to write here: see Wallet.
Ring == INSTANCE KeyRing WITH Addrs <- Users, unsure <- {}, Failing <- FALSE

Times == 0 .. MaxTime

\* What may be asked for: a login until some time, or a change of keys.
Logins == {<<"login", until>> : until \in Untils}
KeyOps == {<<"issue">>, <<"rotate">>} \cup {<<"revoke", k>> : k \in Keys}

Signature(by, ask, ts, payer) ==
    [by |-> by, ask |-> ask, ts |-> ts, payer |-> payer]

ManageInit == /\ Init
              /\ holder = [t \in Tokens |-> NoUser]
              /\ registered = {}
              /\ Ring!Init
              /\ call = [c \in Callers |-> Idle]

-----------------------------------------------------------------------------
(* The state of a call.  `arrived` and `gone` remember when the proof was  *)
(* taken and which tokens were logged out for good by then; no decision    *)
(* reads them.                                                             *)

Waiting(payer, ask, ts) ==
    [at |-> "body", payer |-> payer, ask |-> ask, ts |-> ts, arrived |-> now]

Admitted(user, ask, proof, arrived, gone) ==
    [at |-> "act", user |-> user, ask |-> ask, proof |-> proof,
     arrived |-> arrived, gone |-> gone]

At(c, place) == call[c] # Idle /\ call[c].at = place

InWindow(ts) == now - ts <= Window /\ ts - now <= Window

\* A signed call arrives.  Only its time is looked at before its body.
Arrive(c, payer, ask, ts) ==
    /\ call[c] = Idle
    /\ InWindow(ts)
    /\ call' = [call EXCEPT ![c] = Waiting(payer, ask, ts)]
    /\ UNCHANGED <<vars, holder, registered, ring>>

\* (mutant) The path and the body are left out of the message.
SignsTimeOnly(s, q) == /\ s.by = q.payer
                       /\ s.payer = q.payer
                       /\ s.ts = q.ts
                       /\ (s.ask \in Logins <=> q.ask \in Logins)

\* The message rebuilt from the request is the one the payer signed.
Signs(s, q) == s = Signature(q.payer, q.ask, q.ts, q.payer)

\* A change of keys needs an account ...
AdmitKeyCall(c, s) ==
    /\ call[c].ask \in KeyOps
    /\ call[c].payer \in registered
    /\ call' = [call EXCEPT ![c] =
          Admitted(@.payer, @.ask, s, @.arrived, {})]
    /\ UNCHANGED <<vars, holder, registered, ring>>

\* ... a login needs none, and opens the session at once.
Login(c, h, t) ==
    /\ call[c].ask \in Logins
    /\ Create(h, t, call[c].ask[2])
    /\ holder' = [holder EXCEPT ![t] = call[c].payer]
    /\ call' = [call EXCEPT ![c] = Idle]
    /\ UNCHANGED <<registered, ring>>

Signatures == {Signature(by, ask, ts, payer) :
                  by \in Users, ask \in KeyOps \cup Logins,
                  ts \in Times, payer \in Users}

\* The body is there, and the signature is compared with all of the request.
ReadBody(c) ==
    /\ At(c, "body")
    /\ \E s \in Signatures :
          /\ Signs(s, call[c])
          /\ \/ AdmitKeyCall(c, s)
             \/ \E h \in Handlers, t \in Tokens : Login(c, h, t)

\* The signature does not fit, there is no account, or no session to open.
Refuse(c) ==
    /\ At(c, "body")
    /\ call' = [call EXCEPT ![c] = Idle]
    /\ UNCHANGED <<vars, holder, registered, ring>>

\* Whom a call with token t and header X-Payer acts for, if anybody.  A call
\* without the header acts for the holder, like one that names the holder.
SessionUser(t, payer) == IF payer = holder[t] THEN payer ELSE NoUser

\* A call comes with a token.  The session is extended either way.
ArriveBearer(c, t, payer, ask) ==
    /\ call[c] = Idle
    /\ Use(t)
    /\ LET user == SessionUser(t, payer)
       IN  call' = IF user \in registered
                   THEN [call EXCEPT ![c] =
                            Admitted(user, ask, t, now, ended \ unwritten)]
                   ELSE call
    /\ UNCHANGED <<holder, registered, ring>>

\* What the wallet does for user u; revoking nothing is answered 404.
Serve(u, ask) ==
    \/ ask = <<"issue">> /\ \E k \in Keys : Ring!Issue(u, k)
    \/ ask = <<"rotate">> /\ \E k \in Keys : Ring!Rotate(u, k)
    \/ \E k \in Keys :
          /\ ask = <<"revoke", k>>
          /\ IF owner[k] = u /\ k \in active THEN Ring!Revoke(k)
                                             ELSE UNCHANGED ring

Act(c) ==
    /\ At(c, "act")
    /\ Serve(call[c].user, call[c].ask)
    /\ call' = [call EXCEPT ![c] = Idle]
    /\ UNCHANGED <<vars, holder, registered>>

\* A topup opens an account.
Register(u) == /\ registered' = registered \cup {u}
               /\ UNCHANGED <<vars, holder, ring, call>>

\* Whatever was under way is lost.  Accounts and keys survive: see Wallet.
ManageRestart == /\ Restart
                 /\ call' = [c \in Callers |-> Idle]
                 /\ UNCHANGED <<holder, registered, ring>>

\* Everything else the session store does.
Meanwhile == /\ \/ \E h \in Handlers :
                      \/ \E t \in Tokens : Logout(h, t)
                      \/ LogCreate(h) \/ Revoke(h) \/ LogRevoke(h)
                \/ \E t \in Tokens : AlreadyGone(t)
                \/ Sweep \/ Tick
             /\ UNCHANGED <<holder, registered, ring, call>>

ManageNext ==
    \/ \E c \in Callers :
          \/ \E u \in Users, ask \in KeyOps \cup Logins, ts \in Times :
                Arrive(c, u, ask, ts)
          \/ ReadBody(c) \/ Refuse(c)
          \/ \E t \in Tokens, u \in Users, ask \in KeyOps :
                ArriveBearer(c, t, u, ask)
          \/ Act(c)
    \/ \E u \in Users : Register(u)
    \/ ManageRestart
    \/ Meanwhile

ManageSpec == ManageInit /\ [][ManageNext]_manageVars

-----------------------------------------------------------------------------
(* Properties.                                                             *)

\* Call q was signed by u, for a time around its arrival.
SignedBy(u, q) == /\ q.proof \in Signatures
                  /\ q.proof = Signature(u, q.ask, q.proof.ts, u)
                  /\ q.arrived - q.proof.ts \in -Window .. Window

\* Call q came with a session of u, neither logged out nor too old by then.
\* A logout that is not written down does not count: a restart forgets it.
OpenedBy(u, q) == /\ q.proof \in Tokens
                  /\ q.proof \notin q.gone
                  /\ holder[q.proof] = u
                  /\ q.arrived <= born[q.proof] + MaxLifetime

\* Slot c holds a call of user u that was proved to be theirs when it came.
Proved(c, u) == /\ At(c, "act")
                /\ call[c].user = u /\ u \in registered
                /\ SignedBy(u, call[c]) \/ OpenedBy(u, call[c])

(* A user's keys change only by a call of that user that asked for this    *)
(* very change, and that user signed it for a time around its arrival or   *)
(* opened a session that had not been logged out, by a logout written      *)
(* down, when it arrived, nor was older than a session may be - over       *)
(* restarts, half-done logouts, bodies that come late and requests that    *)
(* come twice (manage_auth.go:22-24, 106-134, 140-221; keys.go:52-75).     *)
KeysChangeAsProved ==
    [][\A k \in Keys :
          /\ owner'[k] # owner[k] =>
                \E c \in Callers : /\ Proved(c, owner'[k])
                                   /\ call[c].ask \in {<<"issue">>, <<"rotate">>}
          /\ k \in active \ active' =>
                \E c \in Callers : /\ Proved(c, owner[k])
                                   /\ call[c].ask \in {<<"rotate">>, <<"revoke", k>>}
      ]_ring

=============================================================================
