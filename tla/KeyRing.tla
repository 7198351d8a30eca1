------------------------------ MODULE KeyRing -------------------------------
(***************************************************************************)
(* What the wallet promises about API keys: a key is issued once, to one   *)
(* owner, for good; rotating an owner's keys retires all of them and       *)
(* touches nobody else's; revoking a key is final.  The one exception is   *)
(* part of the promise: a rotation may fail to record that it retired a    *)
(* key (`unsure`), and a restart brings exactly those keys back.  Nothing  *)
(* else about a restart is visible.                                        *)
(***************************************************************************)
CONSTANTS Addrs,    \* account addresses
          Keys,     \* hashes of the keys that can be drawn
          NoOwner,  \* the owner of a key that was never issued
          Failing   \* whether writing to the file may fail

VARIABLES owner,    \* owner[k]: the address key k was issued to
          active,   \* the keys bearer authentication accepts
          unsure    \* the retired keys that the file does not know retired

vars == <<owner, active, unsure>>

KeysOf(a) == {k \in Keys : owner[k] = a}

Init == /\ owner = [k \in Keys |-> NoOwner]
        /\ active = {}
        /\ unsure = {}

Issue(a, k) == /\ owner[k] = NoOwner
               /\ owner' = [owner EXCEPT ![k] = a]
               /\ active' = active \cup {k}
               /\ UNCHANGED unsure

\* Revoking one key is recorded, or not done.
Revoke(k) == /\ k \in active
             /\ active' = active \ {k}
             /\ UNCHANGED <<owner, unsure>>

\* Retiring the keys of an owner may go unrecorded for some of them.
Retire(a) == \E U \in SUBSET (KeysOf(a) \cap active) :
                /\ Failing \/ U = {}
                /\ unsure' = unsure \cup U

\* Rotation retires every key of the owner and issues one more ...
Rotate(a, k) == /\ owner[k] = NoOwner
                /\ owner' = [owner EXCEPT ![k] = a]
                /\ active' = (active \ KeysOf(a)) \cup {k}
                /\ Retire(a)

\* ... unless the new key cannot be recorded: the old ones are gone anyway.
RotateFails(a) == /\ Failing
                  /\ active' = active \ KeysOf(a)
                  /\ Retire(a)
                  /\ UNCHANGED owner

\* The process starts again from what was recorded.
Restart == /\ active' = active \cup unsure
           /\ unsure' = {}
           /\ UNCHANGED owner

Next == \/ \E a \in Addrs, k \in Keys : Issue(a, k) \/ Rotate(a, k)
        \/ \E k \in Keys : Revoke(k)
        \/ \E a \in Addrs : RotateFails(a)
        \/ Restart

Spec == Init /\ [][Next]_vars
=============================================================================
