------------------------------- MODULE Config -------------------------------
(***************************************************************************)
(* The configuration and how the management page changes it: updateConfig, *)
(* updatePricing and updateSecrets (proxy.go), and what the next start     *)
(* loads (run.go).                                                         *)
(*                                                                         *)
(* A save reads what it does not change under the read lock of Proxy.Mu,   *)
(* releases it, and writes the file and the running settings under the     *)
(* write lock; other saves run in between.  The upstream list and the app  *)
(* selectors are handled alike and stand together as the list, told apart  *)
(* by the one secret it refers to: credentials never reach the file, which *)
(* has a reference in their place.  A submission that is not valid is      *)
(* refused before anything changes and is no step.                         *)
(***************************************************************************)
EXTENDS Integers

CONSTANTS Handlers,   \* slots for concurrent saves
          Keys,       \* keys of secrets
          NoKey,      \* a list that needs no secret
          Prices,     \* price tables
          FirstPrices,\* the one of the first start
          Keep,       \* a part the submission does not have
          NoDraft,    \* what an idle slot holds
          Torn        \* a file that was truncated and not written again

Lists == Keys \cup {NoKey}

Settings == [list : Lists, prices : Prices]

ASSUME ConfigAssumption ==
    /\ NoKey \notin Keys
    /\ FirstPrices \in Prices
    /\ Keep \notin Lists \cup Prices
    /\ Torn \notin Settings /\ NoDraft \notin Settings

VARIABLES running,  \* Proxy.Upstreams, AppSelectors and Pricing
          file,     \* config.yaml
          rates,    \* sessionHub.pricing, the table the stats are priced with
          secrets,  \* keys of Proxy.SecretValues
          pc,       \* pc[h]: what save h is about to write
          draft,    \* draft[h]: the settings it will write
          values,   \* values[h]: the secrets it will leave behind
          stale     \* stale[h]: something was saved since h read

settings == <<running, file, rates, secrets>>
saves == <<pc, draft, values, stale>>
vars == <<settings, saves>>

-----------------------------------------------------------------------------
Init == /\ running = [list |-> NoKey, prices |-> FirstPrices]
        /\ file = running
        /\ rates = FirstPrices
        /\ secrets = {}
        /\ pc = [h \in Handlers |-> "idle"]
        /\ draft = [h \in Handlers |-> NoDraft]
        /\ values = [h \in Handlers |-> {}]
        /\ stale = [h \in Handlers |-> FALSE]

\* Save h has read the settings and will write d, and leave v as the secrets.
Prepare(h, kind, d, v) ==
    /\ pc[h] = "idle"
    /\ pc' = [pc EXCEPT ![h] = kind]
    /\ draft' = [draft EXCEPT ![h] = d]
    /\ values' = [values EXCEPT ![h] = v]
    /\ stale' = [stale EXCEPT ![h] = FALSE]
    /\ UNCHANGED settings

\* Save h is over; if it wrote, what the others read is out of date.
Finish(h, kind, wrote) ==
    /\ pc[h] = kind
    /\ pc' = [pc EXCEPT ![h] = "idle"]
    /\ draft' = [draft EXCEPT ![h] = NoDraft]
    /\ values' = [values EXCEPT ![h] = {}]
    /\ stale' = [g \in Handlers |-> g # h /\ (stale[g] \/ wrote)]

\* newSecretKey never draws a key that is in use anywhere.
Mentioned == {running.list, IF file = Torn THEN NoKey ELSE file.list}
                \cup secrets \cup UNION {values[h] : h \in Handlers}
                \cup {IF draft[h] = NoDraft THEN NoKey ELSE draft[h].list :
                         h \in Handlers}

\* (mutant) Only the secrets of this submission are kept.
ExternalizedOnly(k) == {k}

\* externalizeSecrets: a literal credential is stored under the key of its
\* value, a new one if nobody has it, and the rest is kept.
Externalized(k) == secrets \cup {k}

Or(part, default) == IF part = Keep THEN default ELSE part

\* The list and the prices of a submission, as far as it has them.
Merged(l, p) == [list |-> Or(l, running.list), prices |-> Or(p, running.prices)]

\* updateConfig reads: the list comes with a credential, or refers to one
\* the browser may have yet to submit, or needs none, or is absent.
ReadConfig(h, p) ==
    \/ \E k \in Keys :
          /\ k \in secrets \/ k \notin Mentioned
          /\ Prepare(h, "config", Merged(k, p), Externalized(k))
    \/ \E l \in Lists \cup {Keep} :
          Prepare(h, "config", Merged(l, p), secrets)

\* (mutant) The hub goes on with the table it has.
SaveConfigQuietly(h) ==
    /\ Finish(h, "config", TRUE)
    /\ file' = draft[h] /\ running' = draft[h]
    /\ secrets' = values[h]
    /\ UNCHANGED rates

\* ... and writes the file, then everything else under the same lock.
SaveConfig(h) ==
    /\ Finish(h, "config", TRUE)
    /\ file' = draft[h] /\ running' = draft[h]
    /\ rates' = draft[h].prices
    /\ secrets' = values[h]

\* updatePricing reads all but the prices ...
ReadPricing(h, p) ==
    Prepare(h, "prices", [list |-> running.list, prices |-> p], {})

\* ... and writes all of it to the file, the prices to the running settings.
SavePricing(h) ==
    /\ Finish(h, "prices", TRUE)
    /\ file' = draft[h]
    /\ running' = [running EXCEPT !.prices = draft[h].prices]
    /\ rates' = draft[h].prices
    /\ UNCHANGED secrets

\* The file cannot be written, and is left as it was or truncated; nothing
\* else changes.
SaveFails(h) ==
    /\ \E kind \in {"config", "prices"} : Finish(h, kind, FALSE)
    /\ file' \in {file, Torn}
    /\ UNCHANGED <<running, rates, secrets>>

\* updateSecrets: the browser brings a credential it keeps.
UpdateSecrets(k) ==
    /\ k \notin secrets
    /\ secrets' = secrets \cup {k}
    /\ stale' = [h \in Handlers |-> pc[h] # "idle"]
    /\ UNCHANGED <<running, file, rates, pc, draft, values>>

\* The gateway stops and starts again; it refuses an empty file.  (A file cut
\* where it still parses is left out.)
Restart ==
    /\ file # Torn
    /\ running' = file /\ rates' = file.prices
    /\ secrets' = {}
    /\ pc' = [h \in Handlers |-> "idle"]
    /\ draft' = [h \in Handlers |-> NoDraft]
    /\ values' = [h \in Handlers |-> {}]
    /\ stale' = [h \in Handlers |-> FALSE]
    /\ UNCHANGED file

Saving ==
    \/ \E h \in Handlers :
          \/ \E p \in Prices \cup {Keep} : ReadConfig(h, p)
          \/ \E p \in Prices : ReadPricing(h, p)
          \/ SaveConfig(h) \/ SavePricing(h) \/ SaveFails(h)
    \/ \E k \in Keys : UpdateSecrets(k)

Next == Saving \/ Restart

Spec == Init /\ [][Next]_vars

-----------------------------------------------------------------------------
(* Every variable stays within its type: what a submission leaves out was  *)
(* filled in before it is saved (proxy.go:1503-1515).                      *)
TypeOK ==
    /\ running \in Settings /\ file \in Settings \cup {Torn}
    /\ rates \in Prices /\ secrets \subseteq Keys
    /\ pc \in [Handlers -> {"idle", "config", "prices"}]
    /\ draft \in [Handlers -> Settings \cup {NoDraft}]
    /\ values \in [Handlers -> SUBSET Keys]
    /\ stale \in [Handlers -> BOOLEAN]
    /\ \A h \in Handlers : pc[h] = "idle" <=> draft[h] = NoDraft

(* The running prices, the ones the stats are priced with and the ones the *)
(* next start will load are the same table, however saves overlap and fail *)
(* (proxy.go:1536-1548, 1642-1650, run.go:135-138).                        *)
PricesAgree ==
    /\ rates = running.prices
    /\ file # Torn => file.prices = running.prices

(* A save nobody overtook leaves the file and the running settings equal,  *)
(* loses no secret, and a price save leaves the list alone: only a save    *)
(* that another one overtook can lose anything (proxy.go:1502-1548,        *)
(* 1611-1650).                                                             *)
FreshSaveLosesNothing ==
    [][\A h \in Handlers :
          (SaveConfig(h) \/ SavePricing(h)) /\ ~stale[h] =>
             /\ file' = running'
             /\ secrets \subseteq secrets'
             /\ pc[h] = "prices" => running'.list = running.list]_vars
=============================================================================
