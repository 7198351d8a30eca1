---------------------------- MODULE ConfigProofs ----------------------------
(***************************************************************************)
(* What holds of Config for any number of concurrent saves, secrets and    *)
(* price tables: the three copies of the prices agree, and only a save     *)
(* that another one overtook can lose anything.  The second needs what a   *)
(* save nobody overtook may assume of the settings it read before it let   *)
(* go of the lock (DraftsAreFresh).                                        *)
(*                                                                         *)
(* And what holds of Router for any selectors, rules and upstreams: a      *)
(* request is routed by the configuration it came under, and the body that *)
(* is sent is what the rewrites make of the one that came.  The second is  *)
(* an induction on the rewrites (SetOfNaturals): each keeps what holds of  *)
(* those before it (OneMoreRewrite).                                       *)
(***************************************************************************)
EXTENDS Router, SequenceTheorems, WellFoundedInduction, TLAPS

\* As long as nothing was saved, what a save read is what is there.
DraftsAreFresh ==
    \A h \in Handlers :
        ~stale[h] =>
           /\ pc[h] = "prices" => draft[h].list = running.list
           /\ pc[h] = "config" => secrets \subseteq values[h]

IInv == TypeOK /\ PricesAgree /\ DraftsAreFresh

-----------------------------------------------------------------------------
LEMMA InitIInv == Init => IInv
<1> USE ConfigAssumption DEF Init, Settings, Lists
<1>1. Init => TypeOK
  BY DEF TypeOK
<1>2. Init => PricesAgree
  BY DEF PricesAgree
<1>3. Init => DraftsAreFresh
  BY DEF DraftsAreFresh
<1>4. QED
  BY <1>1, <1>2, <1>3 DEF IInv

\* A submission is completed to whole settings (Or, proxy.go:1505-1515).
LEMMA MergedIsWhole ==
    ASSUME TypeOK, NEW l \in Lists \cup {Keep}, NEW p \in Prices \cup {Keep}
    PROVE  Merged(l, p) \in Settings
<1>1. running.list \in Lists /\ running.prices \in Prices
  BY DEF TypeOK, Settings
<1>2. Or(l, running.list) \in Lists /\ Or(p, running.prices) \in Prices
  BY <1>1 DEF Or
<1>3. QED
  BY <1>2 DEF Merged, Settings

\* Reading the settings touches nothing but the slot of the save.
LEMMA PrepareIInv ==
    ASSUME IInv, NEW h \in Handlers, NEW kind \in {"config", "prices"},
           NEW d \in Settings, NEW v \in SUBSET Keys, Prepare(h, kind, d, v),
           kind = "prices" => d.list = running.list,
           kind = "config" => secrets \subseteq v
    PROVE  IInv'
<1> USE ConfigAssumption DEF IInv, Prepare, settings
<1>1. TypeOK'
  <2>1. pc' \in [Handlers -> {"idle", "config", "prices"}]
    BY DEF TypeOK
  <2>2. draft' \in [Handlers -> Settings \cup {NoDraft}]
    BY DEF TypeOK
  <2>3. values' \in [Handlers -> SUBSET Keys] /\ stale' \in [Handlers -> BOOLEAN]
    BY DEF TypeOK
  <2>4. ASSUME NEW g \in Handlers
        PROVE  pc'[g] = "idle" <=> draft'[g] = NoDraft
    BY DEF TypeOK
  <2>5. QED
    BY <2>1, <2>2, <2>3, <2>4 DEF TypeOK
<1>2. PricesAgree'
  BY DEF PricesAgree
<1>3. DraftsAreFresh'
  BY DEF TypeOK, DraftsAreFresh
<1>4. QED
  BY <1>1, <1>2, <1>3

\* A save that is over frees its slot; the others are stale if it wrote.
LEMMA FinishTypes ==
    ASSUME TypeOK, NEW h \in Handlers, NEW kind, NEW wrote \in BOOLEAN,
           Finish(h, kind, wrote)
    PROVE  /\ pc' \in [Handlers -> {"idle", "config", "prices"}]
           /\ draft' \in [Handlers -> Settings \cup {NoDraft}]
           /\ values' \in [Handlers -> SUBSET Keys]
           /\ stale' \in [Handlers -> BOOLEAN]
           /\ \A g \in Handlers : pc'[g] = "idle" <=> draft'[g] = NoDraft
           /\ \A g \in Handlers : stale'[g] \/ pc'[g] = "idle" \/ ~wrote
BY DEF TypeOK, Finish

LEMMA DraftOf ==
    ASSUME TypeOK, NEW h \in Handlers, pc[h] # "idle"
    PROVE  /\ draft[h] \in Settings
           /\ draft[h].prices \in Prices /\ draft[h].list \in Lists
BY DEF TypeOK, Settings

-----------------------------------------------------------------------------
LEMMA SaveIInv ==
    ASSUME IInv, NEW h \in Handlers, SaveConfig(h) \/ SavePricing(h)
    PROVE  IInv'
<1> USE DEF IInv
<1>1. PICK kind \in {"config", "prices"} : Finish(h, kind, TRUE) /\ pc[h] = kind
  BY DEF SaveConfig, SavePricing, Finish
<1>2. /\ draft[h] \in Settings
      /\ draft[h].prices \in Prices /\ draft[h].list \in Lists
  BY <1>1, DraftOf
<1>3. /\ running' \in Settings /\ file' = draft[h]
      /\ running'.prices = draft[h].prices /\ rates' = draft[h].prices
      /\ secrets' \subseteq Keys
  <2>1. CASE SaveConfig(h)
    BY <1>2, <2>1 DEF SaveConfig, TypeOK
  <2>2. CASE SavePricing(h)
    BY <1>2, <2>2 DEF SavePricing, TypeOK, Settings
  <2>3. QED
    BY <2>1, <2>2
<1>4. TypeOK'
  BY <1>1, <1>2, <1>3, FinishTypes DEF TypeOK
<1>5. PricesAgree'
  BY <1>3 DEF PricesAgree
<1>6. DraftsAreFresh'
  BY <1>1, FinishTypes DEF DraftsAreFresh
<1>7. QED
  BY <1>4, <1>5, <1>6

LEMMA SaveFailsIInv ==
    ASSUME IInv, NEW h \in Handlers, SaveFails(h)
    PROVE  IInv'
<1> USE DEF IInv, SaveFails
<1>1. PICK kind \in {"config", "prices"} : Finish(h, kind, FALSE)
  OBVIOUS
<1>2. TypeOK'
  BY <1>1, FinishTypes DEF TypeOK
<1>3. PricesAgree'
  BY DEF PricesAgree
<1>4. DraftsAreFresh'
  <2> SUFFICES ASSUME NEW g \in Handlers, ~stale'[g], pc'[g] # "idle"
               PROVE  /\ pc'[g] = "prices" => draft'[g].list = running'.list
                      /\ pc'[g] = "config" => secrets' \subseteq values'[g]
    BY DEF DraftsAreFresh
  <2>1. g # h
    BY <1>1 DEF Finish, TypeOK
  <2>2. ~stale[g] /\ pc'[g] = pc[g] /\ draft'[g] = draft[g] /\ values'[g] = values[g]
    BY <1>1, <2>1 DEF Finish, TypeOK
  <2>3. QED
    BY <2>2 DEF DraftsAreFresh
<1>5. QED
  BY <1>2, <1>3, <1>4

LEMMA StepIInv == IInv /\ [Next]_vars => IInv'
<1> SUFFICES ASSUME IInv, [Next]_vars
             PROVE  IInv'
  OBVIOUS
<1>0. TypeOK
  BY DEF IInv
<1>1. CASE UNCHANGED vars
  BY <1>1 DEF vars, settings, saves, IInv, TypeOK, PricesAgree, DraftsAreFresh
<1>2. ASSUME NEW h \in Handlers, NEW p \in Prices \cup {Keep}, ReadConfig(h, p)
      PROVE  IInv'
  <2>1. ASSUME NEW k \in Keys, Prepare(h, "config", Merged(k, p), Externalized(k))
        PROVE  IInv'
    <3>1. Merged(k, p) \in Settings
      BY <1>0, MergedIsWhole DEF Lists
    <3>2. Externalized(k) \in SUBSET Keys /\ secrets \subseteq Externalized(k)
      BY <1>0 DEF Externalized, TypeOK
    <3>3. QED
      BY <2>1, <3>1, <3>2, PrepareIInv
  <2>2. ASSUME NEW l \in Lists \cup {Keep},
               Prepare(h, "config", Merged(l, p), secrets)
        PROVE  IInv'
    <3>1. Merged(l, p) \in Settings /\ secrets \in SUBSET Keys
      BY <1>0, MergedIsWhole DEF TypeOK
    <3>2. QED
      BY <2>2, <3>1, PrepareIInv
  <2>3. QED
    BY <1>2, <2>1, <2>2 DEF ReadConfig
<1>3. ASSUME NEW h \in Handlers, NEW p \in Prices, ReadPricing(h, p)
      PROVE  IInv'
  <2> DEFINE d == [list |-> running.list, prices |-> p]
  <2>1. d \in Settings /\ d.list = running.list
    BY <1>0 DEF TypeOK, Settings
  <2>2. Prepare(h, "prices", d, {})
    BY <1>3 DEF ReadPricing
  <2> HIDE DEF d
  <2>3. QED
    BY <2>1, <2>2, PrepareIInv
<1>4. ASSUME NEW k \in Keys, UpdateSecrets(k)
      PROVE  IInv'
  BY <1>4 DEF UpdateSecrets, IInv, TypeOK, PricesAgree, DraftsAreFresh
<1>5. CASE Restart
  <2>1. file \in Settings /\ file.prices \in Prices
    BY <1>0, <1>5 DEF Restart, TypeOK, Settings
  <2>2. QED
    BY <1>5, <2>1 DEF Restart, IInv, TypeOK, PricesAgree, DraftsAreFresh
<1>6. QED
  BY <1>1, <1>2, <1>3, <1>4, <1>5, SaveIInv, SaveFailsIInv DEF Next, Saving

-----------------------------------------------------------------------------
(* IInv is an invariant, however many saves overlap and whichever of them  *)
(* fail (updateConfig, updatePricing, updateSecrets).                      *)
THEOREM ConfigInvariant == Spec => []IInv
BY InitIInv, StepIInv, PTL DEF Spec

(* Every variable stays within its type: what a submission leaves out was  *)
(* filled in before it is saved (proxy.go:1503-1515).                      *)
THEOREM ConfigTypeOK == Spec => []TypeOK
<1>1. IInv => TypeOK
  BY DEF IInv
<1>2. QED
  BY <1>1, ConfigInvariant, PTL

(* The running prices, the ones the stats are priced with and the ones the *)
(* next start loads are one table (proxy.go:1536-1548, 1641-1648).         *)
THEOREM ConfigPricesAgree == Spec => []PricesAgree
<1>1. IInv => PricesAgree
  BY DEF IInv
<1>2. QED
  BY <1>1, ConfigInvariant, PTL

(* A save nobody overtook loses nothing: neither a secret nor, if it saves *)
(* prices, a list (proxy.go:1502-1548, 1611-1650).                         *)
THEOREM ConfigFreshSaveLosesNothing == Spec => FreshSaveLosesNothing
<1>1. ASSUME IInv, [Next]_vars, NEW h \in Handlers,
             SaveConfig(h) \/ SavePricing(h), ~stale[h]
      PROVE  /\ file' = running'
             /\ secrets \subseteq secrets'
             /\ pc[h] = "prices" => running'.list = running.list
  <2>1. CASE SaveConfig(h)
    BY <1>1, <2>1 DEF SaveConfig, Finish, IInv, DraftsAreFresh
  <2>2. CASE SavePricing(h)
    <3>1. /\ pc[h] = "prices"
          /\ draft[h].list = running.list
          /\ draft[h] \in Settings /\ running \in Settings
      BY <1>1, <2>2, DraftOf
         DEF SavePricing, Finish, IInv, DraftsAreFresh, TypeOK
    <3>2. running' = draft[h] /\ running'.list = running.list
      BY <2>2, <3>1 DEF SavePricing, Settings
    <3>3. QED
      BY <2>2, <3>2 DEF SavePricing
  <2>3. QED
    BY <1>1, <2>1, <2>2
<1>2. IInv /\ [Next]_vars =>
         [\A h \in Handlers :
             (SaveConfig(h) \/ SavePricing(h)) /\ ~stale[h] =>
                /\ file' = running'
                /\ secrets \subseteq secrets'
                /\ pc[h] = "prices" => running'.list = running.list]_vars
  BY <1>1
<1>3. QED
  BY <1>2, ConfigInvariant, PTL DEF Spec, FreshSaveLosesNothing

-----------------------------------------------------------------------------
(* Routing changes no setting: what holds of the saves alone holds with    *)
(* requests among them.                                                    *)
THEOREM RouterImplementsConfig == RouterSpec => Spec
<1>1. RouterInit => Init
  BY DEF RouterInit
<1>2. [RouterNext]_routerVars => [Next]_vars
  BY DEF RouterNext, routerVars, Serve, Copy, Route, ConfigError,
         TransportError, Response, Exhausted, Done, Next
<1>3. QED
  BY <1>1, <1>2, PTL DEF RouterSpec, Spec

\* A rule means the same with its regex compiled and while it is nil.
LEMMA CompiledOrNot ==
    ASSUME NEW l, NEW r, NEW compiled
    PROVE  Routed(l, r, compiled) = Routed(l, r, TRUE)
BY DEF Routed, Matching, SelectorMatches, RuleHolds, Passes, Language

LEMMA RoutedPlaces ==
    ASSUME NEW l \in Lists, NEW r, NEW compiled
    PROVE  Routed(l, r, compiled) \subseteq Nat
<1>1. DOMAIN Table[l].upstreams = 1..Len(Table[l].upstreams)
      /\ Len(Table[l].upstreams) \in Nat
  BY RouterAssumption
<1>2. QED
  BY <1>1 DEF Routed

\* The request is a record of the shape its place in ServeHTTP gives it, and
\* was copied from a list there is.
Shape ==
    request # Nobody =>
        /\ request.list \in Lists
        /\ request.at \in {"copied", "trying", "answered"}
        /\ request.at = "copied" =>
              request = [at |-> "copied", list |-> request.list,
                         asked |-> request.asked]
        /\ request.at = "trying" =>
              request = [at |-> "trying", list |-> request.list,
                         asked |-> request.asked, left |-> request.left,
                         tried |-> request.tried, cause |-> request.cause,
                         body |-> request.body]
        /\ request.at = "answered" =>
              request = [at |-> "answered", with |-> request.with,
                         list |-> request.list, asked |-> request.asked,
                         tried |-> request.tried]

RouterIInv ==
    Shape /\ RoutedAsConfigured /\ RetriedOnlyUnanswered /\ ExhaustedHasCause

\* With the first place of what is left tried, everything tried is still
\* before everything left, and that place is the last one tried.
LEMMA NextPlace ==
    ASSUME NEW S, S \subseteq Nat, NEW T, T \subseteq S, NEW i \in S \ T,
           \A m \in T, n \in S \ T : m < n, \A j \in S \ T : i <= j
    PROVE  /\ \A m \in T \cup {i}, n \in S \ (T \cup {i}) : m < n
           /\ \A m, n \in T \cup {i} : m < n => m # i
OBVIOUS

LEMMA GoOnRouterIInv ==
    ASSUME RouterIInv, NEW i, Trying(i), NEW how \in {"locked", "unreachable",
           "unavailable"}, NEW cause \in BOOLEAN, GoOn(i, how, cause),
           request.left = {i} => cause
    PROVE  RouterIInv'
<1> DEFINE routed == Routed(request.list, request.asked, TRUE)
           tried == DOMAIN request.tried
<1>1. /\ request # Nobody /\ request.at = "trying" /\ request.list \in Lists
      /\ request = [at |-> "trying", list |-> request.list,
                     asked |-> request.asked, left |-> request.left,
                     tried |-> request.tried, cause |-> request.cause,
                     body |-> request.body]
      /\ i \in request.left /\ \A j \in request.left : i <= j
  BY DEF Trying, RouterIInv, Shape
<1>2. request' = [at |-> "trying", list |-> request.list,
                  asked |-> request.asked, left |-> request.left \ {i},
                  tried |-> Tried(i, how), cause |-> request.cause \/ cause,
                  body |-> request.body]
  BY <1>1 DEF GoOn
<1>3. /\ tried \subseteq routed /\ request.left = routed \ tried
      /\ \A m \in tried, n \in routed \ tried : m < n
      /\ routed # {}
  BY <1>1 DEF RouterIInv, RoutedAsConfigured
<1>4. routed \subseteq Nat
  BY <1>1, RoutedPlaces
<1>5. /\ DOMAIN Tried(i, how) = tried \cup {i}
      /\ Tried(i, how)[i] = how
      /\ \A j \in tried : j # i => Tried(i, how)[j] = request.tried[j]
  BY DEF Tried
<1> HIDE DEF routed, tried
<1>6. Shape'
  BY <1>1, <1>2 DEF Shape
<1>7. RoutedAsConfigured'
  <2>1. tried \cup {i} \subseteq routed /\ routed # {}
        /\ request.left \ {i} = routed \ (tried \cup {i})
    BY <1>1, <1>3
  <2>2. \A m \in tried \cup {i}, n \in routed \ (tried \cup {i}) : m < n
    BY <1>1, <1>3, <1>4, NextPlace
  <2>3. QED
    BY <1>2, <1>5, <2>1, <2>2 DEF RoutedAsConfigured, routed
<1>8. RetriedOnlyUnanswered'
  <2>1. \A j \in tried : request.tried[j] \notin {"fine", "bad"}
    BY <1>1 DEF RouterIInv, RetriedOnlyUnanswered, tried
  <2>2. \A j \in tried \cup {i} : Tried(i, how)[j] \notin {"fine", "bad"}
    BY <1>5, <2>1
  <2>3. QED
    BY <1>2, <1>5, <2>2 DEF RetriedOnlyUnanswered
<1>9. ExhaustedHasCause'
  BY <1>1, <1>2 DEF ExhaustedHasCause
<1>10. QED
  BY <1>6, <1>7, <1>8, <1>9 DEF RouterIInv

\* A response that is passed on ends the request.
LEMMA PassedOnRouterIInv ==
    ASSUME RouterIInv, NEW i, Trying(i),
           NEW status \in {"fine", "bad", "unavailable"},
           status = "unavailable" => request.left = {i},
           Answer("passed on", Tried(i, status))
    PROVE  RouterIInv'
<1> DEFINE routed == Routed(request.list, request.asked, TRUE)
           tried == DOMAIN request.tried
<1>1. /\ request # Nobody /\ request.at = "trying" /\ request.list \in Lists
      /\ i \in request.left /\ \A j \in request.left : i <= j
  BY DEF Trying, RouterIInv, Shape
<1>2. request' = [at |-> "answered", with |-> "passed on",
                  list |-> request.list, asked |-> request.asked,
                  tried |-> Tried(i, status)]
  BY DEF Answer
<1>3. /\ tried \subseteq routed /\ request.left = routed \ tried
      /\ \A m \in tried, n \in routed \ tried : m < n
      /\ routed # {}
  BY <1>1 DEF RouterIInv, RoutedAsConfigured
<1>4. routed \subseteq Nat
  BY <1>1, RoutedPlaces
<1>5. /\ DOMAIN Tried(i, status) = tried \cup {i}
      /\ Tried(i, status)[i] = status
      /\ \A j \in tried : j # i => Tried(i, status)[j] = request.tried[j]
  BY DEF Tried
<1>6. \A j \in tried : request.tried[j] \notin {"fine", "bad"}
  BY <1>1 DEF RouterIInv, RetriedOnlyUnanswered
<1> HIDE DEF routed, tried
<1>7. Shape'
  BY <1>1, <1>2 DEF Shape
<1>8. RoutedAsConfigured'
  <2>1. tried \cup {i} \subseteq routed /\ routed # {}
    BY <1>1, <1>3
  <2>2. i \in routed \ tried /\ \A j \in routed \ tried : i <= j
    BY <1>1, <1>3, Zenon
  <2>3. \A m \in tried \cup {i}, n \in routed \ (tried \cup {i}) : m < n
    BY <2>2, <1>3, <1>4, NextPlace
  <2>4. QED
    BY <1>2, <1>5, <2>1, <2>3 DEF RoutedAsConfigured, routed
<1>9. RetriedOnlyUnanswered'
  <2>1. ASSUME NEW m \in tried \cup {i}, NEW n \in tried \cup {i}, m < n
        PROVE  Tried(i, status)[m] \notin {"fine", "bad"}
    <3>1. m # i
      BY <2>1, <1>1, <1>3, <1>4, NextPlace
    <3>2. QED
      BY <3>1, <1>5, <1>6
  <2>2. \/ Tried(i, status)[i] \in {"fine", "bad"}
        \/ tried \cup {i} = routed
    BY <1>1, <1>3, <1>5
  <2>3. QED
    BY <1>2, <1>5, <2>1, <2>2 DEF RetriedOnlyUnanswered, routed
<1>10. ExhaustedHasCause'
  BY <1>2 DEF ExhaustedHasCause
<1>11. QED
  BY <1>7, <1>8, <1>9, <1>10 DEF RouterIInv

LEMMA RouterStep ==
    ASSUME RouterIInv, TypeOK, [RouterNext]_routerVars
    PROVE  RouterIInv'
<1>1. CASE UNCHANGED request
  BY <1>1 DEF RouterIInv, Shape, RoutedAsConfigured, RetriedOnlyUnanswered,
              ExhaustedHasCause
<1>2. CASE request' = Nobody
  BY <1>2 DEF RouterIInv, Shape, RoutedAsConfigured, RetriedOnlyUnanswered,
              ExhaustedHasCause
<1>3. ASSUME NEW r \in Requests, Copy(r)
      PROVE  RouterIInv'
  <2>1. running.list \in Lists
    BY DEF TypeOK, Settings
  <2>2. request' = [at |-> "copied", list |-> running.list, asked |-> r]
    BY <1>3 DEF Copy
  <2>3. QED
    BY <2>1, <2>2 DEF RouterIInv, Shape, RoutedAsConfigured,
                      RetriedOnlyUnanswered, ExhaustedHasCause
<1>4. CASE Route
  <2>1. request # Nobody /\ request.list \in Lists
    BY <1>4 DEF Route, RouterIInv, Shape
  <2>2. PICK compiled :
           LET l == request.list
               r == request.asked
               routed == Routed(l, r, compiled)
           IN  IF routed = {} THEN Answer("no route", <<>>)
               ELSE request' = [at |-> "trying", list |-> l, asked |-> r,
                                left |-> routed, tried |-> <<>>, cause |-> FALSE,
                                body |-> Body(l, r, compiled)]
    BY <1>4 DEF Route
  <2> DEFINE routed == Routed(request.list, request.asked, TRUE)
  <2>3. Routed(request.list, request.asked, compiled) = routed
    BY CompiledOrNot
  <2>4. DOMAIN <<>> = {}
    OBVIOUS
  <2>5. CASE routed = {}
    <3>1. request' = [at |-> "answered", with |-> "no route",
                      list |-> request.list, asked |-> request.asked,
                      tried |-> <<>>]
      BY <2>2, <2>3, <2>5 DEF Answer
    <3>2. QED
      BY <2>1, <2>4, <2>5, <3>1 DEF RouterIInv, Shape, RoutedAsConfigured,
                                    RetriedOnlyUnanswered, ExhaustedHasCause
  <2>6. CASE routed # {}
    <3>1. request' = [at |-> "trying", list |-> request.list,
                      asked |-> request.asked, left |-> routed, tried |-> <<>>,
                      cause |-> FALSE,
                      body |-> Body(request.list, request.asked, compiled)]
      BY <2>2, <2>3, <2>6
    <3> HIDE DEF routed
    <3>2. Shape' /\ RetriedOnlyUnanswered' /\ ExhaustedHasCause'
      BY <2>1, <2>4, <2>6, <3>1 DEF Shape, RetriedOnlyUnanswered,
                                    ExhaustedHasCause
    <3>3. RoutedAsConfigured'
      BY <2>4, <2>6, <3>1 DEF RoutedAsConfigured, routed
    <3>4. QED
      BY <3>2, <3>3 DEF RouterIInv
  <2>7. QED
    BY <2>5, <2>6
<1>5. ASSUME NEW i \in Places, ConfigError(i) \/ TransportError(i)
      PROVE  RouterIInv'
  BY <1>5, GoOnRouterIInv DEF ConfigError, TransportError
<1>6. ASSUME NEW i \in Places, NEW status \in {"fine", "bad", "unavailable"},
             Response(i, status)
      PROVE  RouterIInv'
  <2>1. CASE Retries(i, status)
    BY <1>6, <2>1, GoOnRouterIInv DEF Response, Retries
  <2>2. CASE ~Retries(i, status)
    BY <1>6, <2>2, PassedOnRouterIInv DEF Response, Retries
  <2>3. QED
    BY <2>1, <2>2
<1>7. CASE Exhausted
  <2>1. request # Nobody /\ request.list \in Lists
        /\ request.at = "trying" /\ request.left = {}
    BY <1>7 DEF Exhausted, RouterIInv, Shape
  <2>2. request' = [at |-> "answered", with |-> "exhausted",
                    list |-> request.list, asked |-> request.asked,
                    tried |-> request.tried]
    BY <1>7 DEF Exhausted, Answer
  <2>3. QED
    BY <2>1, <2>2 DEF RouterIInv, Shape, RoutedAsConfigured,
                      RetriedOnlyUnanswered, ExhaustedHasCause
<1>8. QED
  BY <1>1, <1>2, <1>3, <1>4, <1>5, <1>6, <1>7
     DEF RouterNext, routerVars, Serve, Done

LEMMA RouterInitIInv == RouterInit => RouterIInv
BY DEF RouterInit, RouterIInv, Shape, RoutedAsConfigured,
       RetriedOnlyUnanswered, ExhaustedHasCause

LEMMA RouterInvariant == RouterSpec => []RouterIInv
<1>1. RouterSpec => []TypeOK
  BY RouterImplementsConfig, ConfigTypeOK, PTL
<1>2. RouterIInv /\ TypeOK /\ [RouterNext]_routerVars => RouterIInv'
  BY RouterStep
<1>3. QED
  BY <1>1, <1>2, RouterInitIInv, PTL DEF RouterSpec

(* A request is routed by the rules of the configuration it came under,    *)
(* whatever the rules are and whatever is saved meanwhile                  *)
(* (proxy.go:1054-1078).                                                   *)
THEOREM RouterRoutedAsConfigured == RouterSpec => []RoutedAsConfigured
<1>1. RouterIInv => RoutedAsConfigured
  BY DEF RouterIInv
<1>2. QED
  BY <1>1, RouterInvariant, PTL

(* A request is not sent on once an upstream has given a response that is  *)
(* the client's to see (proxy.go:1343-1369).                               *)
THEOREM RouterRetriedOnlyUnanswered == RouterSpec => []RetriedOnlyUnanswered
<1>1. RouterIInv => RetriedOnlyUnanswered
  BY DEF RouterIInv
<1>2. QED
  BY <1>1, RouterInvariant, PTL

(* When every upstream has failed there is a reason to report: the nil     *)
(* error is never read (proxy.go:1391-1398).                               *)
THEOREM RouterExhaustedHasCause == RouterSpec => []ExhaustedHasCause
<1>1. RouterIInv => ExhaustedHasCause
  BY DEF RouterIInv
<1>2. QED
  BY <1>1, RouterInvariant, PTL

-----------------------------------------------------------------------------
\* Induction on numbers, about a set of them.
LEMMA SetOfNaturals ==
    ASSUME NEW T, 0 \in T, \A n \in Nat : n \in T => n + 1 \in T
    PROVE  Nat \subseteq T
<1> DEFINE Rest == Nat \ T
<1>1. SUFFICES ASSUME Rest # {} PROVE FALSE
  OBVIOUS
<1>2. PICK n \in Rest : \A m \in Rest : ~(<<m, n>> \in OpToRel(<, Nat))
  <2>1. Rest \subseteq Nat
    OBVIOUS
  <2> HIDE DEF Rest
  <2>2. QED
    BY <1>1, <2>1, NatLessThanWellFounded, WFMin
<1>3. n \in Nat /\ n # 0 /\ n - 1 \in Nat /\ n - 1 < n
  OBVIOUS
<1>4. n - 1 \notin Rest
  BY <1>2, <1>3 DEF OpToRel
<1>5. (n - 1) + 1 \in T
  BY <1>3, <1>4
<1>6. QED
  BY <1>3, <1>5

LEMMA MaxOfFirst ==
    ASSUME NEW n \in Nat \ {0}
    PROVE  Max(1..n) = n
<1>1. n \in 1..n /\ \A y \in 1..n : n >= y
  OBVIOUS
<1>2. \A x \in 1..n : (\A y \in 1..n : x >= y) => x = n
  BY <1>1
<1>3. QED
  BY <1>1, <1>2 DEF Max

-----------------------------------------------------------------------------
(* One rewrite after the other.                                            *)

RewriteOne(body, rewrite) ==
    IF rewrite.enabled THEN SetPath(body, rewrite.field, rewrite.value) ELSE body

\* The body after some of the rewrites, by the last of them.
AfterSome(after, body, rewrites, s) ==
    IF s = {} THEN body
    ELSE RewriteOne(after[s \ {Max(s)}], rewrites[Max(s)])

IsRewriting(after, body, rewrites, D) ==
    after = [s \in SUBSET D |-> AfterSome(after, body, rewrites, s)]

LEMMA RewrittenIsFold ==
    ASSUME NEW body, body # Opaque, NEW rewrites
    PROVE  Rewritten(body, rewrites) =
              (CHOOSE g : IsRewriting(g, body, rewrites, DOMAIN rewrites))
                 [DOMAIN rewrites]
  BY DEF Rewritten, FoldLeft, MapThenFoldSet, IsRewriting, AfterSome, RewriteOne

LEMMA RewritingExists ==
    ASSUME NEW body, NEW rewrites, NEW n \in Nat
    PROVE  \E g : IsRewriting(g, body, rewrites, 1..n)
<1> DEFINE N == {k \in Nat : \E g : IsRewriting(g, body, rewrites, 1..k)}
<1>1. 0 \in N
  <2> DEFINE g == [s \in SUBSET (1..0) |-> body]
  <2>1. \A s \in SUBSET (1..0) : s = {}
    OBVIOUS
  <2>2. IsRewriting(g, body, rewrites, 1..0)
    BY <2>1 DEF IsRewriting, AfterSome
  <2>3. QED
    BY <2>2
<1>2. ASSUME NEW k \in Nat, k \in N PROVE k + 1 \in N
  <2>1. PICK g : IsRewriting(g, body, rewrites, 1..k)
    BY <1>2
  <2> DEFINE h == [s \in SUBSET (1..(k + 1)) |-> AfterSome(g, body, rewrites, s)]
  <2>2. ASSUME NEW s \in SUBSET (1..(k + 1))
        PROVE  AfterSome(g, body, rewrites, s) = AfterSome(h, body, rewrites, s)
    <3>1. CASE s = {}
      BY <3>1 DEF AfterSome
    <3>2. CASE s # {}
      <4> DEFINE t == s \ {Max(s)}
      <4>1. t \in SUBSET (1..k)
        <5>1. CASE k + 1 \in s
          <6>1. \A x \in 1..(k + 1) : (\A y \in s : x >= y) /\ x \in s => x = k + 1
            BY <5>1
          <6>2. k + 1 \in s /\ \A y \in s : k + 1 >= y
            BY <5>1
          <6>3. Max(s) = k + 1
            BY <6>1, <6>2 DEF Max
          <6>4. QED
            BY <6>3
        <5>2. CASE k + 1 \notin s
          <6>1. s \in SUBSET (1..k)
            BY <5>2
          <6>2. QED
            BY <6>1
        <5>3. QED
          BY <5>1, <5>2
      <4>2. t \in SUBSET (1..(k + 1))
        OBVIOUS
      <4> HIDE DEF t
      <4>3. g[t] = AfterSome(g, body, rewrites, t)
        BY <2>1, <4>1 DEF IsRewriting
      <4>4. h[t] = AfterSome(g, body, rewrites, t)
        BY <4>2
      <4> HIDE DEF h
      <4>5. QED
        BY <3>2, <4>3, <4>4 DEF AfterSome, t
    <3>3. QED
      BY <3>1, <3>2
  <2>3. h = [s \in SUBSET (1..(k + 1)) |-> AfterSome(h, body, rewrites, s)]
    <3>1. DOMAIN h = SUBSET (1..(k + 1))
      OBVIOUS
    <3>2. \A s \in SUBSET (1..(k + 1)) : h[s] = AfterSome(h, body, rewrites, s)
      <4>1. \A s \in SUBSET (1..(k + 1)) : h[s] = AfterSome(g, body, rewrites, s)
        OBVIOUS
      <4> HIDE DEF h
      <4>2. QED
        BY <2>2, <4>1
    <3>3. h = [s \in DOMAIN h |-> h[s]]
      OBVIOUS
    <3> HIDE DEF h
    <3>4. QED
      BY <3>1, <3>2, <3>3
  <2> HIDE DEF h
  <2>4. IsRewriting(h, body, rewrites, 1..(k + 1))
    BY <2>3 DEF IsRewriting
  <2>5. QED
    BY <2>4
<1> HIDE DEF N
<1>3. n \in N
  BY <1>1, <1>2, SetOfNaturals
<1>4. QED
  BY <1>3 DEF N

-----------------------------------------------------------------------------
(* Paths, and what is set at one of them.                                  *)

\* A path is told by its parts.
LEMMA PathParts ==
    ASSUME NEW p \in Paths
    PROVE  /\ Len(p) \in Nat \ {0} /\ DOMAIN p = 1..Len(p)
           /\ \A k \in 1..Len(p) : p[k] \in STRING
<1>1. p \in Seq(STRING) /\ p # <<>>
  BY DEF Paths
<1>2. QED
  BY <1>1

LEMMA SamePath ==
    ASSUME NEW p \in Paths, NEW q \in Paths, Len(p) = Len(q),
           \A k \in 1..Len(p) : p[k] = q[k]
    PROVE  p = q
  BY SeqEqual DEF Paths

\* What a path starts with.
LEMMA StartOfPath ==
    ASSUME NEW p \in Paths, NEW n \in 1..Len(p)
    PROVE  /\ SubSeq(p, 1, n) \in Paths
           /\ Len(SubSeq(p, 1, n)) = n
           /\ \A k \in 1..n : SubSeq(p, 1, n)[k] = p[k]
<1> DEFINE q == SubSeq(p, 1, n)
<1>1. n \in Int /\ 1 <= n /\ n - 1 + 1 = n /\ \A k \in 1..n : p[k] \in STRING
  BY PathParts
<1>2. /\ q \in Seq(STRING)
      /\ Len(q) = IF 1 <= n THEN n - 1 + 1 ELSE 0
      /\ \A k \in 1 .. n - 1 + 1 : q[k] = p[1 + k - 1]
  BY <1>1, SubSeqProperties
<1>3. \A k \in 1..n : 1 + k - 1 = k
  OBVIOUS
<1> HIDE DEF q
<1>4. q \in Seq(STRING) /\ Len(q) = n /\ \A k \in 1..n : q[k] = p[k]
  BY <1>1, <1>2, <1>3
<1>5. q # <<>>
  BY <1>1, <1>4
<1>6. QED
  BY <1>4, <1>5 DEF q, Paths

LEMMA PrefixParts ==
    ASSUME NEW p \in Paths, NEW q \in Paths
    PROVE  IsPrefix(p, q) <=>
              Len(p) <= Len(q) /\ \A k \in 1..Len(p) : p[k] = q[k]
<1>1. Len(p) \in 1..Len(p) /\ (Len(p) <= Len(q) => Len(p) \in 1..Len(q))
  BY PathParts
<1>2. /\ SubSeq(p, 1, Len(p)) \in Paths /\ Len(SubSeq(p, 1, Len(p))) = Len(p)
      /\ \A k \in 1..Len(p) : SubSeq(p, 1, Len(p))[k] = p[k]
  BY <1>1, StartOfPath
<1>3. Len(p) <= Len(q) =>
      /\ SubSeq(q, 1, Len(p)) \in Paths /\ Len(SubSeq(q, 1, Len(p))) = Len(p)
      /\ \A k \in 1..Len(p) : SubSeq(q, 1, Len(p))[k] = q[k]
  BY <1>1, StartOfPath
<1>4. ASSUME Len(p) <= Len(q), \A k \in 1..Len(p) : p[k] = q[k]
      PROVE  SubSeq(p, 1, Len(p)) = SubSeq(q, 1, Len(p))
  BY <1>2, <1>3, <1>4, SamePath
<1>5. ASSUME Len(p) <= Len(q), SubSeq(p, 1, Len(p)) = SubSeq(q, 1, Len(p))
      PROVE  \A k \in 1..Len(p) : p[k] = q[k]
  BY <1>2, <1>3, <1>5
<1>6. QED
  BY <1>4, <1>5 DEF IsPrefix

\* Of what is above a field, everything is a prefix of it and none is it.
Above(field) ==
    {SubSeq(field, 1, n) : n \in
        {m \in 1..(Len(field) - 1) : \A k \in 1..m : field[k] # ""}}

LEMMA AboveField ==
    ASSUME NEW field \in Paths, NEW a \in Above(field)
    PROVE  a \in Paths /\ Len(a) < Len(field) /\ IsPrefix(a, field) /\ a # field
<1>1. PICK n \in 1..(Len(field) - 1) : a = SubSeq(field, 1, n)
  BY DEF Above
<1>2. n \in 1..Len(field) /\ n < Len(field)
  BY PathParts
<1>3. a \in Paths /\ Len(a) = n /\ \A k \in 1..n : a[k] = field[k]
  BY <1>1, <1>2, StartOfPath
<1>4. IsPrefix(a, field)
  BY <1>2, <1>3, PrefixParts
<1>5. QED
  BY <1>2, <1>3, <1>4

\* The start of what is above a field is above it.
LEMMA AboveAbove ==
    ASSUME NEW field \in Paths, NEW a \in Above(field), NEW n \in 1..(Len(a) - 1)
    PROVE  SubSeq(a, 1, n) \in Above(field)
<1>1. PICK m \in 1..(Len(field) - 1) :
         a = SubSeq(field, 1, m) /\ \A k \in 1..m : field[k] # ""
  BY DEF Above
<1>2. m \in 1..Len(field)
  BY PathParts
<1>3. a \in Paths /\ Len(a) = m /\ \A k \in 1..m : a[k] = field[k]
  BY <1>1, <1>2, StartOfPath
<1>4. n \in 1..(Len(field) - 1) /\ n \in 1..Len(field) /\ n \in 1..Len(a) /\ n < m
  BY <1>2, <1>3, PathParts
<1>5. /\ SubSeq(a, 1, n) \in Paths /\ Len(SubSeq(a, 1, n)) = n
      /\ \A k \in 1..n : SubSeq(a, 1, n)[k] = a[k]
  BY <1>3, <1>4, StartOfPath
<1>6. /\ SubSeq(field, 1, n) \in Paths /\ Len(SubSeq(field, 1, n)) = n
      /\ \A k \in 1..n : SubSeq(field, 1, n)[k] = field[k]
  BY <1>4, StartOfPath
<1>7. \A k \in 1..n : a[k] = field[k]
  BY <1>3, <1>4
<1>8. SubSeq(a, 1, n) = SubSeq(field, 1, n)
  <2> DEFINE x == SubSeq(a, 1, n)
             y == SubSeq(field, 1, n)
  <2>1. x \in Paths /\ y \in Paths /\ Len(x) = n /\ Len(y) = n
        /\ \A k \in 1..n : x[k] = y[k]
    BY <1>5, <1>6, <1>7
  <2> HIDE DEF x, y
  <2>2. x = y
    BY <2>1, SamePath
  <2>3. QED
    BY <2>2 DEF x, y
<1>9. \A k \in 1..n : k \in 1..m
  BY <1>4
<1>10. \A k \in 1..n : field[k] # ""
  BY <1>1, <1>9
<1>11. QED
  BY <1>4, <1>8, <1>10 DEF Above

LEMMA AboveWhole ==
    ASSUME NEW field \in Paths, Whole(field), NEW n \in 1..(Len(field) - 1)
    PROVE  SubSeq(field, 1, n) \in Above(field)
<1>1. Len(field) \in Nat /\ DOMAIN field = 1..Len(field)
  BY PathParts
<1>2. \A k \in 1..n : k \in DOMAIN field
  BY <1>1
<1>3. \A k \in 1..n : field[k] # ""
  BY <1>2 DEF Whole
<1>4. QED
  BY <1>3 DEF Above

\* What is below the start of a path is below what that is below.
LEMMA BelowBelow ==
    ASSUME NEW p \in Paths, NEW n \in 1..(Len(p) - 1), NEW c \in Paths,
           Below(SubSeq(p, 1, n), c)
    PROVE  Below(p, c)
<1>1. n \in 1..Len(p) /\ n < Len(p)
  BY PathParts
<1>2. /\ SubSeq(p, 1, n) \in Paths /\ Len(SubSeq(p, 1, n)) = n
      /\ \A k \in 1..n : SubSeq(p, 1, n)[k] = p[k]
  BY <1>1, StartOfPath
<1>3. n > Len(c) /\ \A k \in 1..Len(c) : c[k] = SubSeq(p, 1, n)[k]
  BY <1>2, PrefixParts DEF Below
<1>4. Len(p) > Len(c) /\ \A k \in 1..Len(c) : c[k] = p[k]
  BY <1>1, <1>2, <1>3, PathParts
<1>5. QED
  BY <1>4, PrefixParts, PathParts DEF Below

\* The field itself, unless it has an empty part and setting gives up; and
\* what setting leaves of a body.
LastPart(field) == {f \in {field} : Whole(f)}

Kept(body, field) ==
    {p \in DOMAIN body :
        \A c \in LastPart(field) \cup {a \in Above(field) :
                                      a \in DOMAIN body /\ body[a] # Object} :
            ~Below(p, c)}

\* A JSON object is one again with a field set.
LEMMA SetPathIsDocument ==
    ASSUME NEW body, IsDocument(body), NEW field \in Paths, NEW value
    PROVE  IsDocument(SetPath(body, field, value))
<1> DEFINE after == SetPath(body, field, value)
           kept == Kept(body, field)
           above == Above(field)
           last == LastPart(field)
<1>1. /\ DOMAIN after = kept \cup above \cup last
      /\ \A p \in kept \cup above \cup last :
            after[p] = IF p \in last THEN value
                       ELSE IF p \in above THEN Object ELSE body[p]
      /\ after = [p \in DOMAIN after |-> after[p]]
  BY DEF SetPath, Kept, Above, LastPart
<1>2. kept \subseteq DOMAIN body /\ DOMAIN body \subseteq Paths
  BY DEF Kept, IsDocument
<1>3. \A a \in above : a \in Paths /\ a # field
  BY AboveField
<1>4. \A f \in last : f = field /\ Whole(field)
  BY DEF LastPart
<1>5. \A q \in above : q \in DOMAIN after /\ after[q] = Object
  BY <1>1, <1>3, <1>4
<1>6. ASSUME NEW p \in above, NEW n \in 1..(Len(p) - 1)
      PROVE  SubSeq(p, 1, n) \in DOMAIN after /\ after[SubSeq(p, 1, n)] = Object
  BY <1>5, AboveAbove
<1>7. ASSUME NEW p \in last, NEW n \in 1..(Len(p) - 1)
      PROVE  SubSeq(p, 1, n) \in DOMAIN after /\ after[SubSeq(p, 1, n)] = Object
  <2>1. p = field /\ Whole(field) /\ n \in 1..(Len(field) - 1)
    BY <1>4
  <2>2. SubSeq(field, 1, n) \in above
    BY <2>1, AboveWhole
  <2>3. QED
    BY <1>5, <2>1, <2>2
<1>8. ASSUME NEW p \in kept, NEW n \in 1..(Len(p) - 1)
      PROVE  SubSeq(p, 1, n) \in DOMAIN after /\ after[SubSeq(p, 1, n)] = Object
  <2> DEFINE q == SubSeq(p, 1, n)
  <2>1. p \in Paths /\ p \in DOMAIN body
    BY <1>2
  <2>2. q \in DOMAIN body /\ body[q] = Object
    BY <2>1 DEF IsDocument
  <2>3. q \in Paths
    BY <1>2, <2>2
  <2>4. ASSUME NEW c \in Paths, Below(q, c) PROVE Below(p, c)
    BY <2>1, <2>4, BelowBelow
  <2> DEFINE cut == last \cup {a \in above : a \in DOMAIN body /\ body[a] # Object}
  <2>5. cut \subseteq Paths /\ \A c \in cut : ~Below(p, c)
    BY <1>3, <1>4 DEF Kept
  <2>6. q \in kept
    <3>1. \A c \in cut : ~Below(q, c)
      BY <2>4, <2>5
    <3>2. QED
      BY <2>2, <3>1 DEF Kept
  <2>7. q \notin last
    <3>1. SUFFICES ASSUME q \in last PROVE FALSE
      OBVIOUS
    <3>2. q = field /\ field \in cut
      BY <1>4, <3>1
    <3>3. ~Below(p, q)
      BY <2>5, <3>2
    <3>4. n \in 1..Len(p) /\ n < Len(p)
      BY <2>1, PathParts
    <3>5. Len(q) = n /\ \A k \in 1..n : q[k] = p[k]
      BY <2>1, <3>4, StartOfPath
    <3>6. Below(p, q)
      <4> HIDE DEF q
      <4>1. IsPrefix(q, p)
        BY <2>1, <2>3, <3>4, <3>5, PrefixParts
      <4>2. QED
        BY <3>4, <3>5, <4>1 DEF Below
    <3>7. QED
      BY <3>3, <3>6
  <2>8. QED
    BY <1>1, <2>2, <2>6, <2>7
<1>9. DOMAIN after \subseteq Paths
  BY <1>1, <1>2, <1>3, <1>4
<1> HIDE DEF after
<1>10. \A p \in DOMAIN after : \A n \in 1..(Len(p) - 1) :
          SubSeq(p, 1, n) \in DOMAIN after /\ after[SubSeq(p, 1, n)] = Object
  BY <1>1, <1>6, <1>7, <1>8
<1>11. IsDocument(after)
  BY <1>1, <1>9, <1>10 DEF IsDocument
<1>12. QED
  BY <1>11 DEF after

\* What is neither on the way to the field nor below it is left alone.
LEMMA SetPathKeeps ==
    ASSUME NEW body, IsDocument(body), NEW field \in Paths, NEW value,
           NEW p \in Paths, ~IsPrefix(p, field), ~IsPrefix(field, p)
    PROVE  /\ p \in DOMAIN SetPath(body, field, value) <=> p \in DOMAIN body
           /\ p \in DOMAIN body => SetPath(body, field, value)[p] = body[p]
<1>1. IsPrefix(field, field)
  BY PrefixParts, PathParts
<1>2. p \notin Above(field) /\ p \notin LastPart(field)
  BY <1>1, AboveField DEF LastPart
<1>3. Kept(body, field) \subseteq DOMAIN body
  BY DEF Kept
<1>4. ASSUME p \in DOMAIN body PROVE p \in Kept(body, field)
  <2>1. ~Below(p, field)
    BY DEF Below
  <2>2. ASSUME NEW a \in Above(field), a \in DOMAIN body, Below(p, a)
        PROVE  body[a] = Object
    <3>1. a \in Paths
      BY AboveField
    <3>2. Len(a) \in 1..(Len(p) - 1) /\ Len(a) \in 1..Len(p)
      BY <2>2, <3>1, PathParts DEF Below
    <3>3. /\ SubSeq(p, 1, Len(a)) \in Paths /\ Len(SubSeq(p, 1, Len(a))) = Len(a)
          /\ \A k \in 1..Len(a) : SubSeq(p, 1, Len(a))[k] = p[k]
      BY <3>2, StartOfPath
    <3>4. \A k \in 1..Len(a) : a[k] = p[k]
      BY <2>2, <3>1, PrefixParts DEF Below
    <3>5. a = SubSeq(p, 1, Len(a))
      <4> DEFINE x == SubSeq(p, 1, Len(a))
      <4>1. x \in Paths /\ Len(a) = Len(x) /\ \A k \in 1..Len(a) : a[k] = x[k]
        BY <3>3, <3>4
      <4> HIDE DEF x
      <4>2. a = x
        BY <3>1, <4>1, SamePath
      <4>3. QED
        BY <4>2 DEF x
    <3>6. body[SubSeq(p, 1, Len(a))] = Object
      BY <1>4, <3>2 DEF IsDocument
    <3>7. QED
      BY <3>5, <3>6
  <2>3. QED
    BY <1>4, <2>1, <2>2 DEF Kept, LastPart
<1>5. /\ DOMAIN SetPath(body, field, value) =
            Kept(body, field) \cup Above(field) \cup LastPart(field)
      /\ \A q \in Kept(body, field) \cup Above(field) \cup LastPart(field) :
            SetPath(body, field, value)[q] =
               IF q \in LastPart(field) THEN value
               ELSE IF q \in Above(field) THEN Object ELSE body[q]
  BY DEF SetPath, Kept, Above, LastPart
<1>6. QED
  BY <1>2, <1>3, <1>4, <1>5

\* The field is set, unless a part of it is empty.
LEMMA SetPathSets ==
    ASSUME NEW body, NEW field, Whole(field), NEW value
    PROVE  /\ field \in DOMAIN SetPath(body, field, value)
           /\ SetPath(body, field, value)[field] = value
<1>1. field \in LastPart(field)
  BY DEF LastPart
<1>2. /\ DOMAIN SetPath(body, field, value) =
            Kept(body, field) \cup Above(field) \cup LastPart(field)
      /\ \A q \in Kept(body, field) \cup Above(field) \cup LastPart(field) :
            SetPath(body, field, value)[q] =
               IF q \in LastPart(field) THEN value
               ELSE IF q \in Above(field) THEN Object ELSE body[q]
  BY DEF SetPath, Kept, Above, LastPart
<1>3. QED
  BY <1>1, <1>2

\* The rewrites are applied in their order.
LEMMA RewritingSteps ==
    ASSUME NEW body, body # Opaque, NEW rewrites, Len(rewrites) \in Nat,
           DOMAIN rewrites = 1..Len(rewrites)
    PROVE  \E h : /\ h[0] = body
                  /\ \A k \in 1..Len(rewrites) :
                        h[k] = RewriteOne(h[k - 1], rewrites[k])
                  /\ Rewritten(body, rewrites) = h[Len(rewrites)]
<1> DEFINE n == Len(rewrites)
           g == CHOOSE g : IsRewriting(g, body, rewrites, 1..n)
           h == [k \in 0..n |-> g[1..k]]
<1>1. IsRewriting(g, body, rewrites, 1..n)
  BY RewritingExists
<1>2. Rewritten(body, rewrites) = g[1..n]
  BY RewrittenIsFold
<1> HIDE DEF g
<1>3. \A s \in SUBSET (1..n) : g[s] = AfterSome(g, body, rewrites, s)
  BY <1>1 DEF IsRewriting
<1>4. h[0] = body
  <2>1. 1..0 = {}
    OBVIOUS
  <2>2. g[1..0] = body
    BY <1>3, <2>1 DEF AfterSome
  <2>3. QED
    BY <2>2
<1>5. ASSUME NEW k \in 1..n PROVE h[k] = RewriteOne(h[k - 1], rewrites[k])
  <2>1. Max(1..k) = k
    BY MaxOfFirst
  <2>2. (1..k) \ {k} = 1..(k - 1) /\ 1..k # {} /\ 1..k \in SUBSET (1..n)
    OBVIOUS
  <2>3. g[1..k] = RewriteOne(g[1..(k - 1)], rewrites[k])
    BY <1>3, <2>1, <2>2 DEF AfterSome
  <2>4. k \in 0..n /\ k - 1 \in 0..n
    OBVIOUS
  <2>5. h[k] = g[1..k] /\ h[k - 1] = g[1..(k - 1)]
    BY <2>4
  <2>6. QED
    BY <2>3, <2>5
<1>6. Rewritten(body, rewrites) = h[n]
  <2>1. n \in 0..n
    OBVIOUS
  <2>2. QED
    BY <1>2, <2>1
<1> HIDE DEF h
<1>7. QED
  BY <1>4, <1>5, <1>6

\* A path and a rewrite that is on it.
Reaches(rewrite, p) ==
    rewrite.enabled /\ (IsPrefix(p, rewrite.field) \/ IsPrefix(rewrite.field, p))

Leaves(body, after, rewrites, k) ==
    \A p \in Paths :
        (\A i \in 1..k : ~Reaches(rewrites[i], p)) =>
            /\ p \in DOMAIN after <=> p \in DOMAIN body
            /\ p \in DOMAIN body => after[p] = body[p]

Sets(after, rewrites, k) ==
    \A i \in 1..k :
        /\ rewrites[i].enabled /\ Whole(rewrites[i].field)
        /\ \A j \in 1..k : j > i => ~Reaches(rewrites[j], rewrites[i].field)
        => /\ rewrites[i].field \in DOMAIN after
           /\ after[rewrites[i].field] = rewrites[i].value

\* One more rewrite keeps what holds of those before it.
LEMMA OneMoreRewrite ==
    ASSUME NEW body, NEW before, NEW rewrites, NEW k \in Nat \ {0},
           \A i \in 1..k : rewrites[i].field \in Paths,
           IsDocument(before), Leaves(body, before, rewrites, k - 1),
           Sets(before, rewrites, k - 1)
    PROVE  LET after == RewriteOne(before, rewrites[k])
           IN  /\ IsDocument(after) /\ Leaves(body, after, rewrites, k)
               /\ Sets(after, rewrites, k)
<1> DEFINE after == RewriteOne(before, rewrites[k])
           field == rewrites[k].field
           value == rewrites[k].value
<1>1. rewrites[k].enabled => after = SetPath(before, field, value)
  BY DEF RewriteOne
<1>2. ~rewrites[k].enabled => after = before
  BY DEF RewriteOne
<1>3. field \in Paths
  OBVIOUS
<1> DEFINE on == rewrites[k].enabled
<1>4. \A p \in Paths : ~Reaches(rewrites[k], p) =>
         /\ p \in DOMAIN after <=> p \in DOMAIN before
         /\ p \in DOMAIN before => after[p] = before[p]
  <2>1. CASE rewrites[k].enabled
    <3>1. ASSUME NEW p \in Paths, ~Reaches(rewrites[k], p)
          PROVE  ~IsPrefix(p, field) /\ ~IsPrefix(field, p)
      BY <2>1, <3>1 DEF Reaches
    <3>2. after = SetPath(before, field, value)
      BY <1>1, <2>1
    <3> HIDE DEF after, field, value
    <3>3. QED
      BY <1>3, <3>1, <3>2, SetPathKeeps
  <2>2. CASE ~rewrites[k].enabled
    <3>1. after = before
      BY <1>2, <2>2
    <3> HIDE DEF after
    <3>2. QED
      BY <3>1
  <2>3. QED
    BY <2>1, <2>2
<1>5. IsDocument(after)
  <2>1. CASE rewrites[k].enabled
    <3>1. after = SetPath(before, field, value)
      BY <1>1, <2>1
    <3> HIDE DEF after, field, value
    <3>2. QED
      BY <1>3, <3>1, SetPathIsDocument
  <2>2. CASE ~rewrites[k].enabled
    <3>1. after = before
      BY <1>2, <2>2
    <3>2. QED
      BY <3>1
  <2>3. QED
    BY <2>1, <2>2
<1>6. k \in 1..k /\ \A i \in 1..(k - 1) : i \in 1..k /\ k > i
  OBVIOUS
<1>7. Leaves(body, after, rewrites, k)
  <2> HIDE DEF after
  <2>1. SUFFICES ASSUME NEW p \in Paths,
                        \A i \in 1..k : ~Reaches(rewrites[i], p)
                 PROVE  /\ p \in DOMAIN after <=> p \in DOMAIN body
                        /\ p \in DOMAIN body => after[p] = body[p]
    BY DEF Leaves
  <2>2. ~Reaches(rewrites[k], p) /\ \A i \in 1..(k - 1) : ~Reaches(rewrites[i], p)
    BY <1>6, <2>1
  <2>3. /\ p \in DOMAIN before <=> p \in DOMAIN body
        /\ p \in DOMAIN body => before[p] = body[p]
    BY <2>2 DEF Leaves
  <2>4. /\ p \in DOMAIN after <=> p \in DOMAIN before
        /\ p \in DOMAIN before => after[p] = before[p]
    BY <1>4, <2>2
  <2>5. QED
    BY <2>3, <2>4
<1>8. Sets(after, rewrites, k)
  <2>1. SUFFICES ASSUME NEW i \in 1..k, rewrites[i].enabled,
                        Whole(rewrites[i].field),
                        \A j \in 1..k : j > i =>
                            ~Reaches(rewrites[j], rewrites[i].field)
                 PROVE  /\ rewrites[i].field \in DOMAIN after
                        /\ after[rewrites[i].field] = rewrites[i].value
    BY DEF Sets
  <2>2. CASE i = k
    <3>1. after = SetPath(before, field, value) /\ Whole(field)
      BY <1>1, <2>1, <2>2
    <3>2. field \in DOMAIN after /\ after[field] = value
      <4> HIDE DEF after, field, value
      <4>1. QED
        BY <3>1, SetPathSets
    <3>3. QED
      BY <2>2, <3>2
  <2>3. CASE i # k
    <3>1. i \in 1..(k - 1) /\ k > i
      BY <2>3
    <3> DEFINE f == rewrites[i].field
               v == rewrites[i].value
    <3>2. f \in Paths
      OBVIOUS
    <3>3. ~Reaches(rewrites[k], f)
      BY <1>6, <2>1, <3>1
    <3>4. \A j \in 1..(k - 1) : j > i => ~Reaches(rewrites[j], f)
      BY <1>6, <2>1
    <3>5. f \in DOMAIN before /\ before[f] = v
      BY <2>1, <3>1, <3>4 DEF Sets
    <3> HIDE DEF f, v, after
    <3>6. f \in DOMAIN after /\ after[f] = v
      BY <1>4, <3>2, <3>3, <3>5
    <3>7. QED
      BY <3>6 DEF f, v
  <2>4. QED
    BY <2>2, <2>3
<1> HIDE DEF after
<1>9. QED
  BY <1>5, <1>7, <1>8 DEF after

\* What holds of a body that was rewritten.
LEMMA RewrittenBody ==
    ASSUME NEW body, body # Opaque, IsDocument(body), NEW rewrites,
           Len(rewrites) \in Nat, DOMAIN rewrites = 1..Len(rewrites),
           \A i \in DOMAIN rewrites : rewrites[i].field \in Paths
    PROVE  /\ IsDocument(Rewritten(body, rewrites))
           /\ Leaves(body, Rewritten(body, rewrites), rewrites, Len(rewrites))
           /\ Sets(Rewritten(body, rewrites), rewrites, Len(rewrites))
<1> DEFINE n == Len(rewrites)
<1>1. PICK h : /\ h[0] = body
               /\ \A k \in 1..n : h[k] = RewriteOne(h[k - 1], rewrites[k])
               /\ Rewritten(body, rewrites) = h[n]
  BY RewritingSteps
<1> DEFINE Good(k) == /\ IsDocument(h[k]) /\ Leaves(body, h[k], rewrites, k)
                      /\ Sets(h[k], rewrites, k)
           N == {k \in Nat : k <= n => Good(k)}
<1>2. 0 \in N
  <2>1. \A i : i \notin 1..0
    OBVIOUS
  <2>2. Good(0)
    BY <1>1, <2>1 DEF Leaves, Sets
  <2>3. QED
    BY <2>2
<1>3. ASSUME NEW k \in Nat, k \in N PROVE k + 1 \in N
  <2>1. SUFFICES ASSUME k + 1 <= n PROVE Good(k + 1)
    OBVIOUS
  <2>2. Good(k) /\ k + 1 \in 1..n /\ k + 1 \in Nat \ {0} /\ (k + 1) - 1 = k
    BY <1>3, <2>1
  <2>3. h[k + 1] = RewriteOne(h[k], rewrites[k + 1])
    BY <1>1, <2>2
  <2>4. \A i \in 1..(k + 1) : rewrites[i].field \in Paths
    BY <2>2
  <2> DEFINE m == k + 1
  <2>5. m \in Nat \ {0} /\ IsDocument(h[k]) /\ Leaves(body, h[k], rewrites, m - 1)
        /\ Sets(h[k], rewrites, m - 1) /\ \A i \in 1..m : rewrites[i].field \in Paths
        /\ h[m] = RewriteOne(h[k], rewrites[m])
    BY <2>2, <2>3, <2>4
  <2> HIDE DEF m
  <2>6. /\ IsDocument(h[m]) /\ Leaves(body, h[m], rewrites, m)
        /\ Sets(h[m], rewrites, m)
    BY <2>5, OneMoreRewrite
  <2>7. QED
    BY <2>6 DEF m
<1>4. n \in N
  <2> HIDE DEF N
  <2>1. QED
    BY <1>2, <1>3, SetOfNaturals
<1>5. Good(n)
  BY <1>4
<1>6. QED
  BY <1>1, <1>5

-----------------------------------------------------------------------------
(* The body that is sent.                                                  *)

\* The body that is sent is what the rewrites of its list make of it.
BodyIInv ==
    request # Nobody =>
        /\ request.asked \in Requests
        /\ request.at = "trying" =>
              request.body = Body(request.list, request.asked, TRUE)

LEMMA BodyCompiledOrNot ==
    ASSUME NEW l, NEW r, NEW compiled
    PROVE  Body(l, r, compiled) = Body(l, r, TRUE)
<1>1. Matching(l, r, compiled) = Matching(l, r, TRUE)
  BY DEF Matching, SelectorMatches, RuleHolds, Passes, Language
<1>2. QED
  BY <1>1 DEF Body

LEMMA BodyStep ==
    ASSUME RouterIInv, BodyIInv, [RouterNext]_routerVars
    PROVE  BodyIInv'
<1>1. CASE UNCHANGED request
  BY <1>1 DEF BodyIInv
<1>2. CASE request' = Nobody
  BY <1>2 DEF BodyIInv
<1>3. ASSUME NEW r \in Requests, Copy(r) PROVE BodyIInv'
  <2>1. request' = [at |-> "copied", list |-> running.list, asked |-> r]
    BY <1>3 DEF Copy
  <2>2. QED
    BY <2>1 DEF BodyIInv
<1>4. ASSUME NEW with, NEW tried, request # Nobody, Answer(with, tried)
      PROVE  BodyIInv'
  <2>1. request'.at = "answered" /\ request'.asked = request.asked
    BY <1>4 DEF Answer
  <2>2. QED
    BY <1>4, <2>1 DEF BodyIInv
<1>5. CASE Route
  <2>1. request # Nobody
    BY <1>5 DEF Route
  <2>2. PICK compiled :
           LET l == request.list
               r == request.asked
               routed == Routed(l, r, compiled)
           IN  IF routed = {} THEN Answer("no route", <<>>)
               ELSE request' = [at |-> "trying", list |-> l, asked |-> r,
                                left |-> routed, tried |-> <<>>, cause |-> FALSE,
                                body |-> Body(l, r, compiled)]
    BY <1>5 DEF Route
  <2>3. CASE Answer("no route", <<>>)
    BY <1>4, <2>1, <2>3
  <2>4. CASE request' = [at |-> "trying", list |-> request.list,
                         asked |-> request.asked,
                         left |-> Routed(request.list, request.asked, compiled),
                         tried |-> <<>>, cause |-> FALSE,
                         body |-> Body(request.list, request.asked, compiled)]
    <3>1. request' # Nobody => /\ request'.asked = request.asked
                               /\ request'.list = request.list
                               /\ request'.body = Body(request.list, request.asked,
                                                       TRUE)
      BY <2>4, BodyCompiledOrNot
    <3>2. QED
      BY <2>1, <3>1 DEF BodyIInv
  <2>5. QED
    BY <2>2, <2>3, <2>4
<1>6. ASSUME NEW i, NEW how, NEW cause, Trying(i), GoOn(i, how, cause)
      PROVE  BodyIInv'
  <2>1. request # Nobody /\ request.at = "trying"
    BY <1>6 DEF Trying
  <2>2. /\ request'.at = request.at /\ request'.asked = request.asked
        /\ request'.list = request.list /\ request'.body = request.body
    <3>1. request = [at |-> "trying", list |-> request.list,
                     asked |-> request.asked, left |-> request.left,
                     tried |-> request.tried, cause |-> request.cause,
                     body |-> request.body]
      BY <2>1 DEF RouterIInv, Shape
    <3>2. QED
      BY <1>6, <3>1 DEF GoOn
  <2>3. QED
    BY <2>1, <2>2 DEF BodyIInv
<1>7. ASSUME NEW i, ConfigError(i) \/ TransportError(i) PROVE BodyIInv'
  BY <1>6, <1>7 DEF ConfigError, TransportError
<1>8. ASSUME NEW i, NEW status, Response(i, status) PROVE BodyIInv'
  <2>1. Trying(i) /\ (GoOn(i, status, FALSE) \/ Answer("passed on", Tried(i, status)))
    BY <1>8 DEF Response
  <2>2. QED
    BY <1>4, <1>6, <2>1 DEF Trying
<1>9. CASE Exhausted
  BY <1>4, <1>9 DEF Exhausted
<1>10. QED
  BY <1>1, <1>2, <1>3, <1>5, <1>7, <1>8, <1>9
     DEF RouterNext, routerVars, Serve, Done

\* Only one selector is the first that matches.
LEMMA FirstMatch ==
    ASSUME NEW l \in Lists, NEW r, NEW s \in Matching(l, r, TRUE)
    PROVE  /\ Matching(l, r, TRUE) = {s}
           /\ \E i \in DOMAIN Table[l].selectors : s = Table[l].selectors[i]
<1> DEFINE selectors == Table[l].selectors
           First(j) == /\ SelectorMatches(selectors[j], r, TRUE)
                       /\ \A k \in 1..(j - 1) :
                             ~SelectorMatches(selectors[k], r, TRUE)
<1>1. IsList(selectors)
  BY RouterAssumption
<1>2. DOMAIN selectors = 1..Len(selectors) /\ Len(selectors) \in Nat
  BY <1>1 DEF IsList
<1>3. ASSUME NEW i \in DOMAIN selectors, NEW j \in DOMAIN selectors,
             First(i), First(j)
      PROVE  i = j
  <2>1. i \in Nat \ {0} /\ j \in Nat \ {0}
    BY <1>2
  <2>2. ~(i \in 1..(j - 1)) /\ ~(j \in 1..(i - 1))
    BY <1>3
  <2>3. QED
    BY <2>1, <2>2
<1>4. Matching(l, r, TRUE) =
         {selectors[i] : i \in {j \in DOMAIN selectors : First(j)}}
  BY DEF Matching
<1> HIDE DEF First, selectors
<1>5. PICK i \in DOMAIN selectors : First(i) /\ s = selectors[i]
  BY <1>4
<1>6. \A j \in DOMAIN selectors : First(j) => j = i
  BY <1>3, <1>5
<1>7. Matching(l, r, TRUE) = {s}
  BY <1>4, <1>5, <1>6
<1>8. QED
  BY <1>5, <1>7 DEF selectors

LEMMA BodyRewritten == RouterIInv /\ BodyIInv => RewritesTakeEffect
<1> SUFFICES ASSUME RouterIInv, BodyIInv, request # Nobody, request.at = "trying"
             PROVE  RewritesTakeEffect
  BY DEF RewritesTakeEffect
<1> DEFINE before == request.asked.body
           after == request.body
           matching == Matching(request.list, request.asked, TRUE)
<1>1. /\ request.list \in Lists /\ request.asked \in Requests
      /\ after = Body(request.list, request.asked, TRUE)
  BY DEF RouterIInv, Shape, BodyIInv
<1>2. before = Opaque \/ IsDocument(before)
  BY <1>1, RouterAssumption
<1>3. matching = {} => after = before
  BY <1>1 DEF Body
<1>4. ASSUME NEW s \in matching
      PROVE  /\ after = Rewritten(before, s.rewrite)
             /\ IsList(s.rewrite)
             /\ \A n \in DOMAIN s.rewrite : s.rewrite[n].field \in Paths
  <2>1. matching = {s} /\ \E i \in DOMAIN Table[request.list].selectors :
                             s = Table[request.list].selectors[i]
    <3> DEFINE l == request.list
               r == request.asked
    <3>1. l \in Lists /\ s \in Matching(l, r, TRUE)
      BY <1>1
    <3> HIDE DEF l, r
    <3>2. /\ Matching(l, r, TRUE) = {s}
          /\ \E i \in DOMAIN Table[l].selectors : s = Table[l].selectors[i]
      BY <3>1, FirstMatch
    <3>3. QED
      BY <3>2 DEF l, r
  <2>2. /\ IsList(s.rewrite)
        /\ \A n \in DOMAIN s.rewrite : s.rewrite[n].field \in Paths
    BY <1>1, <2>1, RouterAssumption
  <2>3. (CHOOSE t \in matching : TRUE) = s
    BY <2>1
  <2>4. after = Rewritten(before, s.rewrite)
    BY <1>1, <2>1, <2>3 DEF Body
  <2>5. QED
    BY <2>2, <2>4
<1>5. before = Opaque => after = before
  <2>1. CASE matching = {}
    BY <1>3, <2>1
  <2>2. ASSUME NEW s \in matching, before = Opaque PROVE after = before
    BY <1>4, <2>2 DEF Rewritten
  <2>3. QED
    BY <2>1, <2>2
<1>6. ASSUME before # Opaque, NEW s \in matching
      PROVE  LET W == {i \in DOMAIN s.rewrite : s.rewrite[i].enabled}
                 Field(i) == s.rewrite[i].field
                 On(p, q) == IsPrefix(p, q) \/ IsPrefix(q, p)
             IN  /\ \A p \in DOMAIN before \cup DOMAIN after :
                       (\A i \in W : ~On(p, Field(i))) =>
                           /\ p \in DOMAIN before /\ p \in DOMAIN after
                           /\ after[p] = before[p]
                 /\ \A i \in W :
                       LET lasting == \A j \in W :
                               j > i => ~On(Field(j), Field(i))
                       IN  Whole(Field(i)) /\ lasting =>
                              /\ Field(i) \in DOMAIN after
                              /\ after[Field(i)] = s.rewrite[i].value
                 /\ \A p \in DOMAIN after : \A n \in 1..(Len(p) - 1) :
                       /\ SubSeq(p, 1, n) \in DOMAIN after
                       /\ after[SubSeq(p, 1, n)] = Object
  <2> DEFINE rw == s.rewrite
             W == {i \in DOMAIN rw : rw[i].enabled}
             Field(i) == rw[i].field
             On(p, q) == IsPrefix(p, q) \/ IsPrefix(q, p)
  <2>1. /\ IsDocument(after) /\ Leaves(before, after, rw, Len(rw))
        /\ Sets(after, rw, Len(rw)) /\ DOMAIN rw = 1..Len(rw)
    <3>1. /\ before # Opaque /\ IsDocument(before) /\ Len(rw) \in Nat
          /\ DOMAIN rw = 1..Len(rw) /\ \A n \in DOMAIN rw : rw[n].field \in Paths
          /\ after = Rewritten(before, rw)
      BY <1>2, <1>4, <1>6 DEF IsList
    <3> HIDE DEF before, after, rw
    <3>2. QED
      BY <3>1, RewrittenBody
  <2>2. DOMAIN before \subseteq Paths /\ DOMAIN after \subseteq Paths
    BY <1>2, <1>6, <2>1 DEF IsDocument
  <2>3. \A i \in DOMAIN rw, p \in Paths :
           Reaches(rw[i], p) <=> i \in W /\ On(p, Field(i))
    BY DEF Reaches
  <2> HIDE DEF before, after, rw
  <2>4. ASSUME NEW p \in DOMAIN before \cup DOMAIN after,
               \A i \in W : ~On(p, Field(i))
        PROVE  /\ p \in DOMAIN before /\ p \in DOMAIN after
               /\ after[p] = before[p]
    <3>1. p \in Paths
      BY <2>2
    <3>2. \A i \in 1..Len(rw) : ~Reaches(rw[i], p)
      <4> HIDE DEF On, Field, W
      <4>1. QED
        BY <2>1, <2>3, <2>4, <3>1
    <3>3. QED
      BY <2>1, <3>1, <3>2 DEF Leaves
  <2>5. ASSUME NEW i \in W, Whole(Field(i)),
               \A j \in W : j > i => ~On(Field(j), Field(i))
        PROVE  Field(i) \in DOMAIN after /\ after[Field(i)] = rw[i].value
    <3>1. i \in 1..Len(rw) /\ rw[i].enabled /\ Field(i) \in Paths
      BY <1>4, <2>1 DEF rw
    <3>2. \A j \in 1..Len(rw) : j > i => ~Reaches(rw[j], Field(i))
      <4>1. \A p, q : On(p, q) <=> On(q, p)
        OBVIOUS
      <4> HIDE DEF On, Field, W
      <4>2. QED
        BY <2>1, <2>3, <2>5, <3>1, <4>1
    <3>3. QED
      BY <2>1, <2>5, <3>1, <3>2 DEF Sets
  <2>6. \A p \in DOMAIN after : \A n \in 1..(Len(p) - 1) :
           SubSeq(p, 1, n) \in DOMAIN after /\ after[SubSeq(p, 1, n)] = Object
    BY <2>1 DEF IsDocument
  <2>7. QED
    BY <2>4, <2>5, <2>6 DEF rw
<1>7. QED
  BY <1>3, <1>5, <1>6 DEF RewritesTakeEffect

(* The body that is sent has the value of every enabled rewrite that no    *)
(* later one reaches, whatever the selectors rewrite and whatever is asked *)
(* (proxy.go:852-1043).                                                    *)
THEOREM RouterRewritesTakeEffect == RouterSpec => []RewritesTakeEffect
<1>1. RouterInit => BodyIInv
  BY DEF RouterInit, BodyIInv
<1>2. RouterIInv /\ BodyIInv /\ [RouterNext]_routerVars => BodyIInv'
  BY BodyStep
<1>3. RouterSpec => []BodyIInv
  BY <1>1, <1>2, RouterInvariant, PTL DEF RouterSpec
<1>4. QED
  BY <1>3, BodyRewritten, RouterInvariant, PTL
=============================================================================
