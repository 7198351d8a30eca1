------------------------------- MODULE Router -------------------------------
(***************************************************************************)
(* How a request of the hot path finds its upstream (ServeHTTP,            *)
(* routeUpstreams and the matchers of proxy.go), while the configuration   *)
(* is saved (module Config).                                               *)
(*                                                                         *)
(* ServeHTTP copies the slices of upstreams and app selectors under the    *)
(* read lock of Proxy.Mu and works on the copies, whatever is saved later. *)
(* Two things it reads when it gets to them: the credential of each        *)
(* upstream it tries, under the lock again; and the compiled regex of a    *)
(* rule, without a lock: a save that keeps the selectors validates the     *)
(* rules the copy shares with it, and the pointer of a rule is nil for a   *)
(* while.                                                                  *)
(*                                                                         *)
(* Requests share nothing with each other here: one at a time is enough.   *)
(* A text is a sequence of letters; a document maps paths of fields to     *)
(* texts, Null or Object; a regular expression is the set of texts it      *)
(* matches.                                                                *)
(***************************************************************************)
EXTENDS Config, SequencesExt

CONSTANTS Table,      \* Table[l]: the selectors and the upstreams of list l
          Requests,   \* what is asked: [method, path, query, headers, body]
          Upper,      \* Upper[c]: for the letters that are capitals, the
                      \* small one
          Object, Null,  \* an object, a null in a document
          Opaque,     \* a body that is not a JSON object
          Braces,     \* the text an object is searched as
          Nobody      \* there is no request

Paths == Seq(STRING) \ {<<>>}

\* A JSON object: what has something below it is an object itself.
IsDocument(body) ==
    /\ body = [p \in DOMAIN body |-> body[p]] /\ DOMAIN body \subseteq Paths
    /\ \A p \in DOMAIN body : \A n \in 1..(Len(p) - 1) :
          SubSeq(p, 1, n) \in DOMAIN body /\ body[SubSeq(p, 1, n)] = Object

\* A list of records, whatever they hold.
IsList(list) == Len(list) \in Nat /\ DOMAIN list = 1..Len(list)

ASSUME RouterAssumption ==
    \* validateUpstreams: a configuration without upstreams is refused; a
    \* field is a text, and has a part at least, if only an empty one
    /\ \A l \in Lists :
          /\ Table[l].upstreams \in Seq([serves : SUBSET STRING, key : Lists])
          /\ Table[l].upstreams # <<>>
          /\ IsList(Table[l].selectors)
          /\ \A i \in DOMAIN Table[l].selectors :
                LET rewrite == Table[l].selectors[i].rewrite
                IN  /\ IsList(rewrite)
                    /\ \A n \in DOMAIN rewrite : rewrite[n].field \in Paths
    /\ \A r \in Requests : r.body = Opaque \/ IsDocument(r.body)

VARIABLE request

routerVars == <<vars, request>>

-----------------------------------------------------------------------------
(* What a rule looks at, and when it holds.                                *)

Lower(text) ==
    [i \in DOMAIN text |->
        IF text[i] \in DOMAIN Upper THEN Upper[text[i]] ELSE text[i]]

\* bodyFieldValue: the scalars are texts, an object is searched as it is
\* written; a null and what is not there have no value.
BodyValues(body, field) ==
    IF body = Opaque \/ field \notin DOMAIN body THEN {}
    ELSE CASE body[field] = Null   -> {}
           [] body[field] = Object -> {Braces}
           [] OTHER                -> {body[field]}

\* The texts a rule is about: the path, the values of a parameter or of a
\* header, of which one is enough, or the value of a field of the body.
Values(rule, r) ==
    CASE rule.part = "path"    -> {r.path}
      [] rule.part = "query"   -> r.query[rule.name]
      [] rule.part = "headers" -> r.headers[rule.name]
      [] rule.part = "body"    -> BodyValues(r.body, rule.name)

\* (mutant) A rule without its compiled regex does not match.
LanguageCompiled(rule, compiled) == IF compiled THEN rule.language ELSE {}

\* The regex of a rule: if the pointer is nil the matcher compiles it anew.
Language(rule, compiled) == rule.language

\* One value against a rule; case counts in paths and where it is asked for.
Passes(rule, text, compiled) ==
    LET Same(t) == IF rule.case THEN t ELSE Lower(t)
    IN  CASE rule.operator = "exact"    -> Same(text) = Same(rule.value)
          [] rule.operator = "prefix"   -> IsPrefix(Same(rule.value), Same(text))
          [] rule.operator = "contains" ->
                \E i \in 0..Len(text) :
                    IsPrefix(Same(rule.value),
                             SubSeq(Same(text), i + 1, Len(text)))
          [] rule.operator = "regex"    ->
                \E t \in Language(rule, compiled) : Same(t) = Same(text)

RuleHolds(rule, r, compiled) ==
    LET texts == Values(rule, r)
    IN  IF rule.operator = "present" THEN texts # {}
        ELSE \E text \in texts : Passes(rule, text, compiled)

\* appSelectorMatches: no method rules means any method, a disabled rule
\* does not count.
SelectorMatches(selector, r, compiled) ==
    /\ selector.methods # {} => r.method \in selector.methods
    /\ \A rule \in selector.rules :
          rule.enabled => RuleHolds(rule, r, compiled)

\* routeUpstreams: the first selector that matches; without selectors there
\* is nothing to match.
Matching(l, r, compiled) ==
    LET selectors == Table[l].selectors
    IN  {selectors[i] : i \in {j \in DOMAIN selectors :
            /\ SelectorMatches(selectors[j], r, compiled)
            /\ \A k \in 1..(j - 1) :
                  ~SelectorMatches(selectors[k], r, compiled)}}

\* The places of the upstreams to try, in their order; none is an error.
Routed(l, r, compiled) ==
    {i \in DOMAIN Table[l].upstreams :
        Table[l].selectors # <<>> =>
            \E s \in Matching(l, r, compiled) :
                s.name \in Table[l].upstreams[i].serves}

-----------------------------------------------------------------------------
(* Rewriting the body.                                                     *)

Below(path, field) == Len(path) > Len(field) /\ IsPrefix(field, path)

\* (mutant) The objects on the way to a field are made anew.
SetPathAnew(body, field, value) ==
    LET kept == {p \in DOMAIN body : p[1] # field[1]}
        above == {SubSeq(field, 1, n) : n \in 1..(Len(field) - 1)}
    IN  [p \in kept \cup above \cup {field} |->
            IF p = field THEN value
            ELSE IF p \in above THEN Object ELSE body[p]]

\* A field without an empty part, as in "a..b".
Whole(field) == \A n \in DOMAIN field : field[n] # ""

\* setJSONPath: what is not an object on the way to the field becomes one,
\* and what was below the field is gone; at an empty part it gives up.
SetPath(body, field, value) ==
    LET above == {SubSeq(field, 1, n) : n \in
                     {m \in 1..(Len(field) - 1) : \A k \in 1..m : field[k] # ""}}
        last == {f \in {field} : Whole(f)}
        cut == last \cup {p \in above : p \in DOMAIN body /\ body[p] # Object}
        kept == {p \in DOMAIN body : \A c \in cut : ~Below(p, c)}
    IN  [p \in kept \cup above \cup last |->
            IF p \in last THEN value
            ELSE IF p \in above THEN Object ELSE body[p]]

\* applyRewrites, applySelectorRewrites: the enabled ones in their order, if
\* the body is an object.
Rewritten(body, rewrites) ==
    IF body = Opaque THEN body
    ELSE FoldLeft(LAMBDA b, w : IF w.enabled THEN SetPath(b, w.field, w.value)
                                             ELSE b,
                  body, rewrites)

-----------------------------------------------------------------------------
RouterInit == Init /\ request = Nobody

\* ServeHTTP copies the lists.
Copy(r) ==
    /\ request = Nobody
    /\ request' = [at |-> "copied", list |-> running.list, asked |-> r]
    /\ UNCHANGED vars

\* Whether a save that is going on may be compiling the rules of list l.
Validated(l) == \E h \in Handlers : pc[h] # "idle" /\ draft[h].list = l

\* What the upstreams are sent.
Body(l, r, compiled) ==
    IF Matching(l, r, compiled) = {} THEN r.body
    ELSE LET s == CHOOSE s \in Matching(l, r, compiled) : TRUE
         IN  Rewritten(r.body, s.rewrite)

\* The request is over; what was tried is for the properties.
Answer(with, tried) ==
    request' = [at |-> "answered", with |-> with, list |-> request.list,
                asked |-> request.asked, tried |-> tried]

\* The body is read, a route is found, and the body is rewritten for it.
Route ==
    /\ request # Nobody /\ request.at = "copied"
    /\ \E compiled \in IF Validated(request.list) THEN BOOLEAN ELSE {TRUE} :
          LET l == request.list
              r == request.asked
              routed == Routed(l, r, compiled)
          IN  IF routed = {} THEN Answer("no route", <<>>)
              ELSE request' = [at |-> "trying", list |-> l, asked |-> r,
                               left |-> routed, tried |-> <<>>, cause |-> FALSE,
                               body |-> Body(l, r, compiled)]
    /\ UNCHANGED vars

\* Upstream i is the next to try, and its credential is at hand or is not.
Trying(i) == /\ request # Nobody /\ request.at = "trying"
             /\ i \in request.left /\ \A j \in request.left : i <= j

Unlocked(i) == Table[request.list].upstreams[i].key \in secrets \cup {NoKey}

Tried(i, how) ==
    [j \in DOMAIN request.tried \cup {i} |->
        IF j = i THEN how ELSE request.tried[j]]

\* The attempt came to nothing, for a reason that is kept if there is one.
GoOn(i, how, cause) ==
    request' = [request EXCEPT !.left = @ \ {i}, !.cause = @ \/ cause,
                               !.tried = Tried(i, how)]

\* The credential of the upstream is not there: on to the next one.
ConfigError(i) == /\ Trying(i) /\ ~Unlocked(i)
                  /\ GoOn(i, "locked", TRUE)
                  /\ UNCHANGED vars

\* Nothing comes back; the client may have left.
TransportError(i) == /\ Trying(i) /\ Unlocked(i)
                     /\ GoOn(i, "unreachable", TRUE)
                     /\ UNCHANGED vars

\* (mutant) A retryable status is never passed on.
RetriesAlways(i, status) == status = "unavailable"

\* (mutant) Every error is tried again elsewhere.
RetriesErrors(i, status) == status # "fine" /\ request.left # {i}

\* An error that may be of this upstream alone (502, 503, 504) is not passed
\* on as long as there is another upstream.
Retries(i, status) == status = "unavailable" /\ request.left # {i}

\* A response: it is fine, or an error.
Response(i, status) ==
    /\ Trying(i) /\ Unlocked(i)
    /\ IF Retries(i, status) THEN GoOn(i, status, FALSE)
       ELSE Answer("passed on", Tried(i, status))
    /\ UNCHANGED vars

\* All failed: 502 with the last reason, unless the client has left.
Exhausted ==
    /\ request # Nobody /\ request.at = "trying" /\ request.left = {}
    /\ Answer("exhausted", request.tried)
    /\ UNCHANGED vars

Done == /\ request # Nobody /\ request.at = "answered"
        /\ request' = Nobody
        /\ UNCHANGED vars

Places == UNION {DOMAIN Table[l].upstreams : l \in Lists}

Serve ==
    \/ \E r \in Requests : Copy(r)
    \/ Route
    \/ \E i \in Places :
          \/ ConfigError(i) \/ TransportError(i)
          \/ \E status \in {"fine", "bad", "unavailable"} : Response(i, status)
    \/ Exhausted \/ Done

\* Saves go on beside it, and a stop of the gateway ends the request.
RouterNext == \/ Serve
              \/ Saving /\ UNCHANGED request
              \/ Restart /\ request' = Nobody

RouterSpec == RouterInit /\ [][RouterNext]_routerVars

-----------------------------------------------------------------------------
(* A request is routed by the rules of one configuration, the one that ran *)
(* when it came, whatever is saved and validated meanwhile: it tries the   *)
(* upstreams that serve the first selector that matches, in their order,   *)
(* each once, and is refused only if there are none (proxy.go:1054-1078).  *)
RoutedAsConfigured ==
    request # Nobody /\ request.at # "copied" =>
        LET routed == Routed(request.list, request.asked, TRUE)
            tried == DOMAIN request.tried
        IN  /\ tried \subseteq routed
            /\ \A i \in tried, j \in routed \ tried : i < j
            /\ request.at = "trying" =>
                  routed # {} /\ request.left = routed \ tried
            /\ request.at = "answered" =>
                  (request.with = "no route" <=> routed = {})

(* A request is not sent to another upstream once one has given a response *)
(* that is the client's to see, and the client sees one that could have    *)
(* been tried elsewhere only if there is nowhere else                      *)
(* (proxy.go:1343-1369).                                                   *)
RetriedOnlyUnanswered ==
    request # Nobody /\ request.at \in {"trying", "answered"} =>
        LET tried == request.tried
            Failed(i) == tried[i] \notin {"fine", "bad"}
        IN  /\ \A i, j \in DOMAIN tried : i < j => Failed(i)
            /\ request.at = "trying" => \A i \in DOMAIN tried : Failed(i)
            /\ request.at = "answered" /\ request.with = "passed on" =>
                  \/ \E i \in DOMAIN tried : ~Failed(i)
                  \/ DOMAIN tried = Routed(request.list, request.asked, TRUE)

(* When all upstreams have failed there is an error to report: the code    *)
(* reads the last one without asking whether there is any                  *)
(* (proxy.go:1391-1398).                                                   *)
ExhaustedHasCause ==
    request # Nobody /\ request.at = "trying" /\ request.left = {} =>
        request.cause

(* The body that is sent has the value of every enabled rewrite that no    *)
(* later one reaches, unless its field has an empty part, objects on the   *)
(* way to it, and everything that is on the way to or below no rewritten   *)
(* field as it was (proxy.go:852-1043).                                    *)
RewritesTakeEffect ==
    request # Nobody /\ request.at = "trying" =>
        LET before == request.asked.body
            after == request.body
            matching == Matching(request.list, request.asked, TRUE)
            On(p, q) == IsPrefix(p, q) \/ IsPrefix(q, p)
        IN  IF before = Opaque \/ matching = {} THEN after = before
            ELSE \A s \in matching :
                LET W == {i \in DOMAIN s.rewrite : s.rewrite[i].enabled}
                    Field(i) == s.rewrite[i].field
                IN  /\ \A p \in DOMAIN before \cup DOMAIN after :
                          (\A i \in W : ~On(p, Field(i))) =>
                              /\ p \in DOMAIN before /\ p \in DOMAIN after
                              /\ after[p] = before[p]
                    /\ \A i \in W :
                          LET lasting == \A j \in W :
                                  j > i => ~On(Field(j), Field(i))
                          IN  Whole(Field(i)) /\ lasting =>
                                 /\ Field(i) \in DOMAIN after
                                 /\ after[Field(i)] = s.rewrite[i].value
                    /\ \A p \in DOMAIN after : \A n \in 1..(Len(p) - 1) :
                          /\ SubSeq(p, 1, n) \in DOMAIN after
                          /\ after[SubSeq(p, 1, n)] = Object
=============================================================================
