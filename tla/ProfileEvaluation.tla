-------------------------- MODULE ProfileEvaluation --------------------------
(***************************************************************************)
(* What the profiles make of a message: how those that apply to its chat   *)
(* are bound and merged (profile_resolver.py), what heuristics.py and      *)
(* semantic.py score and the two evaluators decide, and how far the        *)
(* backtests and the similarity tester of the API say the same. Three      *)
(* copies of the profiles are told apart: the files, the configuration     *)
(* the worker evaluates with and the one the API answers from; and the     *)
(* vectors of semantic.py, which worker and API share.                     *)
(*                                                                         *)
(* Scores are counted in tenths, keywords are members of a small set and   *)
(* what a message has besides its words is a set of marks. The similarity  *)
(* of a text to a set of samples is a constant: a model computes it.       *)
(***************************************************************************)
EXTENDS Integers, FiniteSets, FiniteSetsExt

CONSTANTS
    Profile,        \* identifiers of profiles
    Definition,     \* the definitions the interface may save
    Chat,           \* chats of either sign
    Private,        \* those with a positive identifier: direct messages
    Message,        \* the messages that may arrive
    Word,           \* keywords
    User,           \* senders
    Topic,          \* what a text may be about
    Rule,           \* chat -> its entry under channels in tgsentinel.yml, or NoRule
    Monitored,      \* enabled entries of monitored_users
    Samples,        \* sets of training samples
    Likeness,       \* [topic, samples] -> the similarity the model finds
    Absent, NoRule, NoSamples, NoReport,
    MaxEdits        \* bound: saves and deletions that are followed

\* The categories of keywords run_heuristics knows, and the switches that
\* make it look at a mark.
Category == {"keywords", "action", "decision", "urgency", "importance", "release",
             "security", "risk", "opportunity"}

\* Names a category may have in the files besides these.
Field == Category \cup {"critical", "financial", "general", "community", "project",
                       "technical"}

Switch == {"codes", "documents", "links", "require_forwarded", "pinned", "admin",
           "private", "polls"}
Mark == {"mentioned", "reply_to_user", "pinned", "poll", "code", "media", "link",
         "question", "forwarded"}
Count == {"reactions", "replies"}

\* HeuristicResult.pre_score adds these, action keywords 10 in a private chat.
Weight == [mentioned |-> 20, reply_to_user |-> 15, pinned |-> 12, poll |-> 10,
           private |-> 5, question |-> 12, action |-> 8, decision |-> 11,
           urgency |-> 15, importance |-> 9, release |-> 8, security |-> 12,
           code |-> 13, media |-> 7, link |-> 5, risk |-> 10, opportunity |-> 6,
           vip |-> 10, reactions |-> 5, replies |-> 5, keywords |-> 8]

\* A profile as it stands in its file. The form takes no negative threshold of
\* reactions or replies.
Profiles ==
    [enabled : BOOLEAN, channels : SUBSET Chat, users : SUBSET Chat,
     samples : Samples \cup {NoSamples}, keywords : SUBSET (Field \X Word),
     switches : SUBSET Switch, excluded : SUBSET User, vip : SUBSET User,
     minScore : Int \cup {Absent}, threshold : Int, asks : [Count -> Nat]]

Messages ==
    [chat : Chat, sender : User, words : SUBSET Word, marks : SUBSET Mark,
     counts : [Count -> Nat], topic : Topic \cup {Absent}]

ASSUME EvaluationAssumption ==
    /\ Private \subseteq Chat /\ Monitored \subseteq Private
    /\ Message \subseteq Messages /\ Definition \subseteq Profiles
    /\ Likeness \in [Topic \X Samples -> Int]
    /\ NoSamples \notin Samples
    /\ MaxEdits \in Nat

VARIABLES
    file,           \* profile -> its definition in the three files, or Absent
    live,           \* profile -> what the worker's cfg.global_profiles has, or Absent
    origin,         \* history: the files the worker has last loaded
    known,          \* the same in the API's _config.global_profiles
    vectors,        \* profile -> the samples behind _profile_vectors, or NoSamples
    rows,           \* message -> its row, or Absent
    report,         \* what the last test or backtest said
    edits           \* history: saves and deletions so far

vars == <<file, live, origin, known, vectors, rows, report, edits>>

-----------------------------------------------------------------------------
\* What load_config makes of the files

\* field_mapping
Backend ==
    [field \in Field |->
        CASE field = "critical"  -> "urgency"
          [] field = "financial" -> "opportunity"
          [] field = "project"   -> "importance"
          [] field \in {"general", "community", "technical"} -> "keywords"
          [] OTHER -> field]

\* Words of fields with one category are united, what ProfileDefinition does
\* not know is dropped.
Loaded ==
    [d \in Definition |->
        [d EXCEPT !.keywords = {<<Backend[k[1]], k[2]>> : k \in @}]]

\* Mutant: only words under the names ProfileDefinition has are loaded.
LoadedUnmapped(files) ==
    [p \in Profile |-> IF files[p] = Absent THEN Absent
                       ELSE [files[p] EXCEPT !.keywords = {k \in @ : k[1] \in Category}]]

\* _load_global_profiles: one dictionary of the three files.
LoadedFrom(files) ==
    [p \in Profile |-> IF files[p] = Absent THEN Absent ELSE Loaded[files[p]]]

Files == [Profile -> Definition \cup {Absent}]

Library(lib) ==
    \A p \in Profile : lib[p] # Absent => \A k \in lib[p].keywords : k[1] \in Category

-----------------------------------------------------------------------------
\* Which profiles apply

Enabled(lib, p) == lib[p] # Absent /\ lib[p].enabled

ForAll(d) == d.channels = {} /\ d.users = {}

\* has_applicable_profiles looks at users for a private chat, at channels for
\* another one.
Applicable(lib, c) ==
    \E p \in Profile :
        /\ Enabled(lib, p)
        /\ \/ ForAll(lib[p])
           \/ c \in IF c \in Private THEN lib[p].users ELSE lib[p].channels

DefaultRule(c) == [id |-> c, profiles |-> {}, extra |-> {}, vip |-> {}, excluded |-> {}]

\* The rule process_stream_message goes by.
RuleFor(lib, c) ==
    IF Rule[c] # NoRule THEN Rule[c]
    ELSE IF c \in Monitored \/ Applicable(lib, c) THEN DefaultRule(c)
    ELSE NoRule

\* resolve_for_channel: the profiles the rule names and those that bind
\* themselves to its chat. It is asked for private chats too.
Bound(lib, r) ==
    {p \in Profile : Enabled(lib, p) /\ (p \in r.profiles \/ ForAll(lib[p])
                                            \/ r.id \in lib[p].channels)}

\* _resolve: words and switches are united, of the thresholds the highest
\* counts.
Merged(lib, r) ==
    LET bound == Bound(lib, r) IN
    [keywords |-> r.extra \cup UNION {lib[p].keywords : p \in bound},
     switches |-> UNION {lib[p].switches : p \in bound},
     vip      |-> r.vip,
     asks     |-> [n \in Count |-> Max({0} \cup {lib[p].asks[n] : p \in bound})]]

Excluded(lib, r) == r.excluded \cup UNION {lib[p].excluded : p \in Bound(lib, r)}

-----------------------------------------------------------------------------
\* run_heuristics

Hit(m, s) == {c \in Category : \E w \in m.words : <<c, w>> \in s.keywords}

\* The marks that count for themselves and those a switch must ask for.
Noticed(m, s) ==
    {k \in m.marks :
        \/ k \in {"mentioned", "reply_to_user"}
        \/ k = "pinned" /\ "pinned" \in s.switches
        \/ k = "poll" /\ "polls" \in s.switches
        \/ k = "code" /\ "codes" \in s.switches
        \/ k = "media" /\ "documents" \in s.switches
        \/ k = "link" /\ "links" \in s.switches
        \/ k = "question" /\ "private" \in s.switches /\ m.chat \in Private}

Popular(m, s) == {n \in Count : s.asks[n] > 0 /\ m.counts[n] >= s.asks[n]}

\* The forward filter comes before everything else.
Signals(m, s) ==
    IF "require_forwarded" \in s.switches /\ "forwarded" \notin m.marks THEN {}
    ELSE Hit(m, s) \cup Noticed(m, s) \cup Popular(m, s)
             \cup {x \in {"vip"} : m.sender \in s.vip}
             \cup {x \in {"private"} : x \in s.switches /\ m.chat \in Private}

WeightOf(x, m) == IF x = "action" /\ m.chat \in Private THEN 10 ELSE Weight[x]

\* The tenths that the signals are worth, one by one.
Points(m, signals) == UNION {{x} \X (1 .. WeightOf(x, m)) : x \in signals}

Score(m, s) == Cardinality(Points(m, Signals(m, s)))

-----------------------------------------------------------------------------
\* The evaluators

\* A definition without min_score has the dataclass's 1.0.
MinScore(d) == IF d.minScore = Absent THEN 10 ELSE d.minScore

\* Mutant: the evaluator stops at the first profile that is bound.
FirstAlert(lib, r, m) ==
    LET bound == Bound(lib, r)
    IN  {p \in bound : /\ lib[p].samples = NoSamples
                       /\ Score(m, Merged(lib, r)) >= MinScore(lib[p])
                       /\ p = CHOOSE q \in bound : TRUE}

\* evaluate_alert_profiles: one score for all, each profile's own bar.
AlertsOf(lib, r, m) ==
    {p \in Bound(lib, r) : /\ lib[p].samples = NoSamples
                           /\ Score(m, Merged(lib, r)) >= MinScore(lib[p])}

\* score_text_for_profile finds nothing without vectors or without a text.
Scored(vecs, p, m) == vecs[p] # NoSamples /\ m.topic # Absent

\* evaluate_interest_profiles
InterestsOf(lib, r, m, vecs) ==
    {p \in Bound(lib, r) : /\ lib[p].samples # NoSamples
                           /\ Scored(vecs, p, m)
                           /\ Likeness[m.topic, vecs[p]] >= lib[p].threshold}

-----------------------------------------------------------------------------
\* The worker and the files

\* Mutant: what is kept for a profile is its definition.
EmbeddedWhole(lib) == [p \in Profile |-> IF Enabled(lib, p) THEN lib[p] ELSE NoSamples]

\* The start of process_loop embeds the enabled interest profiles.
Embedded(lib) ==
    [p \in Profile |-> IF Enabled(lib, p) THEN lib[p].samples ELSE NoSamples]

Init ==
    /\ file \in Files
    /\ live = LoadedFrom(file) /\ known = LoadedFrom(file) /\ origin = file
    /\ vectors = Embedded(LoadedFrom(file))
    /\ rows = [m \in Message |-> Absent]
    /\ report = NoReport
    /\ edits = 0

\* The process starts over: main loads one configuration for worker and API.
StartProcess ==
    /\ live' = LoadedFrom(file) /\ known' = LoadedFrom(file) /\ origin' = file
    /\ vectors' = Embedded(LoadedFrom(file))
    /\ report' = NoReport
    /\ UNCHANGED <<file, rows, edits>>

SaveProfile(p, d) ==
    /\ edits < MaxEdits
    /\ file' = [file EXCEPT ![p] = d]
    /\ edits' = edits + 1
    /\ UNCHANGED <<live, origin, known, vectors, rows, report>>

DeleteProfile(p) ==
    /\ edits < MaxEdits /\ file[p] # Absent
    /\ file' = [file EXCEPT ![p] = Absent]
    /\ edits' = edits + 1
    /\ UNCHANGED <<live, origin, known, vectors, rows, report>>

\* process_loop finds the marker: rules and resolver are made anew, the
\* vectors and the API's configuration are not.
ReloadWorker ==
    /\ live' = LoadedFrom(file) /\ origin' = file
    /\ UNCHANGED <<file, known, vectors, rows, report, edits>>

\* update_config installs the configuration it has validated, which is loaded
\* from a file in the directory for temporary files: no profile is found there.
ReloadApi ==
    /\ known' = [p \in Profile |-> Absent]
    /\ UNCHANGED <<file, live, origin, vectors, rows, report, edits>>

\* process_stream_message up to the row and its flags (StreamPipeline has the
\* deliveries between them). "with", "from" and "made" are history: what the
\* worker decided by.
Process(m) ==
    LET r == RuleFor(live, m.chat) IN
    /\ rows[m] = Absent
    /\ r # NoRule
    /\ Bound(live, r) # {}
    /\ m.sender \notin Excluded(live, r)
    /\ rows' = [rows EXCEPT ![m] =
                    [alerts    |-> AlertsOf(live, r, m),
                     interests |-> InterestsOf(live, r, m, vectors),
                     with |-> live, from |-> origin, made |-> vectors]]
    /\ UNCHANGED <<file, live, origin, known, vectors, report, edits>>

-----------------------------------------------------------------------------
\* The API's tests

\* backtest_alert_profile runs a stored message through the heuristics again:
\* of its marks only what the text itself shows is left, and no counts.
Replayed(m) == [m EXCEPT !.marks = @ \cap {"code", "link", "question"},
                         !.counts = [n \in Count |-> 0]]

\* _collect takes words from the fields of a definition as they stand.
Collected ==
    LET of(c) == CASE c = "urgency"     -> {c, "critical"}
                   [] c = "importance"  -> {c, "project"}
                   [] c = "opportunity" -> {c, "financial"}
                   [] c = "keywords"    -> {c, "general", "technical", "community"}
                   [] OTHER -> {c}
    IN  [d \in Definition |->
            UNION {{<<c, k[2]>> : k \in {x \in d.keywords : x[1] \in of(c)}} :
                   c \in Category}]

\* What it takes from the definition. Lists of identifiers hold numbers and
\* _as_list keeps strings, so nobody is a VIP and nobody is excluded.
Backtested(d) ==
    [keywords |-> Collected[d],
     switches |-> d.switches \cap {"codes", "documents", "pinned", "admin", "polls"},
     vip |-> {}, asks |-> d.asks]

\* Without min_score it takes alerts.min_score, 5.0 unless it is configured.
BacktestScore(d) == IF d.minScore = Absent THEN 50 ELSE d.minScore

WouldAlert(d, m) ==
    LET s == Backtested(d) IN
    /\ d.keywords # {}
    /\ Score(Replayed(m), s) >= BacktestScore(d)
    /\ Signals(Replayed(m), s) # {}

Stored == {m \in Message : rows[m] # Absent}

\* The rows of the period asked for, of one chat if a channel filter is given.
Selected(chats) == {m \in Stored : m.chat \in chats}

\* The interface forwards the identifier alone, so the definition is the file's.
AlertDefinition(p) == IF file[p] = Absent THEN Absent
                      ELSE IF file[p].samples = NoSamples THEN file[p] ELSE Absent

BacktestAlert(p, chats) ==
    /\ AlertDefinition(p) # Absent
    /\ LET d       == AlertDefinition(p)
           would   == {m \in Selected(chats) : WouldAlert(d, m)}
           flagged == {m \in Selected(chats) : rows[m].alerts # {}}
       IN  report' = [of |-> p, by |-> d,
                      truePositives  |-> would \cap flagged,
                      falsePositives |-> would \ flagged,
                      falseNegatives |-> flagged \ would]
    /\ UNCHANGED <<file, live, origin, known, vectors, rows, edits>>

\* Here the interface fetches the profile first and sends all of it.
InterestDefinition(p) == IF file[p] = Absent THEN Absent
                         ELSE IF file[p].samples # NoSamples THEN file[p] ELSE Absent

\* The request is refused without positive samples; its vectors get a name of
\* their own, and the profile's VIPs a lower bar.
WouldInterest(d, m) ==
    /\ m.sender \notin d.excluded
    /\ m.topic # Absent
    /\ 10 * Likeness[m.topic, d.samples]
            >= (IF m.sender \in d.vip THEN 7 ELSE 10) * d.threshold

BacktestInterest(p) ==
    /\ InterestDefinition(p) # Absent
    /\ LET d == InterestDefinition(p)
       IN  report' = [of |-> p, by |-> d, tested |-> Stored,
                      matched |-> {m \in Stored : WouldInterest(d, m)}]
    /\ UNCHANGED <<file, live, origin, known, vectors, rows, edits>>

\* The API's own copy of the profile, or the file's when it has none.
TestedDefinition(p) == IF known[p] # Absent THEN known[p] ELSE file[p]

\* test_similarity embeds it under the profile's identifier before it scores.
TestSimilarity(p, m) ==
    LET d == TestedDefinition(p) IN
    /\ m.topic # Absent
    /\ d # Absent /\ d.samples # NoSamples
    /\ vectors' = [vectors EXCEPT ![p] = d.samples]
    /\ report' = [of |-> p, by |-> d, sample |-> m,
                  willMatch |-> Likeness[m.topic, d.samples] >= d.threshold]
    /\ UNCHANGED <<file, live, origin, known, rows, edits>>

Operator ==
    \/ \E p \in Profile : \/ \E d \in Definition : SaveProfile(p, d)
                          \/ DeleteProfile(p)
                          \/ BacktestAlert(p, Chat)
                          \/ \E c \in Chat : BacktestAlert(p, {c})
                          \/ BacktestInterest(p)
                          \/ \E m \in Message : TestSimilarity(p, m)
    \/ ReloadApi

Worker == StartProcess \/ ReloadWorker \/ \E m \in Message : Process(m)

Next == Operator \/ Worker

Spec == Init /\ [][Next]_vars

-----------------------------------------------------------------------------
\* Properties

Decision == [alerts : SUBSET Profile, interests : SUBSET Profile]

\* The copies in memory are libraries, vectors belong to samples, and a row names
\* profiles: what the loader, the evaluators and the tests exchange.
TypeOK ==
    /\ file \in Files /\ origin \in Files /\ Library(live) /\ Library(known)
    /\ vectors \in [Profile -> Samples \cup {NoSamples}]
    /\ \A m \in Message : rows[m] # Absent =>
          /\ [alerts |-> rows[m].alerts, interests |-> rows[m].interests] \in Decision
          /\ Library(rows[m].with)
    /\ report # NoReport => report.of \in Profile /\ report.by # Absent
    /\ edits \in 0 .. MaxEdits

\* A definition and a message both sides see in full: the row was decided by
\* this definition, nothing else applied to the chat, and neither uses what
\* the backtest cannot replay or does not look at.
AlertComparable(p, d, m) ==
    LET lib == rows[m].with
        r   == RuleFor(lib, m.chat)
    IN  /\ rows[m].from[p] = d /\ Bound(lib, r) = {p}
        /\ r.extra = {} /\ r.vip = {}
        /\ d.keywords # {} /\ d.minScore # Absent /\ d.minScore > 0
        /\ d.switches \cap {"links", "private", "require_forwarded"} = {}
        /\ Replayed(m) = m

\* The backtest is there "to mirror production alert decisions": where both
\* sides know the same, a backtest finds no false positive and no false
\* negative among the rows, however files, worker and API were edited, started
\* and reloaded in between. An interest profile is compared whatever else is
\* bound, unless the sender is one of its VIPs.
BacktestsAgree ==
    LET p == report.of
        d == report.by
    IN  /\ report # NoReport /\ "falsePositives" \in DOMAIN report =>
               \A m \in report.falsePositives \cup report.falseNegatives :
                   ~AlertComparable(p, d, m)
        /\ report # NoReport /\ "matched" \in DOMAIN report =>
               \A m \in report.tested :
                   (/\ rows[m].from[p] = d /\ rows[m].made[p] = d.samples
                    /\ p \in Bound(rows[m].with, RuleFor(rows[m].with, m.chat))
                    /\ m.sender \notin d.vip)
                   => (m \in report.matched <=> p \in rows[m].interests)

Decided(lib, m) ==
    LET r == RuleFor(lib, m.chat)
    IN  IF r = NoRule THEN {}
        ELSE IF m.sender \in Excluded(lib, r) THEN {}
        ELSE AlertsOf(lib, r, m) \cup InterestsOf(lib, r, m, vectors)

Without(lib, q) == [lib EXCEPT ![q] = Absent]

\* Profiles are merged before they are scored. Still one profile takes a
\* message from another one in three ways only: it excludes the sender, it
\* requires forwarded messages, or it asks for more reactions or replies.
NoProfileSilencesAnother ==
    \A m \in Message : \A q \in {x \in Profile : live[x] # Absent} :
        \/ m.sender \in live[q].excluded
        \/ "require_forwarded" \in live[q].switches
        \/ \E n \in Count : live[q].asks[n] > 0
        \/ Decided(Without(live, q), m) \subseteq Decided(live, m)

=============================================================================
