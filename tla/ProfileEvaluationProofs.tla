----------------------- MODULE ProfileEvaluationProofs -----------------------
(***************************************************************************)
(* Theorems about ProfileEvaluation, for any definitions, rules, messages  *)
(* and any number of edits: types, that backtests agree with the rows, and *)
(* that no profile silences another but in the three ways it may.          *)
(***************************************************************************)
EXTENDS ProfileEvaluation, FiniteSetTheorems, TLAPS

-----------------------------------------------------------------------------
\* Scores: points are a finite set, and more signals are more points.

LEMMA ThreeAreFinite ==
    ASSUME NEW a, NEW b, NEW c
    PROVE  IsFiniteSet({a, b, c})
<1>1. IsFiniteSet({a}) /\ IsFiniteSet({b}) /\ IsFiniteSet({c})
    BY FS_Singleton
<1>2. IsFiniteSet({a} \cup {b})
    BY <1>1, FS_Union
<1>3. IsFiniteSet(({a} \cup {b}) \cup {c})
    BY <1>1, <1>2, FS_Union
<1>4. {a, b, c} = ({a} \cup {b}) \cup {c}
    OBVIOUS
<1> QED BY <1>3, <1>4

\* What run_heuristics can find in a message.
Signal == Category \cup Mark \cup Count \cup {"vip", "private"}

LEMMA SignalsAreFinite == IsFiniteSet(Signal)
<1> DEFINE one   == {"keywords", "action", "decision"}
           two   == {"urgency", "importance", "release"}
           three == {"security", "risk", "opportunity"}
           four  == {"mentioned", "reply_to_user", "pinned"}
           five  == {"poll", "code", "media"}
           six   == {"link", "question", "forwarded"}
           seven == {"reactions", "replies", "vip"}
           eight == {"private", "private", "private"}
<1>1. /\ IsFiniteSet(one) /\ IsFiniteSet(two) /\ IsFiniteSet(three) /\ IsFiniteSet(four)
      /\ IsFiniteSet(five) /\ IsFiniteSet(six) /\ IsFiniteSet(seven) /\ IsFiniteSet(eight)
    BY ThreeAreFinite
<1>2. Signal = ((((((one \cup two) \cup three) \cup four) \cup five) \cup six) \cup seven) \cup eight
    BY DEF Signal, Category, Mark, Count
<1> HIDE DEF one, two, three, four, five, six, seven, eight
<1>3. IsFiniteSet(one \cup two)
    BY <1>1, FS_Union
<1>4. IsFiniteSet((one \cup two) \cup three)
    BY <1>1, <1>3, FS_Union
<1>5. IsFiniteSet(((one \cup two) \cup three) \cup four)
    BY <1>1, <1>4, FS_Union
<1>6. IsFiniteSet((((one \cup two) \cup three) \cup four) \cup five)
    BY <1>1, <1>5, FS_Union
<1>7. IsFiniteSet(((((one \cup two) \cup three) \cup four) \cup five) \cup six)
    BY <1>1, <1>6, FS_Union
<1>8. IsFiniteSet((((((one \cup two) \cup three) \cup four) \cup five) \cup six) \cup seven)
    BY <1>1, <1>7, FS_Union
<1>9. IsFiniteSet(((((((one \cup two) \cup three) \cup four) \cup five) \cup six) \cup seven) \cup eight)
    BY <1>1, <1>8, FS_Union
<1> QED BY <1>2, <1>9

\* "forwarded" is a mark of its own and no signal.
Telling == Signal \ {"forwarded"}

LEMMA WeightBounds ==
    ASSUME NEW x \in Telling, NEW m
    PROVE  WeightOf(x, m) \in 1 .. 20
<1>1. Weight[x] \in 1 .. 20
    BY DEF Telling, Signal, Category, Mark, Count, Weight
<1> QED BY <1>1 DEF WeightOf

LEMMA PointsFinite ==
    ASSUME NEW m, NEW S \in SUBSET Telling
    PROVE  IsFiniteSet(Points(m, S)) /\ Cardinality(Points(m, S)) \in Nat
<1>1. IsFiniteSet(Signal \X (1 .. 20))
  <2>1. 1 \in Int /\ 20 \in Int
      OBVIOUS
  <2>2. IsFiniteSet(1 .. 20)
      BY <2>1, FS_Interval, Zenon
  <2> QED BY <2>2, SignalsAreFinite, FS_Product
<1>2. Points(m, S) \subseteq Signal \X (1 .. 20)
  <2> SUFFICES ASSUME NEW x \in S, NEW i \in 1 .. WeightOf(x, m)
               PROVE  x \in Signal /\ i \in 1 .. 20
      BY DEF Points
  <2> QED BY WeightBounds DEF Telling
<1>3. IsFiniteSet(Points(m, S))
    BY <1>1, <1>2, FS_Subset
<1> QED BY <1>3, FS_CardinalityType

LEMMA MoreSignalsMorePoints ==
    ASSUME NEW m, NEW S, NEW T \in SUBSET Telling, S \subseteq T
    PROVE  Cardinality(Points(m, S)) <= Cardinality(Points(m, T))
<1>1. Points(m, S) \subseteq Points(m, T)
    BY DEF Points
<1>2. IsFiniteSet(Points(m, T))
    BY PointsFinite
<1> QED BY <1>1, <1>2, FS_Subset

LEMMA NoSignalNoPoint ==
    ASSUME NEW m
    PROVE  Cardinality(Points(m, {})) = 0
<1>1. Points(m, {}) = {}
    BY DEF Points
<1> QED BY <1>1, FS_EmptySet

LEMMA SignalsTell ==
    ASSUME NEW m, NEW s
    PROVE  Signals(m, s) \in SUBSET Telling
<1>1. /\ Hit(m, s) \subseteq Category
      /\ Noticed(m, s) \subseteq {"mentioned", "reply_to_user", "pinned", "poll", "code",
                                  "media", "link", "question"}
      /\ Popular(m, s) \subseteq Count
    BY DEF Hit, Noticed, Popular
<1>2. /\ Category \subseteq Telling /\ Count \subseteq Telling
      /\ "vip" \in Telling /\ "private" \in Telling
      /\ {"mentioned", "reply_to_user", "pinned", "poll", "code",
          "media", "link", "question"} \subseteq Telling
    BY DEF Telling, Signal, Category, Mark, Count
<1> HIDE DEF Telling
<1> QED BY <1>1, <1>2 DEF Signals

LEMMA ScoreType ==
    ASSUME NEW m, NEW s
    PROVE  Score(m, s) \in Nat
BY SignalsTell, PointsFinite DEF Score

LEMMA MoreSignalsScoreMore ==
    ASSUME NEW m, NEW s, NEW t, Signals(m, s) \subseteq Signals(m, t)
    PROVE  Score(m, s) <= Score(m, t)
BY SignalsTell, MoreSignalsMorePoints DEF Score

-----------------------------------------------------------------------------
\* What load_config makes of a definition

\* Every field but the keywords stays, keywords end in the categories known.
LEMMA LoadedFields ==
    ASSUME NEW d \in Definition
    PROVE  /\ d \in Profiles
           /\ Loaded[d].enabled = d.enabled /\ Loaded[d].channels = d.channels
           /\ Loaded[d].users = d.users /\ Loaded[d].samples = d.samples
           /\ Loaded[d].switches = d.switches /\ Loaded[d].excluded = d.excluded
           /\ Loaded[d].vip = d.vip /\ Loaded[d].minScore = d.minScore
           /\ Loaded[d].threshold = d.threshold /\ Loaded[d].asks = d.asks
           /\ Loaded[d].keywords = {<<Backend[k[1]], k[2]>> : k \in d.keywords}
<1>1. d \in Profiles
    BY EvaluationAssumption
<1>2. Loaded[d] = [d EXCEPT !.keywords = {<<Backend[k[1]], k[2]>> : k \in d.keywords}]
    BY DEF Loaded
<1> QED BY <1>1, <1>2 DEF Profiles

LEMMA BackendKnown ==
    ASSUME NEW f \in Field
    PROVE  Backend[f] \in Category
BY DEF Backend, Field, Category

LEMMA LoadedKnown ==
    ASSUME NEW d \in Definition
    PROVE  \A k \in Loaded[d].keywords : k[1] \in Category
<1>1. d.keywords \subseteq Field \X Word
    BY LoadedFields DEF Profiles
<1>2. ASSUME NEW k \in d.keywords
      PROVE  <<Backend[k[1]], k[2]>>[1] \in Category
    BY <1>1, BackendKnown
<1> QED BY <1>2, LoadedFields

LEMMA LoadedOf ==
    ASSUME NEW f \in Files, NEW p \in Profile, LoadedFrom(f)[p] # Absent
    PROVE  f[p] \in Definition /\ LoadedFrom(f)[p] = Loaded[f[p]]
BY DEF Files, LoadedFrom

LEMMA LoadedLibrary ==
    ASSUME NEW f \in Files
    PROVE  Library(LoadedFrom(f))
BY LoadedOf, LoadedKnown DEF Library

VectorTable == [Profile -> Samples \cup {NoSamples}]

LEMMA EmbeddedType ==
    ASSUME NEW f \in Files
    PROVE  Embedded(LoadedFrom(f)) \in VectorTable
<1> DEFINE lib == LoadedFrom(f)
<1>1. ASSUME NEW p \in Profile, Enabled(lib, p)
      PROVE  lib[p].samples \in Samples \cup {NoSamples}
  <2>1. f[p] \in Definition /\ lib[p] = Loaded[f[p]]
      BY <1>1, LoadedOf DEF Enabled
  <2> QED BY <2>1, LoadedFields DEF Profiles
<1>2. Embedded(lib) \in VectorTable
  <2> HIDE DEF lib
  <2> QED BY <1>1 DEF Embedded, VectorTable
<1> QED BY <1>2

-----------------------------------------------------------------------------
\* The inductive invariant

\* What is in memory was loaded from files, if not from those of now.
CopiesLoaded ==
    /\ file \in Files /\ origin \in Files
    /\ live = LoadedFrom(origin)
    /\ \E f \in Files : known = LoadedFrom(f)
    /\ vectors \in VectorTable
    /\ edits \in 0 .. MaxEdits

\* A row says what the evaluators made of its message, by the profiles and
\* the vectors of then.
DecidedThen(m, row) ==
    LET r == RuleFor(row.with, m.chat) IN
    /\ row.from \in Files /\ row.with = LoadedFrom(row.from)
    /\ m.sender \notin Excluded(row.with, r)
    /\ row.alerts = AlertsOf(row.with, r, m)
    /\ row.interests = InterestsOf(row.with, r, m, row.made)

RowsDecided ==
    /\ DOMAIN rows = Message
    /\ \A m \in Message : rows[m] # Absent => DecidedThen(m, rows[m])

\* A report compares rows, which are there to stay, with a definition that was
\* in the files.
AlertReport(rep) ==
    /\ rep.by \in Definition /\ rep.by.samples = NoSamples
    /\ \A m \in rep.falsePositives :
          m \in Message /\ rows[m] # Absent /\ WouldAlert(rep.by, m) /\ rows[m].alerts = {}
    /\ \A m \in rep.falseNegatives :
          m \in Message /\ rows[m] # Absent /\ ~WouldAlert(rep.by, m) /\ rows[m].alerts # {}

InterestReport(rep) ==
    /\ rep.by \in Definition /\ rep.by.samples # NoSamples
    /\ \A m \in rep.tested :
          m \in Message /\ rows[m] # Absent /\ (m \in rep.matched <=> WouldInterest(rep.by, m))

ReportFollows ==
    report # NoReport =>
        /\ report.of \in Profile /\ report.by # Absent
        /\ "falsePositives" \in DOMAIN report => AlertReport(report)
        /\ "matched" \in DOMAIN report => InterestReport(report)

Inv == CopiesLoaded /\ RowsDecided /\ ReportFollows

-----------------------------------------------------------------------------
\* The copies

LEMMA InitInv == Init => Inv
<1> SUFFICES ASSUME Init PROVE Inv
    OBVIOUS
<1>1. CopiesLoaded
    BY EmbeddedType, EvaluationAssumption DEF Init, CopiesLoaded
<1>2. RowsDecided
    BY DEF Init, RowsDecided
<1>3. ReportFollows
    BY DEF Init, ReportFollows
<1> QED BY <1>1, <1>2, <1>3 DEF Inv

\* What test_similarity embeds are the samples of a definition.
LEMMA TestedSamples ==
    ASSUME CopiesLoaded, NEW p \in Profile,
           TestedDefinition(p) # Absent
    PROVE  TestedDefinition(p).samples \in Samples \cup {NoSamples}
<1>1. CASE known[p] # Absent
  <2>1. PICK f \in Files : known = LoadedFrom(f)
      BY DEF CopiesLoaded
  <2>2. f[p] \in Definition /\ known[p] = Loaded[f[p]]
      BY <1>1, <2>1, LoadedOf
  <2> QED BY <1>1, <2>2, LoadedFields DEF TestedDefinition, Profiles
<1>2. CASE known[p] = Absent
  <2>1. file[p] \in Definition
      BY <1>2 DEF TestedDefinition, CopiesLoaded, Files
  <2> QED BY <1>2, <2>1, LoadedFields DEF TestedDefinition, Profiles
<1> QED BY <1>1, <1>2

LEMMA CopiesStep == CopiesLoaded /\ [Next]_vars => CopiesLoaded'
<1> SUFFICES ASSUME CopiesLoaded, [Next]_vars PROVE CopiesLoaded'
    OBVIOUS
<1> USE EvaluationAssumption
<1>1. ASSUME NEW p \in Profile, NEW d \in Definition, SaveProfile(p, d)
      PROVE  CopiesLoaded'
    BY <1>1 DEF SaveProfile, CopiesLoaded, Files
<1>2. ASSUME NEW p \in Profile, DeleteProfile(p)
      PROVE  CopiesLoaded'
    BY <1>2 DEF DeleteProfile, CopiesLoaded, Files
<1>3. ASSUME NEW p \in Profile, NEW c, BacktestAlert(p, c)
      PROVE  CopiesLoaded'
    BY <1>3 DEF BacktestAlert, CopiesLoaded
<1>4. ASSUME NEW p \in Profile, BacktestInterest(p)
      PROVE  CopiesLoaded'
    BY <1>4 DEF BacktestInterest, CopiesLoaded
<1>5. ASSUME NEW p \in Profile, NEW m \in Message, TestSimilarity(p, m)
      PROVE  CopiesLoaded'
  <2>1. TestedDefinition(p).samples \in Samples \cup {NoSamples}
      BY <1>5, TestedSamples DEF TestSimilarity
  <2> QED BY <1>5, <2>1 DEF TestSimilarity, CopiesLoaded, VectorTable
<1>6. CASE ReloadApi
  <2>1. known' = LoadedFrom([p \in Profile |-> Absent])
      BY <1>6 DEF ReloadApi, LoadedFrom
  <2>2. [p \in Profile |-> Absent] \in Files
      BY DEF Files
  <2> QED BY <1>6, <2>1, <2>2 DEF ReloadApi, CopiesLoaded
<1>7. CASE StartProcess
    BY <1>7, EmbeddedType DEF StartProcess, CopiesLoaded
<1>8. CASE ReloadWorker
    BY <1>8 DEF ReloadWorker, CopiesLoaded
<1>9. ASSUME NEW m \in Message, Process(m)
      PROVE  CopiesLoaded'
    BY <1>9 DEF Process, CopiesLoaded
<1>10. CASE UNCHANGED vars
    BY <1>10 DEF vars, CopiesLoaded
<1> QED BY <1>1, <1>2, <1>3, <1>4, <1>5, <1>6, <1>7, <1>8, <1>9, <1>10
        DEF Next, Operator, Worker

-----------------------------------------------------------------------------
\* Rows and reports

\* A row that is there stays as it is.
RowsStay == \A m \in Message : rows[m] # Absent => rows'[m] = rows[m]

LEMMA RowsStayStep == RowsDecided /\ [Next]_vars => RowsStay
<1> SUFFICES ASSUME RowsDecided, [Next]_vars PROVE RowsStay
    OBVIOUS
<1>1. ASSUME NEW m \in Message, Process(m)
      PROVE  RowsStay
    BY <1>1 DEF Process, RowsDecided, RowsStay
<1>2. CASE UNCHANGED rows
    BY <1>2 DEF RowsStay
<1> QED BY <1>1, <1>2
        DEF Next, Operator, Worker, SaveProfile, DeleteProfile, BacktestAlert, BacktestInterest,
            TestSimilarity, ReloadApi, StartProcess, ReloadWorker, vars

LEMMA RowsStep == CopiesLoaded /\ RowsDecided /\ [Next]_vars => RowsDecided'
<1> SUFFICES ASSUME CopiesLoaded, RowsDecided, [Next]_vars PROVE RowsDecided'
    OBVIOUS
<1>1. ASSUME NEW m \in Message, Process(m)
      PROVE  RowsDecided'
  <2> DEFINE r   == RuleFor(live, m.chat)
             row == [alerts    |-> AlertsOf(live, r, m),
                     interests |-> InterestsOf(live, r, m, vectors),
                     with |-> live, from |-> origin, made |-> vectors]
  <2>1. m.sender \notin Excluded(live, r) /\ rows' = [rows EXCEPT ![m] = row]
      BY <1>1 DEF Process
  <2>2. origin \in Files /\ live = LoadedFrom(origin)
      BY DEF CopiesLoaded
  <2>3. DecidedThen(m, row)
      BY <2>1, <2>2 DEF DecidedThen
  <2> HIDE DEF row
  <2>4. \A n \in Message : rows'[n] # Absent => DecidedThen(n, rows'[n])
      BY <2>1, <2>3 DEF RowsDecided
  <2>5. DOMAIN rows' = Message
      BY <2>1 DEF RowsDecided
  <2> QED BY <2>4, <2>5 DEF RowsDecided, DecidedThen
<1>2. CASE UNCHANGED rows
    BY <1>2 DEF RowsDecided, DecidedThen
<1> QED BY <1>1, <1>2
        DEF Next, Operator, Worker, SaveProfile, DeleteProfile, BacktestAlert, BacktestInterest,
            TestSimilarity, ReloadApi, StartProcess, ReloadWorker, vars

LEMMA ReportStays ==
    ASSUME ReportFollows, RowsStay, UNCHANGED report
    PROVE  ReportFollows'
<1> SUFFICES ASSUME report # NoReport
             PROVE  /\ report.of \in Profile /\ report.by # Absent
                    /\ "falsePositives" \in DOMAIN report => AlertReport(report)'
                    /\ "matched" \in DOMAIN report => InterestReport(report)'
    BY DEF ReportFollows
<1>1. ASSUME "falsePositives" \in DOMAIN report
      PROVE  AlertReport(report)'
  <2>1. AlertReport(report)
      BY <1>1 DEF ReportFollows
  <2> QED BY <2>1 DEF AlertReport, RowsStay
<1>2. ASSUME "matched" \in DOMAIN report
      PROVE  InterestReport(report)'
  <2>1. InterestReport(report)
      BY <1>2 DEF ReportFollows
  <2> QED BY <2>1 DEF InterestReport, RowsStay
<1> QED BY <1>1, <1>2 DEF ReportFollows

LEMMA AlertBacktested ==
    ASSUME CopiesLoaded, RowsDecided, NEW p \in Profile, NEW chats, BacktestAlert(p, chats)
    PROVE  ReportFollows'
<1> DEFINE d       == AlertDefinition(p)
           would   == {m \in Selected(chats) : WouldAlert(d, m)}
           flagged == {m \in Selected(chats) : rows[m].alerts # {}}
<1>1. /\ UNCHANGED rows
      /\ report' = [of |-> p, by |-> d,
                    truePositives  |-> would \cap flagged,
                    falsePositives |-> would \ flagged,
                    falseNegatives |-> flagged \ would]
    BY DEF BacktestAlert
<1>2. d \in Definition /\ d.samples = NoSamples /\ d # Absent
    BY DEF BacktestAlert, AlertDefinition, CopiesLoaded, Files
<1>3. \A m \in Selected(chats) : m \in Message /\ rows[m] # Absent
    BY DEF Selected, Stored
<1> HIDE DEF d
<1>4. report'.by = d /\ report'.of = p
    BY <1>1
<1>5. /\ report'.falsePositives = would \ flagged
      /\ report'.falseNegatives = flagged \ would
      /\ "matched" \notin DOMAIN report'
    BY <1>1
<1>6. AlertReport(report)'
    BY <1>1, <1>2, <1>3, <1>4, <1>5 DEF AlertReport
<1> QED BY <1>2, <1>4, <1>5, <1>6 DEF ReportFollows

LEMMA InterestBacktested ==
    ASSUME CopiesLoaded, RowsDecided, NEW p \in Profile, BacktestInterest(p)
    PROVE  ReportFollows'
<1> DEFINE d == InterestDefinition(p)
<1>1. /\ UNCHANGED rows
      /\ report' = [of |-> p, by |-> d, tested |-> Stored,
                    matched |-> {m \in Stored : WouldInterest(d, m)}]
    BY DEF BacktestInterest
<1>2. d \in Definition /\ d.samples # NoSamples /\ d # Absent
    BY DEF BacktestInterest, InterestDefinition, CopiesLoaded, Files
<1>3. \A m \in Stored : m \in Message /\ rows[m] # Absent
    BY DEF Stored
<1> HIDE DEF d
<1>4. report'.by = d /\ report'.of = p
    BY <1>1
<1>5. /\ report'.tested = Stored
      /\ report'.matched = {m \in Stored : WouldInterest(d, m)}
      /\ "falsePositives" \notin DOMAIN report'
    BY <1>1
<1>6. InterestReport(report)'
    BY <1>1, <1>2, <1>3, <1>4, <1>5 DEF InterestReport
<1> QED BY <1>2, <1>4, <1>5, <1>6 DEF ReportFollows

LEMMA SimilarityTested ==
    ASSUME NEW p \in Profile, NEW m \in Message, TestSimilarity(p, m)
    PROVE  ReportFollows'
<1>1. /\ TestedDefinition(p) # Absent
      /\ \E b : report' = [of |-> p, by |-> TestedDefinition(p), sample |-> m, willMatch |-> b]
    BY DEF TestSimilarity
<1>2. /\ report'.of = p /\ report'.by = TestedDefinition(p)
      /\ "falsePositives" \notin DOMAIN report' /\ "matched" \notin DOMAIN report'
    BY <1>1
<1> QED BY <1>1, <1>2 DEF ReportFollows

LEMMA ReportStep == CopiesLoaded /\ RowsDecided /\ ReportFollows /\ [Next]_vars => ReportFollows'
<1> SUFFICES ASSUME CopiesLoaded, RowsDecided, ReportFollows, [Next]_vars PROVE ReportFollows'
    OBVIOUS
<1>1. ASSUME NEW p \in Profile, NEW c, BacktestAlert(p, c)
      PROVE  ReportFollows'
    BY <1>1, AlertBacktested
<1>2. ASSUME NEW p \in Profile, BacktestInterest(p)
      PROVE  ReportFollows'
    BY <1>2, InterestBacktested
<1>3. ASSUME NEW p \in Profile, NEW m \in Message, TestSimilarity(p, m)
      PROVE  ReportFollows'
    BY <1>3, SimilarityTested
<1>4. CASE UNCHANGED report
    BY <1>4, RowsStayStep, ReportStays
<1>5. CASE StartProcess
    BY <1>5 DEF StartProcess, ReportFollows
<1> QED BY <1>1, <1>2, <1>3, <1>4, <1>5
        DEF Next, Operator, Worker, SaveProfile, DeleteProfile, Process,
            ReloadApi, ReloadWorker, vars

LEMMA InvStep == Inv /\ [Next]_vars => Inv'
BY CopiesStep, RowsStep, ReportStep DEF Inv

THEOREM SpecInv == Spec => []Inv
BY InitInv, InvStep, PTL DEF Spec

-----------------------------------------------------------------------------
LEMMA InvTypeOK == Inv => TypeOK
<1> SUFFICES ASSUME Inv PROVE TypeOK
    OBVIOUS
<1>1. file \in Files /\ origin \in Files /\ Library(live) /\ Library(known)
    BY LoadedLibrary DEF Inv, CopiesLoaded
<1>2. ASSUME NEW m \in Message, rows[m] # Absent
      PROVE  /\ [alerts |-> rows[m].alerts, interests |-> rows[m].interests] \in Decision
             /\ Library(rows[m].with)
  <2>1. DecidedThen(m, rows[m])
      BY <1>2 DEF Inv, RowsDecided
  <2>2. rows[m].alerts \subseteq Profile /\ rows[m].interests \subseteq Profile
      BY <2>1 DEF DecidedThen, AlertsOf, InterestsOf, Bound
  <2> QED BY <2>1, <2>2, LoadedLibrary DEF DecidedThen, Decision
<1>3. report # NoReport => report.of \in Profile /\ report.by # Absent
    BY DEF Inv, ReportFollows
<1> QED BY <1>1, <1>2, <1>3 DEF TypeOK, Inv, CopiesLoaded, VectorTable

\* The copies of the profiles, the vectors, the rows and the reports are what
\* the loader, the evaluators and the tests of the API expect of one another,
\* whatever is edited, started and reloaded between them.
THEOREM SpecTypeOK == Spec => []TypeOK
BY SpecInv, InvTypeOK, PTL

-----------------------------------------------------------------------------
\* One profile among others

LEMMA WithoutOne ==
    ASSUME NEW f \in Files, NEW q \in Profile, NEW r
    PROVE  LET lib  == LoadedFrom(f)
               less == Without(lib, q)
           IN  /\ less[q] = Absent
               /\ \A p \in Profile \ {q} : less[p] = lib[p]
               /\ Bound(less, r) = Bound(lib, r) \ {q}
<1> DEFINE lib  == LoadedFrom(f)
           less == Without(lib, q)
<1>1. less[q] = Absent /\ \A p \in Profile \ {q} : less[p] = lib[p]
    BY DEF Without, LoadedFrom
<1> HIDE DEF lib, less
<1>2. Bound(less, r) = Bound(lib, r) \ {q}
    BY <1>1 DEF Bound, Enabled, ForAll
<1> QED BY <1>1, <1>2 DEF lib, less

\* Words and switches are only added by a profile, and of what it asks for
\* nothing counts if it asks for nothing.
LEMMA MergedGrows ==
    ASSUME NEW f \in Files, NEW q \in Profile, NEW r,
           \A n \in Count : ~(LoadedFrom(f)[q].asks[n] > 0),
           LoadedFrom(f)[q] # Absent
    PROVE  LET with == Merged(LoadedFrom(f), r)
               less == Merged(Without(LoadedFrom(f), q), r)
           IN  /\ less.keywords \subseteq with.keywords
               /\ less.switches \subseteq with.switches
               /\ with.switches \subseteq less.switches \cup LoadedFrom(f)[q].switches
               /\ less.vip = with.vip
               /\ \A n \in Count : less.asks[n] = with.asks[n]
<1> DEFINE lib  == LoadedFrom(f)
           less == Without(lib, q)
           b    == Bound(lib, r)
           c    == Bound(less, r)
<1>1. /\ c = b \ {q} /\ b \subseteq Profile
      /\ \A p \in Profile \ {q} : less[p] = lib[p]
    BY WithoutOne DEF Bound
<1>2. f[q] \in Definition /\ lib[q] = Loaded[f[q]]
    BY LoadedOf
<1>3. \A n \in Count : lib[q].asks[n] = 0
  <2>1. lib[q].asks \in [Count -> Nat]
      BY <1>2, LoadedFields DEF Profiles
  <2> QED BY <2>1
<1> HIDE DEF lib, less, b, c
<1>4. UNION {less[p].keywords : p \in c} \subseteq UNION {lib[p].keywords : p \in b}
    BY <1>1
<1>5. UNION {less[p].switches : p \in c} \subseteq UNION {lib[p].switches : p \in b}
    BY <1>1
<1>6. UNION {lib[p].switches : p \in b} \subseteq lib[q].switches \cup UNION {less[p].switches : p \in c}
  <2> SUFFICES ASSUME NEW x \in UNION {lib[p].switches : p \in b}, x \notin lib[q].switches
               PROVE  x \in UNION {less[p].switches : p \in c}
      OBVIOUS
  <2>1. PICK p \in b : x \in lib[p].switches
      OBVIOUS
  <2>2. p \in c /\ x \in less[p].switches
      BY <1>1, <2>1
  <2> QED BY <2>2
<1>7. ASSUME NEW n \in Count
      PROVE  {0} \cup {less[p].asks[n] : p \in c} = {0} \cup {lib[p].asks[n] : p \in b}
    BY <1>1, <1>3
<1>8. \A n \in Count : Max({0} \cup {less[p].asks[n] : p \in c}) = Max({0} \cup {lib[p].asks[n] : p \in b})
    BY <1>7
<1>9. /\ Merged(lib, r).keywords = r.extra \cup UNION {lib[p].keywords : p \in b}
      /\ Merged(lib, r).switches = UNION {lib[p].switches : p \in b}
      /\ Merged(lib, r).vip = r.vip
      /\ \A n \in Count : Merged(lib, r).asks[n] = Max({0} \cup {lib[p].asks[n] : p \in b})
    BY DEF Merged, b
<1>10. /\ Merged(less, r).keywords = r.extra \cup UNION {less[p].keywords : p \in c}
       /\ Merged(less, r).switches = UNION {less[p].switches : p \in c}
       /\ Merged(less, r).vip = r.vip
       /\ \A n \in Count : Merged(less, r).asks[n] = Max({0} \cup {less[p].asks[n] : p \in c})
    BY DEF Merged, c
<1>11. /\ Merged(less, r).keywords \subseteq Merged(lib, r).keywords
       /\ Merged(less, r).switches \subseteq Merged(lib, r).switches
       /\ Merged(lib, r).switches \subseteq Merged(less, r).switches \cup lib[q].switches
       /\ Merged(less, r).vip = Merged(lib, r).vip
       /\ \A n \in Count : Merged(less, r).asks[n] = Merged(lib, r).asks[n]
  <2>1. Merged(less, r).keywords \subseteq Merged(lib, r).keywords
      BY <1>4, <1>9, <1>10
  <2>2. /\ Merged(less, r).switches \subseteq Merged(lib, r).switches
        /\ Merged(lib, r).switches \subseteq Merged(less, r).switches \cup lib[q].switches
    <3> DEFINE all  == UNION {lib[p].switches : p \in b}
               some == UNION {less[p].switches : p \in c}
    <3>1. some \subseteq all /\ all \subseteq some \cup lib[q].switches
        BY <1>5, <1>6
    <3>2. Merged(less, r).switches = some /\ Merged(lib, r).switches = all
        BY <1>9, <1>10
    <3> HIDE DEF all, some
    <3> QED BY <3>1, <3>2
  <2>3. Merged(less, r).vip = Merged(lib, r).vip
      BY <1>9, <1>10
  <2>4. \A n \in Count : Merged(less, r).asks[n] = Merged(lib, r).asks[n]
      BY <1>8, <1>9, <1>10, Zenon
  <2> QED BY <2>1, <2>2, <2>3, <2>4
<1> QED BY <1>11 DEF lib, less

\* More words and switches are more signals, unless a switch is the one that
\* requires forwarded messages.
LEMMA SignalsGrow ==
    ASSUME NEW m, NEW s, NEW t,
           s.keywords \subseteq t.keywords, s.switches \subseteq t.switches, s.vip = t.vip,
           \A n \in Count : s.asks[n] = t.asks[n],
           "require_forwarded" \in t.switches => "require_forwarded" \in s.switches
    PROVE  Signals(m, s) \subseteq Signals(m, t)
<1>1. Hit(m, s) \subseteq Hit(m, t)
    BY DEF Hit
<1>2. Noticed(m, s) \subseteq Noticed(m, t)
    BY DEF Noticed
<1>3. Popular(m, s) = Popular(m, t)
    BY DEF Popular
<1> QED BY <1>1, <1>2, <1>3 DEF Signals

LEMMA RuleStays ==
    ASSUME NEW f \in Files, NEW q \in Profile, NEW c,
           RuleFor(Without(LoadedFrom(f), q), c) # NoRule
    PROVE  RuleFor(LoadedFrom(f), c) = RuleFor(Without(LoadedFrom(f), q), c)
<1> DEFINE lib  == LoadedFrom(f)
           less == Without(lib, q)
<1>1. less[q] = Absent /\ \A p \in Profile \ {q} : less[p] = lib[p]
    BY WithoutOne
<1> HIDE DEF lib, less
<1>2. Applicable(less, c) => Applicable(lib, c)
    BY <1>1 DEF Applicable, Enabled
<1>3. RuleFor(less, c) # NoRule => RuleFor(lib, c) = RuleFor(less, c)
    BY <1>2 DEF RuleFor
<1> QED BY <1>3 DEF lib, less

LEMMA OneMoreProfile ==
    ASSUME Inv, NEW m \in Message, NEW q \in Profile, live[q] # Absent,
           m.sender \notin live[q].excluded,
           "require_forwarded" \notin live[q].switches,
           \A n \in Count : ~(live[q].asks[n] > 0)
    PROVE  Decided(Without(live, q), m) \subseteq Decided(live, m)
<1> DEFINE less == Without(live, q)
           r    == RuleFor(less, m.chat)
<1>1. origin \in Files /\ live = LoadedFrom(origin)
    BY DEF Inv, CopiesLoaded
<1>2. SUFFICES ASSUME NEW p \in Decided(less, m)
               PROVE  p \in Decided(live, m)
    OBVIOUS
<1>3. /\ r # NoRule /\ m.sender \notin Excluded(less, r)
      /\ p \in AlertsOf(less, r, m) \cup InterestsOf(less, r, m, vectors)
    BY <1>2 DEF Decided
<1>4. RuleFor(live, m.chat) = r
    BY <1>1, <1>3, RuleStays
<1>5. /\ Bound(less, r) = Bound(live, r) \ {q}
      /\ \A x \in Profile \ {q} : less[x] = live[x]
    BY <1>1, WithoutOne
<1>6. p \in Bound(live, r) /\ p \in Profile \ {q} /\ less[p] = live[p]
    BY <1>3, <1>5 DEF AlertsOf, InterestsOf, Bound
<1>7. Score(m, Merged(less, r)) <= Score(m, Merged(live, r))
  <2>1. Signals(m, Merged(less, r)) \subseteq Signals(m, Merged(live, r))
    <3> DEFINE s == Merged(less, r)
               t == Merged(live, r)
    <3>1. /\ s.keywords \subseteq t.keywords /\ s.switches \subseteq t.switches
          /\ t.switches \subseteq s.switches \cup live[q].switches
          /\ s.vip = t.vip /\ \A n \in Count : s.asks[n] = t.asks[n]
        BY <1>1, MergedGrows
    <3> HIDE DEF s, t
    <3>2. Signals(m, s) \subseteq Signals(m, t)
        BY <3>1, SignalsGrow
    <3> QED BY <3>2 DEF s, t
  <2> QED BY <2>1, MoreSignalsScoreMore
<1>8. MinScore(live[p]) \in Int
  <2>1. live[p] # Absent
      BY <1>6 DEF Bound, Enabled
  <2>2. origin[p] \in Definition /\ live[p] = Loaded[origin[p]]
      BY <1>1, <1>6, <2>1, LoadedOf
  <2>3. live[p].minScore \in Int \cup {Absent}
      BY <2>2, LoadedFields DEF Profiles
  <2> QED BY <2>3 DEF MinScore
<1>9. p \in AlertsOf(less, r, m) => p \in AlertsOf(live, r, m)
  <2> SUFFICES ASSUME p \in AlertsOf(less, r, m)
               PROVE  p \in AlertsOf(live, r, m)
      OBVIOUS
  <2>1. less[p].samples = NoSamples /\ Score(m, Merged(less, r)) >= MinScore(less[p])
      BY DEF AlertsOf
  <2>2. Score(m, Merged(less, r)) \in Nat /\ Score(m, Merged(live, r)) \in Nat
      BY ScoreType
  <2>3. Score(m, Merged(live, r)) >= MinScore(live[p])
      BY <1>6, <1>7, <1>8, <2>1, <2>2
  <2> QED BY <1>6, <2>1, <2>3 DEF AlertsOf
<1>10. p \in InterestsOf(less, r, m, vectors) => p \in InterestsOf(live, r, m, vectors)
    BY <1>6 DEF InterestsOf
<1>11. m.sender \notin Excluded(live, r)
  <2> SUFFICES ASSUME m.sender \in Excluded(live, r)
               PROVE  FALSE
      OBVIOUS
  <2>1. m.sender \notin r.excluded
      BY <1>3 DEF Excluded
  <2>2. PICK x \in Bound(live, r) : m.sender \in live[x].excluded
      BY <2>1 DEF Excluded
  <2>3. x # q /\ x \in Profile
      BY <2>2 DEF Bound
  <2>4. x \in Bound(less, r) /\ less[x].excluded = live[x].excluded
      BY <1>5, <2>2, <2>3
  <2>5. m.sender \in Excluded(less, r)
      BY <2>2, <2>4 DEF Excluded
  <2> QED BY <1>3, <2>5
<1> QED BY <1>3, <1>4, <1>9, <1>10, <1>11 DEF Decided

LEMMA InvNoProfileSilences == Inv => NoProfileSilencesAnother
BY OneMoreProfile DEF NoProfileSilencesAnother

\* For any profiles, a profile takes a message from another one only by
\* excluding its sender, by requiring forwarded messages, or by asking for
\* reactions or replies: merging before scoring never lowers a score.
THEOREM SpecNoProfileSilences == Spec => []NoProfileSilencesAnother
BY SpecInv, InvNoProfileSilences, PTL

-----------------------------------------------------------------------------
\* A backtest and the row it speaks of

\* The fields _collect looks into for a category are those that field_mapping
\* sends there.
CollectedFields(c) ==
    CASE c = "urgency"     -> {c, "critical"}
      [] c = "importance"  -> {c, "project"}
      [] c = "opportunity" -> {c, "financial"}
      [] c = "keywords"    -> {c, "general", "technical", "community"}
      [] OTHER -> {c}

LEMMA FieldsAgree ==
    ASSUME NEW f \in Field, NEW c \in Category
    PROVE  f \in CollectedFields(c) <=> Backend[f] = c
<1>1. Backend[f] = CASE f = "critical"  -> "urgency"
                     [] f = "financial" -> "opportunity"
                     [] f = "project"   -> "importance"
                     [] f \in {"general", "community", "technical"} -> "keywords"
                     [] OTHER -> f
    BY DEF Backend
<1> QED BY <1>1 DEF CollectedFields, Field, Category

LEMMA CollectedIsLoaded ==
    ASSUME NEW d \in Definition
    PROVE  Collected[d] = Loaded[d].keywords
<1>1. d.keywords \subseteq Field \X Word
    BY LoadedFields DEF Profiles
<1>2. Collected[d] = UNION {{<<c, k[2]>> : k \in {x \in d.keywords : x[1] \in CollectedFields(c)}} :
                              c \in Category}
    BY DEF Collected, CollectedFields
<1>3. Loaded[d].keywords = {<<Backend[k[1]], k[2]>> : k \in d.keywords}
    BY LoadedFields
<1>4. ASSUME NEW z \in Collected[d]
      PROVE  z \in Loaded[d].keywords
  <2>1. PICK c \in Category : z \in {<<c, k[2]>> : k \in {x \in d.keywords : x[1] \in CollectedFields(c)}}
      BY <1>2, <1>4
  <2>2. PICK k \in d.keywords : k[1] \in CollectedFields(c) /\ z = <<c, k[2]>>
      BY <2>1
  <2>3. Backend[k[1]] = c
      BY <1>1, <2>2, FieldsAgree
  <2> QED BY <1>3, <2>2, <2>3
<1>5. ASSUME NEW z \in Loaded[d].keywords
      PROVE  z \in Collected[d]
  <2>1. PICK k \in d.keywords : z = <<Backend[k[1]], k[2]>>
      BY <1>3
  <2> DEFINE c == Backend[k[1]]
  <2>2. k[1] \in Field
      BY <1>1
  <2>3. c \in Category /\ k[1] \in CollectedFields(c)
      BY <2>2, BackendKnown, FieldsAgree
  <2> HIDE DEF c
  <2>4. z \in {<<c, x[2]>> : x \in {y \in d.keywords : y[1] \in CollectedFields(c)}}
      BY <2>1, <2>3 DEF c
  <2> QED BY <1>2, <2>3, <2>4
<1> QED BY <1>4, <1>5

LEMMA BoundAlone ==
    ASSUME NEW lib, NEW r, NEW p \in Profile, Bound(lib, r) = {p}
    PROVE  /\ r.extra = {} => Merged(lib, r).keywords = lib[p].keywords
           /\ Merged(lib, r).switches = lib[p].switches
           /\ Merged(lib, r).vip = r.vip
           /\ \A n \in Count : Merged(lib, r).asks[n] = Max({0, lib[p].asks[n]})
<1>1. /\ Merged(lib, r).keywords = r.extra \cup UNION {lib[x].keywords : x \in Bound(lib, r)}
      /\ Merged(lib, r).switches = UNION {lib[x].switches : x \in Bound(lib, r)}
      /\ Merged(lib, r).vip = r.vip
      /\ \A n \in Count : Merged(lib, r).asks[n] = Max({0} \cup {lib[x].asks[n] : x \in Bound(lib, r)})
    BY DEF Merged
<1>2. UNION {lib[x].keywords : x \in Bound(lib, r)} = lib[p].keywords
    OBVIOUS
<1>3. UNION {lib[x].switches : x \in Bound(lib, r)} = lib[p].switches
    OBVIOUS
<1>4. ASSUME NEW n \in Count
      PROVE  {0} \cup {lib[x].asks[n] : x \in Bound(lib, r)} = {0, lib[p].asks[n]}
    OBVIOUS
<1>5. \A n \in Count : Merged(lib, r).asks[n] = Max({0, lib[p].asks[n]})
    BY <1>1, <1>4, Zenon
<1>6. r.extra = {} => Merged(lib, r).keywords = lib[p].keywords
    BY <1>1, <1>2
<1>7. Merged(lib, r).switches = lib[p].switches
    BY <1>1, <1>3
<1> QED BY <1>1, <1>5, <1>6, <1>7

LEMMA MaxOfTwo ==
    ASSUME NEW n \in Nat
    PROVE  Max({0, n}) \in Nat
<1>1. \E x \in {0, n} : \A y \in {0, n} : x >= y
    OBVIOUS
<1>2. Max({0, n}) \in {0, n}
    BY <1>1 DEF Max
<1> QED BY <1>2

\* What both sides see in a message that the backtest can replay.
LEMMA SeenAlike ==
    ASSUME NEW m \in Message, NEW d \in Definition, NEW p \in Profile, NEW lib, NEW r,
           lib[p] = Loaded[d], Bound(lib, r) = {p}, r.extra = {}, r.vip = {},
           d.switches \cap {"links", "private", "require_forwarded"} = {},
           Replayed(m) = m
    PROVE  Signals(m, Backtested(d)) = Signals(m, Merged(lib, r))
<1> DEFINE s == Backtested(d)
           t == Merged(lib, r)
<1>1. m \in Messages
    BY EvaluationAssumption
<1>2. m.marks \subseteq {"code", "link", "question"} /\ \A n \in Count : m.counts[n] = 0
  <2>1. /\ Replayed(m).marks = m.marks \cap {"code", "link", "question"}
        /\ Replayed(m).counts = [n \in Count |-> 0]
      BY <1>1 DEF Replayed, Messages
  <2> QED BY <2>1
<1>3. /\ t.keywords = Loaded[d].keywords /\ t.switches = d.switches /\ t.vip = {}
      /\ \A n \in Count : t.asks[n] = Max({0, d.asks[n]})
  <2>1. /\ t.keywords = lib[p].keywords /\ t.switches = lib[p].switches /\ t.vip = {}
        /\ \A n \in Count : t.asks[n] = Max({0, lib[p].asks[n]})
      BY BoundAlone
  <2>2. /\ lib[p].keywords = Loaded[d].keywords /\ lib[p].switches = d.switches
        /\ lib[p].asks = d.asks
      BY LoadedFields
  <2> HIDE DEF t
  <2> QED BY <2>1, <2>2, Zenon
<1>4. /\ s.keywords = Loaded[d].keywords /\ s.vip = {}
      /\ s.switches = d.switches \cap {"codes", "documents", "pinned", "admin", "polls"}
      /\ s.asks = d.asks
    BY CollectedIsLoaded DEF Backtested
<1>5. d.asks \in [Count -> Nat]
    BY LoadedFields DEF Profiles
<1> HIDE DEF s, t
<1>6. Hit(m, s) = Hit(m, t)
    BY <1>3, <1>4 DEF Hit
<1>7. Noticed(m, s) = Noticed(m, t)
    BY <1>2, <1>3, <1>4 DEF Noticed
<1>8. Popular(m, s) = {} /\ Popular(m, t) = {}
  <2>1. ASSUME NEW n \in Count
        PROVE  s.asks[n] \in Nat /\ t.asks[n] \in Nat
      BY <1>3, <1>4, <1>5, MaxOfTwo
  <2> QED BY <1>2, <2>1 DEF Popular
<1>9. "require_forwarded" \notin s.switches \cup t.switches /\ "private" \notin s.switches \cup t.switches
    BY <1>3, <1>4
<1>10. s.vip = {} /\ t.vip = {}
    BY <1>3, <1>4
<1>11. Signals(m, s) = Signals(m, t)
    BY <1>6, <1>7, <1>8, <1>9, <1>10 DEF Signals
<1> QED BY <1>11 DEF s, t

LEMMA AlertsAgree ==
    ASSUME RowsDecided, NEW m \in Message, NEW d \in Definition, NEW p \in Profile,
           rows[m] # Absent, d.samples = NoSamples, AlertComparable(p, d, m)
    PROVE  WouldAlert(d, m) <=> rows[m].alerts # {}
<1> DEFINE lib == rows[m].with
           r   == RuleFor(lib, m.chat)
           x   == Score(m, Merged(lib, r))
<1>1. /\ rows[m].from[p] = d /\ Bound(lib, r) = {p}
      /\ r.extra = {} /\ r.vip = {}
      /\ d.keywords # {} /\ d.minScore # Absent /\ d.minScore > 0
      /\ d.switches \cap {"links", "private", "require_forwarded"} = {}
      /\ Replayed(m) = m
    BY DEF AlertComparable
<1>2. /\ rows[m].from \in Files /\ lib = LoadedFrom(rows[m].from)
      /\ rows[m].alerts = AlertsOf(lib, r, m)
    BY DEF RowsDecided, DecidedThen
<1>3. lib[p] = Loaded[d]
  <2>1. lib[p] # Absent
      BY <1>1 DEF Bound, Enabled
  <2> QED BY <1>1, <1>2, <2>1, LoadedOf
<1>4. d.minScore \in Int /\ MinScore(lib[p]) = d.minScore /\ lib[p].samples = NoSamples
  <2>1. d.minScore \in Int \cup {Absent} /\ lib[p].minScore = d.minScore /\ lib[p].samples = d.samples
      BY <1>3, LoadedFields DEF Profiles
  <2> QED BY <1>1, <2>1 DEF MinScore
<1> HIDE DEF lib, r, x
<1>5. Signals(m, Backtested(d)) = Signals(m, Merged(lib, r))
    BY <1>1, <1>3, SeenAlike
<1>6. rows[m].alerts # {} <=> x >= d.minScore
    BY <1>1, <1>2, <1>4 DEF AlertsOf, x
<1>7. x = Score(m, Backtested(d))
    BY <1>5 DEF Score, x
<1>8. x >= d.minScore => Signals(m, Backtested(d)) # {}
  <2> SUFFICES ASSUME Signals(m, Backtested(d)) = {}
               PROVE  ~(x >= d.minScore)
      OBVIOUS
  <2>1. x = 0
      BY <1>7, NoSignalNoPoint DEF Score
  <2> QED BY <1>1, <1>4, <2>1
<1>9. WouldAlert(d, m) <=> x >= d.minScore /\ Signals(m, Backtested(d)) # {}
    BY <1>1, <1>7 DEF WouldAlert, BacktestScore
<1> QED BY <1>6, <1>8, <1>9

LEMMA InterestsAgree ==
    ASSUME RowsDecided, NEW m \in Message, NEW d \in Definition, NEW p \in Profile,
           rows[m] # Absent, d.samples # NoSamples,
           rows[m].from[p] = d, rows[m].made[p] = d.samples,
           p \in Bound(rows[m].with, RuleFor(rows[m].with, m.chat)),
           m.sender \notin d.vip
    PROVE  WouldInterest(d, m) <=> p \in rows[m].interests
<1> DEFINE lib == rows[m].with
           r   == RuleFor(lib, m.chat)
<1>1. /\ rows[m].from \in Files /\ lib = LoadedFrom(rows[m].from)
      /\ m.sender \notin Excluded(lib, r)
      /\ rows[m].interests = InterestsOf(lib, r, m, rows[m].made)
    BY DEF RowsDecided, DecidedThen
<1>2. lib[p] = Loaded[d]
  <2>1. lib[p] # Absent
      BY DEF Bound, Enabled
  <2> QED BY <1>1, <2>1, LoadedOf
<1>3. /\ lib[p].samples = d.samples /\ lib[p].threshold = d.threshold /\ lib[p].excluded = d.excluded
      /\ d.threshold \in Int /\ d.samples \in Samples
    BY <1>2, LoadedFields DEF Profiles
<1>4. p \in Bound(lib, r)
    OBVIOUS
<1> HIDE DEF lib, r
<1>5. m.sender \notin d.excluded
    BY <1>1, <1>3, <1>4 DEF Excluded
<1>6. p \in rows[m].interests <=> m.topic # Absent /\ Likeness[m.topic, d.samples] >= d.threshold
  <2> DEFINE vecs == rows[m].made
  <2>1. p \in InterestsOf(lib, r, m, vecs)
           <=> /\ lib[p].samples # NoSamples /\ vecs[p] # NoSamples /\ m.topic # Absent
               /\ Likeness[m.topic, vecs[p]] >= lib[p].threshold
      BY <1>4 DEF InterestsOf, Scored
  <2>2. vecs[p] = d.samples
      OBVIOUS
  <2> HIDE DEF vecs
  <2>3. rows[m].interests = InterestsOf(lib, r, m, vecs)
      BY <1>1 DEF vecs
  <2> QED BY <1>3, <2>1, <2>2, <2>3, Zenon
<1>7. m.topic # Absent => Likeness[m.topic, d.samples] \in Int
  <2>1. m.topic \in Topic \cup {Absent}
      BY EvaluationAssumption DEF Messages
  <2> QED BY <1>3, <2>1, EvaluationAssumption
<1>8. WouldInterest(d, m) <=> m.topic # Absent /\ 10 * Likeness[m.topic, d.samples] >= 10 * d.threshold
  <2> DEFINE bar == (IF m.sender \in d.vip THEN 7 ELSE 10) * d.threshold
  <2>1. WouldInterest(d, m)
           <=> /\ m.sender \notin d.excluded /\ m.topic # Absent
               /\ 10 * Likeness[m.topic, d.samples] >= bar
      BY DEF WouldInterest
  <2>2. bar = 10 * d.threshold
      OBVIOUS
  <2> HIDE DEF bar
  <2> QED BY <1>5, <2>1, <2>2, Zenon
<1>9. ASSUME m.topic # Absent
      PROVE  (10 * Likeness[m.topic, d.samples] >= 10 * d.threshold)
                <=> (Likeness[m.topic, d.samples] >= d.threshold)
  <2> DEFINE found == Likeness[m.topic, d.samples]
             least == d.threshold
  <2>1. found \in Int /\ least \in Int
      BY <1>3, <1>7, <1>9
  <2> HIDE DEF found, least
  <2>2. (10 * found >= 10 * least) <=> (found >= least)
      BY <2>1
  <2> QED BY <2>2 DEF found, least
<1> QED BY <1>6, <1>8, <1>9, Zenon

LEMMA InvBacktestsAgree == Inv => BacktestsAgree
<1> SUFFICES ASSUME Inv, report # NoReport PROVE BacktestsAgree
    BY DEF BacktestsAgree
<1> DEFINE p == report.of
           d == report.by
<1>1. RowsDecided /\ p \in Profile
    BY DEF Inv, ReportFollows
<1>2. ASSUME "falsePositives" \in DOMAIN report,
             NEW m \in report.falsePositives \cup report.falseNegatives
      PROVE  ~AlertComparable(p, d, m)
  <2>1. AlertReport(report)
      BY <1>2 DEF Inv, ReportFollows
  <2>2. d \in Definition /\ d.samples = NoSamples /\ m \in Message /\ rows[m] # Absent
      BY <1>2, <2>1 DEF AlertReport
  <2>3. ~(WouldAlert(d, m) <=> rows[m].alerts # {})
      BY <1>2, <2>1 DEF AlertReport
  <2> HIDE DEF p, d
  <2> QED BY <1>1, <2>2, <2>3, AlertsAgree
<1>3. ASSUME "matched" \in DOMAIN report, NEW m \in report.tested,
             rows[m].from[p] = d, rows[m].made[p] = d.samples,
             p \in Bound(rows[m].with, RuleFor(rows[m].with, m.chat)),
             m.sender \notin d.vip
      PROVE  m \in report.matched <=> p \in rows[m].interests
  <2>1. InterestReport(report)
      BY <1>3 DEF Inv, ReportFollows
  <2>2. /\ d \in Definition /\ d.samples # NoSamples /\ m \in Message /\ rows[m] # Absent
        /\ m \in report.matched <=> WouldInterest(d, m)
      BY <1>3, <2>1 DEF InterestReport
  <2> HIDE DEF p, d
  <2> QED BY <1>1, <1>3, <2>2, InterestsAgree
<1> QED BY <1>2, <1>3 DEF BacktestsAgree

\* For any profiles and messages a backtest says of a row what was decided
\* then, whatever was saved, started and reloaded in between, if the definition
\* is the one the row was decided by and both sides saw the message in full.
THEOREM SpecBacktestsAgree == Spec => []BacktestsAgree
BY SpecInv, InvBacktestsAgree, PTL

=============================================================================
