-------------------------- MODULE ConfigStoreProofs --------------------------
(***************************************************************************)
(* What the files of the sentinel hold whatever requests edit them, for    *)
(* any requests, entries, attempts and restarts: a file of profiles is     *)
(* whole as long as its temporary file was not shared, what is reported as *)
(* done was written, and the lock of a channel serialises its edits.       *)
(***************************************************************************)
EXTENDS ConfigStore, TLAPS

-----------------------------------------------------------------------------
(***************************************************************************)
(* The inductive invariants                                                *)
(***************************************************************************)

\* TypeOK by parts, with the domains of the functions.
FileTypes ==
    /\ disk \in [Place -> Entries \cup {Blank, Torn}]
    /\ \A p \in Place \ (Profiles \cup {"formats"}) : disk[p] \in Entries
    /\ draft \in [Profiles -> Entries \cup {Absent, Blank, Torn}]
    /\ mtime \in Nat
    /\ cached \in [text : Entries, at : Int] /\ -1 <= cached.at /\ cached.at <= mtime
    /\ cut \in BOOLEAN

PcSet == {"idle", "peek", "lock", "fetch", "load", "wait", "answered"}

RequestTypes ==
    /\ lock \in [Key -> Request \cup {Free}]
    /\ op \in [Request -> Asked \cup {NoOp}]
    /\ pc \in [Request -> PcSet]
    /\ tries \in [Request -> 1 .. MaxTries]
    /\ seen \in [Request -> Entries]
    /\ answer \in [Request -> {"none", "ok", "error"}]

StepSet == {"none", "read", "rename", "open", "write", "swap", "clean", "cache",
            "done", "failed", "notfound"}
FileSet == {"none", "draft", "disk", "gone"}
Doing   == [at : StepSet, text : Entries, rest : Entries, file : FileSet]

HistoryTypes ==
    /\ shared \subseteq Profiles \cup {"formats"} /\ landed \subseteq Request
    /\ late \in BOOLEAN /\ lapsed \subseteq Key /\ crashes \in 0 .. MaxCrashes

\* A request that was not asked waits for nothing, and the attempts it has not
\* come to have no thread; a toggled profile has been seen.
Unused(r, n) == n > tries[r] \/ (n = tries[r] /\ pc[r] \notin {"wait", "answered"})

RequestsFit ==
    \A r \in Request :
        /\ (pc[r] = "idle") <=> (op[r] = NoOp)
        /\ pc[r] = "idle" => tries[r] = 1
        /\ \A n \in 1 .. MaxTries : Unused(r, n) => api[<<r, n>>].at = "none"
        /\ pc[r] = "fetch" /\ op[r].kind = "switch" => seen[r][op[r].key] \in Entry
        /\ pc[r] = "load" => op[r].place = "formats"
        /\ pc[r] \in {"peek", "lock", "fetch", "load"} => op[r].by # "api"
        /\ pc[r] = "lock" => op[r].by = "lock"
        /\ pc[r] = "peek" => op[r].by = "list"
        /\ answer[r] # "none" => pc[r] = "answered"

\* Which steps the thread of an operation goes through.
ThreadFits(t) ==
    /\ api[t].at # "none" => Of(t) \in Asked
    /\ api[t].at = "read" => At(t) \in Config \/ Of(t).by = "api"
    /\ api[t].at \in {"open", "write"} => At(t) \in Profiles \cup {"formats"}
    /\ api[t].at = "rename" => At(t) \notin Config \cup {"formats"} /\ Of(t).by = "api"
    /\ api[t].at = "swap" => At(t) \in Config \cup Profiles
    /\ api[t].at = "clean" => At(t) \in Profiles
    /\ api[t].at = "cache" => At(t) = "formats"
    /\ api[t].file \in {"draft", "disk"} => api[t].at = "write" /\ At(t) \in Profiles

Types ==
    /\ FileTypes /\ RequestTypes /\ api \in [Thread -> Doing] /\ HistoryTypes
    /\ RequestsFit /\ \A t \in Thread : ThreadFits(t)

\* A thread that writes profiles and has not shared the draft is the only one
\* to write or remove it, and the draft is empty until it holds the text of
\* that thread.
Drafts(p, t) == Of(t) # NoOp /\ At(t) = p /\ api[t].at \in {"write", "swap", "clean"}

ProfilesWhole ==
    \A p \in Profiles \ shared :
        /\ disk[p] \in Entries
        /\ \A t \in Thread : Drafts(p, t) =>
              /\ \A u \in Thread : Drafts(p, u) => u = t
              /\ api[t].at = "write" => api[t].file = "draft" /\ draft[p] = Blank
              /\ api[t].at = "swap" => draft[p] = api[t].text

\* The same of the formats, which are written in place; and what a request
\* loads is what the file holds until the next thread opens it. After a saving
\* that failed half way neither is sure, until the next one is done.
Saves(t) == Of(t) # NoOp /\ At(t) = "formats" /\ api[t].at \in {"write", "cache"}

FormatsWhole ==
    "formats" \notin shared =>
        /\ \A t \in Thread : Saves(t) =>
              /\ \A u \in Thread : Saves(u) => u = t
              /\ api[t].at = "write" => disk["formats"] = Blank
              /\ api[t].at = "cache" => disk["formats"] = api[t].text
        /\ ~cut /\ (\A t \in Thread : ~Saves(t)) =>
              /\ cached.at < mtime \/ cached.text = Read("formats")
              /\ \A r \in Request : pc[r] = "load" => seen[r] = Read("formats")

\* One request at a time loads the formats, those in memory being older.
LoadsAlone ==
    \A r \in Request : pc[r] = "load" =>
        cached.at < mtime /\ \A x \in Request : pc[x] = "load" => x = r

\* A thread that is done has landed, and a request that was answered with
\* success has such a thread, or there was nothing to write.
DoneHasLanded ==
    /\ \A t \in Thread : api[t].at = "done" /\ At(t) \notin shared => t[1] \in landed
    /\ \A t \in Thread : api[t].at = "cache" => t[1] \in landed

OkWasDone ==
    \A r \in Request : answer[r] = "ok" =>
        \/ api[Now(r)].at = "done"
        \/ op[r].kind = "remove" /\ api[Now(r)].at = "notfound"
        \/ op[r].kind \in {"page", "show"}

\* Whoever reads or waits under a lock holds it, unless it has lapsed.
LocksHeld ==
    \A r \in Request : UnderLock(r) /\ op[r].key \notin lapsed => lock[op[r].key] = r

\* As long as nobody has given up, a thread under way is the one its request
\* waits for.
Active(t) == api[t].at \notin {"none"} \cup Ended

NobodyLate ==
    ~late => \A t \in Thread : Active(t) => pc[t[1]] = "wait" /\ t = Now(t[1])

\* As long as tgsentinel.yml is only edited under the lock of channel k, which
\* has not lapsed under its holder, the text that a thread is about to write keeps the edits in the file and has
\* that of the thread, and the edit of one that is done is in the file.
OnlyChannel(k) ==
    \A x \in Request : \/ op[x] = NoOp
                       \/ op[x].place \notin Config
                       \/ Locked(op[x]) /\ op[x].key = k

EditsKept ==
    ~late => \A k \in Id \ lapsed : OnlyChannel(k) => \A t \in Thread :
        Of(t) # NoOp /\ At(t) \in Config =>
            /\ Active(t) =>
                 /\ disk["channels"][k] \in Entry /\ api[t].text[k] \in Entry
                 /\ disk["channels"][k].shown \subseteq api[t].text[k].shown
                 /\ Of(t).kind = "edit" => t[1] \in api[t].text[k].shown
            /\ api[t].at = "done" /\ Of(t).kind = "edit" =>
                 disk["channels"][k] \in Entry /\ t[1] \in disk["channels"][k].shown

Inv == /\ Types /\ ProfilesWhole /\ FormatsWhole /\ LoadsAlone /\ DoneHasLanded
       /\ OkWasDone /\ LocksHeld /\ NobodyLate /\ EditsKept

-----------------------------------------------------------------------------
(***************************************************************************)
(* Operations                                                              *)
(***************************************************************************)

\* What an operation edits that is there already.
Needing == {"bind", "edit", "enable"}

\* What the proofs need of the operations.
OpFits(o) ==
    /\ o.place \in Place /\ o.key \in Key /\ o.needs \in BOOLEAN
    /\ o.kind \in Needing \cup {"add", "remove", "page", "switch", "put", "upsert", "tune",
                                "toggle", "save", "show", "import", "reset"}
    /\ o.by \in {"list", "lock", "api"}
    /\ o.by = "lock" => o.place = "channels" /\ o.kind \in {"edit", "bind"}
    /\ o.by # "api" => o.place \in Config \cup Profiles \cup {"formats"}
    /\ o.by # "api" => o.kind \notin {"toggle", "tune", "save", "import", "reset"}
    /\ o.kind \in Needing /\ o.by # "api" => o.needs
    /\ o.kind \in Needing \cup {"switch", "put", "toggle", "tune"} => o.key \in Id
    /\ o.kind = "switch" => o.by = "list" /\ o.place = "interest"
    /\ o.kind \in {"show", "page"} => o.by = "list"
    /\ o.by = "api" /\ o.place = "formats" => o.kind \in {"import", "reset"}
    /\ o.kind \in {"import", "reset"} => o.place = "formats"
    /\ o.by = "api" /\ o.place \in Config <=> o.kind = "save"
    /\ o.kind = "tune" => o.place \in Profiles

LEMMA OperationFits == ASSUME NEW o \in Asked PROVE OpFits(o)
<1>1. o \in OfNoEntry \/ \E k \in Id : o \in OfEntry(k)
    BY ConfigStoreAssumption
<1>2. CASE o \in OfNoEntry
  <2>1. 0 \in Key /\ 1 \in Id /\ 1 \in Key
    BY ConfigStoreAssumption DEF Key, Id
  <2>2. /\ OpFits(UpsertAlert(0)) /\ OpFits(UpsertInterest(0)) /\ OpFits(SaveSettings)
        /\ OpFits(SetThreshold) /\ OpFits(ShowProfiles) /\ OpFits(ExportFormats)
        /\ OpFits(ResetFormats) /\ OpFits(SaveDeveloper)
    BY <2>1 DEF OpFits, Needing, Op, Place, Config, Profiles, UpsertAlert, UpsertInterest,
        SaveSettings, SetThreshold, ShowProfiles, ExportFormats, ResetFormats, SaveDeveloper
  <2> QED BY <1>2, <2>2 DEF OfNoEntry
<1>3. CASE \E k \in Id : o \in OfEntry(k)
  <2>1. PICK k \in Id : o \in OfEntry(k)
    BY <1>3
  <2>2. k \in Key /\ k \in Id
    BY ConfigStoreAssumption DEF Key, Id
  <2>3. /\ OpFits(AddChannel(k)) /\ OpFits(EditChannel(k)) /\ OpFits(BindChannel(k))
        /\ OpFits(RemoveChannel(k)) /\ OpFits(EnableChannel(k)) /\ OpFits(PatchChannel(k))
    BY <2>2 DEF OpFits, Needing, Op, Place, Config, Profiles,
        AddChannel, EditChannel, BindChannel, RemoveChannel, EnableChannel, PatchChannel
  <2>4. /\ OpFits(AddUser(k)) /\ OpFits(EditUser(k)) /\ OpFits(BindUser(k))
        /\ OpFits(RemoveUser(k))
    BY <2>2 DEF OpFits, Needing, Op, Place, Config, Profiles,
        AddUser, EditUser, BindUser, RemoveUser
  <2>5. /\ OpFits(UpsertAlert(k)) /\ OpFits(DeleteAlert(k)) /\ OpFits(ToggleAlert(k))
        /\ OpFits(Tune("alert", k))
    BY <2>2 DEF OpFits, Needing, Op, Place, Config, Profiles,
        UpsertAlert, DeleteAlert, ToggleAlert, Tune
  <2>6. /\ OpFits(UpsertInterest(k)) /\ OpFits(DeleteInterest(k)) /\ OpFits(ToggleInterest(k))
        /\ OpFits(SwitchInterest(k)) /\ OpFits(Tune("interest", k))
    BY <2>2 DEF OpFits, Needing, Op, Place, Config, Profiles,
        UpsertInterest, DeleteInterest, ToggleInterest, SwitchInterest, Tune
  <2>7. /\ OpFits(AddWebhook(k)) /\ OpFits(EditWebhook(k)) /\ OpFits(RemoveWebhook(k))
        /\ OpFits(SaveFormat(k)) /\ OpFits(ImportFormats(k))
    BY <2>2 DEF OpFits, Needing, Op, Place, Config, Profiles,
        AddWebhook, EditWebhook, RemoveWebhook, SaveFormat, ImportFormats
  <2> QED BY <2>1, <2>3, <2>4, <2>5, <2>6, <2>7 DEF OfEntry
<1> QED BY <1>1, <1>2, <1>3

LEMMA TouchedIsEntry ==
    ASSUME NEW e \in Entry, NEW r \in Request, NEW o
    PROVE  Touched(e, r, o) \in Entry /\ Fresh(r) \in Entry
BY DEF Touched, Fresh, Entry, Edit

\* An edited list is a list.
LEMMA EditedIsList ==
    ASSUME NEW r \in Request, OpFits(op[r]), NEW s \in Entries,
           op[r].kind \in Needing \cup {"toggle", "tune"} => s[op[r].key] \in Entry,
           op[r].kind = "switch" => seen[r][op[r].key] \in Entry,
           op[r].kind \notin {"save", "show", "import", "reset"}
    PROVE  Edited(r, s) \in Entries
<1> DEFINE o == op[r]
           k == Named(r, s)
<1>1. Fresh(r) \in Entry /\ \A e \in Entry : Touched(e, r, o) \in Entry
    BY TouchedIsEntry DEF Fresh, Entry, Edit
<1>2. Nothing \in Entries /\ 0 \in Key
    BY ConfigStoreAssumption DEF Nothing, Entries, Key
<1>3. o.kind # "upsert" /\ o.kind \in Needing \cup {"switch", "put", "toggle", "tune"} =>
          k = o.key /\ o.key \in Key /\ s[k] \in Entry \cup {Absent}
    BY ConfigStoreAssumption DEF OpFits, Named, Id, Key, Entries
<1>4. o.kind = "upsert" => Touched(s[k], r, o) = Fresh(r)
    BY DEF Touched
<1>5. \A e \in Entry \cup {Absent} : [s EXCEPT ![k] = e] \in Entries
    BY DEF Entries
<1>6. [Nothing EXCEPT ![0] = Fresh(r)] \in Entries
    BY <1>1, <1>2 DEF Entries
<1> HIDE DEF k
<1>7. CASE o.kind \in {"add", "remove", "page"}
    BY <1>1, <1>5, <1>6, <1>7 DEF Edited, k
<1>8. CASE o.kind \in {"switch", "put"}
    BY <1>1, <1>3, <1>5, <1>8 DEF Edited, k
<1>9. CASE o.kind = "upsert"
    BY <1>1, <1>4, <1>5, <1>9 DEF Edited, k
<1>10. CASE o.kind \in Needing \cup {"toggle", "tune"}
    BY <1>1, <1>3, <1>5, <1>10 DEF Edited, k, Needing
<1> QED BY <1>7, <1>8, <1>9, <1>10 DEF OpFits, Needing

\* What a reading of a list finds is a list.
LEMMA FoundIsList ==
    ASSUME NEW p \in Place, disk \in [Place -> Entries \cup {Blank, Torn}], Readable(p)
    PROVE  Read(p) \in Entries /\ Found(p) \in Entries
<1>1. Nothing \in Entries
    BY DEF Nothing, Entries
<1>2. Read(p) \in Entries
    BY <1>1 DEF Read, Readable
<1>3. ASSUME NEW s \in Entries PROVE Shown(s) \in Entries
  <2>1. \A k \in Key : s[k] \in Entry \cup {Absent}
    BY DEF Entries
  <2>2. \A e \in Entry : [e EXCEPT !.hidden = {}] \in Entry
    BY DEF Entry
  <2> QED BY <2>1, <2>2 DEF Shown, Entries
<1> QED BY <1>2, <1>3 DEF Found

-----------------------------------------------------------------------------
(***************************************************************************)
(* Steps of the interface                                                  *)
(***************************************************************************)

Asks(r, o) == AskApi(r, o) \/ AskLocked(r, o) \/ AskList(r, o)

RequestStep(r) ==
    \/ \E o \in Asked : Asks(r, o)
    \/ Refuse(r) \/ FetchFails(r) \/ GiveUp(r)
    \/ Peek(r) \/ TakeLock(r) \/ LockIsTaken(r) \/ Fetch(r)
    \/ Hears(r) \/ FetchFormats(r) \/ StampFormats(r) \/ LoadFails(r)

LEMMA NextCases ==
    [Next]_vars => \/ \E r \in Request : RequestStep(r)
                   \/ \E k \in Key : LockLapses(k)
                   \/ \E t \in Thread : Api(t)
                   \/ Crash \/ UNCHANGED vars
BY DEF Next, RequestStep, Interface, Asks, Hear, HearApi

\* What a list that was read may do to it.
CanProceed(r, s) ==
    /\ pc[r] \in {"fetch", "load"} /\ s \in Entries
    /\ op[r].kind = "switch" => seen[r][op[r].key] \in Entry
    /\ op[r].by # "api"

\* What a list that was read leads to.
Replies(r, said) == Answers(r, said) /\ UNCHANGED api

LEMMA ProceedsCases ==
    ASSUME NEW r \in Request, OpFits(op[r]), NEW s, CanProceed(r, s), Proceeds(r, s)
    PROVE  /\ seen' = [seen EXCEPT ![r] = s]
           /\ \/ Replies(r, "error")
              \/ Replies(r, "ok") /\ op[r].kind \in {"page", "show"}
              \/ /\ Posts(r, s) /\ Edited(r, s) \in Entries
                 /\ op[r].kind \in Needing => s[op[r].key] \in Entry
<1>1. CASE OnlyShows(op[r], s)
    BY <1>1 DEF Proceeds, PageIsDone, Replies, OnlyShows, NothingToMigrate
<1>2. CASE ~OnlyShows(op[r], s) /\ op[r].needs /\ op[r].kind # "switch" /\ s[op[r].key] = Absent
    BY <1>2 DEF Proceeds, SeesNoEntry, Replies
<1>3. CASE /\ ~OnlyShows(op[r], s)
           /\ ~(op[r].needs /\ op[r].kind # "switch" /\ s[op[r].key] = Absent)
  <2>1. Posts(r, s)
    BY <1>3 DEF Proceeds
  <2>2. s[op[r].key] \in Entry \cup {Absent}
    BY DEF CanProceed, Entries, OpFits
  <2>3. op[r].kind \in Needing => s[op[r].key] \in Entry
    BY <1>3, <2>2 DEF CanProceed, OpFits, Needing
  <2>4. op[r].kind \notin {"toggle", "tune", "save", "show", "import", "reset"}
    BY <1>3 DEF CanProceed, OpFits, OnlyShows
  <2>5. Edited(r, s) \in Entries
    BY <2>3, <2>4, EditedIsList DEF CanProceed
  <2> QED BY <2>1, <2>3, <2>5 DEF Posts
<1> QED BY <1>1, <1>2, <1>3

LEMMA AskedFits ==
    ASSUME RequestTypes, RequestsFit, NEW r \in Request, pc[r] # "idle"
    PROVE  op[r] \in Asked /\ OpFits(op[r])
BY OperationFits DEF RequestTypes, RequestsFit

LEMMA FetchProceeds ==
    ASSUME RequestTypes, RequestsFit, NEW r \in Request, NEW s \in Entries,
           pc[r] \in {"fetch", "load"}
    PROVE  CanProceed(r, s) /\ OpFits(op[r])
BY AskedFits DEF RequestsFit, CanProceed, OpFits

\* A list that is fetched, whichever way, proceeds or fails.
LEMMA FetchedIsList ==
    ASSUME Types, NEW r \in Request
    PROVE  /\ Fetch(r) => Found(op[r].place) \in Entries
           /\ FetchFormats(r) => cached.text \in Entries
           /\ FetchFormats(r) /\ Readable("formats") => Read("formats") \in Entries
           /\ StampFormats(r) => seen[r] \in Entries
           /\ Peek(r) /\ Readable(op[r].place) => Read(op[r].place) \in Entries
           /\ Nothing \in Entries
<1>1. pc[r] # "idle" => op[r].place \in Place
    BY AskedFits DEF Types, OpFits
<1>2. "formats" \in Place
    BY DEF Place
<1> QED BY <1>1, <1>2, FoundIsList DEF Types, FileTypes, RequestTypes, Fetch, FetchFormats,
        StampFormats, Peek, Nothing, Entries

\* The threads that a step of the interface starts, if any.
BeginsOne(r, step, body) ==
    /\ Starts(r, step, body) /\ step \in {"read", "open"} /\ body \in Entries
    /\ step = "open" => op[r].place \in Profiles \cup {"formats"} /\ op[r] \in Asked
    /\ step = "read" => op'[r].place \in Config \/ op'[r].by = "api"
    /\ pc[r] \in {"idle", "fetch", "load"} /\ pc' = [pc EXCEPT ![r] = "wait"]
    /\ tries' = tries

Begins(r) == \E step, body : BeginsOne(r, step, body)

LEMMA ProceedsBegins ==
    ASSUME RequestTypes, RequestsFit, NEW r \in Request, NEW s \in Entries,
           pc[r] \in {"fetch", "load"}, Proceeds(r, s), UNCHANGED <<op, tries>>
    PROVE  UNCHANGED api \/ Begins(r)
<1>1. CanProceed(r, s) /\ OpFits(op[r]) /\ op[r] \in Asked
    BY FetchProceeds, AskedFits
<1>2. CASE Posts(r, s) /\ Edited(r, s) \in Entries
  <2> DEFINE step == IF op[r].place \in Config THEN "read" ELSE "open"
  <2>1. BeginsOne(r, step, Edited(r, s))
    BY <1>1, <1>2 DEF Posts, BeginsOne, OpFits, CanProceed
  <2> QED BY <2>1 DEF Begins
<1> QED BY <1>1, <1>2, ProceedsCases DEF Replies


LEMMA RequestFrame ==
    ASSUME Types, NEW r \in Request, RequestStep(r)
    PROVE  /\ UNCHANGED <<disk, draft, mtime, cut, shared, landed, lapsed, crashes>>
           /\ UNCHANGED api \/ Begins(r)
           /\ op' = op \/ (pc[r] = "idle" /\ \E o \in Asked : op' = [op EXCEPT ![r] = o])
<1> USE DEF mem, Ask
<1>1. CASE \E o \in Asked : AskApi(r, o)
  <2>1. PICK o \in Asked : AskApi(r, o)
    BY <1>1
  <2>2. Nothing \in Entries
    BY DEF Nothing, Entries
  <2>3. BeginsOne(r, "read", Nothing)
    BY <2>1, <2>2 DEF AskApi, BeginsOne, Types, RequestTypes
  <2> QED BY <2>1, <2>3 DEF AskApi, Begins
<1>2. CASE \E o \in Asked : AskLocked(r, o) \/ AskList(r, o)
    BY <1>2 DEF AskLocked, AskList
<1>3. CASE Refuse(r) \/ GiveUp(r) \/ Peek(r) \/ TakeLock(r) \/ LockIsTaken(r) \/ Hears(r)
    BY <1>3 DEF Refuse, GiveUp, Peek, TakeLock, LockIsTaken, Hears
<1>4. CASE FetchFails(r)
    BY <1>4, ProceedsBegins, FetchedIsList DEF FetchFails, Types
<1>5. CASE Fetch(r)
    BY <1>5, ProceedsBegins, FetchedIsList DEF Fetch, Types
<1>6. CASE FetchFormats(r)
    BY <1>6, ProceedsBegins, FetchedIsList DEF FetchFormats, Types
<1>7. CASE StampFormats(r)
    BY <1>7, ProceedsBegins, FetchedIsList DEF StampFormats, Types
<1>8. CASE LoadFails(r)
    BY <1>8, ProceedsBegins, FetchedIsList DEF LoadFails, Types
<1> QED BY <1>1, <1>2, <1>3, <1>4, <1>5, <1>6, <1>7, <1>8 DEF RequestStep, Asks

LEMMA OneInThread ==
    ASSUME RequestTypes, NEW r \in Request
    PROVE  Now(r) \in Thread /\ Now(r)[1] = r /\ Now(r)[2] = tries[r]
BY DEF RequestTypes, Now, Thread

\* The same for each thread by itself.
LEMMA RequestThread ==
    ASSUME Types, NEW r \in Request, RequestStep(r), NEW t \in Thread
    PROVE  /\ op[t[1]] # NoOp => Of(t)' = Of(t) /\ At(t)' = At(t)
           /\ api[t].at # "none" => op[t[1]] # NoOp
           /\ \/ api'[t] = api[t]
              \/ /\ t = Now(r) /\ api[t].at = "none" /\ tries' = tries /\ pc'[r] = "wait"
                 /\ api'[t].at \in {"read", "open"} /\ api'[t].file = "none"
<1>1. t = <<t[1], t[2]>> /\ t[1] \in Request /\ t[2] \in 1 .. MaxTries
    BY DEF Thread
<1>2. api[t].at # "none" => Of(t) \in Asked
    BY DEF Types, ThreadFits
<1>3. op[t[1]] # NoOp => pc[t[1]] # "idle"
    BY <1>1 DEF Types, RequestsFit
<1>4. op' = op \/ (pc[r] = "idle" /\ \E o \in Asked : op' = [op EXCEPT ![r] = o])
    BY RequestFrame
<1>5. op[t[1]] # NoOp => Of(t)' = Of(t) /\ At(t)' = At(t)
    BY <1>1, <1>3, <1>4 DEF Of, At, Types, RequestTypes
<1>6. CASE UNCHANGED api
    BY <1>2, <1>5, <1>6, ConfigStoreAssumption DEF Of
<1>7. ASSUME NEW step, NEW body, BeginsOne(r, step, body)
      PROVE  \/ api'[t] = api[t]
             \/ /\ t = Now(r) /\ api[t].at = "none" /\ tries' = tries /\ pc'[r] = "wait"
                /\ api'[t].at \in {"read", "open"} /\ api'[t].file = "none"
  <2>1. Unused(r, tries[r]) /\ tries[r] \in 1 .. MaxTries
    BY <1>7 DEF BeginsOne, Unused, Types, RequestTypes
  <2>2. api[Now(r)].at = "none" /\ Now(r) \in Thread
    BY <2>1, OneInThread DEF Now, Types, RequestsFit
  <2>3. pc'[r] = "wait"
    BY <1>7 DEF BeginsOne, Types, RequestTypes
  <2> QED BY <1>7, <2>2, <2>3 DEF BeginsOne, Starts, Idle, Types
<1> QED BY <1>2, <1>5, <1>6, <1>7, RequestFrame, ConfigStoreAssumption DEF Begins, Of

LEMMA FailsTypes ==
    ASSUME RequestTypes, NEW r \in Request, Fails(r)
    PROVE  /\ lock' \in [Key -> Request \cup {Free}] /\ pc' \in [Request -> PcSet]
           /\ tries' \in [Request -> 1 .. MaxTries]
           /\ answer' \in [Request -> {"none", "ok", "error"}]
BY ConfigStoreAssumption DEF RequestTypes, Fails, MayRetry, Answers, Release, PcSet

LEMMA AnswersTypes ==
    ASSUME RequestTypes, NEW r \in Request, NEW said \in {"ok", "error"}, Answers(r, said)
    PROVE  /\ lock' \in [Key -> Request \cup {Free}] /\ pc' \in [Request -> PcSet]
           /\ answer' \in [Request -> {"none", "ok", "error"}]
BY DEF RequestTypes, Answers, Release, PcSet

LEMMA ProceedsTypes ==
    ASSUME RequestTypes, RequestsFit, NEW r \in Request, NEW s \in Entries,
           pc[r] \in {"fetch", "load"}, Proceeds(r, s), UNCHANGED <<op, tries>>
    PROVE  RequestTypes'
<1>1. CanProceed(r, s) /\ OpFits(op[r])
    BY FetchProceeds
<1>2. /\ seen' = [seen EXCEPT ![r] = s]
      /\ Answers(r, "error") \/ Answers(r, "ok") \/ Posts(r, s)
    BY <1>1, ProceedsCases DEF Replies
<1>3. CASE Answers(r, "error") \/ Answers(r, "ok")
    BY <1>2, <1>3, AnswersTypes DEF RequestTypes
<1>4. CASE Posts(r, s)
    BY <1>4 DEF Posts, HoldLock, RequestTypes, PcSet
<1> QED BY <1>2, <1>3, <1>4

LEMMA RequestKeepsTypes ==
    ASSUME Types, NEW r \in Request, RequestStep(r)
    PROVE  RequestTypes' /\ late' \in BOOLEAN
<1> USE DEF Ask
<1> RequestTypes /\ RequestsFit /\ late \in BOOLEAN
    BY DEF Types, HistoryTypes
<1>1. ASSUME NEW o \in Asked, Asks(r, o) PROVE RequestTypes' /\ UNCHANGED late
  <2>1. \E step \in PcSet : Ask(r, o, step)
    BY <1>1 DEF Asks, AskApi, AskLocked, AskList, PcSet
  <2> QED BY <2>1 DEF RequestTypes
<1>2. CASE Refuse(r)
    BY <1>2, AnswersTypes DEF Refuse, RequestTypes
<1>3. CASE GiveUp(r)
    BY <1>3, FailsTypes DEF GiveUp, RequestTypes
<1>4. CASE Peek(r)
  <2>1. Peek(r) /\ Readable(op[r].place) => Read(op[r].place) \in Entries
    BY FetchedIsList
  <2>2. CASE Answers(r, "error") /\ UNCHANGED seen
    BY <1>4, <2>2, AnswersTypes DEF Peek, RequestTypes
  <2>3. CASE ~(Answers(r, "error") /\ UNCHANGED seen)
    BY <1>4, <2>1, <2>3 DEF Peek, RequestTypes, PcSet
  <2> QED BY <2>2, <2>3
<1>5. CASE TakeLock(r)
    BY <1>5 DEF TakeLock, RequestTypes, PcSet
<1>6. CASE LockIsTaken(r)
    BY <1>6, FailsTypes DEF LockIsTaken, RequestTypes
<1>7. CASE Hears(r)
  <2>1. Said(r) \subseteq {"ok", "error"}
    BY DEF Said
  <2>2. CASE Fails(r)
    BY <1>7, <2>2, FailsTypes DEF Hears, RequestTypes
  <2>3. CASE (\E said \in Said(r) : Answers(r, said)) /\ UNCHANGED tries
    BY <1>7, <2>1, <2>3, AnswersTypes DEF Hears, RequestTypes
  <2> QED BY <1>7, <2>2, <2>3 DEF Hears
<1>8. CASE FetchFails(r)
  <2>1. CASE Fails(r) /\ UNCHANGED <<seen, api>>
    BY <1>8, <2>1, FailsTypes DEF FetchFails, RequestTypes
  <2>2. CASE Proceeds(r, Nothing) /\ UNCHANGED tries
    BY <1>8, <2>2, ProceedsTypes, FetchedIsList DEF FetchFails
  <2> QED BY <1>8, <2>1, <2>2 DEF FetchFails
<1>9. CASE Fetch(r)
    BY <1>9, ProceedsTypes, FetchedIsList DEF Fetch
<1>10. CASE FetchFormats(r)
  <2>1. CASE /\ seen' = [seen EXCEPT ![r] = Read("formats")] /\ Readable("formats")
             /\ pc' = [pc EXCEPT ![r] = "load"]
             /\ UNCHANGED <<lock, answer, api, cached>>
    BY <1>10, <2>1, FetchedIsList DEF FetchFormats, RequestTypes, PcSet
  <2>2. CASE Proceeds(r, cached.text) \/ Proceeds(r, Nothing)
    BY <1>10, <2>2, ProceedsTypes, FetchedIsList DEF FetchFormats
  <2> QED BY <1>10, <2>1, <2>2 DEF FetchFormats
<1>11. CASE StampFormats(r)
    BY <1>11, ProceedsTypes, FetchedIsList DEF StampFormats
<1>12. CASE LoadFails(r)
    BY <1>12, ProceedsTypes, FetchedIsList DEF LoadFails
<1> QED
    BY <1>1, <1>2, <1>3, <1>4, <1>5, <1>6, <1>7, <1>8, <1>9, <1>10, <1>11, <1>12
        DEF RequestStep, Refuse, GiveUp, Peek, TakeLock, LockIsTaken, Hears, FetchFails, Fetch,
            FetchFormats, StampFormats, LoadFails

LEMMA RequestKeepsFiles ==
    ASSUME Types, NEW r \in Request, RequestStep(r)
    PROVE  FileTypes' /\ HistoryTypes'
<1>1. cached' \in [text : Entries, at : Int] /\ -1 <= cached'.at /\ cached'.at <= mtime
  <2> USE DEF Types, FileTypes
  <2>1. CASE cached' = [cached EXCEPT !.text = Nothing]
    BY <2>1, FetchedIsList
  <2>2. CASE StampFormats(r)
    BY <2>2, FetchedIsList DEF StampFormats
  <2>3. CASE ~StampFormats(r) /\ cached' # [cached EXCEPT !.text = Nothing]
    <3>1. UNCHANGED cached
      BY <2>3 DEF LoadFails, RequestStep, Asks, AskApi, AskLocked, AskList, Ask, Refuse, GiveUp, Peek,
          TakeLock, LockIsTaken, Hears, FetchFails, Fetch, FetchFormats, mem
    <3> QED BY <3>1
  <2> QED BY <2>1, <2>2, <2>3
<1> QED BY <1>1, RequestFrame, RequestKeepsTypes DEF Types, FileTypes, HistoryTypes

\* A step of one request changes nothing of another, and takes no lock away.
LEMMA RequestOthers ==
    ASSUME Types, NEW r \in Request, RequestStep(r), NEW x \in Request \ {r}
    PROVE  /\ op'[x] = op[x] /\ pc'[x] = pc[x] /\ tries'[x] = tries[x]
           /\ seen'[x] = seen[x] /\ answer'[x] = answer[x]
           /\ \A k \in Key : lock[k] = x => lock'[k] = x
<1> USE DEF Ask
<1> RequestTypes /\ RequestsFit
    BY DEF Types
<1> DEFINE Kept == /\ op'[x] = op[x] /\ pc'[x] = pc[x] /\ tries'[x] = tries[x]
                   /\ seen'[x] = seen[x] /\ answer'[x] = answer[x]
                   /\ \A k \in Key : lock[k] = x => lock'[k] = x
<1>1. ASSUME NEW said, Answers(r, said), UNCHANGED <<op, tries>>,
             UNCHANGED seen \/ \E s : seen' = [seen EXCEPT ![r] = s]
      PROVE  Kept
    BY <1>1 DEF Answers, Release, RequestTypes
<1>2. ASSUME Fails(r), UNCHANGED <<op, seen>> PROVE Kept
    BY <1>2 DEF Fails, Answers, Release, RequestTypes
<1>3. ASSUME NEW s, Proceeds(r, s), UNCHANGED <<op, tries>> PROVE Kept
  <2>1. CASE Posts(r, s)
    BY <1>3, <2>1 DEF Posts, HoldLock, RequestTypes
  <2>2. CASE SeesNoEntry(r, s) \/ PageIsDone(r, s)
    BY <1>1, <1>3, <2>2 DEF SeesNoEntry, PageIsDone
  <2> QED BY <1>3, <2>1, <2>2 DEF Proceeds
<1>4. CASE \E o \in Asked : Asks(r, o)
    BY <1>4 DEF Asks, AskApi, AskLocked, AskList, RequestTypes
<1>5. CASE Refuse(r) \/ GiveUp(r) \/ LockIsTaken(r) \/ Hears(r)
    BY <1>1, <1>2, <1>5 DEF Refuse, GiveUp, LockIsTaken, Hears
<1>6. CASE TakeLock(r)
    BY <1>6, ConfigStoreAssumption DEF TakeLock, RequestTypes
<1>7. CASE Peek(r)
  <2>1. CASE Answers(r, "error") /\ UNCHANGED seen
    BY <1>1, <1>7, <2>1 DEF Peek
  <2>2. CASE ~(Answers(r, "error") /\ UNCHANGED seen)
    BY <1>7, <2>2 DEF Peek, RequestTypes
  <2> QED BY <2>1, <2>2
<1>8. CASE FetchFails(r)
    BY <1>2, <1>3, <1>8 DEF FetchFails
<1>9. CASE Fetch(r) \/ StampFormats(r) \/ LoadFails(r)
    BY <1>3, <1>9 DEF Fetch, StampFormats, LoadFails
<1>10. CASE FetchFormats(r)
  <2>1. CASE /\ seen' = [seen EXCEPT ![r] = Read("formats")]
             /\ pc' = [pc EXCEPT ![r] = "load"]
             /\ UNCHANGED <<lock, answer, api, cached>>
    BY <1>10, <2>1 DEF FetchFormats, RequestTypes
  <2>2. CASE Proceeds(r, cached.text) \/ Proceeds(r, Nothing)
    BY <1>3, <1>10, <2>2 DEF FetchFormats
  <2> QED BY <1>10, <2>1, <2>2 DEF FetchFormats
<1> QED BY <1>4, <1>5, <1>6, <1>7, <1>8, <1>9, <1>10 DEF RequestStep

LEMMA RequestKeepsThreads ==
    ASSUME Types, NEW r \in Request, RequestStep(r)
    PROVE  api' \in [Thread -> Doing] /\ \A t \in Thread : ThreadFits(t)'
<1>1. api' \in [Thread -> Doing]
  <2>1. CASE UNCHANGED api
    BY <2>1 DEF Types
  <2>2. ASSUME NEW step, NEW body, BeginsOne(r, step, body) PROVE api' \in [Thread -> Doing]
    <3>1. Nothing \in Entries
      BY DEF Nothing, Entries
    <3> QED BY <2>2, <3>1 DEF BeginsOne, Starts, Idle, Types, Doing, StepSet, FileSet
  <2> QED BY <2>1, <2>2, RequestFrame DEF Begins
<1>2. ASSUME NEW t \in Thread PROVE ThreadFits(t)'
  <2>1. CASE api'[t] = api[t]
    BY <2>1, RequestThread DEF Types, ThreadFits
  <2>2. CASE api'[t] # api[t]
    <3>1. /\ t = Now(r) /\ pc'[r] = "wait" /\ api'[t].at \in {"read", "open"}
          /\ api'[t].file = "none"
      BY <2>2, RequestThread
    <3>2. PICK step, body : BeginsOne(r, step, body)
      BY <2>2, RequestFrame DEF Begins
    <3>3. t[1] = r
      BY <3>1, OneInThread DEF Types
    <3>4. Of(t)' \in Asked
      <4>1. pc[r] # "idle" => op[r] \in Asked
        BY AskedFits DEF Types
      <4>2. op'[r] = op[r] \/ op'[r] \in Asked
        BY RequestFrame DEF Types, RequestTypes
      <4>3. pc[r] = "idle" => op'[r] \in Asked
        BY <3>2 DEF BeginsOne, RequestStep, Asks, AskApi, AskLocked, AskList, Ask, Refuse,
            GiveUp, Peek, TakeLock, LockIsTaken, Hears, FetchFails, Fetch, FetchFormats,
            StampFormats, LoadFails, Types, RequestTypes
      <4> QED BY <3>3, <4>1, <4>2, <4>3 DEF Of
    <3>5. api'[t].at = "open" => At(t)' \in Profiles \cup {"formats"}
      <4>1. api'[t].at = "open" => /\ op[r].place \in Profiles \cup {"formats"}
                                   /\ op[r] \in Asked
        BY <3>1, <3>2, OneInThread DEF BeginsOne, Starts, Idle, Types
      <4> QED BY <3>3, <4>1, RequestThread, ConfigStoreAssumption DEF At, Of
    <3>6. api'[t].at = "read" => At(t)' \in Config \/ Of(t)'.by = "api"
      BY <3>1, <3>2, <3>3, OneInThread DEF BeginsOne, Starts, Idle, Types, At, Of
    <3> QED BY <3>1, <3>4, <3>5, <3>6 DEF ThreadFits
  <2> QED BY <2>1, <2>2
<1> QED BY <1>1, <1>2

\* What a step of a request makes of that request.
SelfFits(r) ==
    /\ pc'[r] # "idle" /\ op'[r] \in Asked
    /\ \/ tries'[r] = tries[r] /\ (pc[r] \in {"wait", "answered"} => pc'[r] = "answered")
       \/ tries'[r] = tries[r] + 1
    /\ pc'[r] = "fetch" /\ op'[r].kind = "switch" => seen'[r][op'[r].key] \in Entry
    /\ pc'[r] = "load" => op'[r].place = "formats"
    /\ pc'[r] \in {"peek", "lock", "fetch", "load"} => op'[r].by # "api"
    /\ pc'[r] = "lock" => op'[r].by = "lock"
    /\ pc'[r] = "peek" => op'[r].by = "list"
    /\ answer'[r] # "none" => pc'[r] = "answered"

LEMMA RequestSelf ==
    ASSUME Types, NEW r \in Request, RequestStep(r)
    PROVE  SelfFits(r)
<1> USE DEF Ask, SelfFits
<1> RequestTypes /\ RequestsFit
    BY DEF Types
<1>1. pc[r] # "idle" => op[r] \in Asked /\ OpFits(op[r])
    BY AskedFits
<1>2. ASSUME NEW said, Answers(r, said), UNCHANGED <<op, tries>>, pc[r] # "idle"
      PROVE  SelfFits(r)
    BY <1>1, <1>2 DEF Answers, RequestTypes
<1>3. ASSUME Fails(r), UNCHANGED <<op, seen>>, pc[r] \notin {"idle", "answered"}
      PROVE  SelfFits(r)
  <2>1. CASE Locked(op[r]) /\ MayRetry(r)
    BY <1>1, <1>3, <2>1 DEF Fails, Locked, RequestTypes, RequestsFit
  <2>2. CASE ~(Locked(op[r]) /\ MayRetry(r))
    BY <1>2, <1>3, <2>2 DEF Fails
  <2> QED BY <2>1, <2>2
<1>4. ASSUME NEW s, Proceeds(r, s), UNCHANGED <<op, tries>>, pc[r] \in {"fetch", "load"}
      PROVE  SelfFits(r)
  <2>1. CASE Posts(r, s)
    BY <1>1, <1>4, <2>1 DEF Posts, RequestTypes, RequestsFit
  <2>2. CASE SeesNoEntry(r, s) \/ PageIsDone(r, s)
    BY <1>2, <1>4, <2>2 DEF SeesNoEntry, PageIsDone
  <2> QED BY <1>4, <2>1, <2>2 DEF Proceeds
<1>5. CASE \E o \in Asked : Asks(r, o)
  <2>1. PICK o \in Asked : Asks(r, o)
    BY <1>5
  <2>2. OpFits(o)
    BY OperationFits
  <2> QED BY <2>1, <2>2 DEF Asks, AskApi, AskLocked, AskList, Locked, RequestTypes, RequestsFit,
          OpFits
<1>6. CASE Refuse(r) \/ GiveUp(r) \/ LockIsTaken(r) \/ Hears(r)
    BY <1>2, <1>3, <1>6 DEF Refuse, GiveUp, LockIsTaken, Hears
<1>7. CASE TakeLock(r)
    BY <1>1, <1>7 DEF TakeLock, RequestTypes, RequestsFit, OpFits
<1>8. CASE Peek(r)
  <2>1. CASE Answers(r, "error") /\ UNCHANGED seen
    BY <1>2, <1>8, <2>1 DEF Peek
  <2>2. CASE ~(Answers(r, "error") /\ UNCHANGED seen)
    <3>1. /\ Readable(op[r].place) /\ Read(op[r].place)[op[r].key] # Absent
          /\ seen' = [seen EXCEPT ![r] = Read(op[r].place)]
          /\ pc' = [pc EXCEPT ![r] = "fetch"] /\ pc[r] = "peek"
          /\ UNCHANGED <<op, tries, lock, answer>>
      BY <1>8, <2>2 DEF Peek
    <3>2. Read(op[r].place)[op[r].key] \in Entry
      BY <1>1, <1>8, <3>1, FetchedIsList DEF Entries, OpFits
    <3> QED BY <1>1, <3>1, <3>2 DEF RequestTypes, RequestsFit
  <2> QED BY <2>1, <2>2
<1>9. CASE FetchFails(r)
    BY <1>3, <1>4, <1>9 DEF FetchFails
<1>10. CASE Fetch(r) \/ StampFormats(r) \/ LoadFails(r)
    BY <1>4, <1>10 DEF Fetch, StampFormats, LoadFails
<1>11. CASE FetchFormats(r)
  <2>1. CASE /\ seen' = [seen EXCEPT ![r] = Read("formats")]
             /\ pc' = [pc EXCEPT ![r] = "load"]
             /\ UNCHANGED <<lock, answer, api, cached>>
    BY <1>1, <1>11, <2>1 DEF FetchFormats, RequestTypes, RequestsFit
  <2>2. CASE Proceeds(r, cached.text) \/ Proceeds(r, Nothing)
    BY <1>4, <1>11, <2>2 DEF FetchFormats
  <2> QED BY <1>11, <2>1, <2>2 DEF FetchFormats
<1> QED BY <1>5, <1>6, <1>7, <1>8, <1>9, <1>10, <1>11 DEF RequestStep

LEMMA RequestKeepsFit ==
    ASSUME Types, NEW r \in Request, RequestStep(r)
    PROVE  RequestsFit'
<1> SUFFICES ASSUME NEW x \in Request
             PROVE  /\ (pc'[x] = "idle") <=> (op'[x] = NoOp)
                    /\ pc'[x] = "idle" => tries'[x] = 1
                    /\ \A n \in 1 .. MaxTries : Unused(x, n)' => api'[<<x, n>>].at = "none"
                    /\ pc'[x] = "fetch" /\ op'[x].kind = "switch" =>
                           seen'[x][op'[x].key] \in Entry
                    /\ pc'[x] = "load" => op'[x].place = "formats"
                    /\ pc'[x] \in {"peek", "lock", "fetch", "load"} => op'[x].by # "api"
                    /\ pc'[x] = "lock" => op'[x].by = "lock"
                    /\ pc'[x] = "peek" => op'[x].by = "list"
                    /\ answer'[x] # "none" => pc'[x] = "answered"
    BY DEF RequestsFit
<1>1. RequestTypes /\ RequestsFit
    BY DEF Types
<1>2. \A n \in 1 .. MaxTries : <<x, n>> \in Thread
    BY DEF Thread
<1>3. CASE x # r
  <2>1. \A n \in 1 .. MaxTries : api'[<<x, n>>] = api[<<x, n>>]
    BY <1>2, <1>3, RequestThread DEF Now
  <2>2. /\ op'[x] = op[x] /\ pc'[x] = pc[x] /\ tries'[x] = tries[x]
        /\ seen'[x] = seen[x] /\ answer'[x] = answer[x]
    BY <1>3, RequestOthers
  <2>3. \A n \in 1 .. MaxTries : Unused(x, n)' <=> Unused(x, n)
    BY <2>2 DEF Unused
  <2> QED BY <1>1, <2>1, <2>2, <2>3 DEF RequestsFit
<1>4. CASE x = r
  <2>1. SelfFits(r)
    BY RequestSelf
  <2>2. ASSUME NEW n \in 1 .. MaxTries, Unused(r, n)' PROVE api'[<<r, n>>].at = "none"
    <3>1. tries[r] \in 1 .. MaxTries /\ tries'[r] \in 1 .. MaxTries /\ n \in Int
      BY <1>1, RequestKeepsTypes DEF RequestTypes
    <3>2. CASE api'[<<r, n>>] = api[<<r, n>>]
      <4>1. Unused(r, n)
        BY <2>1, <2>2, <3>1 DEF Unused, SelfFits
      <4> QED BY <1>1, <3>2, <4>1 DEF RequestsFit
    <3>3. CASE api'[<<r, n>>] # api[<<r, n>>]
      <4>1. <<r, n>> = Now(r) /\ tries' = tries /\ pc'[r] = "wait"
        BY <1>2, <1>4, <3>3, RequestThread
      <4> QED BY <2>2, <3>1, <4>1 DEF Unused, Now
    <3> QED BY <3>2, <3>3
  <2> QED BY <1>4, <2>1, <2>2, ConfigStoreAssumption DEF SelfFits
<1> QED BY <1>3, <1>4

LEMMA RequestStepTypes ==
    ASSUME Types, NEW r \in Request, RequestStep(r) PROVE Types'
BY RequestKeepsTypes, RequestKeepsFiles, RequestKeepsThreads, RequestKeepsFit DEF Types

-----------------------------------------------------------------------------
(***************************************************************************)
(* Steps of the threads of the API                                         *)
(***************************************************************************)

\* A thread that makes a step is under way and works for a request; of the
\* others a step changes no more than what file they have open.
LEMMA ApiFrame ==
    ASSUME Types, NEW t \in Thread, Api(t)
    PROVE  /\ UNCHANGED ui /\ UNCHANGED crashes
           /\ Active(t) /\ Of(t) \in Asked /\ OpFits(Of(t)) /\ At(t) \in Place
           /\ api'[t].at # "none"
           /\ \A u \in Thread \ {t} : /\ api'[u].at = api[u].at /\ api'[u].text = api[u].text
                                      /\ api'[u].rest = api[u].rest
<1> USE DEF Goes, Renamed, Ended
<1>1. /\ UNCHANGED ui /\ UNCHANGED crashes /\ api[t].at \notin {"none"} \cup Ended
      /\ api'[t].at # "none"
    BY DEF Types, Doing, Api, MergeConfig, ReplaceConfig, ReadFile, RenameOwn, Open, Write,
        Swap, SwapFails, Clean, CheckImport, TakeDefaults, OpenFormats, WriteFormats, CacheFormats,
        WriteFormatsFails, FileFails, WriteFails, AfterFailure
<1>2. \A u \in Thread \ {t} : /\ api'[u].at = api[u].at /\ api'[u].text = api[u].text
                              /\ api'[u].rest = api[u].rest
  <2>1. CASE MergeConfig(t) \/ ReplaceConfig(t) \/ ReadFile(t) \/ Open(t) \/ Write(t)
    BY <2>1 DEF Types, Doing, MergeConfig, ReplaceConfig, ReadFile, Open, Write
  <2>2. CASE SwapFails(t) \/ CheckImport(t) \/ TakeDefaults(t) \/ OpenFormats(t)
             \/ WriteFormats(t) \/ CacheFormats(t)
    BY <2>2 DEF Types, Doing, SwapFails, CheckImport, TakeDefaults, OpenFormats, WriteFormats,
        CacheFormats
  <2>6. CASE WriteFormatsFails(t) \/ FileFails(t) \/ WriteFails(t)
    BY <2>6 DEF Types, Doing, WriteFormatsFails, FileFails, WriteFails
  <2>3. ASSUME NEW u \in Thread \ {t}, RenameOwn(t) \/ Clean(t)
        PROVE  api'[u] = api[u] \/ \E f : api'[u] = [api[u] EXCEPT !.file = f]
    BY <2>3 DEF RenameOwn, Clean
  <2>4. ASSUME NEW u \in Thread \ {t}, Swap(t)
        PROVE  api'[u] = api[u] \/ \E f : api'[u] = [api[u] EXCEPT !.file = f]
    BY <2>4 DEF Swap
  <2>5. CASE RenameOwn(t) \/ Swap(t) \/ Clean(t)
    <3> SUFFICES ASSUME NEW u \in Thread \ {t}
                 PROVE  /\ api'[u].at = api[u].at /\ api'[u].text = api[u].text
                        /\ api'[u].rest = api[u].rest
      OBVIOUS
    <3>1. api'[u] = api[u] \/ \E f : api'[u] = [api[u] EXCEPT !.file = f]
      BY <2>3, <2>4, <2>5
    <3>2. api[u] \in Doing
      BY DEF Types
    <3>3. ASSUME NEW f, api'[u] = [api[u] EXCEPT !.file = f]
          PROVE  api'[u].at = api[u].at /\ api'[u].text = api[u].text /\ api'[u].rest = api[u].rest
      BY <3>2, <3>3 DEF Doing
    <3> QED BY <3>1, <3>3
  <2> QED BY <2>1, <2>2, <2>5, <2>6 DEF Api
<1>3. Of(t) \in Asked
    BY <1>1 DEF Types, ThreadFits
<1>4. OpFits(Of(t))
    BY <1>3, OperationFits
<1> QED BY <1>1, <1>2, <1>3, <1>4 DEF Active, OpFits, At

\* What a thread of the API reads and makes of it are lists.
LEMMA ReadIsList ==
    ASSUME Types, NEW t \in Thread, ReadFile(t), Readable(At(t)),
           Fits(Of(t), Read(At(t))[Of(t).key])
    PROVE  Edited(t[1], Read(At(t))) \in Entries
<1> DEFINE r == t[1]
           s == Read(At(t))
<1>1. r \in Request /\ Of(t) = op[r]
    BY DEF Thread, Of
<1>2. Of(t) \in Asked /\ OpFits(Of(t)) /\ At(t) \in Place
    BY ApiFrame DEF Api
<1>3. s \in Entries
    BY <1>2, FoundIsList DEF Types, FileTypes
<1>4. op[r].by = "api" /\ At(t) \notin Config \cup {"formats"}
    BY <1>1 DEF Types, ThreadFits, ReadFile
<1>5. op[r].kind \notin {"switch", "save", "show", "page", "import", "reset"}
    BY <1>1, <1>2, <1>4 DEF OpFits, At
<1>6. s[op[r].key] \in Entry \cup {Absent}
    BY <1>1, <1>2, <1>3 DEF OpFits, Entries
<1>7. op[r].kind \in Needing \cup {"toggle", "tune"} => s[op[r].key] \in Entry
    BY <1>1, <1>6 DEF Fits, Needing
<1> HIDE DEF s, r
<1>8. Edited(r, s) \in Entries
    BY <1>1, <1>2, <1>3, <1>5, <1>7, EditedIsList
<1> QED BY <1>8 DEF r, s

\* A file that another thread has open can lose its name or get another one.
LEMMA ApiOthers ==
    ASSUME Types, NEW t \in Thread, Api(t), NEW u \in Thread \ {t}
    PROVE  /\ api'[u] \in Doing
           /\ api'[u].file \in {"draft", "disk"} => api[u].file \in {"draft", "disk"}
           /\ api'[u].file # api[u].file =>
                 /\ At(u) = At(t)
                 /\ Swap(t) \/ Clean(t) \/ (RenameOwn(t) /\ api[u].file = "disk")
<1> USE DEF Goes, Renamed
<1>1. api[u] \in Doing
    BY DEF Types
<1>2. CASE \/ MergeConfig(t) \/ ReplaceConfig(t) \/ ReadFile(t) \/ Open(t) \/ Write(t)
           \/ SwapFails(t) \/ CheckImport(t) \/ TakeDefaults(t) \/ OpenFormats(t)
           \/ WriteFormats(t) \/ CacheFormats(t) \/ WriteFormatsFails(t) \/ FileFails(t)
           \/ WriteFails(t)
  <2>1. api'[u] = api[u]
    BY <1>2 DEF Types, MergeConfig, ReplaceConfig, ReadFile, Open, Write, SwapFails, CheckImport,
        TakeDefaults, OpenFormats, WriteFormats, CacheFormats, WriteFormatsFails, FileFails,
        WriteFails
  <2> QED BY <1>1, <2>1
<1>3. CASE RenameOwn(t)
  <2>1. CASE api'[u] = api[u]
    BY <1>1, <2>1
  <2>2. CASE api'[u] # api[u]
    <3>1. api'[u] = [api[u] EXCEPT !.file = "gone"] /\ At(u) = At(t) /\ api[u].file = "disk"
      BY <1>3, <2>2 DEF RenameOwn
    <3> QED BY <1>1, <1>3, <3>1 DEF Doing, FileSet
  <2> QED BY <2>1, <2>2
<1>4. CASE Clean(t)
  <2>1. CASE api'[u] = api[u]
    BY <1>1, <2>1
  <2>2. CASE api'[u] # api[u]
    <3>1. api'[u] = [api[u] EXCEPT !.file = "gone"] /\ At(u) = At(t) /\ api[u].file = "draft"
      BY <1>4, <2>2 DEF Clean
    <3> QED BY <1>1, <1>4, <3>1 DEF Doing, FileSet
  <2> QED BY <2>1, <2>2
<1>5. CASE Swap(t)
  <2>1. CASE Of(u) # NoOp /\ At(u) = At(t)
    <3>1. CASE api[u].file = "draft"
      <4>1. api'[u] = [api[u] EXCEPT !.file = "disk"]
        BY <1>1, <1>5, <2>1, <3>1 DEF Swap, Doing
      <4> QED BY <1>1, <1>5, <2>1, <3>1, <4>1 DEF Doing, FileSet
    <3>2. CASE api[u].file = "disk"
      <4>1. api'[u] = [api[u] EXCEPT !.file = "gone"]
        BY <1>1, <1>5, <2>1, <3>2 DEF Swap, Doing
      <4> QED BY <1>1, <1>5, <2>1, <3>2, <4>1 DEF Doing, FileSet
    <3>3. CASE api[u].file \notin {"draft", "disk"}
      <4>1. api'[u] = [api[u] EXCEPT !.file = api[u].file]
        BY <1>1, <1>5, <2>1, <3>3 DEF Swap, Doing
      <4> QED BY <1>1, <1>5, <2>1, <3>3, <4>1 DEF Doing, FileSet
    <3> QED BY <3>1, <3>2, <3>3
  <2>2. CASE ~(Of(u) # NoOp /\ At(u) = At(t))
    <3>1. api'[u] = api[u]
      BY <1>5, <2>2 DEF Swap
    <3> QED BY <1>1, <3>1
  <2> QED BY <2>1, <2>2
<1> QED BY <1>2, <1>3, <1>4, <1>5 DEF Api

\* What a thread of the API becomes.
LEMMA ApiSelf ==
    ASSUME Types, NEW t \in Thread, Api(t)
    PROVE  /\ api' \in [Thread -> Doing]
           /\ ThreadFits(t)'
<1> USE DEF Goes
<1>1. api \in [Thread -> Doing] /\ api[t] \in Doing /\ ThreadFits(t) /\ OpFits(Of(t))
    BY ApiFrame DEF Types
<1>2. UNCHANGED op /\ Of(t)' = Of(t) /\ At(t)' = At(t) /\ Of(t) \in Asked
    BY ApiFrame DEF ui, Of, At
<1>3. Nothing \in Entries /\ At(t) \in Place
    BY ApiFrame DEF Nothing, Entries
<1>4. DOMAIN api' = Thread /\ api' = [u \in Thread |-> api'[u]]
    BY <1>1 DEF Api, MergeConfig, ReplaceConfig, ReadFile, RenameOwn, Open, Write, Swap, SwapFails,
        Clean, CheckImport, TakeDefaults, OpenFormats, WriteFormats, CacheFormats,
        WriteFormatsFails, FileFails, WriteFails, Renamed
<1> SUFFICES api'[t] \in Doing /\ ThreadFits(t)'
    BY <1>4, ApiOthers
<1> USE DEF StepSet, FileSet
<1>5. CASE MergeConfig(t)
  <2>1. disk[At(t)] \in Entries /\ disk[Other(At(t))] \in Entries
    BY <1>5 DEF MergeConfig, Other, Types, FileTypes, Config, Profiles, Place
  <2> QED BY <1>1, <1>2, <1>5, <2>1 DEF MergeConfig, Doing, ThreadFits
<1>6. CASE ReadFile(t)
  <2>1. At(t) \in Profiles \/ HasOwnFile(Of(t))
    BY <1>3, <1>6 DEF ReadFile, HasOwnFile, At, Place
  <2>2. CASE api' = [api EXCEPT ![t].at = IF HasOwnFile(Of(t)) THEN "rename" ELSE "open",
                                ![t].text = Edited(t[1], Read(At(t)))]
             /\ Edited(t[1], Read(At(t))) \in Entries
    <3>1. api'[t] \in Doing
      BY <1>1, <2>2 DEF Doing
    <3>2. /\ api'[t].at = IF HasOwnFile(Of(t)) THEN "rename" ELSE "open"
          /\ api'[t].file = api[t].file
      BY <1>1, <2>2 DEF Doing
    <3>3. api[t].at = "read" /\ At(t) \notin Config \cup {"formats"}
      BY <1>6 DEF ReadFile
    <3>4. ThreadFits(t)'
      BY <1>1, <1>2, <2>1, <3>2, <3>3 DEF ThreadFits
    <3> QED BY <3>1, <3>4
  <2>3. CASE \E step \in {"failed", "notfound"} : api' = [api EXCEPT ![t].at = step]
    BY <1>1, <1>2, <1>6, <2>3 DEF ReadFile, Doing, ThreadFits
  <2> QED BY <1>6, <2>2, <2>3, ReadIsList DEF ReadFile
<1>7. CASE CheckImport(t)
  <2>1. [Nothing EXCEPT ![Of(t).key] = Fresh(t[1])] \in Entries
    BY <1>3 DEF Entries, Fresh, Entry, Edit, Thread
  <2> QED BY <1>1, <1>2, <1>7, <2>1 DEF CheckImport, Doing, ThreadFits, OpFits, At
<1>8. CASE TakeDefaults(t)
    BY <1>1, <1>2, <1>3, <1>8 DEF TakeDefaults, Doing, ThreadFits, OpFits, At
<1>9. CASE ReplaceConfig(t) \/ OpenFormats(t) \/ WriteFormats(t) \/ CacheFormats(t)
  <2>1. PICK step \in {"done", "write", "cache"} :
            /\ api' = [api EXCEPT ![t].at = step]
            /\ step = "done" \/ At(t) = "formats"
            /\ api[t].at \in {"swap", "open", "cache"} \/ (api[t].at = "write" /\ At(t) = "formats")
    BY <1>9 DEF ReplaceConfig, OpenFormats, WriteFormats, CacheFormats
  <2>2. api'[t] \in Doing /\ api'[t].at = step /\ api'[t].file = api[t].file
    BY <1>1, <2>1 DEF Doing
  <2>3. api[t].file \notin {"draft", "disk"}
    BY <1>1, <2>1 DEF ThreadFits, Profiles
  <2>4. ThreadFits(t)'
    BY <1>1, <1>2, <2>1, <2>2, <2>3 DEF ThreadFits
  <2> QED BY <2>2, <2>4
<1>10. CASE Open(t) \/ Write(t)
    BY <1>1, <1>2, <1>10 DEF Open, Write, Doing, ThreadFits
<1>11. CASE RenameOwn(t) \/ Clean(t)
    BY <1>1, <1>2, <1>11 DEF RenameOwn, Clean, Doing, ThreadFits
<1>12. CASE Swap(t)
  <2>1. api'[t] = [api[t] EXCEPT !.at = "done"] /\ api[t].at = "swap"
    BY <1>1, <1>12 DEF Swap, Renamed
  <2>2. api'[t] \in Doing
    BY <1>1, <2>1 DEF Doing
  <2>3. api'[t].at = "done" /\ api'[t].file = api[t].file
    BY <1>1, <2>1 DEF Doing
  <2>4. ThreadFits(t)'
    BY <1>1, <1>2, <2>1, <2>3 DEF ThreadFits
  <2> QED BY <2>2, <2>4
<1>13. CASE SwapFails(t) \/ FileFails(t) \/ WriteFails(t)
  <2>1. PICK step \in {"failed", "clean"} :
            /\ step = "clean" => At(t) \in Profiles
            /\ \/ api' = [api EXCEPT ![t].at = step] /\ api[t].at # "write"
               \/ api' = [api EXCEPT ![t].at = step, ![t].file = "none"]
    BY <1>13 DEF SwapFails, FileFails, WriteFails, AfterFailure
  <2>2. /\ api'[t] \in Doing /\ api'[t].at = step
        /\ api'[t].file = "none" \/ (api'[t].file = api[t].file /\ api[t].at # "write")
    BY <1>1, <2>1 DEF Doing
  <2>3. api'[t].file \notin {"draft", "disk"}
    BY <1>1, <2>2 DEF ThreadFits
  <2>4. ThreadFits(t)'
    BY <1>2, <2>1, <2>2, <2>3 DEF ThreadFits
  <2> QED BY <2>2, <2>4
<1>14. CASE WriteFormatsFails(t)
  <2>1. /\ api' = [api EXCEPT ![t].at = "failed"]
        /\ api[t].at = "write" /\ At(t) = "formats"
    BY <1>14 DEF WriteFormatsFails
  <2>2. api'[t] \in Doing /\ api'[t].at = "failed" /\ api'[t].file = api[t].file
    BY <1>1, <2>1 DEF Doing
  <2>3. api[t].file \notin {"draft", "disk"}
    BY <1>1, <2>1 DEF ThreadFits, Profiles
  <2>4. ThreadFits(t)'
    BY <1>2, <2>2, <2>3 DEF ThreadFits
  <2> QED BY <2>2, <2>4
<1> QED BY <1>5, <1>6, <1>7, <1>8, <1>9, <1>10, <1>11, <1>12, <1>13, <1>14 DEF Api

LEMMA ApiKeepsFiles ==
    ASSUME Types, NEW t \in Thread, Api(t)
    PROVE  FileTypes' /\ HistoryTypes'
<1> DEFINE p == At(t)
           Texts == Entries \cup {Blank, Torn}
<1>1. /\ p \in Place /\ api[t].text \in Entries /\ api[t].rest \in Entries
      /\ ThreadFits(t) /\ t[1] \in Request /\ t \in Thread /\ UNCHANGED <<crashes, late, lapsed>>
    BY ApiFrame DEF Types, Doing, Thread, ui
<1>2. FileTypes /\ HistoryTypes
    BY DEF Types
<1>3. Profiles \subseteq Place /\ Config \cap Profiles = {} /\ "formats" \in Place \ Profiles
    BY DEF Place, Config, Profiles
<1>4. shared' \subseteq Profiles \cup {"formats"}
  <2>1. CASE Open(t) \/ FileFails(t)
    BY <1>1, <1>2, <2>1 DEF Open, FileFails, Joined, HistoryTypes, ThreadFits
  <2>2. CASE OpenFormats(t)
    BY <1>2, <2>2 DEF OpenFormats, HistoryTypes
  <2>3. CASE ~Open(t) /\ ~OpenFormats(t) /\ ~FileFails(t)
    BY <1>2, <2>3 DEF HistoryTypes, Api, MergeConfig, ReplaceConfig, ReadFile, RenameOwn, Write,
        Swap, SwapFails, Clean, CheckImport, TakeDefaults, WriteFormats, CacheFormats,
        WriteFormatsFails, WriteFails
  <2> QED BY <2>1, <2>2, <2>3
<1>5. landed' \subseteq Request
    BY <1>1, <1>2 DEF HistoryTypes, Api, MergeConfig, ReplaceConfig, ReadFile, RenameOwn, Open,
        Write, Swap, SwapFails, Clean, CheckImport, TakeDefaults, OpenFormats, WriteFormats,
        CacheFormats, WriteFormatsFails, FileFails, WriteFails
<1>6. HistoryTypes'
    BY <1>1, <1>2, <1>4, <1>5 DEF HistoryTypes
<1> SUFFICES FileTypes'
    BY <1>6
<1>7. CASE \/ MergeConfig(t) \/ ReadFile(t) \/ SwapFails(t) \/ CheckImport(t) \/ TakeDefaults(t)
           \/ FileFails(t)
    BY <1>2, <1>7 DEF FileTypes, mem, MergeConfig, ReadFile, SwapFails, CheckImport, TakeDefaults,
        FileFails
<1>8. CASE ReplaceConfig(t)
  <2>1. p \in Config /\ Other(p) \in Config
    BY <1>8 DEF ReplaceConfig, Other, Config
  <2> QED BY <1>1, <1>2, <1>3, <1>8, <2>1 DEF FileTypes, mem, ReplaceConfig
<1>9. CASE RenameOwn(t)
    BY <1>1, <1>2, <1>3, <1>9 DEF FileTypes, mem, RenameOwn
<1>10. CASE Open(t)
    BY <1>1, <1>2, <1>3, <1>10 DEF FileTypes, mem, Open, ThreadFits
<1>11. CASE Write(t)
  <2>1. p \in Profiles
    BY <1>1, <1>11 DEF Write, ThreadFits
  <2>2. \A old : Written(old, api[t].text) \subseteq Texts
    BY <1>1 DEF Written
  <2>3. CASE UNCHANGED disk /\ \E new \in Texts : draft' = [draft EXCEPT ![p] = new]
    BY <1>2, <1>11, <2>1, <2>3 DEF FileTypes, mem, Write
  <2>4. CASE UNCHANGED draft /\ \E new \in Texts : disk' = [disk EXCEPT ![p] = new]
    BY <1>2, <1>3, <1>11, <2>1, <2>4 DEF FileTypes, mem, Write
  <2>5. CASE UNCHANGED <<disk, draft>>
    BY <1>2, <1>11, <2>5 DEF FileTypes, mem, Write
  <2> QED BY <1>11, <2>2, <2>3, <2>4, <2>5 DEF Write
<1>12. CASE OpenFormats(t)
    BY <1>2, <1>3, <1>12 DEF FileTypes, OpenFormats
<1>13. CASE WriteFormats(t)
    BY <1>1, <1>2, <1>3, <1>13 DEF FileTypes, WriteFormats, Written
<1>14. CASE CacheFormats(t)
  <2>1. /\ UNCHANGED <<disk, draft, mtime>> /\ cut' = FALSE
        /\ cached' = [text |-> api[t].text, at |-> mtime]
    BY <1>14 DEF CacheFormats
  <2>2. mtime \in Nat
    BY <1>2 DEF FileTypes
  <2>3. cached' \in [text : Entries, at : Int] /\ cached'.at = mtime
    BY <1>1, <2>1, <2>2
  <2>4. -1 <= mtime /\ mtime <= mtime
    BY <2>2
  <2>5. cut' \in BOOLEAN
    BY <2>1
  <2>6. /\ disk' \in [Place -> Entries \cup {Blank, Torn}]
        /\ \A q \in Place \ (Profiles \cup {"formats"}) : disk'[q] \in Entries
        /\ draft' \in [Profiles -> Entries \cup {Absent, Blank, Torn}]
    BY <1>2, <2>1 DEF FileTypes
  <2> QED BY <2>1, <2>2, <2>3, <2>4, <2>5, <2>6 DEF FileTypes
<1>15. CASE Swap(t)
  <2>1. p \in Profiles /\ draft[p] \in Texts
    BY <1>2, <1>15 DEF FileTypes, Swap
  <2>2. disk' = [disk EXCEPT ![p] = draft[p]] /\ draft' = [draft EXCEPT ![p] = Absent]
        /\ UNCHANGED mem
    BY <1>15 DEF Swap
  <2> QED BY <1>2, <1>3, <2>1, <2>2 DEF FileTypes, mem
<1>16. CASE Clean(t)
    BY <1>1, <1>2, <1>16 DEF FileTypes, mem, Clean, ThreadFits
<1>17. CASE WriteFails(t)
  <2>1. p \in Profiles /\ UNCHANGED mem
    BY <1>1, <1>17 DEF WriteFails, ThreadFits
  <2>2. CASE UNCHANGED disk /\ draft' = [draft EXCEPT ![p] = Torn]
    BY <1>2, <2>1, <2>2 DEF FileTypes, mem
  <2>3. CASE UNCHANGED draft /\ disk' = [disk EXCEPT ![p] = Torn]
    BY <1>2, <1>3, <2>1, <2>3 DEF FileTypes, mem
  <2>4. CASE UNCHANGED <<disk, draft>>
    BY <1>2, <2>1, <2>4 DEF FileTypes, mem
  <2> QED BY <1>17, <2>2, <2>3, <2>4 DEF WriteFails
<1>18. CASE WriteFormatsFails(t)
  <2>1. cut' = TRUE /\ UNCHANGED <<draft, cached>>
    BY <1>18 DEF WriteFormatsFails
  <2>2. CASE UNCHANGED <<disk, mtime>>
    BY <1>2, <2>1, <2>2 DEF FileTypes
  <2>3. CASE disk' = [disk EXCEPT !["formats"] = Torn] /\ mtime' = mtime + 1
    BY <1>2, <1>3, <2>1, <2>3 DEF FileTypes
  <2> QED BY <1>18, <2>2, <2>3 DEF WriteFormatsFails
<1> QED
    BY <1>7, <1>8, <1>9, <1>10, <1>11, <1>12, <1>13, <1>14, <1>15, <1>16, <1>17, <1>18 DEF Api

LEMMA ApiStepTypes ==
    ASSUME Types, NEW t \in Thread, Api(t) PROVE Types'
<1>1. UNCHANGED <<lock, op, pc, tries, seen, answer>>
    BY ApiFrame DEF ui
<1>2. RequestTypes'
    BY <1>1 DEF Types, RequestTypes
<1>3. ASSUME NEW u \in Thread PROVE ThreadFits(u)'
  <2>1. CASE u = t
    BY <2>1, ApiSelf
  <2>2. CASE u # t
    <3>1. api'[u].at = api[u].at
      BY <2>2, ApiFrame
    <3>2. api'[u].file \in {"draft", "disk"} => api[u].file \in {"draft", "disk"}
      BY <2>2, ApiOthers
    <3>3. Of(u)' = Of(u) /\ At(u)' = At(u)
      BY <1>1 DEF Of, At
    <3> QED BY <3>1, <3>2, <3>3 DEF Types, ThreadFits
  <2> QED BY <2>1, <2>2
<1>4. RequestsFit'
  <2>1. \A u \in Thread : api[u].at = "none" => api'[u].at = "none"
    BY ApiFrame DEF Active
  <2>2. \A x \in Request : \A n \in 1 .. MaxTries : <<x, n>> \in Thread
    BY DEF Thread
  <2>3. \A x, n : Unused(x, n)' <=> Unused(x, n)
    BY <1>1 DEF Unused
  <2> QED BY <1>1, <2>1, <2>2, <2>3 DEF Types, RequestsFit
<1> QED BY <1>2, <1>3, <1>4, ApiSelf, ApiKeepsFiles DEF Types

-----------------------------------------------------------------------------
(***************************************************************************)
(* Restarts, and the types                                                 *)
(***************************************************************************)

\* The threads that a restart ends.
LEMMA CrashThread ==
    ASSUME Types, Crash, NEW t \in Thread
    PROVE  /\ Of(t)' = Of(t) /\ At(t)' = At(t)
           /\ api'[t] \in Doing
           /\ \/ api'[t] = api[t] /\ (Active(t) => At(t) = "developer")
              \/ /\ Active(t) /\ api'[t].at = "failed" /\ api'[t].file = "none"
                 /\ api'[t].text = api[t].text
<1>1. api[t] \in Doing
    BY DEF Types
<1>2. CASE api[t].at \in {"none"} \cup Ended \/ At(t) = "developer"
    BY <1>1, <1>2 DEF Crash, Active, Of, At
<1>3. CASE ~(api[t].at \in {"none"} \cup Ended \/ At(t) = "developer")
  <2>1. api'[t] = [api[t] EXCEPT !.at = "failed", !.file = "none"]
    BY <1>3 DEF Crash
  <2> QED BY <1>1, <1>3, <2>1 DEF Crash, Active, Of, At, Doing, StepSet, FileSet
<1> QED BY <1>2, <1>3

LEMMA CrashTypes ==
    ASSUME Types, Crash PROVE Types'
<1>1. UNCHANGED <<disk, draft, mtime, lock, op, tries, seen, late, lapsed, shared, landed>>
    BY DEF Crash
<1>2. FileTypes'
  <2>1. Nothing \in Entries
    BY DEF Nothing, Entries
  <2>2. /\ cached' \in [text : Entries, at : Int]
        /\ -1 <= cached'.at /\ cached'.at <= mtime'
    <3>1. cached' = [text |-> Nothing, at |-> -1]
      BY DEF Crash, Uncached
    <3>2. mtime' \in Nat
      BY <1>1 DEF Types, FileTypes
    <3> QED BY <2>1, <3>1, <3>2
  <2>3. cut' = FALSE
    BY DEF Crash
  <2> QED BY <1>1, <2>2, <2>3 DEF Types, FileTypes
<1>3. RequestTypes'
    BY <1>1 DEF Types, RequestTypes, Crash, PcSet
<1>4. HistoryTypes'
  <2>1. crashes' \in 0 .. MaxCrashes
    <3>1. crashes \in 0 .. MaxCrashes
      BY DEF Types, HistoryTypes
    <3>2. crashes < MaxCrashes /\ crashes' = crashes + 1
      BY DEF Crash
    <3> QED BY <3>1, <3>2, ConfigStoreAssumption
  <2> QED BY <1>1, <2>1 DEF Types, HistoryTypes
<1>5. api' \in [Thread -> Doing]
  <2>1. DOMAIN api' = Thread /\ api' = [t \in Thread |-> api'[t]]
    BY DEF Crash
  <2> QED BY <2>1, CrashThread
<1>6. ASSUME NEW t \in Thread PROVE ThreadFits(t)'
    BY CrashThread DEF Types, ThreadFits, Active, Ended
<1>7. RequestsFit'
  <2>1. \A x \in Request : \A n \in 1 .. MaxTries :
            api[<<x, n>>].at = "none" => api'[<<x, n>>].at = "none"
    BY CrashThread DEF Thread, Active
  <2>2. \A x \in Request : \A n : Unused(x, n)' => Unused(x, n)
    BY <1>1 DEF Unused, Crash
  <2>3. \A x \in Request : /\ pc'[x] = pc[x] \/ (pc[x] = "load" /\ pc'[x] = "answered")
                           /\ answer'[x] # "none" => pc'[x] = "answered"
    BY DEF Types, RequestTypes, RequestsFit, Crash
  <2> QED BY <1>1, <2>1, <2>2, <2>3 DEF Types, RequestsFit
<1> QED BY <1>2, <1>3, <1>4, <1>5, <1>6, <1>7 DEF Types

LEMMA InitTypes == Init => Types
<1> SUFFICES ASSUME Init PROVE Types
    OBVIOUS
<1>1. Nothing \in Entries
    BY DEF Nothing, Entries
<1>2. FileTypes
  <2>1. /\ disk \in [Place -> Entries \cup {Blank, Torn}]
        /\ \A p \in Place : disk[p] \in Entries
        /\ draft \in [Profiles -> Entries \cup {Absent, Blank, Torn}]
    BY ConfigStoreAssumption DEF Init
  <2>2. mtime = 0 /\ cached = [text |-> Nothing, at |-> -1] /\ cut = FALSE
    BY DEF Init, Uncached
  <2>3. cached \in [text : Entries, at : Int] /\ -1 <= cached.at /\ cached.at <= mtime
    BY <1>1, <2>2
  <2>4. cut \in BOOLEAN
    BY <2>2
  <2> QED BY <2>1, <2>2, <2>3, <2>4 DEF FileTypes
<1>3. RequestTypes
    BY <1>1, ConfigStoreAssumption DEF Init, RequestTypes, PcSet
<1>4. HistoryTypes
  <2>1. crashes \in 0 .. MaxCrashes
    BY ConfigStoreAssumption DEF Init
  <2>2. late = FALSE /\ shared = {} /\ landed = {} /\ lapsed = {}
    BY DEF Init
  <2> QED BY <2>1, <2>2 DEF HistoryTypes
<1>5. api \in [Thread -> Doing]
    BY <1>1 DEF Init, Idle, Doing, StepSet, FileSet
<1>6. ASSUME NEW t \in Thread PROVE ThreadFits(t)
    BY DEF Init, Idle, ThreadFits
<1>7. RequestsFit
  <2>1. \A x \in Request : \A n \in 1 .. MaxTries : <<x, n>> \in Thread
    BY DEF Thread
  <2> QED BY <2>1 DEF Init, Idle, RequestsFit
<1> QED BY <1>2, <1>3, <1>4, <1>5, <1>6, <1>7 DEF Types

\* The end of a lock changes the lock, and what is remembered of it.
LEMMA LapseFrame ==
    ASSUME Types, NEW k \in Key, LockLapses(k)
    PROVE  /\ UNCHANGED <<disk, draft, mtime, cached, cut, op, pc, tries, seen, answer, api>>
           /\ UNCHANGED <<shared, landed, late, crashes>>
           /\ lapsed \subseteq lapsed'
           /\ \A t : Of(t)' = Of(t) /\ At(t)' = At(t)
BY DEF LockLapses, mem, Of, At

LEMMA LapseTypes ==
    ASSUME Types, NEW k \in Key, LockLapses(k) PROVE Types'
<1>1. /\ UNCHANGED <<disk, draft, mtime, cached, cut, op, pc, tries, seen, answer, api>>
      /\ UNCHANGED <<shared, landed, late, crashes>>
      /\ \A t : Of(t)' = Of(t) /\ At(t)' = At(t)
    BY LapseFrame
<1>2. FileTypes' /\ RequestTypes'
    BY <1>1 DEF Types, FileTypes, RequestTypes, LockLapses
<1>3. HistoryTypes'
    BY <1>1 DEF Types, HistoryTypes, LockLapses
<1>4. RequestsFit'
    BY <1>1 DEF Types, RequestsFit, Unused
<1>5. \A t \in Thread : ThreadFits(t)'
    BY <1>1 DEF Types, ThreadFits
<1> QED BY <1>1, <1>2, <1>3, <1>4, <1>5 DEF Types

LEMMA NextTypes == Types /\ [Next]_vars => Types'
<1> SUFFICES ASSUME Types, [Next]_vars PROVE Types'
    OBVIOUS
<1>1. CASE UNCHANGED vars
  <2>1. /\ FileTypes' /\ RequestTypes' /\ HistoryTypes'
        /\ api' \in [Thread -> Doing]
    BY <1>1 DEF Types, FileTypes, RequestTypes, HistoryTypes, vars, ui, mem
  <2>2. RequestsFit'
    BY <1>1 DEF Types, RequestsFit, Unused, vars, ui
  <2>3. \A t \in Thread : ThreadFits(t)'
    BY <1>1 DEF Types, ThreadFits, Of, At, vars, ui
  <2> QED BY <2>1, <2>2, <2>3 DEF Types
<1> QED BY <1>1, NextCases, RequestStepTypes, ApiStepTypes, LapseTypes, CrashTypes

-----------------------------------------------------------------------------
(***************************************************************************)
(* Files of profiles are whole                                             *)
(***************************************************************************)

\* What holds of one place, and what is left to show of a step.
PlaceWhole(p) ==
    /\ disk[p] \in Entries
    /\ \A t \in Thread : Drafts(p, t) =>
          /\ \A u \in Thread : Drafts(p, u) => u = t
          /\ api[t].at = "write" => api[t].file = "draft" /\ draft[p] = Blank
          /\ api[t].at = "swap" => draft[p] = api[t].text

LEMMA WholeByPlace ==
    ProfilesWhole <=> \A p \in Profiles \ shared : PlaceWhole(p)
BY DEF ProfilesWhole, PlaceWhole

\* Steps after which the place has no thread that it had not before.
LEMMA NoNewDraft ==
    ASSUME NEW p, PlaceWhole(p), disk'[p] = disk[p], UNCHANGED draft,
           \A t \in Thread : Drafts(p, t)' =>
               /\ Drafts(p, t) /\ api'[t].at = api[t].at /\ api'[t].file = api[t].file
               /\ api'[t].text = api[t].text
    PROVE  PlaceWhole(p)'
BY DEF PlaceWhole

LEMMA RequestKeepsPlace ==
    ASSUME Types, NEW r \in Request, RequestStep(r), NEW p \in Profiles, PlaceWhole(p)
    PROVE  PlaceWhole(p)'
<1>1. UNCHANGED <<disk, draft>>
    BY RequestFrame
<1>2. ASSUME NEW t \in Thread, api'[t].at \in {"write", "swap", "clean"}
      PROVE  api'[t] = api[t] /\ Of(t)' = Of(t) /\ At(t)' = At(t) /\ Of(t) # NoOp
    BY <1>2, RequestThread DEF Of
<1>3. \A t \in Thread : Drafts(p, t)' =>
               /\ Drafts(p, t) /\ api'[t].at = api[t].at /\ api'[t].file = api[t].file
               /\ api'[t].text = api[t].text
    BY <1>2 DEF Drafts
<1> QED BY <1>1, <1>3, NoNewDraft

LEMMA LapseKeepsPlace ==
    ASSUME Types, NEW k \in Key, LockLapses(k), NEW p \in Profiles, PlaceWhole(p)
    PROVE  PlaceWhole(p)'
<1>1. UNCHANGED <<disk, draft, api>> /\ \A t : Of(t)' = Of(t) /\ At(t)' = At(t)
    BY LapseFrame
<1> QED BY <1>1, NoNewDraft DEF Drafts

LEMMA CrashKeepsPlace ==
    ASSUME Types, Crash, NEW p \in Profiles, PlaceWhole(p)
    PROVE  PlaceWhole(p)'
<1>1. UNCHANGED <<disk, draft>>
    BY DEF Crash
<1>2. ASSUME NEW t \in Thread, api'[t].at \in {"write", "swap", "clean"}
      PROVE  api'[t] = api[t] /\ Of(t)' = Of(t) /\ At(t)' = At(t)
    BY <1>2, CrashThread
<1>3. \A t \in Thread : Drafts(p, t)' =>
               /\ Drafts(p, t) /\ api'[t].at = api[t].at /\ api'[t].file = api[t].file
               /\ api'[t].text = api[t].text
    BY <1>2 DEF Drafts
<1> QED BY <1>1, <1>3, NoNewDraft

LEMMA ApiKeepsPlace ==
    ASSUME Types, NEW t \in Thread, Api(t), NEW p \in Profiles, p \notin shared',
           PlaceWhole(p)
    PROVE  PlaceWhole(p)'
<1> USE DEF Goes
<1>1. /\ api \in [Thread -> Doing] /\ api[t] \in Doing /\ ThreadFits(t) /\ OpFits(Of(t))
      /\ FileTypes /\ p \in Place /\ p \notin Config \cup {"formats"} /\ Of(t) # NoOp
    BY ApiFrame, ConfigStoreAssumption DEF Types, FileTypes, Place, Profiles, Config
<1>2. \A u \in Thread : Of(u)' = Of(u) /\ At(u)' = At(u)
    BY ApiFrame DEF ui, Of, At
<1>3. \A u \in Thread \ {t} : api'[u].at = api[u].at /\ api'[u].text = api[u].text
    BY ApiFrame
<1>4. \A u \in Thread \ {t} : Drafts(p, u)' <=> Drafts(p, u)
    BY <1>2, <1>3 DEF Drafts
<1>6. CASE At(t) # p
  <2>1. \A u \in Thread \ {t} : Drafts(p, u) => api'[u].file = api[u].file
    BY <1>6, ApiOthers DEF Drafts
  <2>2. ~Drafts(p, t)'
    BY <1>2, <1>6 DEF Drafts
  <2>3. disk'[p] = disk[p] /\ (draft'[p] = draft[p])
    <3>1. CASE ReplaceConfig(t)
      <4>1. p # At(t) /\ p # Other(At(t))
        BY <1>1, <3>1 DEF ReplaceConfig, Other, Config
      <4> QED BY <1>1, <3>1, <4>1 DEF ReplaceConfig, FileTypes
    <3>2. CASE ~ReplaceConfig(t)
      BY <1>1, <1>6, <3>2 DEF FileTypes, Api, MergeConfig, ReadFile, RenameOwn, Open,
        Write, Swap, SwapFails, Clean, CheckImport, TakeDefaults, OpenFormats, WriteFormats,
        CacheFormats, WriteFormatsFails, FileFails, WriteFails
    <3> QED BY <3>1, <3>2
  <2> QED BY <1>2, <1>3, <1>4, <2>1, <2>2, <2>3 DEF PlaceWhole
<1>7. CASE At(t) = p
  <2>1. \A u \in Thread : Drafts(p, u) /\ Drafts(p, t) => u = t
    BY DEF PlaceWhole
  <2>2. CASE ReadFile(t)
    <3>1. /\ UNCHANGED <<disk, draft>> /\ api'[t].at \notin {"write", "swap", "clean"}
          /\ \A u \in Thread \ {t} : api'[u].file = api[u].file
      BY <1>1, <2>2 DEF ReadFile, Doing
    <3> QED BY <1>2, <1>3, <1>4, <3>1 DEF PlaceWhole, Drafts
  <2>3. CASE RenameOwn(t)
    <3>1. /\ disk' = [disk EXCEPT ![p] = api[t].text] /\ draft' = draft
          /\ api'[t].at = "done"
      BY <1>1, <1>7, <2>3 DEF RenameOwn, Doing
    <3>2. \A u \in Thread \ {t} : Drafts(p, u) /\ api[u].at = "write" =>
              api'[u].file = api[u].file
      <4>1. \A u \in Thread \ {t} : Drafts(p, u) /\ api[u].at = "write" => api[u].file = "draft"
        BY DEF PlaceWhole
      <4> QED BY <2>3, <4>1, ApiOthers DEF RenameOwn, Swap, Clean
    <3>3. disk'[p] \in Entries
      BY <1>1, <3>1 DEF FileTypes, Doing
    <3> QED BY <1>2, <1>3, <1>4, <3>1, <3>2, <3>3 DEF PlaceWhole, Drafts
  <2>4. CASE Open(t)
    <3>1. \A u \in Thread \ {t} : Of(u) # NoOp /\ At(u) = p =>
              api[u].file # "draft" /\ api[u].at \notin {"swap", "clean"}
      BY <1>7, <2>4 DEF Open, Joined, Others
    <3>2. \A u \in Thread \ {t} : ~Drafts(p, u)
      BY <3>1 DEF PlaceWhole, Drafts
    <3>3. /\ UNCHANGED disk /\ draft'[p] = Blank
          /\ api'[t].at = "write" /\ api'[t].file = "draft"
      BY <1>1, <1>7, <2>4 DEF Open, FileTypes, Doing
    <3> QED BY <1>2, <1>4, <3>2, <3>3 DEF PlaceWhole, Drafts
  <2>5. CASE Write(t)
    <3>1. Drafts(p, t) /\ api[t].file = "draft" /\ draft[p] = Blank
      BY <1>1, <1>7, <2>5 DEF PlaceWhole, Drafts, Write
    <3>2. /\ UNCHANGED disk /\ draft'[p] = api[t].text
          /\ api'[t].at = "swap" /\ api'[t].text = api[t].text
      BY <1>1, <1>7, <2>5, <3>1 DEF Write, Written, FileTypes, Doing
    <3> QED BY <1>2, <1>4, <2>1, <3>1, <3>2 DEF PlaceWhole, Drafts
  <2>6. CASE Swap(t)
    <3>1. Drafts(p, t) /\ draft[p] = api[t].text
      BY <1>1, <1>7, <2>6 DEF PlaceWhole, Drafts, Swap
    <3>2. disk'[p] = api[t].text /\ api'[t].at = "done"
      BY <1>1, <1>7, <2>6, <3>1 DEF Swap, FileTypes, Renamed, Doing
    <3>3. \A u \in Thread \ {t} : ~Drafts(p, u)
      BY <2>1, <3>1
    <3> QED BY <1>1, <1>2, <1>4, <3>2, <3>3 DEF PlaceWhole, Drafts, Doing
  <2>7. CASE SwapFails(t)
    <3>1. Drafts(p, t) /\ draft[p] = api[t].text /\ draft[p] = Absent
      BY <1>1, <1>7, <2>7 DEF PlaceWhole, Drafts, SwapFails
    <3> QED BY <1>1, <3>1, ConfigStoreAssumption DEF Doing
  <2>10. CASE Clean(t) \/ WriteFails(t) \/ (FileFails(t) /\ api[t].at \in {"swap", "clean"})
    <3>1. Drafts(p, t)
      BY <1>1, <1>7, <2>10 DEF Drafts, Clean, WriteFails, FileFails
    <3>2. \A u \in Thread \ {t} : ~Drafts(p, u)
      BY <2>1, <3>1
    <3>3. api[t].at = "write" => api[t].file = "draft"
      BY <3>1 DEF PlaceWhole
    <3>4. disk'[p] = disk[p]
      BY <1>7, <2>10, <3>3 DEF Clean, WriteFails, FileFails
    <3>5. api'[t].at \notin {"write", "swap"}
      BY <1>1, <2>10 DEF Clean, WriteFails, FileFails, AfterFailure, Doing
    <3> QED BY <1>2, <1>4, <3>2, <3>4, <3>5 DEF PlaceWhole, Drafts
  <2>11. CASE FileFails(t) /\ api[t].at \notin {"swap", "clean"}
    <3>1. /\ UNCHANGED <<disk, draft>>
          /\ api'[t].at = AfterFailure(t) /\ AfterFailure(t) \in {"clean", "failed"}
          /\ api[t].at \in {"read", "rename", "open"}
      BY <1>1, <2>11 DEF FileFails, AfterFailure, Doing
    <3>2. \A u \in Thread \ {t} : api'[u].file = api[u].file
      BY <1>1, <2>11 DEF FileFails
    <3>3. CASE AfterFailure(t) = "failed"
      BY <1>2, <1>3, <1>4, <3>1, <3>2, <3>3 DEF PlaceWhole, Drafts
    <3>4. CASE AfterFailure(t) = "clean"
      <4>1. api[t].at = "open"
        BY <1>1, <1>7, <3>1, <3>4 DEF AfterFailure, ThreadFits, OpFits, At, Config, Profiles
      <4>2. \A u \in Thread \ {t} : Of(u) # NoOp /\ At(u) = p =>
                api[u].file # "draft" /\ api[u].at \notin {"swap", "clean"}
        BY <1>7, <2>11, <3>4, <4>1 DEF FileFails, Joined, Others
      <4>3. \A u \in Thread \ {t} : ~Drafts(p, u)
        BY <4>2 DEF PlaceWhole, Drafts
      <4> QED BY <1>2, <1>4, <3>1, <3>4, <4>3 DEF PlaceWhole, Drafts
    <3> QED BY <3>1, <3>3, <3>4
  <2>8. CASE MergeConfig(t) \/ ReplaceConfig(t)
    BY <1>1, <1>7, <2>8 DEF MergeConfig, ReplaceConfig
  <2>9. CASE \/ CheckImport(t) \/ TakeDefaults(t) \/ OpenFormats(t) \/ WriteFormats(t)
             \/ CacheFormats(t) \/ WriteFormatsFails(t)
    BY <1>1, <1>7, <2>9 DEF CheckImport, TakeDefaults, OpenFormats, WriteFormats,
        CacheFormats, WriteFormatsFails, ThreadFits, OpFits, At
  <2> QED BY <2>2, <2>3, <2>4, <2>5, <2>6, <2>7, <2>8, <2>9, <2>10, <2>11 DEF Api
<1> QED BY <1>6, <1>7

-----------------------------------------------------------------------------
(***************************************************************************)
(* The formats in memory are those of the file                             *)
(***************************************************************************)

FormatsHeld ==
    /\ \A t \in Thread : Saves(t) =>
          /\ \A u \in Thread : Saves(u) => u = t
          /\ api[t].at = "write" => disk["formats"] = Blank
          /\ api[t].at = "cache" => disk["formats"] = api[t].text
    /\ ~cut /\ (\A t \in Thread : ~Saves(t)) =>
          /\ cached.at < mtime \/ cached.text = Read("formats")
          /\ \A r \in Request : pc[r] = "load" => seen[r] = Read("formats")

LEMMA ProceedsLoads ==
    ASSUME RequestTypes, NEW r \in Request, NEW s, Proceeds(r, s)
    PROVE  pc'[r] # "load"
BY DEF Proceeds, PageIsDone, SeesNoEntry, Posts, Answers, RequestTypes

\* What is loaded is what the file holds.
LEMMA RequestLoads ==
    ASSUME Types, NEW r \in Request, RequestStep(r), NEW x \in Request, pc'[x] = "load"
    PROVE  \/ pc[x] = "load" /\ seen'[x] = seen[x]
           \/ seen'[x] = Read("formats")
<1>1. CASE x # r
    BY <1>1, RequestOthers
<1>2. CASE x = r
  <2>1. CASE FetchFormats(r)
    BY <1>2, <2>1, ProceedsLoads DEF FetchFormats, Types, RequestTypes
  <2>2. CASE \E o \in Asked : Asks(r, o)
    BY <1>2, <2>2 DEF Asks, AskApi, AskLocked, AskList, Ask, Types, RequestTypes
  <2>3. CASE Refuse(r) \/ GiveUp(r) \/ LockIsTaken(r) \/ Hears(r) \/ TakeLock(r) \/ Peek(r)
    BY <1>2, <2>3 DEF Refuse, GiveUp, LockIsTaken, Hears, TakeLock, Peek, Fails, Answers,
        Types, RequestTypes
  <2>4. CASE FetchFails(r) \/ Fetch(r) \/ StampFormats(r) \/ LoadFails(r)
    BY <1>2, <2>4, ProceedsLoads DEF FetchFails, Fetch, StampFormats, LoadFails, Fails, Answers,
        Types, RequestTypes
  <2> QED BY <2>1, <2>2, <2>3, <2>4 DEF RequestStep
<1> QED BY <1>1, <1>2

\* What is in memory stays, becomes what was loaded, or what it was before a
\* reading that failed.
LEMMA RequestCaches ==
    ASSUME Types, LoadsAlone, NEW r \in Request, RequestStep(r)
    PROVE  \/ UNCHANGED cached
           \/ pc[r] = "load" /\ cached'.text = seen[r]
           \/ cached'.at = cached.at /\ cached.at < mtime
<1>1. CASE StampFormats(r)
    BY <1>1 DEF StampFormats
<1>2. CASE LoadFails(r)
    BY <1>2 DEF LoadFails, LoadsAlone
<1>3. CASE FetchFormats(r)
  <2>1. mtime \in Nat /\ cached \in [text : Entries, at : Int]
    BY DEF Types, FileTypes
  <2>2. cached' = cached \/ (cached' = [cached EXCEPT !.text = Nothing] /\ ~(mtime <= cached.at))
    BY <1>3 DEF FetchFormats
  <2>3. cached' = [cached EXCEPT !.text = Nothing] => cached'.at = cached.at
    BY <2>1
  <2> QED BY <2>1, <2>2, <2>3
<1>4. CASE ~StampFormats(r) /\ ~LoadFails(r) /\ ~FetchFormats(r)
    BY <1>4 DEF RequestStep, Asks, AskApi, AskLocked, AskList, Ask, Refuse, GiveUp, Peek,
        TakeLock, LockIsTaken, Hears, FetchFails, Fetch, mem
<1> QED BY <1>1, <1>2, <1>3, <1>4

\* A request that loads is the only one, and the formats in memory wait for it.
LEMMA RequestKeepsLoads ==
    ASSUME Types, LoadsAlone, NEW r \in Request, RequestStep(r) PROVE LoadsAlone'
<1> SUFFICES ASSUME NEW x \in Request, pc'[x] = "load"
             PROVE  cached'.at < mtime' /\ \A y \in Request : pc'[y] = "load" => y = x
    BY DEF LoadsAlone
<1>1. UNCHANGED mtime /\ mtime \in Nat /\ cached.at \in Int
    BY RequestFrame DEF Types, FileTypes
<1>2. \A y \in Request \ {r} : pc'[y] = pc[y]
    BY RequestOthers
<1>3. pc'[r] = "load" => FetchFormats(r) /\ ~Loading
  <2>1. CASE FetchFormats(r)
    BY <2>1 DEF FetchFormats
  <2>2. CASE \E o \in Asked : Asks(r, o)
    BY <2>2 DEF Asks, AskApi, AskLocked, AskList, Ask, Types, RequestTypes
  <2>3. CASE Refuse(r) \/ GiveUp(r) \/ LockIsTaken(r) \/ Hears(r) \/ TakeLock(r) \/ Peek(r)
    BY <2>3 DEF Refuse, GiveUp, LockIsTaken, Hears, TakeLock, Peek, Fails, Answers,
        Types, RequestTypes
  <2>4. CASE FetchFails(r) \/ Fetch(r) \/ StampFormats(r) \/ LoadFails(r)
    BY <2>4, ProceedsLoads DEF FetchFails, Fetch, StampFormats, LoadFails, Fails, Answers,
        Types, RequestTypes
  <2> QED BY <2>1, <2>2, <2>3, <2>4 DEF RequestStep
<1>4. CASE x = r
  <2>1. \A y \in Request \ {r} : pc'[y] # "load"
    BY <1>2, <1>3, <1>4 DEF Loading
  <2>2. mtime > cached.at /\ cached'.at = cached.at
    BY <1>1, <1>3, <1>4, ProceedsLoads DEF FetchFormats, Types
  <2> QED BY <1>1, <1>4, <2>1, <2>2
<1>5. CASE x # r
  <2>1. pc[x] = "load"
    BY <1>2, <1>5
  <2>2. pc'[r] # "load" /\ pc[r] # "load"
    BY <1>3, <1>5, <2>1 DEF Loading, LoadsAlone
  <2>3. UNCHANGED cached
    BY <2>1, <2>2 DEF RequestStep, Asks, AskApi, AskLocked, AskList, Ask, Refuse, GiveUp, Peek,
        TakeLock, LockIsTaken, Hears, FetchFails, Fetch, FetchFormats, StampFormats, LoadFails,
        Loading, mem
  <2> QED BY <1>1, <1>2, <1>5, <2>1, <2>2, <2>3 DEF LoadsAlone
<1> QED BY <1>4, <1>5

LEMMA NextLoadsAlone ==
    Types /\ LoadsAlone /\ [Next]_vars => LoadsAlone'
<1> SUFFICES ASSUME Types, LoadsAlone, [Next]_vars PROVE LoadsAlone'
    OBVIOUS
<1>1. ASSUME NEW t \in Thread, Api(t) PROVE LoadsAlone'
  <2>1. UNCHANGED pc /\ mtime \in Nat /\ cached.at \in Int
    BY <1>1, ApiFrame DEF ui, Types, FileTypes
  <2>2. CASE CacheFormats(t)
    BY <2>1, <2>2 DEF CacheFormats, Loading, LoadsAlone
  <2>3. CASE ~CacheFormats(t)
    <3>1. UNCHANGED cached /\ (mtime' = mtime \/ mtime' = mtime + 1)
      BY <1>1, <2>3 DEF Api, MergeConfig, ReplaceConfig, ReadFile, RenameOwn, Open, Write, Swap,
          SwapFails, Clean, CheckImport, TakeDefaults, OpenFormats, WriteFormats,
          WriteFormatsFails, FileFails, WriteFails, mem
    <3>2. cached.at < mtime => cached'.at < mtime'
      BY <2>1, <3>1
    <3> QED BY <2>1, <3>2 DEF LoadsAlone
  <2> QED BY <2>2, <2>3
<1>2. ASSUME NEW k \in Key, LockLapses(k) PROVE LoadsAlone'
    BY <1>2, LapseFrame DEF LoadsAlone
<1>3. CASE Crash
    BY <1>3 DEF Crash, LoadsAlone
<1>4. CASE UNCHANGED vars
    BY <1>4 DEF vars, ui, mem, LoadsAlone
<1> QED BY <1>1, <1>2, <1>3, <1>4, RequestKeepsLoads, NextCases

LEMMA RequestKeepsFormats ==
    ASSUME Types, LoadsAlone, NEW r \in Request, RequestStep(r), FormatsHeld
    PROVE  FormatsHeld'
<1>1. UNCHANGED <<disk, mtime, cut>>
    BY RequestFrame
<1>2. ASSUME NEW t \in Thread, api'[t].at \in {"write", "cache"} \/ api[t].at \in {"write", "cache"}
      PROVE  api'[t] = api[t] /\ Of(t)' = Of(t) /\ At(t)' = At(t) /\ Of(t) # NoOp
    BY <1>2, RequestThread DEF Of
<1>3. \A t \in Thread : /\ Saves(t)' <=> Saves(t)
                        /\ Saves(t) => api'[t] = api[t]
    BY <1>2 DEF Saves
<1>4. Read("formats")' = Read("formats")
    BY <1>1 DEF Read
<1>5. ~cut /\ (\A t \in Thread : ~Saves(t)') =>
          /\ cached'.at < mtime \/ cached'.text = Read("formats")
          /\ \A x \in Request : pc'[x] = "load" => seen'[x] = Read("formats")
    BY <1>3, <1>4, RequestLoads, RequestCaches DEF FormatsHeld
<1> QED BY <1>1, <1>3, <1>4, <1>5 DEF FormatsHeld

LEMMA LapseKeepsFormats ==
    ASSUME Types, NEW k \in Key, LockLapses(k), FormatsHeld
    PROVE  FormatsHeld'
<1>1. /\ UNCHANGED <<disk, mtime, cached, cut, pc, seen, api>>
      /\ \A t : Of(t)' = Of(t) /\ At(t)' = At(t)
    BY LapseFrame
<1>2. Read("formats")' = Read("formats") /\ \A t : Saves(t)' <=> Saves(t)
    BY <1>1 DEF Read, Saves
<1> QED BY <1>1, <1>2 DEF FormatsHeld

LEMMA CrashKeepsFormats ==
    ASSUME Types, Crash, FormatsHeld
    PROVE  FormatsHeld'
<1>1. \A t \in Thread : ~Saves(t)'
    BY CrashThread DEF Saves, Active, Ended
<1>2. cached'.at < mtime'
  <2>1. cached'.at = -1 /\ mtime' = mtime /\ mtime \in Nat
    BY DEF Crash, Uncached, Types, FileTypes
  <2> QED BY <2>1
<1>3. \A r \in Request : pc'[r] # "load"
    BY DEF Crash, Types, RequestTypes
<1> QED BY <1>1, <1>2, <1>3 DEF FormatsHeld, Crash

LEMMA ApiKeepsFormats ==
    ASSUME Types, NEW t \in Thread, Api(t), "formats" \notin shared', FormatsHeld
    PROVE  FormatsHeld'
<1> USE DEF Goes
<1>1. /\ api \in [Thread -> Doing] /\ api[t] \in Doing /\ ThreadFits(t) /\ OpFits(Of(t))
      /\ FileTypes /\ "formats" \in Place /\ "formats" \notin Config \cup Profiles
      /\ Of(t) # NoOp
    BY ApiFrame, ConfigStoreAssumption DEF Types, FileTypes, Place, Profiles, Config
<1>2. UNCHANGED <<pc, seen>> /\ \A u \in Thread : Of(u)' = Of(u) /\ At(u)' = At(u)
    BY ApiFrame DEF ui, Of, At
<1>3. \A u \in Thread \ {t} : api'[u].at = api[u].at /\ api'[u].text = api[u].text
    BY ApiFrame
<1>4. \A u \in Thread \ {t} : Saves(u)' <=> Saves(u)
    BY <1>2, <1>3 DEF Saves
<1>5. \A u \in Thread : Saves(u) /\ Saves(t) => u = t
    BY DEF FormatsHeld
<1>6. CASE At(t) # "formats" \/ CheckImport(t) \/ TakeDefaults(t)
  <2>1. ~Saves(t)' /\ ~Saves(t)
    <3>1. CASE At(t) # "formats"
      BY <1>2, <3>1 DEF Saves
    <3>2. CASE CheckImport(t) \/ TakeDefaults(t)
      BY <1>1, <3>2 DEF Saves, CheckImport, TakeDefaults, Doing
    <3> QED BY <1>6, <3>1, <3>2
  <2>2. disk'["formats"] = disk["formats"] /\ UNCHANGED <<mtime, cached, cut>>
    <3>1. CASE ReplaceConfig(t)
      BY <1>1, <3>1 DEF ReplaceConfig, Other, Config, FileTypes, mem
    <3>2. CASE ~ReplaceConfig(t)
      BY <1>1, <1>6, <3>2 DEF FileTypes, Api, MergeConfig, ReadFile, RenameOwn, Open,
        Write, Swap, SwapFails, Clean, CheckImport, TakeDefaults, OpenFormats, WriteFormats,
        CacheFormats, WriteFormatsFails, FileFails, WriteFails, ThreadFits, mem
    <3> QED BY <3>1, <3>2
  <2>3. Read("formats")' = Read("formats")
    BY <2>2 DEF Read
  <2> QED BY <1>2, <1>3, <1>4, <2>1, <2>2, <2>3 DEF FormatsHeld
<1>7. CASE OpenFormats(t)
  <2>1. \A u \in Thread \ {t} : ~Saves(u)
    BY <1>7 DEF OpenFormats, Others, Saves
  <2>2. disk'["formats"] = Blank /\ api'[t].at = "write" /\ Saves(t)'
    BY <1>1, <1>2, <1>7 DEF OpenFormats, FileTypes, Doing, Saves
  <2> QED BY <1>4, <2>1, <2>2, ConfigStoreAssumption DEF FormatsHeld
<1>8. CASE WriteFormats(t)
  <2>1. Saves(t) /\ disk["formats"] = Blank
    BY <1>1, <1>8 DEF WriteFormats, Saves, FormatsHeld
  <2>2. /\ disk'["formats"] = api[t].text /\ api'[t].at = "cache" /\ Saves(t)'
        /\ api'[t].text = api[t].text
    BY <1>1, <1>2, <1>8, <2>1 DEF WriteFormats, Written, FileTypes, Doing, Saves
  <2>3. api[t].text # Torn
    BY <1>1, ConfigStoreAssumption DEF Doing
  <2> QED BY <1>4, <1>5, <2>1, <2>2, <2>3 DEF FormatsHeld
<1>9. CASE CacheFormats(t)
  <2>1. Saves(t) /\ disk["formats"] = api[t].text
    BY <1>1, <1>9 DEF CacheFormats, Saves, FormatsHeld, ThreadFits
  <2>2. /\ UNCHANGED disk /\ cached'.text = api[t].text /\ ~Saves(t)'
    BY <1>1, <1>9 DEF CacheFormats, Doing, Saves
  <2>3. Read("formats")' = api[t].text
    BY <1>1, <2>1, <2>2, ConfigStoreAssumption DEF Read, Doing
  <2>4. \A r \in Request : pc'[r] # "load"
    BY <1>2, <1>9 DEF CacheFormats, Loading
  <2> QED BY <1>4, <1>5, <2>1, <2>2, <2>3, <2>4 DEF FormatsHeld
<1>10. CASE WriteFormatsFails(t)
  <2>1. cut' = TRUE /\ Saves(t) /\ ~Saves(t)'
    BY <1>1, <1>10 DEF WriteFormatsFails, Saves, Doing
  <2>2. \A u \in Thread : ~Saves(u)'
    BY <1>4, <1>5, <2>1
  <2> QED BY <2>1, <2>2 DEF FormatsHeld
<1>11. CASE FileFails(t) /\ At(t) = "formats"
  <2>1. /\ UNCHANGED <<disk, mtime, cached, cut>> /\ ~Saves(t) /\ ~Saves(t)'
    BY <1>1, <1>11 DEF FileFails, AfterFailure, mem, Saves, Doing
  <2>2. Read("formats")' = Read("formats")
    BY <2>1 DEF Read
  <2> QED BY <1>2, <1>3, <1>4, <2>1, <2>2 DEF FormatsHeld
<1>12. \/ At(t) # "formats" \/ CheckImport(t) \/ TakeDefaults(t) \/ OpenFormats(t)
       \/ WriteFormats(t) \/ CacheFormats(t) \/ WriteFormatsFails(t) \/ FileFails(t)
    BY <1>1 DEF Api, MergeConfig, ReplaceConfig, ReadFile, RenameOwn, Open, Write, Swap, SwapFails,
        Clean, WriteFails, ThreadFits
<1> QED BY <1>6, <1>7, <1>8, <1>9, <1>10, <1>11, <1>12

-----------------------------------------------------------------------------
(***************************************************************************)
(* What is reported has been written                                       *)
(***************************************************************************)

LEMMA SharedAndLandedGrow ==
    ASSUME Types, [Next]_vars PROVE shared \subseteq shared' /\ landed \subseteq landed'
<1>1. ASSUME NEW t \in Thread, Api(t) PROVE shared \subseteq shared' /\ landed \subseteq landed'
    BY <1>1 DEF Api, MergeConfig, ReplaceConfig, ReadFile, RenameOwn, Open, Write, Swap,
        SwapFails, Clean, CheckImport, TakeDefaults, OpenFormats, WriteFormats, CacheFormats,
        WriteFormatsFails, FileFails, WriteFails, Joined
<1>2. ASSUME NEW r \in Request, RequestStep(r) PROVE UNCHANGED <<shared, landed>>
    BY <1>2, RequestFrame
<1>3. Crash \/ (\E k \in Key : LockLapses(k)) \/ UNCHANGED vars => UNCHANGED <<shared, landed>>
    BY LapseFrame DEF Crash, vars
<1> QED BY <1>1, <1>2, <1>3, NextCases

LEMMA NextLanded ==
    Types /\ ProfilesWhole /\ DoneHasLanded /\ [Next]_vars => DoneHasLanded'
<1> SUFFICES ASSUME Types, ProfilesWhole, DoneHasLanded, [Next]_vars
             PROVE  DoneHasLanded'
    OBVIOUS
<1>1. shared \subseteq shared' /\ landed \subseteq landed'
    BY SharedAndLandedGrow
<1>2. ASSUME NEW u \in Thread, api'[u].at \in {"done", "cache"}, api'[u].at = api[u].at,
             At(u)' = At(u)
      PROVE  /\ api'[u].at = "done" /\ At(u)' \notin shared' => u[1] \in landed'
             /\ api'[u].at = "cache" => u[1] \in landed'
    BY <1>1, <1>2 DEF DoneHasLanded
<1>3. ASSUME NEW t \in Thread, Api(t) PROVE DoneHasLanded'
  <2> USE DEF Goes
  <2>1. api \in [Thread -> Doing] /\ api[t] \in Doing
    BY DEF Types
  <2>2. \A u \in Thread : At(u)' = At(u)
    BY <1>3, ApiFrame DEF ui, Of, At
  <2>3. \A u \in Thread \ {t} : api'[u].at = api[u].at
    BY <1>3, ApiFrame
  <2>4. CASE ReplaceConfig(t) \/ RenameOwn(t) \/ WriteFormats(t)
    <3>1. t[1] \in landed'
      BY <2>4 DEF ReplaceConfig, RenameOwn, WriteFormats
    <3> QED BY <1>2, <2>2, <2>3, <3>1 DEF DoneHasLanded
  <2>5. CASE CacheFormats(t)
    <3>1. t[1] \in landed'
      BY <1>1, <2>5 DEF CacheFormats, DoneHasLanded
    <3> QED BY <1>2, <2>2, <2>3, <3>1 DEF DoneHasLanded
  <2>6. CASE Swap(t)
    <3>1. api'[t].at = "done"
      <4>1. api'[t] = [api[t] EXCEPT !.at = "done"]
        BY <2>1, <2>6 DEF Swap, Renamed
      <4> QED BY <2>1, <4>1 DEF Doing
    <3>2. ASSUME At(t) \notin shared' PROVE t[1] \in landed'
      <4>1. At(t) \in Profiles \ shared /\ Of(t) # NoOp
        BY <1>1, <1>3, <2>6, <3>2, ApiFrame, ConfigStoreAssumption DEF Swap
      <4>2. draft[At(t)] = api[t].text
        BY <2>6, <4>1 DEF ProfilesWhole, Drafts, Swap
      <4>3. t[1] \in Request
        BY DEF Thread
      <4> QED BY <2>6, <4>1, <4>2, <4>3 DEF Swap
    <3> QED BY <1>2, <2>2, <2>3, <3>1, <3>2 DEF DoneHasLanded
  <2>7. CASE \/ MergeConfig(t) \/ ReadFile(t) \/ Open(t) \/ Write(t) \/ SwapFails(t)
             \/ Clean(t) \/ CheckImport(t) \/ TakeDefaults(t) \/ OpenFormats(t)
             \/ WriteFormatsFails(t) \/ FileFails(t) \/ WriteFails(t)
    <3>1. api'[t].at \notin {"done", "cache"}
      BY <2>1, <2>7 DEF MergeConfig, ReadFile, Open, Write, SwapFails, Clean, CheckImport,
          TakeDefaults, OpenFormats, WriteFormatsFails, FileFails, WriteFails, AfterFailure, Doing
    <3> QED BY <1>2, <2>2, <2>3, <3>1 DEF DoneHasLanded
  <2> QED BY <1>3, <2>4, <2>5, <2>6, <2>7 DEF Api
<1>4. ASSUME NEW r \in Request, RequestStep(r) PROVE DoneHasLanded'
  <2>1. \A u \in Thread : api'[u].at \in {"done", "cache"} => /\ api'[u].at = api[u].at
                                                              /\ At(u)' = At(u)
    BY <1>4, RequestThread
  <2> QED BY <1>2, <2>1 DEF DoneHasLanded
<1>5. CASE Crash
  <2>1. \A u \in Thread : api'[u].at \in {"done", "cache"} => /\ api'[u].at = api[u].at
                                                              /\ At(u)' = At(u)
    BY <1>5, CrashThread
  <2> QED BY <1>2, <2>1 DEF DoneHasLanded
<1>6. CASE \E k \in Key : LockLapses(k)
    BY <1>2, <1>6, LapseFrame DEF DoneHasLanded
<1>7. CASE UNCHANGED vars
    BY <1>7 DEF vars, ui, DoneHasLanded, At, Of
<1> QED BY <1>3, <1>4, <1>5, <1>6, <1>7, NextCases

\* A request that was answered makes no more steps, and one that is answered
\* with success has its thread, or nothing to write.
LEMMA RequestAnswers ==
    ASSUME Types, NEW r \in Request, RequestStep(r)
    PROVE  /\ answer[r] = "none"
           /\ answer'[r] = "ok" =>
                 /\ UNCHANGED <<op, tries>>
                 /\ \/ op[r].kind \in {"page", "show"}
                    \/ /\ UNCHANGED api
                       /\ \/ api[Now(r)].at = "done"
                          \/ op[r].kind = "remove" /\ api[Now(r)].at = "notfound"
<1> RequestTypes /\ RequestsFit
    BY DEF Types
<1>1. pc[r] # "answered"
    BY DEF RequestStep, Asks, AskApi, AskLocked, AskList, Ask, Refuse, GiveUp, Peek, TakeLock,
        LockIsTaken, Hears, FetchFails, Fetch, FetchFormats, StampFormats, LoadFails
<1>2. answer[r] = "none"
    BY <1>1 DEF RequestsFit
<1>3. ASSUME NEW s \in Entries, Proceeds(r, s), pc[r] \in {"fetch", "load"}, answer'[r] = "ok"
      PROVE  op[r].kind \in {"page", "show"}
  <2>1. CanProceed(r, s) /\ OpFits(op[r])
    BY <1>3, FetchProceeds
  <2> QED BY <1>2, <1>3, <2>1, ProceedsCases DEF Replies, Posts, Answers, RequestTypes
<1>4. Fails(r) => answer'[r] # "ok"
    BY <1>2 DEF Fails, Answers, RequestTypes
<1>5. CASE Hears(r)
  <2>1. CASE api[Now(r)].at = "failed"
    BY <1>2, <1>4, <1>5, <2>1 DEF Hears
  <2>2. CASE api[Now(r)].at # "failed"
    <3>1. PICK said \in Said(r) : Answers(r, said)
      BY <1>5, <2>2 DEF Hears
    <3>2. answer'[r] = said
      BY <3>1 DEF Answers, RequestTypes
    <3>3. said = "ok" => \/ api[Now(r)].at = "done"
                         \/ op[r].kind = "remove" /\ api[Now(r)].at = "notfound"
      BY <1>5, <2>2, <3>1 DEF Said, Hears, Ended
    <3> QED BY <1>2, <1>5, <2>2, <3>2, <3>3 DEF Hears
  <2> QED BY <1>2, <2>1, <2>2
<1>6. CASE \/ \E o \in Asked : Asks(r, o)
           \/ Refuse(r) \/ GiveUp(r) \/ LockIsTaken(r) \/ TakeLock(r) \/ Peek(r)
    BY <1>2, <1>4, <1>6 DEF Asks, AskApi, AskLocked, AskList, Ask, Refuse, GiveUp, LockIsTaken,
        TakeLock, Peek, Answers, RequestTypes
<1>7. CASE FetchFails(r)
    BY <1>2, <1>3, <1>4, <1>7, FetchedIsList DEF FetchFails
<1>8. CASE Fetch(r)
    BY <1>2, <1>3, <1>8, FetchedIsList DEF Fetch
<1>9. CASE StampFormats(r)
    BY <1>2, <1>3, <1>9, FetchedIsList DEF StampFormats
<1>10. CASE FetchFormats(r)
    BY <1>2, <1>3, <1>10, FetchedIsList DEF FetchFormats
<1>11. CASE LoadFails(r)
    BY <1>2, <1>3, <1>11, FetchedIsList DEF LoadFails
<1> QED BY <1>5, <1>6, <1>7, <1>8, <1>9, <1>10, <1>11 DEF RequestStep

LEMMA NextOkWasDone ==
    Types /\ OkWasDone /\ [Next]_vars => OkWasDone'
<1> SUFFICES ASSUME Types, OkWasDone, [Next]_vars, NEW x \in Request, answer'[x] = "ok"
             PROVE  \/ api'[Now(x)'].at = "done"
                    \/ op'[x].kind = "remove" /\ api'[Now(x)'].at = "notfound"
                    \/ op'[x].kind \in {"page", "show"}
    BY DEF OkWasDone
<1>1. Now(x) \in Thread
    BY OneInThread DEF Types
<1>2. ASSUME NEW r \in Request, RequestStep(r), x = r
      PROVE  \/ api'[Now(x)'].at = "done"
             \/ op'[x].kind = "remove" /\ api'[Now(x)'].at = "notfound"
             \/ op'[x].kind \in {"page", "show"}
    BY <1>2, RequestAnswers DEF Now
<1>3. ASSUME answer[x] = "ok", op'[x] = op[x], tries'[x] = tries[x],
             api[Now(x)].at \in {"done", "notfound"} => api'[Now(x)].at = api[Now(x)].at
      PROVE  \/ api'[Now(x)'].at = "done"
             \/ op'[x].kind = "remove" /\ api'[Now(x)'].at = "notfound"
             \/ op'[x].kind \in {"page", "show"}
    BY <1>3 DEF OkWasDone, Now
<1>4. ASSUME NEW r \in Request, RequestStep(r), x # r
      PROVE  /\ answer[x] = "ok" /\ op'[x] = op[x] /\ tries'[x] = tries[x]
             /\ api[Now(x)].at \in {"done", "notfound"} => api'[Now(x)].at = api[Now(x)].at
    BY <1>1, <1>4, RequestOthers, RequestThread
<1>5. ASSUME NEW t \in Thread, Api(t)
      PROVE  /\ answer[x] = "ok" /\ op'[x] = op[x] /\ tries'[x] = tries[x]
             /\ api[Now(x)].at \in {"done", "notfound"} => api'[Now(x)].at = api[Now(x)].at
    BY <1>1, <1>5, ApiFrame DEF ui, Active, Ended
<1>6. CASE Crash
  <2>1. answer[x] = "ok" /\ op'[x] = op[x] /\ tries'[x] = tries[x]
    BY <1>6 DEF Crash
  <2>2. api[Now(x)].at \in {"done", "notfound"} => api'[Now(x)].at = api[Now(x)].at
    BY <1>1, <1>6, CrashThread DEF Active, Ended
  <2> QED BY <1>3, <2>1, <2>2
<1>7. CASE \E k \in Key : LockLapses(k)
  <2>1. UNCHANGED <<op, tries, answer, api>>
    BY <1>7, LapseFrame
  <2> QED BY <1>3, <2>1
<1>8. CASE UNCHANGED vars
    BY <1>3, <1>8 DEF vars, ui
<1> QED BY <1>2, <1>3, <1>4, <1>5, <1>6, <1>7, <1>8, NextCases

-----------------------------------------------------------------------------
(***************************************************************************)
(* The lock of a channel serialises its edits                              *)
(***************************************************************************)

LEMMA NextLocksHeld ==
    Types /\ LocksHeld /\ [Next]_vars => LocksHeld'
<1> SUFFICES ASSUME Types, LocksHeld, [Next]_vars, NEW x \in Request,
                    pc'[x] \in {"fetch", "wait"}, Locked(op'[x]), op'[x].key \notin lapsed'
             PROVE  lock'[op'[x].key] = x
    BY DEF LocksHeld, UnderLock
<1>1. RequestTypes /\ RequestsFit
    BY DEF Types
<1>2. ASSUME NEW r \in Request, RequestStep(r), x # r PROVE lock'[op'[x].key] = x
  <2>1. /\ op'[x] = op[x] /\ pc'[x] = pc[x] /\ \A k \in Key : lock[k] = x => lock'[k] = x
        /\ lapsed' = lapsed
    BY <1>2, RequestFrame, RequestOthers
  <2>2. op[x].key \in Key
    BY <1>1, <2>1, AskedFits DEF OpFits
  <2> QED BY <2>1, <2>2 DEF LocksHeld, UnderLock
<1>3. ASSUME NEW r \in Request, RequestStep(r), x = r PROVE lock'[op'[x].key] = x
  <2> USE <1>1, <1>3
  <2>0. lapsed' = lapsed
    BY RequestFrame
  <2>1. ASSUME NEW s, Proceeds(r, s), op' = op, pc[r] = "fetch" PROVE lock'[op'[x].key] = x
    BY <2>1, <2>0 DEF Proceeds, PageIsDone, SeesNoEntry, Answers, Posts, HoldLock, LocksHeld,
        UnderLock, RequestTypes
  <2>2. CASE \E o \in Asked : Asks(r, o)
    BY <2>2 DEF Asks, AskApi, AskLocked, AskList, Ask, Locked, RequestTypes
  <2>3. CASE TakeLock(r)
    <3>1. op[r].key \in Key
      BY <2>3, AskedFits DEF TakeLock, OpFits
    <3> QED BY <2>3, <3>1 DEF TakeLock, RequestTypes
  <2>4. CASE Refuse(r) \/ GiveUp(r) \/ LockIsTaken(r) \/ Hears(r)
    BY <2>4 DEF Refuse, GiveUp, LockIsTaken, Hears, Fails, Answers, RequestTypes
  <2>5. CASE Peek(r)
    BY <2>5 DEF Peek, Answers, Locked, RequestTypes, RequestsFit
  <2>6. CASE FetchFails(r)
    BY <2>1, <2>6 DEF FetchFails, Fails, Answers, RequestTypes
  <2>7. CASE Fetch(r)
    BY <2>1, <2>7 DEF Fetch
  <2>8. CASE FetchFormats(r) \/ StampFormats(r) \/ LoadFails(r)
    <3>1. op'[x] = op[x] /\ op[r].place = "formats" /\ pc[r] # "idle"
      BY <2>8 DEF FetchFormats, StampFormats, LoadFails, RequestsFit
    <3> QED BY <3>1, AskedFits DEF Locked, OpFits
  <2> QED BY <2>2, <2>3, <2>4, <2>5, <2>6, <2>7, <2>8 DEF RequestStep
<1>4. ASSUME NEW t \in Thread, Api(t) PROVE lock'[op'[x].key] = x
    BY <1>4, ApiFrame DEF ui, LocksHeld, UnderLock
<1>5. CASE Crash
    BY <1>1, <1>5 DEF Crash, LocksHeld, UnderLock, RequestTypes
<1>6. ASSUME NEW k \in Key, LockLapses(k) PROVE lock'[op'[x].key] = x
  <2>1. UnderLock(x) /\ op'[x] = op[x] /\ op[x].key \notin lapsed
    BY <1>6, LapseFrame DEF UnderLock
  <2>2. lock[op[x].key] = x
    BY <2>1 DEF LocksHeld
  <2>3. op[x].key # k
    BY <1>6, <2>1, <2>2 DEF LockLapses
  <2> QED BY <1>1, <1>6, <2>1, <2>2, <2>3 DEF LockLapses, RequestTypes
<1>7. CASE UNCHANGED vars
    BY <1>7 DEF vars, ui, LocksHeld, UnderLock
<1> QED BY <1>2, <1>3, <1>4, <1>5, <1>6, <1>7, NextCases

LEMMA RequestLate ==
    ASSUME Types, NEW r \in Request, RequestStep(r)
    PROVE  /\ late => late'
           /\ ~late' /\ pc[r] = "wait" => api[Now(r)].at \in Ended
BY DEF RequestStep, Asks, AskApi, AskLocked, AskList, Ask, Refuse, GiveUp, Peek, TakeLock,
    LockIsTaken, Hears, FetchFails, Fetch, FetchFormats, StampFormats, LoadFails

LEMMA NextNobodyLate ==
    Types /\ NobodyLate /\ [Next]_vars => NobodyLate'
<1> SUFFICES ASSUME Types, NobodyLate, [Next]_vars, ~late', NEW t \in Thread, Active(t)'
             PROVE  pc'[t[1]] = "wait" /\ t = <<t[1], tries'[t[1]]>>
    BY DEF NobodyLate, Now
<1>1. t[1] \in Request /\ api'[t].at \notin {"none"} \cup Ended
    BY DEF Thread, Active
<1>2. ASSUME ~late, Active(t), pc'[t[1]] = pc[t[1]], tries'[t[1]] = tries[t[1]]
      PROVE  pc'[t[1]] = "wait" /\ t = <<t[1], tries'[t[1]]>>
    BY <1>2 DEF NobodyLate, Now
<1>3. ASSUME NEW r \in Request, RequestStep(r)
      PROVE  pc'[t[1]] = "wait" /\ t = <<t[1], tries'[t[1]]>>
  <2>1. ~late /\ (pc[r] = "wait" => api[Now(r)].at \in Ended)
    BY <1>3, RequestLate
  <2>2. CASE api'[t] = api[t]
    <3>1. Active(t)
      BY <1>1, <2>2 DEF Active
    <3>2. t[1] # r
      BY <2>1, <3>1 DEF NobodyLate, Active
    <3> QED BY <1>1, <1>2, <1>3, <2>1, <3>1, <3>2, RequestOthers
  <2>3. CASE api'[t] # api[t]
    <3>1. t = Now(r) /\ tries' = tries /\ pc'[r] = "wait"
      BY <1>3, <2>3, RequestThread
    <3> QED BY <3>1, OneInThread DEF Now, Types
  <2> QED BY <2>2, <2>3
<1>4. ASSUME NEW u \in Thread, Api(u)
      PROVE  pc'[t[1]] = "wait" /\ t = <<t[1], tries'[t[1]]>>
  <2>1. UNCHANGED <<late, pc, tries>> /\ Active(t)
    BY <1>1, <1>4, ApiFrame DEF ui, Active
  <2> QED BY <1>2, <2>1
<1>5. CASE Crash
  <2>1. ~late /\ tries' = tries /\ Active(t)
    BY <1>1, <1>5, CrashThread DEF Crash, Active, Ended
  <2>2. pc[t[1]] = "wait"
    BY <2>1 DEF NobodyLate
  <2>3. pc'[t[1]] = pc[t[1]]
    BY <1>1, <1>5, <2>2 DEF Crash
  <2> QED BY <1>2, <2>1, <2>3
<1>6. CASE \E k \in Key : LockLapses(k)
  <2>1. UNCHANGED <<late, pc, tries>> /\ Active(t)
    BY <1>1, <1>6, LapseFrame DEF Active
  <2> QED BY <1>2, <2>1
<1>7. CASE UNCHANGED vars
    BY <1>2, <1>7 DEF vars, ui, Active
<1> QED BY <1>3, <1>4, <1>5, <1>6, <1>7, NextCases

\* The text of an edit under a lock is the file's with that edit.
LEMMA LockedText ==
    ASSUME Types, NEW r \in Request, RequestStep(r), api'[Now(r)] # api[Now(r)],
           Locked(op'[r]), NEW k, k = op'[r].key
    PROVE  /\ disk["channels"][k] \in Entry
           /\ api'[Now(r)].text[k] \in Entry
           /\ disk["channels"][k].shown \subseteq api'[Now(r)].text[k].shown
           /\ op'[r].kind = "edit" => r \in api'[Now(r)].text[k].shown
<1> RequestTypes /\ RequestsFit /\ Now(r) \in Thread /\ api \in [Thread -> Doing]
    BY OneInThread DEF Types
<1>1. ~ \E o \in Asked : Asks(r, o)
    BY DEF Asks, AskApi, AskLocked, AskList, Ask, Locked, RequestTypes
<1>2. api' # api
    OBVIOUS
<1>3. ~(Refuse(r) \/ GiveUp(r) \/ Peek(r) \/ TakeLock(r) \/ LockIsTaken(r) \/ Hears(r))
    BY <1>2 DEF Refuse, GiveUp, Peek, TakeLock, LockIsTaken, Hears
<1>4. FetchFails(r) \/ Fetch(r) \/ FetchFormats(r) \/ StampFormats(r) \/ LoadFails(r)
    BY <1>1, <1>3 DEF RequestStep
<1>5. op' = op /\ pc[r] \in {"fetch", "load"}
    BY <1>4 DEF FetchFails, Fetch, FetchFormats, StampFormats, LoadFails
<1>6. OpFits(op[r]) /\ op[r] \in Asked
    BY <1>5, AskedFits
<1>7. op[r].place = "channels" /\ op[r].kind \in {"edit", "bind"} /\ op[r].key \in Id
    BY <1>5, <1>6 DEF Locked, OpFits, Needing
<1>8. CASE FetchFails(r)
    BY <1>2, <1>7, <1>8 DEF FetchFails, Profiles
<1>9. CASE FetchFormats(r) \/ StampFormats(r) \/ LoadFails(r)
    BY <1>7, <1>9 DEF FetchFormats, StampFormats, LoadFails, RequestsFit
<1>10. CASE Fetch(r)
  <2> DEFINE s == Found("channels")
  <2>1. s \in Entries /\ Proceeds(r, s)
    BY <1>7, <1>10, FetchedIsList DEF Fetch
  <2>2. Posts(r, s) /\ s[k] \in Entry
    BY <1>2, <1>5, <1>6, <1>7, <2>1, FetchProceeds, ProceedsCases DEF Replies, Needing
  <2>3. disk["channels"] \in Entries /\ Read("channels") = disk["channels"]
    <3>1. "channels" \in Place \ (Profiles \cup {"formats"})
      BY DEF Place, Config, Profiles
    <3>2. disk["channels"] \in Entries
      BY <3>1 DEF Types, FileTypes
    <3> QED BY <3>2, ConfigStoreAssumption DEF Read
  <2>4. k \in Key /\ k # 0 /\ k = op[r].key
    BY <1>5, <1>7, ConfigStoreAssumption DEF Key, Id
  <2> DEFINE e == disk["channels"][k]
  <2>5. e \in Entry /\ s[k] = [e EXCEPT !.hidden = {}]
    <3>1. s = Shown(disk["channels"])
      BY <2>3 DEF Found, Config
    <3>2. e \in Entry \cup {Absent}
      BY <2>3, <2>4 DEF Entries
    <3>3. e # Absent
      BY <2>2, <2>4, <3>1, ConfigStoreAssumption DEF Shown
    <3> QED BY <2>4, <3>1, <3>2, <3>3 DEF Shown
  <2>6. s[k].shown = e.shown
    BY <2>5 DEF Entry
  <2> HIDE DEF s, e
  <2>7. api'[Now(r)].text = Edited(r, s)
    BY <2>2 DEF Posts, Starts, Idle
  <2>8. Edited(r, s) = [s EXCEPT ![k] = Touched(s[k], r, op[r])]
    BY <1>7, <2>4 DEF Edited, Named
  <2>9. api'[Now(r)].text[k] = Touched(s[k], r, op[r])
    BY <2>1, <2>4, <2>7, <2>8 DEF Entries
  <2>10. CASE op[r].kind = "edit"
    <3>1. Touched(s[k], r, op[r]) = [s[k] EXCEPT !.shown = @ \cup {r}]
      BY <2>10 DEF Touched
    <3>2. Touched(s[k], r, op[r]).shown = s[k].shown \cup {r}
      BY <2>2, <3>1 DEF Entry
    <3> QED BY <1>5, <2>2, <2>5, <2>6, <2>9, <3>2, TouchedIsEntry DEF e
  <2>11. CASE op[r].kind = "bind"
    <3>1. Touched(s[k], r, op[r]) = [s[k] EXCEPT !.hidden = @ \cup {r}]
      BY <2>11 DEF Touched
    <3>2. Touched(s[k], r, op[r]).shown = s[k].shown
      BY <2>2, <3>1 DEF Entry
    <3> QED BY <1>5, <2>2, <2>5, <2>6, <2>9, <2>11, <3>2, TouchedIsEntry DEF e
  <2> QED BY <1>7, <2>10, <2>11
<1> QED BY <1>4, <1>8, <1>9, <1>10

\* EditsKept of one channel and one thread.
Keeps(k, t) ==
    /\ Active(t) =>
         /\ disk["channels"][k] \in Entry /\ api[t].text[k] \in Entry
         /\ disk["channels"][k].shown \subseteq api[t].text[k].shown
         /\ Of(t).kind = "edit" => t[1] \in api[t].text[k].shown
    /\ api[t].at = "done" /\ Of(t).kind = "edit" =>
         disk["channels"][k] \in Entry /\ t[1] \in disk["channels"][k].shown

LEMMA OnlyChannelLocks ==
    ASSUME NEW k, OnlyChannel(k), NEW t \in Thread, Of(t) # NoOp, At(t) \in Config
    PROVE  Locked(Of(t)) /\ Of(t).key = k
BY DEF OnlyChannel, Thread, Of, At

LEMMA RequestKeepsEdits ==
    ASSUME Types, NEW r \in Request, RequestStep(r), NEW k \in Id \ lapsed', OnlyChannel(k)',
           ~late', EditsKept, NEW t \in Thread, Of(t)' # NoOp, At(t)' \in Config
    PROVE  Keeps(k, t)'
<1>1. UNCHANGED <<disk, lapsed>> /\ ~late
    BY RequestFrame, RequestLate
<1>2. \A x \in Request : op[x] # NoOp => op'[x] = op[x]
    BY RequestFrame DEF Types, RequestTypes, RequestsFit
<1>3. OnlyChannel(k)
    BY <1>2 DEF OnlyChannel
<1>4. t[1] \in Request /\ t = <<t[1], t[2]>>
    BY DEF Thread
<1>5. CASE api'[t] = api[t]
  <2>1. CASE Of(t) = NoOp
    <3>1. api[t].at = "none"
      BY <2>1, RequestThread DEF Of
    <3> QED BY <1>5, <3>1 DEF Keeps, Active
  <2>2. CASE Of(t) # NoOp
    <3>1. Of(t)' = Of(t) /\ At(t)' = At(t)
      BY <2>2, RequestThread DEF Of
    <3>2. Keeps(k, t)
      BY <1>1, <1>3, <2>2, <3>1 DEF EditsKept, Keeps
    <3> QED BY <1>1, <1>5, <3>1, <3>2 DEF Keeps, Active
  <2> QED BY <2>1, <2>2
<1>6. CASE api'[t] # api[t]
  <2>1. t = Now(r) /\ api'[t].at \in {"read", "open"}
    BY <1>6, RequestThread
  <2>2. t[1] = r
    BY <2>1, OneInThread DEF Types
  <2>3. Locked(op'[r]) /\ op'[r].key = k
    BY <2>2 DEF OnlyChannel, Of, At
  <2>4. /\ disk["channels"][k] \in Entry
        /\ api'[t].text[k] \in Entry
        /\ disk["channels"][k].shown \subseteq api'[t].text[k].shown
        /\ op'[r].kind = "edit" => r \in api'[t].text[k].shown
    BY <1>6, <2>1, <2>3, LockedText
  <2> QED BY <1>1, <2>1, <2>2, <2>4 DEF Keeps, Active, Of
<1> QED BY <1>5, <1>6

\* Threads that edit one channel under its lock are not under way together.
LEMMA OneEditor ==
    ASSUME Types, LocksHeld, NobodyLate, ~late, NEW k \in Id \ lapsed, OnlyChannel(k),
           NEW t \in Thread, Active(t), Of(t) # NoOp, At(t) \in Config,
           NEW u \in Thread, Active(u), Of(u) # NoOp, At(u) \in Config
    PROVE  u = t
<1>1. /\ pc[t[1]] = "wait" /\ t = Now(t[1]) /\ t[1] \in Request
      /\ pc[u[1]] = "wait" /\ u = Now(u[1]) /\ u[1] \in Request
    BY DEF NobodyLate, Thread
<1>2. lock[k] = t[1] /\ lock[k] = u[1]
    BY <1>1, OnlyChannelLocks DEF LocksHeld, UnderLock, Of
<1> QED BY <1>1, <1>2

LEMMA ApiKeepsEdits ==
    ASSUME Types, LocksHeld, NobodyLate, EditsKept, NEW t \in Thread, Api(t),
           NEW k \in Id \ lapsed', OnlyChannel(k)', ~late',
           NEW u \in Thread, Of(u)' # NoOp, At(u)' \in Config
    PROVE  Keeps(k, u)'
<1> USE DEF Goes
<1>1. /\ api \in [Thread -> Doing] /\ api[t] \in Doing /\ ThreadFits(t) /\ Active(t)
      /\ OpFits(Of(t)) /\ Of(t) # NoOp /\ FileTypes /\ At(t) \in Place
    BY ApiFrame, ConfigStoreAssumption DEF Types
<1>2. UNCHANGED <<op, late, lapsed>> /\ \A v \in Thread : Of(v)' = Of(v) /\ At(v)' = At(v)
    BY ApiFrame DEF ui, Of, At
<1>3. OnlyChannel(k) /\ ~late
    BY <1>2 DEF OnlyChannel
<1>4. \A v \in Thread \ {t} : api'[v].at = api[v].at /\ api'[v].text = api[v].text
    BY ApiFrame
<1>5. \A v \in Thread : Of(v) # NoOp /\ At(v) \in Config => Keeps(k, v)
    BY <1>2, <1>3 DEF EditsKept, Keeps
<1>6. "channels" \in Place /\ "channels" \in Config
    BY DEF Place, Config
<1>7. CASE At(t) \notin Config
  <2>1. disk'["channels"] = disk["channels"]
    BY <1>1, <1>6, <1>7 DEF FileTypes, Api, MergeConfig, ReplaceConfig, ReadFile, RenameOwn, Open,
        Write, Swap, SwapFails, Clean, CheckImport, TakeDefaults, OpenFormats, WriteFormats,
        CacheFormats, WriteFormatsFails, FileFails, WriteFails, Config
  <2>2. u # t
    BY <1>2, <1>7
  <2> QED BY <1>2, <1>4, <1>5, <2>1, <2>2 DEF Keeps, Active
<1>8. CASE At(t) \in Config
  <2>1. /\ Locked(Of(t)) /\ Of(t).key = k /\ At(t) = "channels"
        /\ Of(t).kind \in {"edit", "bind"}
    BY <1>1, <1>3, <1>8, OnlyChannelLocks DEF OpFits, Locked, At
  <2>2. Keeps(k, t)
    BY <1>1, <1>5, <1>8
  <2>3. CASE MergeConfig(t)
    <3>1. UNCHANGED disk /\ api'[t].at = "swap" /\ api'[t].text = api[t].text
      BY <1>1, <2>1, <2>3 DEF MergeConfig, Doing
    <3>2. Keeps(k, t)'
      BY <1>1, <1>2, <2>2, <3>1 DEF Keeps, Active
    <3> QED BY <1>2, <1>4, <1>5, <3>1, <3>2 DEF Keeps, Active
  <2>4. CASE ReplaceConfig(t)
    <3>1. disk'["channels"] = api[t].text /\ api'[t].at = "done"
      BY <1>1, <1>6, <2>1, <2>4 DEF ReplaceConfig, Other, FileTypes, Doing
    <3>2. Keeps(k, t)'
      BY <1>1, <1>2, <2>2, <3>1 DEF Keeps, Active, Ended
    <3>3. ASSUME u # t PROVE Keeps(k, u)'
      <4>1. ~Active(u)
        BY <1>1, <1>2, <1>3, <1>8, <3>3, OneEditor
      <4>2. ~Active(u)'
        BY <1>4, <3>3, <4>1 DEF Active
      <4>3. api[u].at = "done" /\ Of(u).kind = "edit" =>
                disk'["channels"][k] \in Entry /\ u[1] \in disk'["channels"][k].shown
        BY <1>1, <1>2, <1>5, <2>2, <3>1 DEF Keeps
      <4> QED BY <1>2, <1>4, <3>3, <4>2, <4>3 DEF Keeps
    <3> QED BY <3>2, <3>3
  <2>5. CASE FileFails(t)
    <3>1. UNCHANGED disk /\ api'[t].at = "failed"
      BY <1>1, <2>1, <2>5 DEF FileFails, AfterFailure, Profiles, Doing
    <3>2. Keeps(k, t)'
      BY <3>1 DEF Keeps, Active, Ended
    <3> QED BY <1>2, <1>4, <1>5, <3>1, <3>2 DEF Keeps, Active
  <2>6. CASE ~MergeConfig(t) /\ ~ReplaceConfig(t) /\ ~FileFails(t)
    BY <1>1, <2>1, <2>6, <1>8 DEF Api, ReadFile, RenameOwn, Open, Write, Swap, SwapFails, Clean,
        CheckImport, TakeDefaults, OpenFormats, WriteFormats, CacheFormats, WriteFormatsFails,
        WriteFails, ThreadFits, OpFits, Config, Profiles, At
  <2> QED BY <2>3, <2>4, <2>5, <2>6
<1> QED BY <1>7, <1>8

LEMMA NextEditsKept ==
    Types /\ LocksHeld /\ NobodyLate /\ EditsKept /\ [Next]_vars => EditsKept'
<1> SUFFICES ASSUME Types, LocksHeld, NobodyLate, EditsKept, [Next]_vars, ~late',
                    NEW k \in Id \ lapsed', OnlyChannel(k)',
                    NEW t \in Thread, Of(t)' # NoOp, At(t)' \in Config
             PROVE  Keeps(k, t)'
    BY DEF EditsKept, Keeps
<1>1. ASSUME NEW r \in Request, RequestStep(r) PROVE Keeps(k, t)'
    BY <1>1, RequestKeepsEdits
<1>2. ASSUME NEW u \in Thread, Api(u) PROVE Keeps(k, t)'
    BY <1>2, ApiKeepsEdits
<1>3. ASSUME UNCHANGED <<disk, op, late>>, lapsed \subseteq lapsed',
             \/ api'[t] = api[t]
             \/ api'[t].at = "failed"
      PROVE  Keeps(k, t)'
  <2>1. OnlyChannel(k) /\ ~late /\ Of(t)' = Of(t) /\ At(t)' = At(t)
    BY <1>3 DEF OnlyChannel, Of, At
  <2>2. Keeps(k, t)
    BY <1>3, <2>1 DEF EditsKept, Keeps
  <2> QED BY <1>3, <2>1, <2>2 DEF Keeps, Active, Ended
<1>4. CASE Crash
    BY <1>3, <1>4, CrashThread DEF Crash
<1>5. CASE \E x \in Key : LockLapses(x)
    BY <1>3, <1>5, LapseFrame
<1>6. CASE UNCHANGED vars
    BY <1>3, <1>6 DEF vars, ui
<1> QED BY <1>1, <1>2, <1>4, <1>5, <1>6, NextCases

-----------------------------------------------------------------------------
(***************************************************************************)
(* The theorems                                                            *)
(***************************************************************************)

LEMMA InitInv == Init => Inv
<1> SUFFICES ASSUME Init PROVE Inv
    OBVIOUS
<1>1. Types
    BY InitTypes
<1>2. \A t \in Thread : api[t].at = "none" /\ Of(t) = NoOp
    BY DEF Init, Idle, Of, Thread
<1>3. ProfilesWhole
    BY <1>2, ConfigStoreAssumption DEF Init, ProfilesWhole, Drafts, Place
<1>4. FormatsWhole
  <2>1. cached.at < mtime
    BY DEF Init, Uncached
  <2>2. \A r \in Request : pc[r] # "load"
    BY DEF Init
  <2> QED BY <1>2, <2>1, <2>2 DEF FormatsWhole, Saves
<1>5. DoneHasLanded /\ NobodyLate /\ EditsKept
    BY <1>2 DEF DoneHasLanded, NobodyLate, EditsKept, Active
<1>6. OkWasDone /\ LocksHeld /\ LoadsAlone
    BY DEF Init, OkWasDone, LocksHeld, UnderLock, LoadsAlone
<1> QED BY <1>1, <1>3, <1>4, <1>5, <1>6 DEF Inv

LEMMA NextWhole ==
    Types /\ ProfilesWhole /\ FormatsWhole /\ LoadsAlone /\ [Next]_vars =>
        (ProfilesWhole /\ FormatsWhole)'
<1> SUFFICES ASSUME Types, ProfilesWhole, FormatsWhole, LoadsAlone, [Next]_vars
             PROVE  ProfilesWhole' /\ FormatsWhole'
    OBVIOUS
<1>1. shared \subseteq shared'
    BY SharedAndLandedGrow
<1>2. ASSUME NEW p \in Profiles, p \notin shared' PROVE PlaceWhole(p)'
  <2>1. PlaceWhole(p)
    BY <1>1, <1>2, WholeByPlace
  <2>2. CASE UNCHANGED vars
    BY <2>1, <2>2 DEF vars, ui, PlaceWhole, Drafts, Of, At
  <2> QED BY <1>2, <2>1, <2>2, NextCases, RequestKeepsPlace, ApiKeepsPlace, LapseKeepsPlace,
      CrashKeepsPlace
<1>3. ASSUME "formats" \notin shared' PROVE FormatsHeld'
  <2>1. FormatsHeld
    BY <1>1, <1>3 DEF FormatsWhole, FormatsHeld
  <2>2. CASE UNCHANGED vars
    BY <2>1, <2>2 DEF vars, ui, mem, FormatsHeld, Saves, Of, At, Read
  <2> QED BY <1>3, <2>1, <2>2, NextCases, RequestKeepsFormats, ApiKeepsFormats,
      LapseKeepsFormats, CrashKeepsFormats
<1>4. ProfilesWhole'
    BY <1>2 DEF ProfilesWhole, PlaceWhole
<1>5. FormatsWhole'
    BY <1>3 DEF FormatsWhole, FormatsHeld
<1> QED BY <1>4, <1>5

LEMMA SpecInv == Spec => []Inv
<1>1. Init => Inv
    BY InitInv
<1>2. Inv /\ [Next]_vars => Inv'
    BY NextTypes, NextWhole, NextLoadsAlone, NextLanded, NextOkWasDone, NextLocksHeld,
        NextNobodyLate, NextEditsKept DEF Inv
<1> QED BY <1>1, <1>2, PTL DEF Spec

\* Type correctness: only files that are written through a shared name or in
\* place are ever cut off or mixed (save_profiles, save_message_formats).
THEOREM SpecTypeOK == Spec => []TypeOK
<1>1. Types => TypeOK
  <2> SUFFICES ASSUME Types PROVE TypeOK
    OBVIOUS
  <2>1. \A p \in Place : disk[p] \in Entries \cup {Blank, Torn}
    BY DEF Types, FileTypes
  <2>2. cached.text \in Entries /\ cached.at \in -1 .. mtime /\ mtime \in Nat
    BY DEF Types, FileTypes
  <2>3. \A t \in Thread : /\ api[t].at \in StepSet
                          /\ api[t].text \in Entries /\ api[t].rest \in Entries
                          /\ api[t].file \in FileSet
    BY DEF Types, Doing
  <2>4. Profiles \cup {"formats"} \subseteq Place
    BY DEF Place
  <2> QED BY <2>1, <2>2, <2>3, <2>4
      DEF TypeOK, Types, FileTypes, RequestTypes, HistoryTypes, StepSet, FileSet, PcSet, Ended
<1> QED BY <1>1, SpecInv, PTL DEF Inv

\* A file of profiles is whole and the formats in memory are current, for any
\* requests, failing writes, restarts and times at which either side stops, as
\* long as no two threads had hold of the temporary file, or of the formats,
\* together; the formats but for the time after a saving of them that failed
\* half way (save_profiles, load_message_formats, save_message_formats).
THEOREM SpecWholeUnlessShared == Spec => []WholeUnlessShared
<1>1. Inv => WholeUnlessShared
  <2> SUFFICES ASSUME Inv PROVE WholeUnlessShared
    OBVIOUS
  <2>1. \A p \in Profiles \ shared : disk[p] \notin {Blank, Torn}
    BY ConfigStoreAssumption DEF Inv, ProfilesWhole
  <2>2. "formats" \notin shared /\ ~cut => FormatsAreCurrent
    BY DEF Inv, FormatsWhole, FormatsAreCurrent, Saves
  <2> QED BY <2>1, <2>2 DEF WholeUnlessShared
<1> QED BY <1>1, SpecInv, PTL

\* What the interface reports as done was in the file, or there was nothing to
\* write, unless the draft was shared (save_profiles, update_config).
THEOREM SpecOkMeansWritten == Spec => []OkMeansWritten
<1>1. Inv => OkMeansWritten
  <2> SUFFICES ASSUME Inv, NEW r \in Request, answer[r] = "ok", op[r].place \notin shared
               PROVE  \/ r \in landed
                      \/ op[r].kind = "remove" /\ \E n \in 1 .. tries[r] : api[<<r, n>>].at = "notfound"
                      \/ op[r].kind \in {"page", "show"}
    BY DEF OkMeansWritten
  <2>1. /\ Now(r) \in Thread /\ Now(r)[1] = r /\ tries[r] \in 1 .. MaxTries
        /\ Now(r) = <<r, tries[r]>> /\ At(Now(r)) = op[r].place
    BY OneInThread DEF Inv, Types, RequestTypes, Now, At, Of
  <2>2. api[Now(r)].at = "done" => r \in landed
    BY <2>1 DEF Inv, DoneHasLanded
  <2>3. tries[r] \in 1 .. tries[r]
    BY <2>1
  <2> QED BY <2>1, <2>2, <2>3 DEF Inv, OkWasDone
<1> QED BY <1>1, SpecInv, PTL

\* Once reported, an edit made under the lock of its channel stays through
\* later edits of that channel (update_channel, set_channel_profiles), for any
\* number of requests, attempts and failures, as long as nothing else edits the
\* file, nobody stopped waiting for a thread, and the lock of the channel has
\* not lapsed under an attempt.
THEOREM SpecLockedEditsSurvive == Spec => []LockedEditsSurvive
<1>1. Inv => LockedEditsSurvive
  <2> SUFFICES ASSUME Inv, NEW r \in Request, answer[r] = "ok", ~late, Locked(op[r]),
                      op[r].kind = "edit", AloneOnChannel(r), op[r].key \notin lapsed
               PROVE  /\ disk["channels"][op[r].key] # Absent
                      /\ r \in disk["channels"][op[r].key].shown
    BY DEF LockedEditsSurvive, Reported, Survives
  <2>1. Now(r) \in Thread /\ Now(r)[1] = r
    BY OneInThread DEF Inv, Types
  <2>2. op[r] # NoOp /\ OpFits(op[r])
    BY AskedFits DEF Inv, Types, RequestsFit
  <2>3. op[r].place = "channels" /\ op[r].key \in Id
    BY <2>2 DEF OpFits, Locked, Needing
  <2>4. OnlyChannel(op[r].key)
    BY DEF AloneOnChannel, OnlyChannel
  <2>5. api[Now(r)].at = "done"
    BY DEF Inv, OkWasDone
  <2>6. Of(Now(r)) = op[r] /\ At(Now(r)) \in Config
    BY <2>1, <2>3 DEF Of, At, Config
  <2>7. /\ disk["channels"][op[r].key] \in Entry
        /\ r \in disk["channels"][op[r].key].shown
    BY <2>1, <2>2, <2>3, <2>4, <2>5, <2>6 DEF Inv, EditsKept
  <2> QED BY <2>7, ConfigStoreAssumption
<1> QED BY <1>1, SpecInv, PTL

=============================================================================
