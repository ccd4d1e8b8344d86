----------------------------- MODULE ConfigStore -----------------------------
(***************************************************************************)
(* How the interface edits the files of the sentinel: the channels and     *)
(* users of tgsentinel.yml, the profiles of profiles_alert.yml and         *)
(* profiles_interest.yml, the webhooks, the formats of messages and the    *)
(* developer's settings. A request of the interface reads a whole list     *)
(* through the API, changes its copy and posts it back; a thread of the    *)
(* API writes it to a temporary file and renames that over the old one.    *)
(* The interface stops waiting after its time-out, the thread does not.    *)
(*                                                                         *)
(* A setting is represented by the edits it has gone through. What a GET   *)
(* of the configuration leaves out (profiles, overrides, digest, webhooks) *)
(* is kept apart as "hidden". The temporary file of a profile file has a   *)
(* fixed name: two threads that open it write to the same file. The one of *)
(* the formats is written in place, and kept in memory with its mtime. Any *)
(* step of a thread may fail (a full disk, a missing right), and a lock    *)
(* ends with its time to live, whether its holder is done or not.          *)
(***************************************************************************)
EXTENDS Integers, FiniteSets, FiniteSetsExt

CONSTANTS
    Request,        \* requests of the interface and changes of the tuner
    Asked,          \* the operations they may be
    Stored,         \* what the files hold at first
    MaxKey,         \* bound: identifiers of a list
    Original,       \* the edit that made the settings of Stored
    Absent, Blank, Torn, Free, NoOp,
    MaxTries,       \* MAX_RETRIES of update_channel
    MaxCrashes      \* bound: restarts of the sentinel

Config   == {"channels", "users"}
Profiles == {"alert", "interest"}
Place    == Config \cup Profiles \cup {"webhooks", "formats", "developer"}

\* Key 0 stands for every key that is not a number.
Id  == 1 .. MaxKey
Key == 0 .. MaxKey

Edit    == Request \cup {Original}
Entry   == [shown : SUBSET Edit, hidden : SUBSET Edit]
Entries == [Key -> Entry \cup {Absent}]
Nothing == [k \in Key |-> Absent]

Thread == Request \X (1 .. MaxTries)

-----------------------------------------------------------------------------
\* The operations of the interface and of the tuner. Most fetch a whole list,
\* change it and post it ("list"), one of them under a lock ("lock"); some are
\* left to the API as a whole ("api"). "needs": an entry must be there.

Op(kind, place, k, by, needs) ==
    [kind |-> kind, place |-> place, key |-> k, by |-> by, needs |-> needs]

AddChannel(k)    == Op("add", "channels", k, "list", FALSE)
EditChannel(k)   == Op("edit", "channels", k, "lock", TRUE)
BindChannel(k)   == Op("bind", "channels", k, "lock", TRUE)
RemoveChannel(k) == Op("remove", "channels", k, "list", TRUE)

\* With the attribute enabled, which ChannelRule does not have, and without.
EnableChannel(k) == Op("enable", "channels", k, "list", TRUE)
PatchChannel(k)  == Op("edit", "channels", k, "list", TRUE)

AddUser(k)    == Op("add", "users", k, "list", FALSE)
EditUser(k)   == Op("edit", "users", k, "list", TRUE)
BindUser(k)   == Op("bind", "users", k, "list", TRUE)
RemoveUser(k) == Op("remove", "users", k, "list", TRUE)

\* Settings other than the two lists.
SaveSettings == Op("save", "channels", 0, "api", FALSE)
SetThreshold == Op("save", "channels", 0, "api", FALSE)

\* Key 0 is a profile that has no identifier yet.
UpsertAlert(k) == Op("upsert", "alert", k, "list", FALSE)
DeleteAlert(k) == Op("remove", "alert", k, "api", FALSE)
ToggleAlert(k) == Op("toggle", "alert", k, "api", FALSE)

\* The page of profiles migrates channels to alert profiles.
ShowProfiles == Op("page", "alert", 0, "list", FALSE)

UpsertInterest(k) == Op("upsert", "interest", k, "list", FALSE)
DeleteInterest(k) == Op("remove", "interest", k, "api", FALSE)
ToggleInterest(k) == Op("toggle", "interest", k, "api", FALSE)
SwitchInterest(k) == Op("switch", "interest", k, "list", TRUE)

\* Webhooks are left to the API, one at a time.
AddWebhook(k)    == Op("add", "webhooks", k, "api", FALSE)
EditWebhook(k)   == Op("edit", "webhooks", k, "api", TRUE)
RemoveWebhook(k) == Op("remove", "webhooks", k, "api", TRUE)

\* The page of message formats sends all of them back; the formats are also
\* downloaded, replaced by an uploaded file and set back to the defaults.
SaveFormat(k)    == Op("put", "formats", k, "list", FALSE)
ExportFormats    == Op("show", "formats", 0, "list", FALSE)
ImportFormats(k) == Op("import", "formats", k, "api", FALSE)
ResetFormats     == Op("reset", "formats", 0, "api", FALSE)

\* The only file the interface writes itself.
SaveDeveloper == Op("put", "developer", 1, "api", FALSE)

\* ProfileTuner.apply_threshold_adjustment
Tune(p, k) == Op("tune", p, k, "api", FALSE)

-----------------------------------------------------------------------------

\* What may be asked for: of an identifier, which is a number, and without one.
OfEntry(k) ==
    {AddChannel(k), EditChannel(k), BindChannel(k), RemoveChannel(k), EnableChannel(k),
     PatchChannel(k), AddUser(k), EditUser(k), BindUser(k), RemoveUser(k),
     UpsertAlert(k), DeleteAlert(k), ToggleAlert(k), Tune("alert", k),
     UpsertInterest(k), DeleteInterest(k), ToggleInterest(k), SwitchInterest(k),
     Tune("interest", k), AddWebhook(k), EditWebhook(k), RemoveWebhook(k),
     SaveFormat(k), ImportFormats(k)}

OfNoEntry ==
    {UpsertAlert(0), UpsertInterest(0), SaveSettings, SetThreshold, ShowProfiles,
     ExportFormats, ResetFormats, SaveDeveloper}

ASSUME ConfigStoreAssumption ==
    /\ MaxTries \in Nat \ {0} /\ MaxCrashes \in Nat /\ MaxKey \in Nat \ {0}
    /\ Stored \in [Place -> Entries]
    /\ \A o \in Asked : o \in OfNoEntry \/ \E k \in Id : o \in OfEntry(k)
    /\ NoOp \notin Asked /\ Free \notin Request
    /\ {Absent, Blank, Torn} \cap Entries = {} /\ Absent \notin Entry /\ Blank # Torn

VARIABLES
    disk,           \* place -> the entries in its file, or Blank or Torn
    draft,          \* place -> what its .yml.tmp holds, or Absent
    mtime,          \* of message_formats.yml
    cut,            \* the last saving of the formats failed half way
    cached,         \* the formats in memory, and the mtime they were read at
    lock,           \* channel -> the request that holds its lock, or Free
    op, pc, tries,  \* request -> what it is, where it is, its attempt
    seen,           \* request -> what its last reading found
    answer,         \* request -> what the interface said
    api,            \* thread of the API -> its step, text and open file
    shared,         \* history: drafts two threads had hold of at once
    landed,         \* history: requests whose text was in the file
    late,           \* history: somebody stopped waiting for a thread
    lapsed,         \* history: channels whose lock ended under its holder
    crashes         \* history: restarts

ui   == <<lock, op, pc, tries, seen, answer, late, lapsed>>
mem  == <<mtime, cached, cut>>
vars == <<disk, draft, mem, ui, api, shared, landed, crashes>>

\* _format_cache is None
Uncached == [text |-> Nothing, at |-> -1]

Idle == [at |-> "none", text |-> Nothing, rest |-> Nothing, file |-> "none"]

Init ==
    /\ disk = Stored
    /\ draft = [p \in Profiles |-> Absent]
    /\ mtime = 0 /\ cached = Uncached /\ cut = FALSE
    /\ lock = [k \in Key |-> Free]
    /\ op = [r \in Request |-> NoOp]
    /\ pc = [r \in Request |-> "idle"]
    /\ tries = [r \in Request |-> 1]
    /\ seen = [r \in Request |-> Nothing]
    /\ answer = [r \in Request |-> "none"]
    /\ api = [t \in Thread |-> Idle]
    /\ shared = {} /\ landed = {} /\ late = FALSE /\ lapsed = {} /\ crashes = 0

-----------------------------------------------------------------------------
\* What the interface sees and sends

\* GET /api/config lists the attributes it knows.
Shown(s) == [k \in Key |-> IF s[k] = Absent THEN Absent ELSE [s[k] EXCEPT !.hidden = {}]]

\* A file cut off at nothing is read as no profiles.
Readable(p) == disk[p] # Torn
Read(p) == IF disk[p] = Blank THEN Nothing ELSE disk[p]

Found(p) == IF p \in Config THEN Shown(Read(p)) ELSE Read(p)

\* _generate_next_id counts keys that are integers: upsert_alert_profile
\* converts them, upsert_interest_profile passes the strings on.
NextKey(p, s) ==
    IF p = "interest" THEN 1 ELSE Max({0} \cup {k \in Id : s[k] # Absent}) + 1

Named(r, s) == IF op[r].key = 0 THEN NextKey(op[r].place, s) ELSE op[r].key

Fresh(r) == [shown |-> {r}, hidden |-> {}]

Touched(e, r, o) ==
    CASE o.kind = "bind" -> [e EXCEPT !.hidden = @ \cup {r}]
      [] o.kind = "upsert" -> Fresh(r)
      [] OTHER -> [e EXCEPT !.shown = @ \cup {r}]

\* The list a request makes of the one it has read. The page of profiles
\* makes one alert profile of every channel, under a key of its own form.
Edited(r, s) ==
    LET o == op[r]
        k == Named(r, s)
    IN  CASE o.kind = "add" -> IF s[k] = Absent THEN [s EXCEPT ![k] = Fresh(r)] ELSE s
          [] o.kind = "remove" -> [s EXCEPT ![k] = Absent]
          [] o.kind = "page" -> [Nothing EXCEPT ![0] = Fresh(r)]
          [] o.kind = "switch" -> [s EXCEPT ![k] = Touched(seen[r][k], r, o)]
          [] o.kind = "put" /\ s[k] = Absent -> [s EXCEPT ![k] = Fresh(r)]
          [] OTHER -> [s EXCEPT ![k] = Touched(s[k], r, o)]

Locked(o) == o.by = "lock"

Now(r) == <<r, tries[r]>>

Starts(r, step, body) ==
    api' = [api EXCEPT ![Now(r)] = [Idle EXCEPT !.at = step, !.text = body]]

\* Whoever is past the lock has it, unless it has lapsed.
UnderLock(r) == Locked(op[r]) /\ pc[r] \in {"fetch", "wait"}

\* An attempt ends: the lock is given back if it is still that of the attempt.
\* A release that fails is logged, and the lock stays until it lapses.
Release(r) ==
    \/ lock' = [k \in Key |-> IF lock[k] = r /\ UnderLock(r) THEN Free ELSE lock[k]]
    \/ UNCHANGED lock

Answers(r, said) ==
    /\ pc' = [pc EXCEPT ![r] = "answered"]
    /\ answer' = [answer EXCEPT ![r] = said]
    /\ Release(r)

\* Mutant: the lock is given back before the answer of the API is there.
ReleaseEarly(r) == lock' = [k \in Key |-> IF lock[k] = r THEN Free ELSE lock[k]]

HoldLock(r) == UNCHANGED lock

-----------------------------------------------------------------------------
\* Requests of the interface

Ask(r, o, step) ==
    /\ pc[r] = "idle"
    /\ op' = [op EXCEPT ![r] = o]
    /\ pc' = [pc EXCEPT ![r] = step]
    /\ UNCHANGED <<disk, draft, mem, lock, tries, seen, answer, shared, landed, late, lapsed, crashes>>

\* The request is passed on as it is.
AskApi(r, o) ==
    /\ o.by = "api"
    /\ Ask(r, o, "wait") /\ Starts(r, "read", Nothing)

AskLocked(r, o) == Locked(o) /\ Ask(r, o, "lock") /\ UNCHANGED api

AskList(r, o) ==
    /\ o.by = "list" /\ UNCHANGED api
    /\ Ask(r, o, IF o.kind = "switch" THEN "peek" ELSE "fetch")

\* Bindings are checked against the global profiles, an absent list of which
\* refuses them all; the lock needs Redis, at every attempt.
Refuse(r) ==
    /\ \/ pc[r] = "lock"
       \/ pc[r] = "fetch" /\ op[r].kind = "bind" /\ ~Locked(op[r])
    /\ Answers(r, "error")
    /\ UNCHANGED <<disk, draft, mem, op, tries, seen, api, shared, landed, late, lapsed, crashes>>

\* Mutant: an attempt too many.
MayRetryOnceMore(r) == tries[r] <= MaxTries

MayRetry(r) == tries[r] < MaxTries

\* What an attempt that failed means: update_channel tries again.
Fails(r) ==
    IF Locked(op[r]) /\ MayRetry(r)
    THEN /\ pc' = [pc EXCEPT ![r] = "lock"]
         /\ tries' = [tries EXCEPT ![r] = @ + 1]
         /\ Release(r)
         /\ UNCHANGED answer
    ELSE Answers(r, "error") /\ UNCHANGED tries

\* SET with nx and ex: one holder at a time, for LOCK_TIMEOUT seconds.
TakeLock(r) ==
    /\ pc[r] = "lock" /\ lock[op[r].key] = Free
    /\ lock' = [lock EXCEPT ![op[r].key] = r]
    /\ pc' = [pc EXCEPT ![r] = "fetch"]
    /\ UNCHANGED <<disk, draft, mem, op, tries, seen, answer, api, shared, landed, late, lapsed, crashes>>

LockIsTaken(r) ==
    /\ pc[r] = "lock" /\ lock[op[r].key] # Free
    /\ Fails(r)
    /\ UNCHANGED <<disk, draft, mem, op, seen, api, shared, landed, late, lapsed, crashes>>

\* The time to live of a lock is over, 25 seconds after it was taken: that of
\* one not given back, or of an attempt still under way. Connecting and reading
\* may take the GET ten seconds and the POST twenty with no time-out.
LockLapses(k) ==
    /\ lock[k] # Free
    /\ lock' = [lock EXCEPT ![k] = Free]
    /\ lapsed' = IF UnderLock(lock[k]) THEN lapsed \cup {k} ELSE lapsed
    /\ UNCHANGED <<disk, draft, mem, op, pc, tries, seen, answer, api, shared, landed,
                   late, crashes>>

\* The list is there: it is changed and posted.
Posts(r, s) ==
    /\ seen' = [seen EXCEPT ![r] = s]
    /\ pc' = [pc EXCEPT ![r] = "wait"]
    /\ Starts(r, IF op[r].place \in Config THEN "read" ELSE "open", Edited(r, s))
    /\ HoldLock(r)
    /\ UNCHANGED answer

SeesNoEntry(r, s) ==
    /\ Answers(r, "error")
    /\ seen' = [seen EXCEPT ![r] = s] /\ UNCHANGED api

\* A page saves only profiles it has migrated because there seemed to be none.
NothingToMigrate(o, s) ==
    /\ o.kind = "page"
    /\ s # Nothing \/ Read("channels") = Nothing

OnlyShows(o, s) == o.kind = "show" \/ NothingToMigrate(o, s)

PageIsDone(r, s) ==
    /\ Answers(r, "ok")
    /\ seen' = [seen EXCEPT ![r] = s] /\ UNCHANGED api

Proceeds(r, s) ==
    IF OnlyShows(op[r], s) THEN PageIsDone(r, s)
    ELSE IF op[r].needs /\ op[r].kind # "switch" /\ s[op[r].key] = Absent
    THEN SeesNoEntry(r, s)
    ELSE Posts(r, s)

\* toggle_profile gets the one profile first, then upserts what it got.
Peek(r) ==
    /\ pc[r] = "peek"
    /\ \/ /\ Readable(op[r].place) /\ Read(op[r].place)[op[r].key] # Absent
          /\ seen' = [seen EXCEPT ![r] = Read(op[r].place)]
          /\ pc' = [pc EXCEPT ![r] = "fetch"]
          /\ UNCHANGED <<lock, answer>>
       \/ Answers(r, "error") /\ UNCHANGED seen
    /\ UNCHANGED <<disk, draft, mem, op, tries, api, shared, landed, late, lapsed, crashes>>

Fetch(r) ==
    /\ pc[r] = "fetch" /\ Readable(op[r].place) /\ op[r].place # "formats"
    /\ Proceeds(r, Found(op[r].place))
    /\ UNCHANGED <<disk, draft, mem, op, tries, shared, landed, late, lapsed, crashes>>

\* load_message_formats, under its own lock: formats in memory serve until the
\* file has a later mtime. A file that cannot be parsed stands for the defaults.
Loading == \E r \in Request : pc[r] = "load"

FetchFormats(r) ==
    /\ pc[r] = "fetch" /\ op[r].place = "formats" /\ ~Loading
    /\ IF mtime <= cached.at
       THEN Proceeds(r, cached.text) /\ UNCHANGED cached
       ELSE IF Readable("formats")
       THEN /\ seen' = [seen EXCEPT ![r] = Read("formats")]
            /\ pc' = [pc EXCEPT ![r] = "load"]
            /\ UNCHANGED <<lock, answer, api, cached>>
       ELSE Proceeds(r, Nothing) /\ cached' = [cached EXCEPT !.text = Nothing]
    /\ UNCHANGED <<disk, draft, mtime, cut, op, tries, shared, landed, late, lapsed, crashes>>

\* The mtime is that of a moment after the reading.
StampFormats(r) ==
    /\ pc[r] = "load"
    /\ cached' = [text |-> seen[r], at |-> mtime]
    /\ Proceeds(r, seen[r])
    /\ UNCHANGED <<disk, draft, mtime, cut, op, tries, shared, landed, late, lapsed, crashes>>

\* The file cannot be read, or not be asked for its mtime: the defaults again.
LoadFails(r) ==
    /\ pc[r] = "load"
    /\ cached' = [cached EXCEPT !.text = Nothing]
    /\ Proceeds(r, Nothing)
    /\ UNCHANGED <<disk, draft, mtime, cut, op, tries, shared, landed, late, lapsed, crashes>>

\* The API cannot be reached or answers with an error. load_profiles and
\* load_alert_profiles then return no profiles, the configuration fails.
FetchFails(r) ==
    /\ pc[r] = "fetch"
    /\ IF op[r].place \in Profiles
       THEN Proceeds(r, Nothing) /\ UNCHANGED tries
       ELSE Fails(r) /\ UNCHANGED <<seen, api>>
    /\ UNCHANGED <<disk, draft, mem, op, shared, landed, late, lapsed, crashes>>

\* Mutant: an answer of any kind is taken for success.
SaidOk(r) == {"ok"}

\* Nothing to delete is a success. delete_alert_profile goes on to a method the
\* service does not have; toggle_interest_profile asks for the profile again.
Said(r) ==
    LET o == op[r]
    IN  IF o.kind = "remove" /\ o.place = "alert" THEN {"error"}
        ELSE IF o.kind = "toggle" /\ o.place = "interest" /\ api[Now(r)].at = "done"
        THEN {"ok", "error"}
        ELSE IF o.kind = "remove" \/ api[Now(r)].at = "done" THEN {"ok"} ELSE {"error"}

Ended == {"done", "failed", "notfound"}

Hears(r) ==
    /\ pc[r] = "wait" /\ api[Now(r)].at \in Ended
    /\ IF api[Now(r)].at = "failed" THEN Fails(r)
       ELSE (\E said \in Said(r) : Answers(r, said)) /\ UNCHANGED tries
    /\ UNCHANGED <<disk, draft, mem, op, seen, api, shared, landed, late, lapsed, crashes>>

Hear(r) == Hears(r) /\ op[r].by # "api"

HearApi(r) == Hears(r) /\ op[r].by = "api"

\* The time-out of the interface; the thread goes on.
GiveUp(r) ==
    /\ pc[r] = "wait" /\ api[Now(r)].at \notin Ended
    /\ op[r].kind # "tune" /\ op[r].place # "developer"
    /\ Fails(r)
    /\ late' = TRUE
    /\ UNCHANGED <<disk, draft, mem, op, seen, api, shared, landed, lapsed, crashes>>

-----------------------------------------------------------------------------
\* Threads of the API

Of(t)   == op[t[1]]
At(t)   == Of(t).place
Goes(t, step) == api' = [api EXCEPT ![t].at = step]

Other(p) == IF p = "channels" THEN "users" ELSE "channels"

\* update_config reads the file, replaces what was sent and has load_config
\* check the result: an unknown attribute such as enabled fails.
MergeConfig(t) ==
    /\ api[t].at = "read" /\ At(t) \in Config
    /\ api' = IF Of(t).kind = "enable" THEN [api EXCEPT ![t].at = "failed"]
              ELSE [api EXCEPT ![t].at = "swap", ![t].rest = disk[Other(At(t))],
                               ![t].text = IF Of(t).kind = "save" THEN disk[At(t)] ELSE @]
    /\ UNCHANGED <<disk, draft, mem, ui, shared, landed, crashes>>

ReplaceConfig(t) ==
    /\ api[t].at = "swap" /\ At(t) \in Config
    /\ disk' = [disk EXCEPT ![At(t)] = api[t].text, ![Other(At(t))] = api[t].rest]
    /\ Goes(t, "done")
    /\ landed' = landed \cup {t[1]}
    /\ UNCHANGED <<draft, mem, ui, shared, crashes>>

\* toggle_profile and delete_profile, ProfileTuner, the webhooks and the
\* developer's settings are read by the thread that writes them.
HasOwnFile(o) == o.kind = "tune" \/ o.place \in {"webhooks", "developer"}

Fits(o, e) ==
    CASE o.kind = "add" -> e = Absent [] o.kind = "put" -> TRUE [] OTHER -> e # Absent

ReadFile(t) ==
    /\ api[t].at = "read" /\ At(t) \notin Config \cup {"formats"}
    /\ api' = IF ~Readable(At(t)) THEN [api EXCEPT ![t].at = "failed"]
              ELSE IF ~Fits(Of(t), Read(At(t))[Of(t).key])
              THEN [api EXCEPT ![t].at = IF HasOwnFile(Of(t)) THEN "failed" ELSE "notfound"]
              ELSE [api EXCEPT ![t].at = IF HasOwnFile(Of(t)) THEN "rename" ELSE "open",
                               ![t].text = Edited(t[1], Read(At(t)))]
    /\ UNCHANGED <<disk, draft, mem, ui, shared, landed, crashes>>

\* Files that threads have open when the name of one is taken by another:
\* what was the draft is the file, what was the file has no name.
Renamed(p, t) ==
    [u \in Thread |->
        IF u # t /\ Of(u) # NoOp /\ At(u) = p
        THEN [api[u] EXCEPT !.file = CASE @ = "draft" -> "disk" [] @ = "disk" -> "gone"
                                        [] OTHER -> @]
        ELSE api[u]]

\* NamedTemporaryFile: a temporary file of its own.
RenameOwn(t) ==
    /\ api[t].at = "rename"
    /\ disk' = [disk EXCEPT ![At(t)] = api[t].text]
    /\ api' = [u \in Thread |->
                 IF u = t THEN [api[t] EXCEPT !.at = "done"]
                 ELSE IF Of(u) # NoOp /\ At(u) = At(t) /\ api[u].file = "disk"
                 THEN [api[u] EXCEPT !.file = "gone"] ELSE api[u]]
    /\ landed' = landed \cup {t[1]}
    /\ UNCHANGED <<draft, mem, ui, shared, crashes>>

Others(t) == {u \in Thread \ {t} : Of(u) # NoOp /\ At(u) = At(t)}

\* Mutant: the profiles are written to the file itself.
OpenTarget(t) ==
    /\ api[t].at = "open" /\ At(t) # "formats"
    /\ disk' = [disk EXCEPT ![At(t)] = Blank]
    /\ api' = [api EXCEPT ![t].at = "write", ![t].file = "disk"]
    /\ UNCHANGED <<draft, mem, ui, shared, landed, crashes>>

\* The draft of a place is shared once a thread takes hold of it, to write or to
\* remove it, while another has.
Joined(t) ==
    IF \E u \in Others(t) : api[u].file = "draft" \/ api[u].at \in {"swap", "clean"}
    THEN shared \cup {At(t)} ELSE shared

\* open(temp_path, "w") cuts off what is there, whoever put it there.
Open(t) ==
    /\ api[t].at = "open" /\ At(t) # "formats"
    /\ draft' = [draft EXCEPT ![At(t)] = Blank]
    /\ api' = [api EXCEPT ![t].at = "write", ![t].file = "draft"]
    /\ shared' = Joined(t)
    /\ UNCHANGED <<disk, mem, ui, landed, crashes>>

\* Over what another thread has written to the same file, a text is whole
\* only if it is the longer one.
Written(old, text) == IF old = Blank THEN {text} ELSE {text, Torn}

Write(t) ==
    /\ api[t].at = "write" /\ At(t) # "formats"
    /\ CASE api[t].file = "draft" ->
              /\ \E new \in Written(draft[At(t)], api[t].text) :
                     draft' = [draft EXCEPT ![At(t)] = new]
              /\ UNCHANGED disk
         [] api[t].file = "disk" ->
              /\ \E new \in Written(disk[At(t)], api[t].text) :
                     disk' = [disk EXCEPT ![At(t)] = new]
              /\ UNCHANGED draft
         [] OTHER -> UNCHANGED <<disk, draft>>
    /\ api' = [api EXCEPT ![t].at = "swap", ![t].file = "none"]
    /\ UNCHANGED <<mem, ui, shared, landed, crashes>>

\* An imported file takes the place of all formats, or is refused: it is no
\* YAML, or validate_formats finds something.
CheckImport(t) ==
    /\ api[t].at = "read" /\ Of(t).kind = "import"
    /\ \/ api' = [api EXCEPT ![t].at = "open",
                      ![t].text = [Nothing EXCEPT ![Of(t).key] = Fresh(t[1])]]
       \/ Goes(t, "failed")
    /\ UNCHANGED <<disk, draft, mem, ui, shared, landed, crashes>>

\* The defaults are what every text is merged with when it is loaded.
TakeDefaults(t) ==
    /\ api[t].at = "read" /\ Of(t).kind = "reset"
    /\ api' = [api EXCEPT ![t].at = "open", ![t].text = Nothing]
    /\ UNCHANGED <<disk, draft, mem, ui, shared, landed, crashes>>

\* save_message_formats opens the file itself, after a copy of it to .yml.bak
\* that nothing reads, ...
OpenFormats(t) ==
    /\ api[t].at = "open" /\ At(t) = "formats"
    /\ disk' = [disk EXCEPT !["formats"] = Blank] /\ mtime' = mtime + 1
    /\ Goes(t, "write")
    /\ shared' = IF \E u \in Others(t) : api[u].at \in {"write", "cache"}
                 THEN shared \cup {"formats"} ELSE shared
    /\ UNCHANGED <<draft, cached, cut, ui, landed, crashes>>

WriteFormats(t) ==
    /\ api[t].at = "write" /\ At(t) = "formats"
    /\ \E new \in Written(disk["formats"], api[t].text) :
           disk' = [disk EXCEPT !["formats"] = new]
    /\ mtime' = mtime + 1
    /\ Goes(t, "cache")
    /\ landed' = landed \cup {t[1]}
    /\ UNCHANGED <<draft, cached, cut, ui, shared, crashes>>

\* The write fails, and nothing or a part of the text is there: the thread says
\* so, and leaves what is in memory.
WriteFormatsFails(t) ==
    /\ api[t].at = "write" /\ At(t) = "formats"
    /\ \/ UNCHANGED <<disk, mtime>>
       \/ disk' = [disk EXCEPT !["formats"] = Torn] /\ mtime' = mtime + 1
    /\ Goes(t, "failed")
    /\ cut' = TRUE
    /\ UNCHANGED <<draft, cached, ui, shared, landed, crashes>>

\* ... and takes what it has written for what the file holds then.
CacheFormats(t) ==
    /\ api[t].at = "cache" /\ ~Loading
    /\ cached' = [text |-> api[t].text, at |-> mtime]
    /\ cut' = FALSE
    /\ Goes(t, "done")
    /\ UNCHANGED <<disk, draft, mtime, ui, shared, landed, crashes>>

\* temp_path.replace(profiles_path)
Swap(t) ==
    /\ api[t].at = "swap" /\ At(t) \in Profiles /\ draft[At(t)] # Absent
    /\ disk' = [disk EXCEPT ![At(t)] = draft[At(t)]]
    /\ draft' = [draft EXCEPT ![At(t)] = Absent]
    /\ api' = [Renamed(At(t), t) EXCEPT ![t].at = "done"]
    /\ landed' = landed \cup {r \in Request : \E u \in Thread :
                                  u[1] = r /\ Of(u) # NoOp /\ At(u) = At(t)
                                  /\ api[u].at = "swap" /\ api[u].text = draft[At(t)]}
    /\ UNCHANGED <<mem, ui, shared, crashes>>

\* save_profiles clears up after a failure: it removes the draft, whosever that
\* is. toggle_profile and delete_profile leave theirs.
AfterFailure(t) == IF At(t) \in Profiles /\ Of(t).by # "api" THEN "clean" ELSE "failed"

\* Another thread has taken the draft away.
SwapFails(t) ==
    /\ api[t].at = "swap" /\ At(t) \in Profiles /\ draft[At(t)] = Absent
    /\ Goes(t, AfterFailure(t))
    /\ UNCHANGED <<disk, draft, mem, ui, shared, landed, crashes>>

\* A file cannot be read, opened, renamed or removed.
FileFails(t) ==
    /\ api[t].at \in {"read", "rename", "open", "swap", "clean"}
    /\ Goes(t, IF api[t].at = "clean" THEN "failed" ELSE AfterFailure(t))
    /\ shared' = IF api[t].at = "open" /\ AfterFailure(t) = "clean" THEN Joined(t) ELSE shared
    /\ UNCHANGED <<disk, draft, mem, ui, landed, crashes>>

\* The draft cannot be written, or a part of it only.
WriteFails(t) ==
    /\ api[t].at = "write" /\ At(t) # "formats"
    /\ \/ UNCHANGED <<disk, draft>>
       \/ api[t].file = "draft" /\ draft' = [draft EXCEPT ![At(t)] = Torn] /\ UNCHANGED disk
       \/ api[t].file = "disk" /\ disk' = [disk EXCEPT ![At(t)] = Torn] /\ UNCHANGED draft
    /\ api' = [api EXCEPT ![t].at = AfterFailure(t), ![t].file = "none"]
    /\ UNCHANGED <<mem, ui, shared, landed, crashes>>

Clean(t) ==
    /\ api[t].at = "clean"
    /\ draft' = [draft EXCEPT ![At(t)] = Absent]
    /\ api' = [u \in Thread |->
                 IF u = t THEN [api[t] EXCEPT !.at = "failed"]
                 ELSE IF Of(u) # NoOp /\ At(u) = At(t) /\ api[u].file = "draft"
                 THEN [api[u] EXCEPT !.file = "gone"] ELSE api[u]]
    /\ UNCHANGED <<disk, mem, ui, shared, landed, crashes>>

\* The sentinel is restarted: its threads and its memory are gone, files stay.
Crash ==
    /\ crashes < MaxCrashes
    /\ crashes' = crashes + 1
    /\ api' = [t \in Thread |->
                 IF api[t].at \in {"none"} \cup Ended \/ At(t) = "developer" THEN api[t]
                 ELSE [api[t] EXCEPT !.at = "failed", !.file = "none"]]
    /\ cached' = Uncached /\ cut' = FALSE
    /\ pc' = [r \in Request |-> IF pc[r] = "load" THEN "answered" ELSE pc[r]]
    /\ answer' = [r \in Request |-> IF pc[r] = "load" THEN "error" ELSE answer[r]]
    /\ UNCHANGED <<disk, draft, mtime, lock, op, tries, seen, late, lapsed, shared, landed>>

-----------------------------------------------------------------------------
Interface(r) == Peek(r) \/ TakeLock(r) \/ LockIsTaken(r) \/ Fetch(r)
                \/ Hear(r) \/ HearApi(r) \/ FetchFormats(r) \/ StampFormats(r) \/ LoadFails(r)

Api(t) == \/ MergeConfig(t) \/ ReplaceConfig(t) \/ ReadFile(t) \/ RenameOwn(t)
          \/ Open(t) \/ Write(t) \/ Swap(t) \/ SwapFails(t) \/ Clean(t)
          \/ CheckImport(t) \/ TakeDefaults(t) \/ OpenFormats(t) \/ WriteFormats(t) \/ CacheFormats(t)
          \/ WriteFormatsFails(t) \/ FileFails(t) \/ WriteFails(t)

Next ==
    \/ \E r \in Request : \/ \E o \in Asked : AskApi(r, o) \/ AskLocked(r, o) \/ AskList(r, o)
                          \/ Refuse(r) \/ FetchFails(r) \/ GiveUp(r) \/ Interface(r)
    \/ \E k \in Key : LockLapses(k)
    \/ \E t \in Thread : Api(t)
    \/ Crash

Spec == Init /\ [][Next]_vars

-----------------------------------------------------------------------------
\* Properties

\* Every file, draft, lock, request and thread is of its type: only files that
\* are written through a shared name or in place are ever cut off or mixed.
TypeOK ==
    /\ \A p \in Place \ (Profiles \cup {"formats"}) : disk[p] \in Entries
    /\ \A p \in Profiles \cup {"formats"} : disk[p] \in Entries \cup {Blank, Torn}
    /\ mtime \in Nat /\ cached.text \in Entries /\ cached.at \in -1 .. mtime
    /\ \A p \in Profiles : draft[p] \in Entries \cup {Absent, Blank, Torn}
    /\ lock \in [Key -> Request \cup {Free}]
    /\ op \in [Request -> Asked \cup {NoOp}]
    /\ pc \in [Request -> {"idle", "peek", "lock", "fetch", "load", "wait", "answered"}]
    /\ tries \in [Request -> 1 .. MaxTries]
    /\ seen \in [Request -> Entries]
    /\ answer \in [Request -> {"none", "ok", "error"}]
    /\ \A t \in Thread :
          /\ api[t].at \in {"none", "read", "rename", "open", "write", "swap",
                          "clean", "cache"} \cup Ended
          /\ api[t].text \in Entries /\ api[t].rest \in Entries
          /\ api[t].file \in {"none", "draft", "disk", "gone"}
    /\ shared \subseteq Profiles \cup {"formats"} /\ landed \subseteq Request
    /\ late \in BOOLEAN /\ cut \in BOOLEAN /\ lapsed \subseteq Key /\ crashes \in 0 .. MaxCrashes

\* The formats in memory are those of the file whenever no thread is saving
\* any, or they are older than the file and will be read again. Two threads
\* that save at once may leave them those of the one with the mtime of the
\* other (load_message_formats, save_message_formats).
FormatsAreCurrent ==
    (\A t \in Thread : Of(t) # NoOp /\ At(t) = "formats" => api[t].at \notin {"write", "cache"})
      => \/ cached.at < mtime
         \/ cached.text = Read("formats")

\* A file of profiles is never empty or torn, whatever requests are under way,
\* whatever write fails and whenever the sentinel dies, as long as no two
\* threads have had its one temporary file together (save_profiles: "Write to
\* temp file first for atomicity"); and the formats messages are made from are
\* those of the file, but for the time after a saving that failed half way,
\* until the next that does not or a restart.
WholeUnlessShared ==
    /\ \A p \in Profiles \ shared : disk[p] \notin {Blank, Torn}
    /\ "formats" \notin shared /\ ~cut => FormatsAreCurrent

\* What the interface reports as done has been in the file: only the removal
\* of a profile that is not there and a page with nothing to migrate succeed
\* without writing, and a download. Under a shared temporary file a thread may rename the text
\* of another and report its own as saved.
OkMeansWritten ==
    \A r \in Request :
        answer[r] = "ok" /\ op[r].place \notin shared =>
            \/ r \in landed
            \/ op[r].kind = "remove" /\ \E n \in 1 .. tries[r] : api[<<r, n>>].at = "notfound"
            \/ op[r].kind \in {"page", "show"}

AloneOnChannel(r) ==
    \A x \in Request \ {r} :
        \/ op[x] = NoOp
        \/ op[x].place \notin Config
        \/ Locked(op[x]) /\ op[x].key = op[r].key

\* An edit of a channel reported as done, with nobody editing another list or
\* entry of tgsentinel.yml and no request timed out.
Reported(r) ==
    /\ answer[r] = "ok" /\ ~late
    /\ Locked(op[r]) /\ op[r].kind = "edit" /\ AloneOnChannel(r)

Survives(r) == LET e == disk["channels"][op[r].key] IN e # Absent /\ r \in e.shown

\* Edits of one channel are serialised by its lock: once reported, an edit
\* stays through later edits of that channel, through retries, failing writes,
\* locks that were not given back and restarts, as long as nobody edits another
\* list or entry of tgsentinel.yml, no request has timed out while its thread
\* went on, and no attempt under way has outlived its lock (update_channel:
\* "Uses distributed locking via Redis to prevent concurrent update conflicts";
\* its lock lasts 25 seconds, "safe for ~15s operation with buffer", and an
\* attempt in which no request times out may take longer).
LockedEditsSurvive ==
    \A r \in Request : Reported(r) /\ op[r].key \notin lapsed => Survives(r)

=============================================================================
