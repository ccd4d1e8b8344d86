---------------------------- MODULE SessionCaches ----------------------------
(***************************************************************************)
(* Whose channels and users the user interface is shown: the cache         *)
(* refresher of cache_manager.py and the handlers that serve from the      *)
(* caches, next to the session they are told apart by. Each step ends at   *)
(* an await.                                                               *)
(*                                                                         *)
(* Phone log-ins are left out: one that races the start-up can change the  *)
(* account of the client in use without opening a generation for it (see   *)
(* SessionLifecycle), and then nothing here tells the caches apart.        *)
(***************************************************************************)
EXTENDS SessionLifecycle

CONSTANT MaxGeneration  \* bound: generations of a process that are followed

ASSUME CachesAssumption == MaxGeneration \in Nat \ {0}

Generation == 1 .. MaxGeneration
Nobody == 0             \* no generation

VARIABLES
    refresher,      \* what channels_users_cache_refresher awaits
    mine,           \* my_generation
    warm,           \* in the initial warm-up of the generation
    source,         \* the client get_dialogs was called on
    dialogs,        \* whose dialogs it returned, NoUser for an empty list
    nudged,         \* a session_authorized event waits in its subscription
    ready,          \* cache_ready_event.is_set()
    \* Redis
    cached,         \* whose channels and users the global keys hold
    scoped,         \* generation -> whose those of its own keys are
    \* a handler of the interface's requests (chats, dialogs, users)
    handler,        \* "off", "waiting" or "serving"
    serves,         \* the generation it serves
    \* history
    accounts        \* generation -> the account it was opened for

tasks     == <<refresher, mine, warm, source, dialogs, nudged, ready>>
redis     == <<cached, scoped>>
handling  == <<handler, serves>>
cacheVars == <<tasks, redis, handling, accounts>>
allVars   == <<vars, cacheVars>>

CInit ==
    /\ Init
    /\ refresher = "off" /\ mine = Nobody /\ warm = FALSE
    /\ source = None /\ dialogs = NoUser /\ nudged = FALSE /\ ready = FALSE
    /\ cached = NoUser /\ scoped = [g \in Generation |-> NoUser]
    /\ handler = "off" /\ serves = Nobody
    /\ accounts = [g \in Generation |-> NoUser]

\* The session's own steps.
CStartProcess ==
    /\ StartProcess
    /\ refresher' = "off" /\ mine' = Nobody /\ warm' = FALSE
    /\ source' = None /\ dialogs' = NoUser /\ nudged' = FALSE /\ ready' = FALSE
    /\ handler' = "off" /\ serves' = Nobody
    /\ accounts' = [g \in Generation |-> NoUser]
    /\ UNCHANGED redis

CStartWorkers ==
    /\ StartWorkers
    /\ refresher' = "outer" /\ handler' = "waiting"
    /\ UNCHANGED <<mine, warm, source, dialogs, nudged, ready, redis, serves, accounts>>

\* A generation is opened for the account of the client in use, or of the one
\* just imported; handle_session_import publishes session_authorized first.
Opens(u) == accounts' = [accounts EXCEPT ![generation + 1] = u]

CAuthorize ==
    /\ generation < MaxGeneration
    /\ \/ CheckFindsUser /\ Opens(account[inUse]) /\ UNCHANGED nudged
       \/ ImportSucceeds /\ Opens(account[made]) /\ nudged' = (refresher # "off")
    /\ UNCHANGED <<refresher, mine, warm, source, dialogs, ready, redis, handling>>

\* clear_user_session_data deletes the global keys.
CLogoutClear ==
    /\ LogoutClear
    /\ cached' = NoUser
    /\ UNCHANGED <<tasks, scoped, handling, accounts>>

CCrash ==
    /\ Crash
    /\ refresher' = "off" /\ handler' = "off"
    /\ UNCHANGED <<mine, warm, source, dialogs, nudged, ready, redis, serves, accounts>>

CInterface ==
    /\ \/ \E a \in Account : Upload(a)
       \/ AskLogout
    /\ UNCHANGED cacheVars

CSession ==
    /\ \/ Connect \/ CheckFindsNobody \/ WaitOver \/ StartIngestion
       \/ ImportDisconnect \/ ImportMakeClient \/ ImportConnect \/ ImportFails
       \/ LogoutDisconnect \/ LogoutDelete
    /\ UNCHANGED cacheVars

-----------------------------------------------------------------------------
\* channels_users_cache_refresher

\* Mutant: the generation to come is taken for the one that is there.
CaptureNextGeneration ==
    /\ refresher = "outer"
    /\ authorized \/ authEvent
    /\ mine' = generation + 1 /\ warm' = TRUE
    /\ refresher' = "connect"
    /\ UNCHANGED <<vars, source, dialogs, nudged, ready, redis, handling, accounts>>

CaptureGeneration ==
    /\ refresher = "outer"
    /\ authorized \/ authEvent
    /\ mine' = generation /\ warm' = TRUE
    /\ refresher' = "connect"
    /\ UNCHANGED <<vars, source, dialogs, nudged, ready, redis, handling, accounts>>

\* _get_cached_dialogs connects the helpers' client and then asks the one in
\* use.
AskDialogs ==
    /\ refresher = "connect"
    /\ up' = up \cup {helped}
    /\ source' = inUse
    /\ refresher' = "fetch"
    /\ UNCHANGED <<file, made, account, heard, onDisk, users, shared, boot,
                   events, auth, bounds>>
    /\ UNCHANGED <<mine, warm, dialogs, nudged, ready, redis, handling, accounts>>

GetDialogs ==
    /\ refresher = "fetch"
    /\ source \in up /\ account[source] # NoUser
    /\ dialogs' = account[source]
    /\ refresher' = "store"
    /\ UNCHANGED <<vars, mine, warm, source, nudged, ready, redis, handling, accounts>>

\* After 60 seconds an empty list is returned, which is stored like another.
DialogsTimeOut ==
    /\ refresher = "fetch"
    /\ dialogs' = NoUser
    /\ refresher' = "store"
    /\ UNCHANGED <<vars, mine, warm, source, nudged, ready, redis, handling, accounts>>

\* perform_cache_refresh returns.
RefreshEnds == refresher' = IF warm THEN "warmed" ELSE "periodic"

\* The refresh is given up, and the warm-up ends all the same.
DialogsFail ==
    /\ refresher \in {"connect", "fetch"}
    /\ RefreshEnds
    /\ UNCHANGED <<vars, mine, warm, source, dialogs, nudged, ready, redis,
                   handling, accounts>>

\* Mutant: the keys of the generation of the moment are written.
StoreUnderLatest ==
    /\ refresher = "store"
    /\ scoped' = [scoped EXCEPT ![generation] = dialogs]
    /\ cached' = dialogs
    /\ refresher' = "announce"
    /\ UNCHANGED <<vars, mine, warm, source, dialogs, nudged, ready, handling, accounts>>

\* The keys of the generation and the global ones, each from a thread; only the
\* log-out writes them besides, and it deletes the global ones.
StoreCaches ==
    /\ refresher = "store"
    /\ scoped' = [scoped EXCEPT ![mine] = dialogs]
    /\ cached' = dialogs
    /\ refresher' = "announce"
    /\ UNCHANGED <<vars, mine, warm, source, dialogs, nudged, ready, handling, accounts>>

\* cache_ready_event, the first time in a generation; then the avatars of those
\* that have a photo.
Announce ==
    /\ refresher = "announce"
    /\ ready' = TRUE
    /\ \/ RefreshEnds
       \/ dialogs # NoUser /\ refresher' = "avatars"
    /\ UNCHANGED <<vars, mine, warm, source, dialogs, nudged, redis, handling, accounts>>

\* cache_avatars_parallel: ten at a time, a failing one is counted and left. It
\* ends with the last batch, or with the first in a later generation.
AvatarsEnd ==
    /\ refresher = "avatars"
    /\ RefreshEnds
    /\ UNCHANGED <<vars, mine, warm, source, dialogs, nudged, ready, redis,
                   handling, accounts>>

WarmUpEnds ==
    /\ refresher = "warmed"
    /\ refresher' = IF generation # mine THEN "outer" ELSE "periodic"
    /\ warm' = FALSE
    /\ UNCHANGED <<vars, mine, source, dialogs, nudged, ready, redis, handling, accounts>>

\* A new generation, no authorization, or a session_authorized event. An event
\* about the generation just warmed up costs another warm-up.
GenerationEnds ==
    /\ refresher = "periodic"
    /\ ~authorized \/ generation # mine \/ nudged
    /\ nudged' = FALSE
    /\ ready' = FALSE
    /\ refresher' = "outer"
    /\ UNCHANGED <<vars, mine, warm, source, dialogs, redis, handling, accounts>>

\* Mutant: only caches that are ready are refreshed.
RefreshReady ==
    /\ refresher = "periodic"
    /\ authorized /\ generation = mine /\ ~nudged /\ ready
    /\ refresher' = "connect"
    /\ UNCHANGED <<vars, mine, warm, source, dialogs, nudged, ready, redis,
                   handling, accounts>>

\* Every ten minutes.
RefreshAgain ==
    /\ refresher = "periodic"
    /\ authorized /\ generation = mine /\ ~nudged
    /\ refresher' = "connect"
    /\ UNCHANGED <<vars, mine, warm, source, dialogs, nudged, ready, redis,
                   handling, accounts>>

-----------------------------------------------------------------------------
\* BaseRequestHandler.handle_requests

HandlerStarts ==
    /\ handler = "waiting"
    /\ authorized \/ authEvent
    /\ ready
    /\ serves' = generation
    /\ handler' = "serving"
    /\ UNCHANGED <<vars, tasks, redis, accounts>>

\* When it answers requests, with what the global keys hold.
Serving ==
    /\ Running /\ handler = "serving"
    /\ authorized /\ generation = serves

HandlerStops ==
    /\ handler = "serving"
    /\ ~authorized \/ generation # serves
    /\ handler' = "waiting"
    /\ UNCHANGED <<vars, tasks, redis, serves, accounts>>

-----------------------------------------------------------------------------
Refresh ==
    /\ Running
    /\ \/ CaptureGeneration \/ AskDialogs
       \/ GetDialogs \/ DialogsTimeOut \/ DialogsFail
       \/ StoreCaches \/ Announce \/ AvatarsEnd \/ WarmUpEnds \/ GenerationEnds \/ RefreshAgain
Handle == Running /\ (HandlerStarts \/ HandlerStops)

CNext ==
    \/ CStartProcess \/ CStartWorkers \/ CAuthorize \/ CLogoutClear \/ CCrash
    \/ CSession \/ CInterface
    \/ Refresh \/ Handle

\* The event loop runs the refresher and the handler, and Telegram takes the
\* connection of, and answers, one that keeps asking; nothing else has to move.
CFairness ==
    /\ WF_allVars(Refresh) /\ WF_allVars(Handle)
    /\ SF_allVars(Running /\ AskDialogs) /\ SF_allVars(Running /\ GetDialogs)

CSpec == CInit /\ [][CNext]_allVars
CFairSpec == CSpec /\ CFairness

-----------------------------------------------------------------------------
(***************************************************************************)
(* Properties                                                              *)
(***************************************************************************)

\* Every variable has its type; the session's variables have SessionLifecycle's.
CTypeOK ==
    /\ refresher \in {"off", "outer", "connect", "fetch", "store", "announce",
                      "avatars", "warmed", "periodic"}
    /\ mine \in 0 .. MaxGeneration /\ warm \in BOOLEAN
    /\ source \in 0 .. made \cup Client /\ dialogs \in Account
    /\ nudged \in BOOLEAN /\ ready \in BOOLEAN
    /\ cached \in Account /\ scoped \in [Generation -> Account]
    /\ handler \in {"off", "waiting", "serving"}
    /\ serves \in 0 .. MaxGeneration
    /\ accounts \in [Generation -> Account]

\* What is stored under a generation's keys is never of an account that was
\* replaced before that generation began: the refresher notes the generation
\* before it asks for the dialogs, and the client in use only moves forward.
StoredIsNotOlder ==
    [][\A g \in Generation :
         scoped'[g] \notin {scoped[g], NoUser}
           => \E h \in g .. MaxGeneration : accounts[h] = scoped'[g]]_allVars

\* After any switch the channels and users shown become those of the new
\* account, and the handlers serve it, as long as its client stays connected:
\* a failed, timed-out or overtaken refresh is followed by another.
OwnCachesEventually ==
    \A g \in Generation :
        (boot = "running" /\ generation = g /\ inUse \in up)
          ~> \/ cached = accounts[g] /\ Serving /\ serves = g
             \/ boot # "running" \/ generation # g \/ inUse \notin up

=============================================================================
