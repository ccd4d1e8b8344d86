-------------------------- MODULE SessionLifecycle --------------------------
(***************************************************************************)
(* Which Telegram account the sentinel works for: the start-up of main.py, *)
(* the session monitor (uploaded sessions, log-outs), the phone log-in of  *)
(* AuthManager, and the references to a Telethon client each part holds.   *)
(* The tasks interleave at every await; what runs without one is a step.   *)
(*                                                                         *)
(* The relogin coordinator has no caller in the user interface, so its     *)
(* gate stays open here and it replaces no client.                         *)
(***************************************************************************)
EXTENDS Integers, Sequences

CONSTANTS
    User,           \* Telegram accounts
    NoUser,         \* a session that signs nobody in
    FirstFile,      \* accounts the session file may sign in before the first start
    MaxUploads,     \* bound: session files uploaded
    MaxLogouts,     \* bound: log-outs asked in the user interface
    MaxLogins,      \* bound: phone log-ins asked in the user interface
    MaxCrashes      \* bound: ends of the process

ASSUME SessionAssumption ==
    /\ NoUser \notin User
    /\ FirstFile \subseteq User \cup {NoUser}
    /\ MaxUploads \in Nat /\ MaxLogouts \in Nat
    /\ MaxLogins \in Nat /\ MaxCrashes \in Nat

Account == User \cup {NoUser}
\* A process makes one client at start-up and one per upload or log-out.
Client == 1 .. (1 + MaxUploads + MaxLogouts)
None == 0               \* no client
Idle == "idle"

VARIABLES
    file,           \* the account the session file on disk signs in
    \* the clients of the running process
    made,           \* how many it has made; the latest is number made
    account,        \* client -> the account its session signs in
    up,             \* connected clients
    heard,          \* clients with the ingestion handler registered
    onDisk,         \* clients whose session is stored in the file on disk
    \* who uses which
    inUse,          \* client_ref_dict["value"]
    helped,         \* the client of SessionHelpers and AuthManager
    asked,          \* the client of ParticipantInfoHandler, None before it exists
    working,        \* the client the workers were started with
    \* state shared by the tasks
    authorized,     \* main's authorized
    rejecting,      \* AuthManager.authorized
    authEvent,      \* auth_event.is_set()
    generation,     \* session_generation
    \* the tasks
    boot,           \* where main() is
    inbox,          \* events published to the monitor's subscription
    monitor,        \* what monitor_session_events awaits
    requests,       \* the accounts whose log-ins wait in the auth queue
    login,          \* what the auth worker awaits
    signingIn,      \* the account of the request it handles
    \* bounds
    uploads, logouts, logins, crashes

clients == <<made, account, up, heard, onDisk>>
users   == <<inUse, helped, asked, working>>
shared  == <<authorized, rejecting, authEvent, generation>>
events  == <<inbox, monitor>>
auth    == <<requests, login, signingIn>>
bounds  == <<uploads, logouts, logins, crashes>>
vars    == <<file, clients, users, shared, boot, events, auth, bounds>>

\* A wait_for on a set event returns without suspending: with authorized
\* False and the event set, main() never gives the event loop back.
Spinning == boot = "waiting" /\ authEvent /\ ~authorized
Running  == boot # "down" /\ ~Spinning

Listening == boot \notin {"down", "connecting"}     \* monitor has subscribed

Init ==
    /\ file \in FirstFile
    /\ made = 0 /\ account = [c \in Client |-> NoUser]
    /\ up = {} /\ heard = {} /\ onDisk = {}
    /\ inUse = None /\ helped = None /\ asked = None /\ working = None
    /\ authorized = FALSE /\ rejecting = FALSE /\ authEvent = FALSE
    /\ generation = 0
    /\ boot = "down"
    /\ inbox = <<>> /\ monitor = Idle
    /\ requests = <<>> /\ login = Idle /\ signingIn = NoUser
    /\ uploads = 0 /\ logouts = 0 /\ logins = 0 /\ crashes = 0

-----------------------------------------------------------------------------
\* Shared steps

\* Mutant: the client is not counted, so the next one takes its place.
MakeClientInPlace(who, stored) ==
    /\ made' = made
    /\ account' = [account EXCEPT ![made + 1] = who]
    /\ onDisk' = IF stored THEN onDisk \cup {made + 1} ELSE onDisk

\* TelegramClient(session): not connected, with the session given to it.
MakeClient(who, stored) ==
    /\ made' = made + 1
    /\ account' = [account EXCEPT ![made + 1] = who]
    /\ onDisk' = IF stored THEN onDisk \cup {made + 1} ELSE onDisk

\* The helpers, the auth manager and, once it exists, the participant handler.
UpdateClient(c) ==
    /\ helped' = c
    /\ asked' = IF asked = None THEN None ELSE c

\* Mutant: the old client is left connected, with its handlers.
DisconnectNothing ==
    UNCHANGED <<up, heard>>

\* What happens to a client that is connected when it is replaced.
DisconnectInUse ==
    /\ up' = up \ {inUse}
    /\ heard' = IF inUse \in up THEN heard \ {inUse} ELSE heard

\* _mark_authorized
MarkAuthorized ==
    /\ authorized' = TRUE /\ rejecting' = TRUE /\ authEvent' = TRUE
    /\ generation' = generation + 1

-----------------------------------------------------------------------------
\* main()

StartProcess ==
    /\ boot = "down"
    /\ boot' = "connecting"
    /\ made' = 1
    /\ account' = [c \in Client |-> IF c = 1 THEN file ELSE NoUser]
    /\ up' = {} /\ heard' = {} /\ onDisk' = {1}
    /\ inUse' = 1 /\ helped' = 1 /\ asked' = None /\ working' = None
    /\ authorized' = FALSE /\ rejecting' = FALSE /\ authEvent' = FALSE
    /\ generation' = 0
    /\ requests' = <<>>
    /\ UNCHANGED <<file, events, login, signingIn, bounds>>

Connect ==
    /\ boot = "connecting"
    /\ boot' = "checking"
    /\ up' = up \cup {1}
    /\ UNCHANGED <<file, made, account, heard, onDisk, users, shared, events,
                   auth, bounds>>

\* get_me(), or is_user_authorized() after it failed, names an account.
CheckFindsUser ==
    /\ boot = "checking"
    /\ inUse \in up /\ account[inUse] # NoUser
    /\ MarkAuthorized
    /\ boot' = "starting"
    /\ UNCHANGED <<file, clients, users, events, auth, bounds>>

\* Nobody is signed in, or neither call answers in time. The result is
\* assigned to authorized, whatever another task has done meanwhile.
CheckFindsNobody ==
    /\ boot = "checking"
    /\ authorized' = FALSE
    /\ boot' = "waiting"
    /\ UNCHANGED <<file, clients, users, rejecting, authEvent, generation,
                   events, auth, bounds>>

\* Mutant: main() waits for the event instead of the flag.
WaitOverByEvent ==
    /\ boot = "waiting" /\ authorized /\ authEvent
    /\ boot' = "starting"
    /\ UNCHANGED <<file, clients, users, shared, events, auth, bounds>>

WaitOver ==
    /\ boot = "waiting" /\ authorized
    /\ boot' = "starting"
    /\ UNCHANGED <<file, clients, users, shared, events, auth, bounds>>

\* main's own client, not the one in client_ref_dict.
StartIngestion ==
    /\ Running /\ boot = "starting"
    /\ heard' = heard \cup {1}
    /\ boot' = "wiring"
    /\ UNCHANGED <<file, made, account, up, onDisk, users, shared, events,
                   auth, bounds>>

\* worker() and unified_digest_worker() look the client up when they start.
StartWorkers ==
    /\ boot = "wiring"
    /\ asked' = 1 /\ working' = inUse
    /\ boot' = "running"
    /\ UNCHANGED <<file, clients, inUse, helped, shared, events, auth, bounds>>

-----------------------------------------------------------------------------
\* monitor_session_events: one event at a time

ImportDisconnect ==
    /\ Running /\ monitor = Idle
    /\ inbox # <<>> /\ Head(inbox) = "session_imported"
    /\ inbox' = Tail(inbox)
    /\ DisconnectInUse
    /\ monitor' = "replacing"
    /\ UNCHANGED <<file, made, account, onDisk, users, shared, boot, auth, bounds>>

\* From here on the helpers use a client that may never be signed in.
ImportMakeClient ==
    /\ Running /\ monitor = "replacing"
    /\ MakeClient(file, TRUE)
    /\ UpdateClient(made + 1)
    /\ monitor' = "connecting"
    /\ UNCHANGED <<file, up, heard, inUse, working, shared, boot, inbox, auth, bounds>>

ImportConnect ==
    /\ Running /\ monitor = "connecting"
    /\ up' = up \cup {made}
    /\ monitor' = "verifying"
    /\ UNCHANGED <<file, made, account, heard, onDisk, users, shared, boot,
                   inbox, auth, bounds>>

\* Mutant: a session that signs nobody in is waited for.
ImportFailsByTimeout ==
    /\ Running /\ monitor = "connecting"
    /\ monitor' = Idle
    /\ UNCHANGED <<file, clients, users, shared, boot, inbox, auth, bounds>>

\* A timeout, an error, or a session that signs nobody in: None is returned
\* and nothing of the above is taken back.
ImportFails ==
    /\ Running /\ monitor \in {"connecting", "verifying"}
    /\ monitor' = Idle
    /\ UNCHANGED <<file, clients, users, shared, boot, inbox, auth, bounds>>

ImportSucceeds ==
    /\ Running /\ monitor = "verifying"
    /\ account[made] # NoUser
    /\ heard' = heard \cup {made}
    /\ inUse' = made
    /\ MarkAuthorized
    /\ monitor' = Idle
    /\ UNCHANGED <<file, made, account, up, onDisk, helped, asked, working,
                   boot, inbox, auth, bounds>>

LogoutDisconnect ==
    /\ Running /\ monitor = Idle
    /\ inbox # <<>> /\ Head(inbox) = "session_logout"
    /\ inbox' = Tail(inbox)
    /\ DisconnectInUse
    /\ monitor' = "deleting"
    /\ UNCHANGED <<file, made, account, onDisk, users, shared, boot, auth, bounds>>

LogoutDelete ==
    /\ Running /\ monitor = "deleting"
    /\ file' = NoUser
    /\ onDisk' = {}
    /\ monitor' = "clearing"
    /\ UNCHANGED <<made, account, up, heard, users, shared, boot, inbox, auth, bounds>>

\* authorized_ref is the monitor's own copy: main's and the auth manager's
\* flags stay as they are. The replacement is kept in memory only.
LogoutClear ==
    /\ Running /\ monitor = "clearing"
    /\ authEvent' = FALSE
    /\ MakeClient(NoUser, FALSE)
    /\ UpdateClient(made + 1)
    /\ monitor' = Idle
    /\ UNCHANGED <<file, up, heard, inUse, working, authorized, rejecting,
                   generation, boot, inbox, auth, bounds>>

-----------------------------------------------------------------------------
\* auth_queue_worker: one request at a time

RejectLogin ==
    /\ Running /\ login = Idle /\ requests # <<>>
    /\ rejecting
    /\ requests' = Tail(requests)
    /\ UNCHANGED <<file, clients, users, shared, boot, events, login,
                   signingIn, bounds>>

TakeLogin ==
    /\ Running /\ login = Idle /\ requests # <<>>
    /\ ~rejecting
    /\ signingIn' = Head(requests)
    /\ requests' = Tail(requests)
    /\ login' = "signing"
    /\ UNCHANGED <<file, clients, users, shared, boot, events, bounds>>

SignIn ==
    /\ Running /\ login = "signing"
    /\ up' = up \cup {helped}
    /\ account' = [account EXCEPT ![helped] = signingIn]
    /\ file' = IF helped \in onDisk THEN signingIn ELSE file
    /\ login' = "confirming"
    /\ UNCHANGED <<made, heard, onDisk, users, shared, boot, events, requests,
                   signingIn, bounds>>

\* get_me() on the client the manager has by then.
LoginSucceeds ==
    /\ Running /\ login = "confirming"
    /\ helped \in up /\ account[helped] # NoUser
    /\ MarkAuthorized
    /\ login' = Idle /\ signingIn' = NoUser
    /\ UNCHANGED <<file, clients, users, boot, events, requests, bounds>>

LoginFails ==
    /\ Running /\ login # Idle
    /\ login' = Idle /\ signingIn' = NoUser
    /\ UNCHANGED <<file, clients, users, shared, boot, events, requests, bounds>>

-----------------------------------------------------------------------------
\* The user interface, and the end of the process

\* POST /api/session/import replaces the file, then publishes. The format of
\* the file is validated, not whether Telegram still accepts its key.
Upload(a) ==
    /\ boot # "down" /\ uploads < MaxUploads
    /\ file' = a
    /\ onDisk' = {}
    /\ inbox' = IF Listening THEN Append(inbox, "session_imported") ELSE inbox
    /\ uploads' = uploads + 1
    /\ UNCHANGED <<made, account, up, heard, users, shared, boot, monitor,
                   auth, logouts, logins, crashes>>

\* POST /api/session/logout of the user interface: a pub/sub message reaches
\* who is subscribed at that moment.
AskLogout ==
    /\ logouts < MaxLogouts
    /\ inbox' = IF Listening THEN Append(inbox, "session_logout") ELSE inbox
    /\ logouts' = logouts + 1
    /\ UNCHANGED <<file, clients, users, shared, boot, monitor, auth, uploads,
                   logins, crashes>>

AskLogin(u) ==
    /\ logins < MaxLogins
    /\ requests' = Append(requests, u)
    /\ logins' = logins + 1
    /\ UNCHANGED <<file, clients, users, shared, boot, events, login,
                   signingIn, uploads, logouts, crashes>>

Crash ==
    /\ boot # "down" /\ crashes < MaxCrashes
    /\ boot' = "down"
    /\ inbox' = <<>> /\ monitor' = Idle
    /\ login' = Idle /\ signingIn' = NoUser
    /\ up' = {}
    /\ crashes' = crashes + 1
    /\ UNCHANGED <<file, made, account, heard, onDisk, users, shared, requests,
                   uploads, logouts, logins>>

-----------------------------------------------------------------------------
Main ==
    \/ Connect \/ CheckFindsUser \/ CheckFindsNobody \/ WaitOver
    \/ StartIngestion
Monitor ==
    \/ ImportDisconnect \/ ImportMakeClient \/ ImportConnect
    \/ ImportFails \/ ImportSucceeds
    \/ LogoutDisconnect \/ LogoutDelete
AuthWorker ==
    RejectLogin \/ TakeLogin \/ SignIn \/ LoginSucceeds \/ LoginFails
Interface ==
    \/ \E a \in Account : Upload(a)
    \/ AskLogout
    \/ \E u \in User : AskLogin(u)

Next ==
    \/ StartProcess \/ Main \/ StartWorkers
    \/ Monitor \/ LogoutClear \/ AuthWorker \/ Interface \/ Crash

\* The event loop runs main() and the monitor whenever they can go on, and the
\* container restarts a process that has ended.
Fairness ==
    /\ WF_vars(StartProcess)
    /\ WF_vars(Main) /\ WF_vars(StartWorkers) /\ WF_vars(Monitor) /\ WF_vars(LogoutClear)

Spec == Init /\ [][Next]_vars
FairSpec == Spec /\ Fairness

-----------------------------------------------------------------------------
(***************************************************************************)
(* Properties                                                              *)
(***************************************************************************)

\* Every variable has its type, and a client that is referred to was made.
TypeOK ==
    /\ file \in Account
    /\ made \in 0 .. (1 + MaxUploads + MaxLogouts)
    /\ account \in [Client -> Account]
    /\ up \subseteq 1 .. made /\ heard \subseteq 1 .. made /\ onDisk \subseteq 1 .. made
    /\ inUse \in 0 .. made /\ helped \in 0 .. made
    /\ asked \in 0 .. made /\ working \in 0 .. made
    /\ authorized \in BOOLEAN /\ rejecting \in BOOLEAN /\ authEvent \in BOOLEAN
    /\ generation \in Nat
    /\ boot \in {"down", "connecting", "checking", "waiting", "starting",
                 "wiring", "running"}
    /\ inbox \in Seq({"session_imported", "session_logout"})
    /\ monitor \in {Idle, "replacing", "connecting", "verifying", "deleting",
                    "clearing"}
    /\ requests \in Seq(User) /\ login \in {Idle, "signing", "confirming"}
    /\ signingIn \in Account
    /\ uploads \in 0 .. MaxUploads /\ logouts \in 0 .. MaxLogouts
    /\ logins \in 0 .. MaxLogins /\ crashes \in 0 .. MaxCrashes

\* Uploaded sessions and log-outs alone never leave an account that was
\* replaced being listened to: the only client that is connected and has the
\* ingestion handler is the one in use (handle_session_import removes the old
\* client's handlers before it registers the new one). A phone log-in breaks
\* this: it can connect the first client again while an import has only
\* disconnected it, and main() then registers ingestion on that client.
OnlyInUseIsHeard == logins = 0 => up \cap heard \subseteq {inUse}

\* After a log-out nothing is ingested until somebody is signed in again:
\* while the authorization event is clear no connected client has the handler.
HeardOnlyWhileAuthorized == logins = 0 /\ up \cap heard # {} => authEvent

\* An event the monitor has received is taken, an import that hangs or fails
\* before it notwithstanding, unless the process ends or main() spins: the
\* monitor awaits nothing without a timeout.
ReceivedEventsAreTaken == inbox # <<>> ~> (inbox = <<>> \/ Spinning)

\* Whoever is authorized gets the workers: main() leaves every wait of the
\* start-up once the authorization is recorded.
AuthorizedStarts == authorized ~> (boot = "running" \/ ~authorized)

-----------------------------------------------------------------------------
(***************************************************************************)
(* What the repository says and the code does not do                       *)
(***************************************************************************)

\* After a log-out the interface says "You may re-login": no log-in is
\* rejected as "already authorized" while nobody is.
LoginServedWhenLoggedOut == [][RejectLogin => authEvent]_vars

=============================================================================
