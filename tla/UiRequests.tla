----------------------------- MODULE UiRequests -----------------------------
(***************************************************************************)
(* What the web interface asks of the sentinel through Redis, and what it  *)
(* tells its user: lists of chats and users, information about a chat or a *)
(* user, a test message, and the three requests of a phone log-in. A       *)
(* thread of Flask writes a key or a queue entry and polls for an answer   *)
(* until it gives up; the sentinel's handlers scan for the keys, and its   *)
(* auth worker takes the queue. Neither side sees more of the other.       *)
(*                                                                         *)
(* Which client and whose lists an answer comes from is the subject of     *)
(* SessionLifecycle and SessionCaches; here a session is there or not.     *)
(* Early returns on a malformed request change nothing and are left out.   *)
(***************************************************************************)
EXTENDS Integers, Sequences, FiniteSets

CONSTANTS
    Thread,         \* threads of the interface; each serves one request
    Stamp,          \* milliseconds that name the requests for users
    Shared,         \* the id of a key that names no request
    NoKey, NoLogin,
    Asking,         \* the kinds of requests made
    MaxSwitches,    \* bound: imports and log-outs
    MaxCrashes,     \* bound: ends of the sentinel's process
    MaxFaults       \* bound: Redis calls of the log-in context that fail,
                    \* and deletions of one test request that do

Kind == {"chats", "users", "chatInfo", "userInfo", "test",
         "start", "resend", "verify"}

ASSUME RequestsAssumption ==
    /\ IsFiniteSet(Thread)
    /\ Thread \cap Stamp = {} /\ Shared \notin Thread \cup Stamp
    /\ NoKey \notin Kind \X (Thread \cup Stamp \cup {Shared})
    /\ Asking \subseteq Kind
    /\ MaxSwitches \in Nat /\ MaxCrashes \in Nat /\ MaxFaults \in Nat

Info    == {"chatInfo", "userInfo"}
Code    == {"start", "resend"}
Login   == Code \cup {"verify"}
Handler == {"participant", "test"}     \* those that await Telegram
Hash    == Nat                         \* phone_code_hash: the number of the code

\* A request's key ends in a uuid, in the time of day, or in the ids of the
\* chat and the user it is about.
Key == ({"chats", "test"} \X Thread) \cup ({"users"} \X Stamp)
         \cup (Info \X {Shared})

VARIABLES
    \* the interface's threads
    asked,          \* what the thread was asked for, "nothing" before
    key,            \* the key it has written
    told,           \* what it has answered, "waiting" while it polls
    \* Redis
    requests,       \* the request keys
    reply,          \* request key -> what its response key holds
    info,           \* the kinds of information cached in tgsentinel:participant:*
    lists,          \* cached_channels and cached_users are there
    queue,          \* auth_queue
    answers,        \* auth_responses: thread -> [ok, hash]
    context,        \* the log-in context: [redis, file], the hash each holds
    advertised,     \* worker_status says authorized
    \* the sentinel
    up,             \* its process runs
    session,        \* the client in use is signed in and connected
    authorized,     \* main's flag; a log-out leaves it
    generation,     \* session_generation
    ready,          \* cache_ready_event
    mine,           \* handler -> my_generation, 0 between its passes
    batch,          \* handler -> the requests of its scan still to serve
    doing,          \* handler -> the request it awaits Telegram for
    delivered,      \* the test message of that request has been sent
    signing,        \* the log-in request the auth worker handles
    issued,         \* the number of the last code Telegram has sent
    \* history
    sent,           \* thread -> how often its test message was sent
    kept,           \* thread -> how often its test request was not deleted
    signedBy,       \* threads whose verification signed in
    excused,        \* the context may hold an old hash, see LatestCodeKept
    switches, crashes, faults

threads  == <<asked, key, told>>
redis    == <<requests, reply, info, lists, advertised>>
phone    == <<queue, answers, context, signing, issued, signedBy, excused, faults>>
life     == <<up, session, authorized, generation, ready>>
handlers == <<mine, batch, doing, delivered>>
tally    == <<sent, kept>>
vars     == <<threads, redis, phone, life, handlers, tally, switches, crashes>>

NoAnswer == [ok |-> FALSE, hash |-> -1]

Init ==
    /\ asked = [t \in Thread |-> "nothing"] /\ key = [t \in Thread |-> NoKey]
    /\ told = [t \in Thread |-> "nothing"]
    /\ requests = {} /\ reply = [k \in Key |-> "none"]
    /\ info = {} /\ lists = FALSE
    /\ queue = <<>> /\ answers = [t \in Thread |-> NoAnswer]
    /\ context = [redis |-> 0, file |-> 0] /\ advertised = FALSE
    /\ up = FALSE /\ session \in BOOLEAN /\ authorized = FALSE
    /\ generation = 0 /\ ready = FALSE
    /\ mine = [h \in Handler |-> 0] /\ batch = [h \in Handler |-> {}]
    /\ doing = [h \in Handler |-> NoKey] /\ delivered = FALSE
    /\ signing = NoLogin /\ issued = 0
    /\ sent = [t \in Thread |-> 0] /\ kept = [t \in Thread |-> 0]
    /\ signedBy = {} /\ excused = FALSE
    /\ switches = 0 /\ crashes = 0 /\ faults = 0

-----------------------------------------------------------------------------
(* The interface: asking *)

Serve(t, kind) ==
    /\ told[t] = "nothing" /\ kind \in Asking
    /\ asked' = [asked EXCEPT ![t] = kind]

Tell(t, what) ==
    /\ told' = [told EXCEPT ![t] = what]
    /\ UNCHANGED <<key, requests>>

\* setex on a key that is there already writes it again.
Request(t, k) ==
    /\ requests' = requests \cup {k}
    /\ key' = [key EXCEPT ![t] = k]
    /\ told' = [told EXCEPT ![t] = "waiting"]

AskRest == UNCHANGED <<reply, info, lists, advertised, phone, life, handlers,
                       tally, switches, crashes>>

\* api_telegram_chats: the cached list, if there is one, needs no request.
AskChats(t) ==
    /\ Serve(t, "chats")
    /\ IF lists THEN Tell(t, "list") ELSE Request(t, <<"chats", t>>)
    /\ AskRest

\* api_telegram_users: two threads may name their requests alike.
AskUsers(t) ==
    /\ Serve(t, "users")
    /\ IF lists THEN Tell(t, "list")
       ELSE \E s \in Stamp : Request(t, <<"users", s>>)
    /\ AskRest

\* What is cached is answered, an error as well. In pending mode the thread
\* does not wait for the answer, only asks for it.
AskParticipant(t, i) ==
    IF i \in info THEN Tell(t, "info")
    ELSE \/ Request(t, <<i, Shared>>)
         \/ /\ requests' = requests \cup {<<i, Shared>>}
            /\ told' = [told EXCEPT ![t] = "pending"]
            /\ UNCHANGED key

AskChatInfo(t) ==
    /\ Serve(t, "chatInfo")
    /\ AskParticipant(t, "chatInfo")
    /\ AskRest

\* The account's own user is answered from user_info.
AskUserInfo(t) ==
    /\ Serve(t, "userInfo")
    /\ \/ AskParticipant(t, "userInfo")
       \/ "userInfo" \notin info /\ advertised /\ Tell(t, "info")
    /\ AskRest

AskTest(t) ==
    /\ Serve(t, "test")
    /\ Request(t, <<"test", t>>)
    /\ AskRest

-----------------------------------------------------------------------------
(* The interface: polling *)

Waits(t, kinds) == told[t] = "waiting" /\ asked[t] \in kinds

\* The response is deleted when it is read: of two threads with the same key
\* one is left waiting.
TakeReply(t) ==
    /\ reply[key[t]] # "none"
    /\ told' = [told EXCEPT ![t] = reply[key[t]]]
    /\ reply' = [reply EXCEPT ![key[t]] = "none"]
    /\ UNCHANGED <<asked, key, requests, info, lists, advertised, phone, life,
                   handlers, tally, switches, crashes>>

ReadList(t) == Waits(t, {"chats", "users"}) /\ TakeReply(t)

ReadTest(t) == Waits(t, {"test"}) /\ TakeReply(t)

\* What is cached about a participant stays.
ReadInfo(t) ==
    /\ Waits(t, Info)
    /\ asked[t] \in info
    /\ told' = [told EXCEPT ![t] = "info"]
    /\ UNCHANGED <<asked, key, redis, phone, life, handlers, tally, switches,
                   crashes>>

PollRest == UNCHANGED <<asked, key, reply, info, lists, advertised, phone, life,
                        handlers, tally, switches, crashes>>

\* After 30 or 20 seconds the request is withdrawn.
GiveUp(t) ==
    /\ Waits(t, {"chats", "test"})
    /\ told' = [told EXCEPT ![t] = "timeout"]
    /\ requests' = requests \ {key[t]}
    /\ PollRest

\* The monitored users of the configuration are shown then.
GiveUpUsers(t) ==
    /\ Waits(t, {"users"})
    /\ told' = [told EXCEPT ![t] = "configured"]
    /\ requests' = requests \ {key[t]}
    /\ PollRest

\* After a second what the configuration says of the chat, and the id of the
\* user; the request is left to be served.
FallBack(t) ==
    /\ Waits(t, Info)
    /\ told' = [told EXCEPT ![t] = "configured"]
    /\ UNCHANGED requests
    /\ PollRest

\* Every request and response has a life of a minute, longer than any thread
\* waits for it.
Expire(k) ==
    /\ \A t \in Thread : told[t] = "waiting" => key[t] # k
    /\ \/ k \in requests /\ requests' = requests \ {k} /\ UNCHANGED reply
       \/ reply[k] # "none" /\ reply' = [reply EXCEPT ![k] = "none"]
          /\ UNCHANGED requests
    /\ UNCHANGED <<threads, info, lists, advertised, phone, life, handlers,
                   tally, switches, crashes>>

-----------------------------------------------------------------------------
(* The sentinel's handlers *)

Pattern(h) ==
    IF h = "participant" THEN {k \in Key : k[1] \in Info}
    ELSE {k \in Key : k[1] = "test"}

HandlerRest == UNCHANGED <<threads, phone, life, switches, crashes>>

\* handle_requests serves while somebody is authorized, in a generation whose
\* caches are, or still seem to be, ready.
Serving == up /\ authorized /\ ready

\* set_response_with_ttl: when the call fails, the response is lost.
Respond(k, what) ==
    \/ reply' = [reply EXCEPT ![k] = what]
    \/ UNCHANGED reply

\* delete_request_key: when the call fails, the request stays, for the next scan.
Delete(k) ==
    \/ requests' = requests \ {k} /\ UNCHANGED kept
    \/ /\ k \in requests /\ UNCHANGED requests
       /\ IF k[1] = "test"
          THEN kept[k[2]] < MaxFaults /\ kept' = [kept EXCEPT ![k[2]] = @ + 1]
          ELSE UNCHANGED kept

\* The list handlers await nothing between the scan and the end of the batch:
\* setex of the response, then delete. No list in the cache is answered as an
\* empty one.
ServeList(k) ==
    /\ Serving
    /\ k[1] \in {"chats", "users"} /\ k \in requests
    /\ Respond(k, IF lists THEN "list" ELSE "empty")
    /\ Delete(k)
    /\ UNCHANGED <<handlers, info, lists, advertised, sent>>
    /\ HandlerRest

\* The others scan, with the generation noted, ...
Scan(h) ==
    /\ Serving
    /\ batch[h] = {} /\ doing[h] = NoKey
    /\ Pattern(h) \cap requests # {}
    /\ batch' = [batch EXCEPT ![h] = Pattern(h) \cap requests]
    /\ mine' = [mine EXCEPT ![h] = generation]
    /\ UNCHANGED <<doing, delivered, redis, tally>>
    /\ HandlerRest

\* ... and look at it again before each request of the batch, but not at
\* whether the thread has withdrawn the request since.
Begin(h) ==
    /\ up /\ mine[h] = generation /\ doing[h] = NoKey
    /\ \E k \in batch[h] :
          /\ batch' = [batch EXCEPT ![h] = @ \ {k}]
          /\ doing' = [doing EXCEPT ![h] = k]
    /\ UNCHANGED <<mine, delivered, redis, tally>>
    /\ HandlerRest

\* Mutant of Leave: the loop goes on to wait with its batch in hand.
LeaveHolding(h) ==
    /\ up /\ mine[h] # generation /\ doing[h] = NoKey /\ batch[h] # {}
    /\ mine' = [mine EXCEPT ![h] = 0]
    /\ UNCHANGED <<batch, doing, delivered, redis, tally>>
    /\ HandlerRest

Leave(h) ==
    /\ up /\ mine[h] # generation /\ doing[h] = NoKey /\ batch[h] # {}
    /\ mine' = [mine EXCEPT ![h] = 0]
    /\ batch' = [batch EXCEPT ![h] = {}]
    /\ UNCHANGED <<doing, delivered, redis, tally>>
    /\ HandlerRest

Done(h) ==
    /\ Delete(doing[h])
    /\ doing' = [doing EXCEPT ![h] = NoKey]
    /\ mine' = IF batch[h] = {} THEN [mine EXCEPT ![h] = 0] ELSE mine
    /\ UNCHANGED <<batch, lists, advertised>>

\* fetch_participant_info raises nothing: without a session it describes the
\* error, which is cached like an answer.
FetchFails ==
    /\ up /\ doing["participant"] # NoKey
    /\ info' \in {info, info \cup {doing["participant"][1]}}
    /\ Done("participant")
    /\ UNCHANGED <<reply, delivered, sent>>
    /\ HandlerRest

\* The answer about a channel or a group has the date it was created at; the
\* one about a private chat has none.
ChatPart(chat) == IF chat = "private" THEN "plain" ELSE "dated"

\* A user's answer may say until when or since when, and in a channel since
\* when its member; the presence of some is told in words.
UserPart(chat, presence) ==
    IF chat = "channel" \/ presence \in {"online", "offline"} THEN "dated" ELSE "plain"

\* json.dumps refuses a date; set_response_with_ttl loses the answer then, and
\* the request is deleted all the same.
FetchParticipant ==
    /\ up /\ doing["participant"] # NoKey /\ session
    /\ \E chat \in {"private", "group", "channel"}, presence \in {"online", "offline", "recently"} :
          LET kind  == doing["participant"][1]
              parts == {ChatPart(chat)} \cup
                       (IF kind = "userInfo" THEN {UserPart(chat, presence)} ELSE {})
          IN info' \in IF "dated" \in parts THEN {info} ELSE {info, info \cup {kind}}
    /\ Done("participant")
    /\ UNCHANGED <<reply, delivered, sent>>
    /\ HandlerRest

\* The message goes to Saved Messages; the response and the deletion of the
\* request come after.
SendTest ==
    /\ up /\ doing["test"] # NoKey /\ session /\ ~delivered
    /\ sent' = [sent EXCEPT ![doing["test"][2]] = @ + 1]
    /\ delivered' = TRUE
    /\ UNCHANGED <<mine, batch, doing, redis, kept>>
    /\ HandlerRest

\* Mutant of ReplyTest: a request that failed is kept for another try.
ReplyTestRetrying ==
    /\ up /\ doing["test"] # NoKey
    /\ \E what \in {"sent", "failed"} :
          /\ what = "sent" => delivered
          /\ reply' = [reply EXCEPT ![doing["test"]] = what]
          /\ requests' = IF what = "sent" THEN requests \ {doing["test"]} ELSE requests
    /\ doing' = [doing EXCEPT !["test"] = NoKey]
    /\ mine' = IF batch["test"] = {} THEN [mine EXCEPT !["test"] = 0] ELSE mine
    /\ delivered' = FALSE
    /\ UNCHANGED <<batch, lists, advertised, info, tally>>
    /\ HandlerRest

\* An error is told as such and not tried again; Telegram may report one for a
\* message it has taken.
ReplyTest ==
    /\ up /\ doing["test"] # NoKey
    /\ \E what \in {"sent", "failed"} :
          /\ what = "sent" => delivered
          /\ Respond(doing["test"], what)
    /\ delivered' = FALSE
    /\ Done("test")
    /\ UNCHANGED <<info, sent>>
    /\ HandlerRest

-----------------------------------------------------------------------------
(* The phone log-in: the interface *)

LoginRest == UNCHANGED <<key, redis, life, handlers, tally, switches,
                         crashes>>

\* load_login_context: Redis, or else the file.
Context == IF context.redis # 0 THEN context.redis ELSE context.file

CodeAsked == \E t \in Thread : told[t] = "waiting" /\ asked[t] \in Code

Submit(t, hash) ==
    /\ queue' = Append(queue, [thread |-> t, action |-> asked'[t], hash |-> hash])
    /\ told' = [told EXCEPT ![t] = "waiting"]

\* session_login_start
AskCode(t) ==
    /\ Serve(t, "start")
    /\ Submit(t, 0)
    /\ excused' = (excused \/ CodeAsked)
    /\ UNCHANGED <<answers, context, signing, issued, signedBy, faults>>
    /\ LoginRest

\* session_login_resend, for which a code must have been sent.
AskResend(t) ==
    /\ Serve(t, "resend")
    /\ IF Context = 0
       THEN told' = [told EXCEPT ![t] = "expired"] /\ UNCHANGED <<queue, excused>>
       ELSE Submit(t, Context) /\ excused' = (excused \/ CodeAsked)
    /\ UNCHANGED <<answers, context, signing, issued, signedBy, faults>>
    /\ LoginRest

\* session_login_verify sends the hash of the context along.
AskVerify(t) ==
    /\ Serve(t, "verify")
    /\ IF Context = 0
       THEN told' = [told EXCEPT ![t] = "expired"] /\ UNCHANGED queue
       ELSE Submit(t, Context)
    /\ UNCHANGED <<answers, context, signing, issued, signedBy, excused, faults>>
    /\ LoginRest

\* store_login_context: to Redis for five minutes; when that fails, to the
\* file. What the other place holds stays.
Store(hash) ==
    /\ \/ context' = [context EXCEPT !.redis = hash] /\ UNCHANGED faults
       \/ /\ faults < MaxFaults /\ faults' = faults + 1
          /\ context' = [context EXCEPT !.file = hash]
    /\ excused' = (excused \/ (context'.redis # 0 /\ context'.file # 0))

\* submit_auth_request finds the answer to its own request id.
Answered(t) ==
    /\ told[t] = "waiting" /\ answers[t] # NoAnswer
    /\ answers' = [answers EXCEPT ![t] = NoAnswer]

\* Mutant of ReadCode: the hash that is there is kept.
ReadCodeKeeping(t) ==
    /\ Answered(t) /\ asked[t] \in Code
    /\ IF answers[t].ok
       THEN /\ Store(IF Context # 0 THEN Context ELSE answers[t].hash)
            /\ told' = [told EXCEPT ![t] = "codeSent"]
       ELSE told' = [told EXCEPT ![t] = "refused"] /\ UNCHANGED <<context, faults, excused>>
    /\ UNCHANGED <<asked, queue, signing, issued, signedBy>>
    /\ LoginRest

ReadCode(t) ==
    /\ Answered(t) /\ asked[t] \in Code
    /\ IF answers[t].ok
       THEN Store(answers[t].hash) /\ told' = [told EXCEPT ![t] = "codeSent"]
       ELSE told' = [told EXCEPT ![t] = "refused"] /\ UNCHANGED <<context, faults, excused>>
    /\ UNCHANGED <<asked, queue, signing, issued, signedBy>>
    /\ LoginRest

\* The context is cleared (clear_login_context stops at the first place that
\* does not fail), then worker_status is polled for a minute.
ReadVerified(t) ==
    /\ Answered(t) /\ asked[t] = "verify"
    /\ IF answers[t].ok
       THEN /\ told' = [told EXCEPT ![t] = "confirming"]
            /\ \/ context' = [context EXCEPT !.redis = 0] /\ UNCHANGED faults
               \/ /\ faults < MaxFaults /\ faults' = faults + 1
                  /\ context' = [context EXCEPT !.file = 0]
       ELSE told' = [told EXCEPT ![t] = "refused"] /\ UNCHANGED <<context, faults>>
    /\ UNCHANGED <<asked, queue, signing, issued, signedBy, excused>>
    /\ LoginRest

\* wait_for_worker_authorization
Confirm(t) ==
    /\ told[t] = "confirming"
    /\ \/ advertised /\ told' = [told EXCEPT ![t] = "authenticated"]
       \/ told' = [told EXCEPT ![t] = "notReady"]
    /\ UNCHANGED <<asked, phone>>
    /\ LoginRest

\* After 90 seconds; the entry of the queue stays, and is handled late.
GiveUpLogin(t) ==
    /\ Waits(t, Login)
    /\ told' = [told EXCEPT ![t] = "timeout"]
    /\ excused' = (excused \/ asked[t] \in Code)
    /\ UNCHANGED <<asked, queue, answers, context, signing, issued, signedBy, faults>>
    /\ LoginRest

\* What was stored first is gone first.
ForgetContext ==
    /\ \E w \in {"redis", "file"} :
          /\ context[w] # 0
          /\ \A v \in {"redis", "file"} : context[v] = 0 \/ context[w] <= context[v]
          /\ context' = [context EXCEPT ![w] = 0]
    /\ UNCHANGED <<asked, told, queue, answers, signing, issued, signedBy,
                   excused, faults>>
    /\ LoginRest

-----------------------------------------------------------------------------
(* The phone log-in: the auth worker *)

WorkerRest == UNCHANGED <<threads, requests, reply, info, lists, context,
                          handlers, tally, faults, switches, crashes>>

\* store_auth_response: when the call fails, the answer is lost.
Reply(t, ok, hash) ==
    \/ answers' = [answers EXCEPT ![t] = [ok |-> ok, hash |-> hash]]
    \/ UNCHANGED answers

\* blpop; once somebody is signed in every request is rejected.
TakeLogin ==
    /\ up /\ signing = NoLogin /\ queue # <<>>
    /\ queue' = Tail(queue)
    /\ IF authorized
       THEN Reply(Head(queue).thread, FALSE, 0) /\ UNCHANGED signing
       ELSE signing' = Head(queue) /\ UNCHANGED answers
    /\ UNCHANGED <<issued, signedBy, excused, advertised, life>>
    /\ WorkerRest

\* send_code_request: every code has a hash of its own, and ends the one before.
\* Whether its answer arrives is for ReplyCode and LoginFails.
SendCode ==
    /\ up /\ signing # NoLogin
    /\ signing.action \in Code
    /\ issued' = issued + 1
    /\ signing' = [signing EXCEPT !.hash = issued + 1, !.action = "sent"]
    /\ UNCHANGED <<queue, answers, signedBy, excused, advertised, life>>
    /\ WorkerRest

ReplyCode ==
    /\ up /\ signing # NoLogin /\ signing.action = "sent"
    /\ Reply(signing.thread, TRUE, signing.hash)
    /\ signing' = NoLogin
    /\ UNCHANGED <<queue, issued, signedBy, excused, advertised, life>>
    /\ WorkerRest

\* sign_in takes only the hash of the last code.
SignIn ==
    /\ up /\ signing # NoLogin
    /\ signing.action = "verify" /\ signing.hash = issued
    /\ session' = TRUE
    /\ signedBy' = signedBy \cup {signing.thread}
    /\ signing' = [signing EXCEPT !.action = "signed"]
    /\ UNCHANGED <<queue, answers, issued, excused, advertised, up, authorized,
                   generation, ready>>
    /\ WorkerRest

\* get_me(), _save_session, the caches and _mark_authorized.
ReplySigned ==
    /\ up /\ signing # NoLogin /\ signing.action = "signed" /\ session
    /\ authorized' = TRUE /\ generation' = generation + 1 /\ advertised' = TRUE
    /\ Reply(signing.thread, TRUE, 0)
    /\ signing' = NoLogin
    /\ UNCHANGED <<queue, issued, signedBy, excused, up, session, ready>>
    /\ WorkerRest

\* A wrong code or password, a flood wait, a lost connection, nobody found. The
\* connection may be lost once Telegram has sent the code or signed in: the
\* user is refused, and the hash of the code before stays in the context.
LoginFails ==
    /\ up /\ signing # NoLogin
    /\ Reply(signing.thread, FALSE, 0)
    /\ signing' = NoLogin
    /\ excused' = (excused \/ (signing.action = "sent" /\ Context # 0))
    /\ UNCHANGED <<queue, issued, signedBy, advertised, life>>
    /\ WorkerRest

-----------------------------------------------------------------------------
(* The sentinel's life *)

LifeRest == UNCHANGED <<threads, requests, reply, info, context, issued, tally,
                        signedBy, excused, faults>>

Kept == UNCHANGED <<queue, answers>>

\* main() signs in with the session file, or finds nobody; log-ins that were
\* asked of the process before are dropped, and their threads time out.
StartProcess ==
    /\ ~up /\ up' = TRUE
    /\ authorized' \in {session, FALSE}
    /\ generation' = IF authorized' THEN 1 ELSE 0
    /\ advertised' = authorized'
    /\ queue' = <<>> /\ answers' = [t \in Thread |-> NoAnswer]
    /\ UNCHANGED <<lists, session, ready, handlers, signing, switches, crashes>>
    /\ LifeRest

CachesFilled ==
    /\ up /\ authorized /\ session /\ ~(ready /\ lists)
    /\ ready' = TRUE /\ lists' = TRUE
    /\ UNCHANGED <<advertised, up, session, authorized, generation, handlers,
                   signing, switches, crashes>>
    /\ LifeRest /\ Kept

\* handle_session_import; the refresher may not yet have cleared its event
\* when a handler looks at it again.
Import ==
    /\ up /\ switches < MaxSwitches /\ switches' = switches + 1
    /\ session' = TRUE /\ authorized' = TRUE /\ generation' = generation + 1
    /\ advertised' = TRUE
    /\ ready' \in {ready, FALSE}
    /\ UNCHANGED <<lists, up, handlers, signing, crashes>>
    /\ LifeRest /\ Kept

\* handle_logout deletes the lists; information about participants stays, and
\* so do the generation and the flag the handlers look at.
LogOut ==
    /\ up /\ switches < MaxSwitches /\ switches' = switches + 1
    /\ session' = FALSE /\ advertised' = FALSE /\ lists' = FALSE
    /\ UNCHANGED <<up, authorized, generation, ready, handlers, signing, crashes>>
    /\ LifeRest /\ Kept

\* What the handlers and the auth worker held is gone; Redis keeps its keys.
Crash ==
    /\ up /\ crashes < MaxCrashes /\ crashes' = crashes + 1
    /\ up' = FALSE /\ authorized' = FALSE /\ generation' = 0 /\ ready' = FALSE
    /\ mine' = [h \in Handler |-> 0] /\ batch' = [h \in Handler |-> {}]
    /\ doing' = [h \in Handler |-> NoKey] /\ delivered' = FALSE
    /\ signing' = NoLogin
    /\ UNCHANGED <<session, lists, advertised, switches>>
    /\ LifeRest /\ Kept

-----------------------------------------------------------------------------
Interface(t) ==
    \/ AskChats(t) \/ AskUsers(t) \/ AskChatInfo(t) \/ AskUserInfo(t) \/ AskTest(t)
    \/ ReadList(t) \/ ReadTest(t) \/ ReadInfo(t)
    \/ GiveUp(t) \/ GiveUpUsers(t) \/ FallBack(t)
    \/ AskCode(t) \/ AskResend(t) \/ AskVerify(t)
    \/ ReadCode(t) \/ ReadVerified(t) \/ Confirm(t) \/ GiveUpLogin(t)

Handling ==
    \/ \E k \in requests : ServeList(k)
    \/ \E h \in Handler : Scan(h) \/ Begin(h) \/ Leave(h)
    \/ FetchFails \/ FetchParticipant \/ SendTest \/ ReplyTest

AuthWorker ==
    TakeLogin \/ SendCode \/ ReplyCode \/ SignIn \/ ReplySigned \/ LoginFails

Next ==
    \/ \E t \in Thread : Interface(t)
    \/ Handling \/ AuthWorker
    \/ \E k \in Key : Expire(k)
    \/ ForgetContext
    \/ StartProcess \/ CachesFilled \/ Import \/ LogOut \/ Crash

Spec == Init /\ [][Next]_vars

-----------------------------------------------------------------------------
(***************************************************************************)
(* Properties                                                              *)
(***************************************************************************)

Telling == {"nothing", "waiting", "list", "empty", "timeout", "configured", "info",
            "pending", "sent", "failed", "codeSent", "refused", "expired", "confirming",
            "authenticated", "notReady"}

\* Every variable has its type; a handler holds requests of its own kind only,
\* and only in a generation, and a thread that waits has asked.
TypeOK ==
    /\ asked \in [Thread -> Kind \cup {"nothing"}]
    /\ key \in [Thread -> Key \cup {NoKey}]
    /\ told \in [Thread -> Telling]
    /\ \A t \in Thread : asked[t] = "nothing" <=> told[t] = "nothing"
    /\ requests \subseteq Key
    /\ reply \in [Key -> {"none", "list", "empty", "sent", "failed"}]
    /\ info \subseteq Info
    /\ \A i \in 1 .. Len(queue) : queue[i].action \in Login
    /\ \A t \in Thread : answers[t] = NoAnswer \/ answers[t].hash \in Hash
    /\ context.redis \in Hash /\ context.file \in Hash
    /\ up \in BOOLEAN /\ session \in BOOLEAN /\ authorized \in BOOLEAN
    /\ ready \in BOOLEAN /\ lists \in BOOLEAN /\ advertised \in BOOLEAN
    /\ delivered \in BOOLEAN /\ excused \in BOOLEAN
    /\ generation \in Nat /\ mine \in [Handler -> Nat]
    /\ \A h \in Handler :
          /\ batch[h] \subseteq Pattern(h)
          /\ doing[h] \in Pattern(h) \cup {NoKey}
          /\ batch[h] # {} \/ doing[h] # NoKey => mine[h] # 0
    /\ signing = NoLogin \/ signing.action \in Login \cup {"sent", "signed"}
    /\ issued \in Hash /\ sent \in [Thread -> Nat] /\ signedBy \subseteq Thread
    /\ kept \in [Thread -> 0 .. MaxFaults]
    /\ switches \in 0 .. MaxSwitches /\ crashes \in 0 .. MaxCrashes
    /\ faults \in 0 .. MaxFaults

\* What the user is told has happened: a test message told as sent was sent,
\* and whoever is told to be authenticated was signed in by that request. And
\* no handling sends twice: a test message, also one whose sending seemed to
\* fail or that nobody waits for any more, is sent again only once a process
\* has died between sending it and deleting the request, or the deletion has
\* failed, and at most once for each time
\* (TelegramTestMessageHandler.run, test_message_format, submit_auth_request).
ToldAsItWas ==
    \A t \in Thread :
       /\ told[t] = "sent" => sent[t] > 0
       /\ told[t] \in {"confirming", "authenticated"} => t \in signedBy
       /\ sent[t] <= 1 + crashes + kept[t]

\* Between two requests for a code the log-in context names the last code sent,
\* the only one Telegram accepts, through resending, failed verification and
\* the death of the sentinel; excused are a request whose thread gave up or
\* overlapped another, a code that Telegram sent but whose sending failed for
\* the sentinel while the context held one, and a failing Redis that leaves one
\* hash there and one in the file (session_login_start, session_login_resend,
\* store_login_context, clear_login_context).
LatestCodeKept ==
    (~excused /\ ~CodeAsked) => Context \in {0, issued}

=============================================================================
