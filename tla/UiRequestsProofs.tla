-------------------------- MODULE UiRequestsProofs --------------------------
(***************************************************************************)
(* What the user of the web interface is told, for any number of threads,  *)
(* switches of the account, crashes and failing Redis calls: nothing is    *)
(* told that has not happened, no test message is sent twice by a process  *)
(* that lives and could delete the request, and the log-in context names   *)
(* the last code.                                                          *)
(***************************************************************************)
EXTENDS UiRequests, TLAPS

-----------------------------------------------------------------------------
(***************************************************************************)
(* The inductive invariants                                                *)
(***************************************************************************)

Entry     == [thread : Thread, action : Login, hash : Hash]
InHand    == [thread : Thread, action : Login \cup {"sent", "signed"}, hash : Hash]
AnswerSet == {NoAnswer} \cup [ok : BOOLEAN, hash : Hash]

\* TypeOK by parts, with what it leaves open of the log-in requests, and the
\* generation a handler that may serve can note.
ThreadTypes ==
    /\ asked \in [Thread -> Kind \cup {"nothing"}]
    /\ key \in [Thread -> Key \cup {NoKey}]
    /\ told \in [Thread -> Telling]
    /\ \A t \in Thread : asked[t] = "nothing" <=> told[t] = "nothing"

RedisTypes ==
    /\ requests \subseteq Key
    /\ reply \in [Key -> {"none", "list", "empty", "sent", "failed"}]
    /\ info \subseteq Info
    /\ lists \in BOOLEAN /\ advertised \in BOOLEAN

PhoneTypes ==
    /\ queue \in Seq(Entry) /\ signing \in {NoLogin} \cup InHand
    /\ answers \in [Thread -> AnswerSet] /\ context \in [redis : Hash, file : Hash]
    /\ issued \in Hash /\ signedBy \subseteq Thread
    /\ excused \in BOOLEAN /\ faults \in 0 .. MaxFaults

LifeTypes ==
    /\ up \in BOOLEAN /\ session \in BOOLEAN /\ authorized \in BOOLEAN /\ ready \in BOOLEAN
    /\ generation \in Nat
    /\ up /\ authorized => generation >= 1
    /\ switches \in 0 .. MaxSwitches /\ crashes \in 0 .. MaxCrashes

HandlerTypes ==
    /\ mine \in [Handler -> Nat]
    /\ batch \in [Handler -> SUBSET Key] /\ doing \in [Handler -> Key \cup {NoKey}]
    /\ \A h \in Handler :
          /\ batch[h] \subseteq Pattern(h)
          /\ doing[h] \in Pattern(h) \cup {NoKey}
          /\ batch[h] # {} \/ doing[h] # NoKey => mine[h] # 0
    /\ delivered \in BOOLEAN /\ sent \in [Thread -> Nat]
    /\ kept \in [Thread -> 0 .. MaxFaults]

Types == ThreadTypes /\ RedisTypes /\ PhoneTypes /\ LifeTypes /\ HandlerTypes

\* A waiting thread has the key of its own request, and a response key holds
\* what answers its kind.
KeysMatch ==
    /\ \A t \in Thread : told[t] = "waiting" =>
          /\ asked[t] \in {"chats", "test"} => key[t] = <<asked[t], t>>
          /\ asked[t] = "users" => key[t] \in {"users"} \X Stamp
          /\ asked[t] \in Info => key[t] = <<asked[t], Shared>>
    /\ \A k \in Key :
          /\ k[1] \in {"chats", "users"} => reply[k] \in {"none", "list", "empty"}
          /\ k[1] \in Info => reply[k] = "none"
          /\ k[1] = "test" => reply[k] \in {"none", "sent", "failed"}

\* A test message on its way to Telegram has a thread that asked for it.
SentForAKey ==
    /\ delivered => doing["test"] # NoKey /\ sent[doing["test"][2]] > 0
    /\ \A t \in Thread : reply[<<"test", t>>] = "sent" \/ told[t] = "sent" => sent[t] > 0

\* While the request is there, or on the way through the handler, every sending
\* so far was that of a process that has died since, or was followed by a
\* deletion that failed.
SentOnce ==
    \A t \in Thread :
       LET k == <<"test", t>> IN
          /\ k \in requests \cup batch["test"] \/ doing["test"] = k => asked[t] = "test"
          /\ asked[t] # "test" => sent[t] = 0
          /\ doing["test"] = k => k \notin batch["test"]
          /\ k \in requests /\ ~(doing["test"] = k /\ delivered) => sent[t] <= crashes + kept[t]
          /\ k \in batch["test"] => sent[t] <= crashes + kept[t]
          /\ doing["test"] = k /\ ~delivered => sent[t] <= crashes + kept[t]
          /\ sent[t] <= 1 + crashes + kept[t]

\* What is queued, handled and answered is what the thread asked for.
LoginsMatch ==
    /\ \A i \in 1 .. Len(queue) : queue[i].action = asked[queue[i].thread]
    /\ signing # NoLogin =>
          /\ signing.action \in Code \cup {"sent"} => asked[signing.thread] \in Code
          /\ signing.action \in {"verify", "signed"} => asked[signing.thread] = "verify"
          /\ signing.action = "signed" => signing.thread \in signedBy
    /\ \A t \in Thread :
          /\ answers[t] # NoAnswer => asked[t] \in Login
          /\ answers[t].ok /\ asked[t] = "verify" => t \in signedBy
          /\ told[t] \in {"confirming", "authenticated"} => t \in signedBy

Queued(t) == \E i \in 1 .. Len(queue) : queue[i].thread = t
Handled(t) == signing # NoLogin /\ signing.thread = t

\* A thread's one request is in one place.
OncePerThread ==
    /\ \A i, j \in 1 .. Len(queue) : queue[i].thread = queue[j].thread => i = j
    /\ \A t \in Thread : ~(Queued(t) /\ Handled(t))
    /\ \A t \in Thread : answers[t] # NoAnswer => ~Queued(t) /\ ~Handled(t)

AwaitsCode(t) == told[t] = "waiting" /\ asked[t] \in Code

\* The code of this thread's request has been sent, and it does not know.
CodeUnderWay(t) ==
    /\ AwaitsCode(t) /\ ~Queued(t)
    /\ Handled(t) => signing.action = "sent"
    /\ answers[t] # NoAnswer => answers[t].ok

\* While nothing excuses an old hash, one thread at most has a code on the way,
\* and the context names the last code unless that thread still has to store it.
OneCodeAwaited == \A t, u \in Thread : AwaitsCode(t) /\ AwaitsCode(u) => t = u

CodesAwaited ==
    \A t \in Thread : asked[t] \in Code =>
       /\ Queued(t) \/ Handled(t) \/ answers[t] # NoAnswer => AwaitsCode(t)
       /\ answers[t].ok => answers[t].hash = issued /\ issued > 0

ContextCurrent ==
    /\ context.redis = 0 \/ context.file = 0
    /\ Context \in {0, issued} \/ \E t \in Thread : CodeUnderWay(t)

CodesInOrder ==
    /\ signing # NoLogin /\ signing.action = "sent" => signing.hash = issued /\ issued > 0
    /\ ~excused => OneCodeAwaited /\ CodesAwaited /\ ContextCurrent

Inv == Types /\ KeysMatch /\ SentForAKey /\ SentOnce /\ LoginsMatch /\ OncePerThread /\ CodesInOrder


-----------------------------------------------------------------------------
(***************************************************************************)
(* Facts the proofs share                                                  *)
(***************************************************************************)

\* The keys of one kind, and whose they are
LEMMA Keys ==
    /\ NoKey \notin Key
    /\ \A t \in Thread : <<"test", t>> \in Key /\ <<"chats", t>> \in Key
    /\ \A s \in Stamp : <<"users", s>> \in Key
    /\ \A i \in Info : <<i, Shared>> \in Key
    /\ \A k \in Key : /\ k[1] = "test" => k[2] \in Thread /\ k = <<"test", k[2]>>
                      /\ k[1] \in {"chats", "users", "test"} \cup Info
<1>1. Key \subseteq Kind \X (Thread \cup Stamp \cup {Shared})
    BY DEF Key, Kind, Info
<1> QED BY <1>1, RequestsAssumption DEF Key, Info

LEMMA Patterns ==
    /\ Handler = {"participant", "test"}
    /\ \A h \in Handler : Pattern(h) \subseteq Key /\ NoKey \notin Pattern(h)
    /\ \A k \in Pattern("participant") : k[1] \in Info
    /\ \A k \in Pattern("test") : k[1] = "test" /\ k[2] \in Thread /\ k = <<"test", k[2]>>
    /\ \A t \in Thread : <<"test", t>> \in Pattern("test")
    BY Keys DEF Pattern, Handler

LEMMA QueueGrows ==
    ASSUME NEW q \in Seq(Entry), NEW e \in Entry
    PROVE  /\ Append(q, e) \in Seq(Entry) /\ Len(Append(q, e)) = Len(q) + 1
           /\ \A i \in 1 .. Len(q) : Append(q, e)[i] = q[i]
           /\ Append(q, e)[Len(q) + 1] = e
    OBVIOUS

LEMMA QueueTaken ==
    ASSUME NEW q \in Seq(Entry), q # <<>>
    PROVE  /\ Len(q) \in Nat /\ Len(q) >= 1 /\ Head(q) = q[1] /\ Head(q) \in Entry
           /\ Tail(q) \in Seq(Entry) /\ Len(Tail(q)) = Len(q) - 1
           /\ \A i \in 1 .. Len(Tail(q)) : Tail(q)[i] = q[i + 1]
    OBVIOUS

LEMMA QueueEmpty == <<>> \in Seq(Entry) /\ Len(<<>>) = 0
    OBVIOUS

-----------------------------------------------------------------------------
(***************************************************************************)
(* What each action leaves alone                                           *)
(***************************************************************************)

\* Only the interface moves its threads.
LEMMA ThreadFrame ==
    ASSUME [Next]_vars
    PROVE  \/ (\E t \in Thread : AskChats(t))
           \/ (\E t \in Thread : AskUsers(t))
           \/ (\E t \in Thread : AskChatInfo(t))
           \/ (\E t \in Thread : AskUserInfo(t))
           \/ (\E t \in Thread : AskTest(t))
           \/ (\E t \in Thread : ReadList(t))
           \/ (\E t \in Thread : ReadTest(t))
           \/ (\E t \in Thread : ReadInfo(t))
           \/ (\E t \in Thread : GiveUp(t))
           \/ (\E t \in Thread : GiveUpUsers(t))
           \/ (\E t \in Thread : FallBack(t))
           \/ (\E t \in Thread : AskCode(t))
           \/ (\E t \in Thread : AskResend(t))
           \/ (\E t \in Thread : AskVerify(t))
           \/ (\E t \in Thread : ReadCode(t))
           \/ (\E t \in Thread : ReadVerified(t))
           \/ (\E t \in Thread : Confirm(t))
           \/ (\E t \in Thread : GiveUpLogin(t))
           \/ UNCHANGED <<asked, key, told>>
<1> USE DEF threads, redis, phone, life, handlers, tally, AskRest, PollRest, HandlerRest, LoginRest, WorkerRest, LifeRest, Kept
<1>1. CASE 
          \/ (\E k \in requests : ServeList(k))
          \/ (\E h \in Handler : Scan(h))
          \/ (\E h \in Handler : Begin(h))
          \/ (\E h \in Handler : Leave(h))
          \/ FetchFails
    BY <1>1 DEF ServeList, Scan, Begin, Leave, FetchFails, Serve, Tell, Request, AskParticipant, TakeReply, Done, Submit, Reply, Store, Answered
<1>2. CASE FetchParticipant \/ SendTest \/ ReplyTest \/ TakeLogin \/ SendCode
    BY <1>2 DEF FetchParticipant, SendTest, ReplyTest, TakeLogin, SendCode, Serve, Tell, Request, AskParticipant, TakeReply, Done, Submit, Reply, Store, Answered
<1>3. CASE 
          \/ ReplyCode
          \/ SignIn
          \/ ReplySigned
          \/ LoginFails
          \/ (\E k \in Key : Expire(k))
    BY <1>3 DEF ReplyCode, SignIn, ReplySigned, LoginFails, Expire, Serve, Tell, Request, AskParticipant, TakeReply, Done, Submit, Reply, Store, Answered
<1>4. CASE ForgetContext \/ StartProcess \/ CachesFilled \/ Import \/ LogOut
    BY <1>4 DEF ForgetContext, StartProcess, CachesFilled, Import, LogOut, Serve, Tell, Request, AskParticipant, TakeReply, Done, Submit, Reply, Store, Answered
<1>5. CASE Crash \/ UNCHANGED vars
    BY <1>5 DEF Crash, vars, Serve, Tell, Request, AskParticipant, TakeReply, Done, Submit, Reply, Store, Answered
<1> QED BY <1>1, <1>2, <1>3, <1>4, <1>5 DEF Next, Interface, Handling, AuthWorker

\* Who writes keys, responses and caches.
LEMMA RedisFrame ==
    ASSUME [Next]_vars
    PROVE  \/ (\E t \in Thread : AskChats(t))
           \/ (\E t \in Thread : AskUsers(t))
           \/ (\E t \in Thread : AskChatInfo(t))
           \/ (\E t \in Thread : AskUserInfo(t))
           \/ (\E t \in Thread : AskTest(t))
           \/ (\E t \in Thread : ReadList(t))
           \/ (\E t \in Thread : ReadTest(t))
           \/ (\E t \in Thread : GiveUp(t))
           \/ (\E t \in Thread : GiveUpUsers(t))
           \/ (\E k \in requests : ServeList(k))
           \/ FetchFails
           \/ FetchParticipant
           \/ ReplyTest
           \/ ReplySigned
           \/ (\E k \in Key : Expire(k))
           \/ StartProcess
           \/ CachesFilled
           \/ Import
           \/ LogOut
           \/ UNCHANGED <<requests, reply, info, lists, advertised>>
<1> USE DEF threads, redis, phone, life, handlers, tally, AskRest, PollRest, HandlerRest, LoginRest, WorkerRest, LifeRest, Kept
<1>1. CASE 
          \/ (\E t \in Thread : ReadInfo(t))
          \/ (\E t \in Thread : FallBack(t))
          \/ (\E t \in Thread : AskCode(t))
          \/ (\E t \in Thread : AskResend(t))
          \/ (\E t \in Thread : AskVerify(t))
    BY <1>1 DEF ReadInfo, FallBack, AskCode, AskResend, AskVerify, Serve, Tell, Request, AskParticipant, TakeReply, Done, Submit, Reply, Store, Answered
<1>2. CASE 
          \/ (\E t \in Thread : ReadCode(t))
          \/ (\E t \in Thread : ReadVerified(t))
          \/ (\E t \in Thread : Confirm(t))
          \/ (\E t \in Thread : GiveUpLogin(t))
          \/ (\E h \in Handler : Scan(h))
    BY <1>2 DEF ReadCode, ReadVerified, Confirm, GiveUpLogin, Scan, Serve, Tell, Request, AskParticipant, TakeReply, Done, Submit, Reply, Store, Answered
<1>3. CASE 
          \/ (\E h \in Handler : Begin(h))
          \/ (\E h \in Handler : Leave(h))
          \/ SendTest
          \/ TakeLogin
          \/ SendCode
    BY <1>3 DEF Begin, Leave, SendTest, TakeLogin, SendCode, Serve, Tell, Request, AskParticipant, TakeReply, Done, Submit, Reply, Store, Answered
<1>4. CASE ReplyCode \/ SignIn \/ LoginFails \/ ForgetContext \/ Crash
    BY <1>4 DEF ReplyCode, SignIn, LoginFails, ForgetContext, Crash, Serve, Tell, Request, AskParticipant, TakeReply, Done, Submit, Reply, Store, Answered
<1>5. CASE UNCHANGED vars
    BY <1>5 DEF vars, Serve, Tell, Request, AskParticipant, TakeReply, Done, Submit, Reply, Store, Answered
<1> QED BY <1>1, <1>2, <1>3, <1>4, <1>5 DEF Next, Interface, Handling, AuthWorker

\* Who takes part in a phone log-in.
LEMMA PhoneFrame ==
    ASSUME [Next]_vars
    PROVE  \/ (\E t \in Thread : AskCode(t))
           \/ (\E t \in Thread : AskResend(t))
           \/ (\E t \in Thread : AskVerify(t))
           \/ (\E t \in Thread : ReadCode(t))
           \/ (\E t \in Thread : ReadVerified(t))
           \/ (\E t \in Thread : GiveUpLogin(t))
           \/ TakeLogin
           \/ SendCode
           \/ ReplyCode
           \/ SignIn
           \/ ReplySigned
           \/ LoginFails
           \/ ForgetContext
           \/ StartProcess
           \/ Crash
           \/ UNCHANGED <<queue, answers, context, signing, issued, signedBy, excused, faults>>
<1> USE DEF threads, redis, phone, life, handlers, tally, AskRest, PollRest, HandlerRest, LoginRest, WorkerRest, LifeRest, Kept
<1>1. CASE 
          \/ (\E t \in Thread : AskChats(t))
          \/ (\E t \in Thread : AskUsers(t))
          \/ (\E t \in Thread : AskChatInfo(t))
          \/ (\E t \in Thread : AskUserInfo(t))
          \/ (\E t \in Thread : AskTest(t))
    BY <1>1 DEF AskChats, AskUsers, AskChatInfo, AskUserInfo, AskTest, Serve, Tell, Request, AskParticipant, TakeReply, Done, Submit, Reply, Store, Answered
<1>2. CASE 
          \/ (\E t \in Thread : ReadList(t))
          \/ (\E t \in Thread : ReadTest(t))
          \/ (\E t \in Thread : ReadInfo(t))
          \/ (\E t \in Thread : GiveUp(t))
          \/ (\E t \in Thread : GiveUpUsers(t))
    BY <1>2 DEF ReadList, ReadTest, ReadInfo, GiveUp, GiveUpUsers, Serve, Tell, Request, AskParticipant, TakeReply, Done, Submit, Reply, Store, Answered
<1>3. CASE 
          \/ (\E t \in Thread : FallBack(t))
          \/ (\E t \in Thread : Confirm(t))
          \/ (\E k \in requests : ServeList(k))
          \/ (\E h \in Handler : Scan(h))
          \/ (\E h \in Handler : Begin(h))
    BY <1>3 DEF FallBack, Confirm, ServeList, Scan, Begin, Serve, Tell, Request, AskParticipant, TakeReply, Done, Submit, Reply, Store, Answered
<1>4. CASE 
          \/ (\E h \in Handler : Leave(h))
          \/ FetchFails
          \/ FetchParticipant
          \/ SendTest
          \/ ReplyTest
    BY <1>4 DEF Leave, FetchFails, FetchParticipant, SendTest, ReplyTest, Serve, Tell, Request, AskParticipant, TakeReply, Done, Submit, Reply, Store, Answered
<1>5. CASE 
          \/ (\E k \in Key : Expire(k))
          \/ CachesFilled
          \/ Import
          \/ LogOut
          \/ UNCHANGED vars
    BY <1>5 DEF Expire, CachesFilled, Import, LogOut, vars, Serve, Tell, Request, AskParticipant, TakeReply, Done, Submit, Reply, Store, Answered
<1> QED BY <1>1, <1>2, <1>3, <1>4, <1>5 DEF Next, Interface, Handling, AuthWorker

\* Who changes the state of the session.
LEMMA LifeFrame ==
    ASSUME [Next]_vars
    PROVE  \/ SignIn
           \/ ReplySigned
           \/ StartProcess
           \/ CachesFilled
           \/ Import
           \/ LogOut
           \/ Crash
           \/ UNCHANGED <<life, switches, crashes>>
<1> USE DEF threads, redis, phone, life, handlers, tally, AskRest, PollRest, HandlerRest, LoginRest, WorkerRest, LifeRest, Kept
<1>1. CASE 
          \/ (\E t \in Thread : AskChats(t))
          \/ (\E t \in Thread : AskUsers(t))
          \/ (\E t \in Thread : AskChatInfo(t))
          \/ (\E t \in Thread : AskUserInfo(t))
          \/ (\E t \in Thread : AskTest(t))
    BY <1>1 DEF AskChats, AskUsers, AskChatInfo, AskUserInfo, AskTest, Serve, Tell, Request, AskParticipant, TakeReply, Done, Submit, Reply, Store, Answered
<1>2. CASE 
          \/ (\E t \in Thread : ReadList(t))
          \/ (\E t \in Thread : ReadTest(t))
          \/ (\E t \in Thread : ReadInfo(t))
          \/ (\E t \in Thread : GiveUp(t))
          \/ (\E t \in Thread : GiveUpUsers(t))
    BY <1>2 DEF ReadList, ReadTest, ReadInfo, GiveUp, GiveUpUsers, Serve, Tell, Request, AskParticipant, TakeReply, Done, Submit, Reply, Store, Answered
<1>3. CASE 
          \/ (\E t \in Thread : FallBack(t))
          \/ (\E t \in Thread : AskCode(t))
          \/ (\E t \in Thread : AskResend(t))
          \/ (\E t \in Thread : AskVerify(t))
          \/ (\E t \in Thread : ReadCode(t))
    BY <1>3 DEF FallBack, AskCode, AskResend, AskVerify, ReadCode, Serve, Tell, Request, AskParticipant, TakeReply, Done, Submit, Reply, Store, Answered
<1>4. CASE 
          \/ (\E t \in Thread : ReadVerified(t))
          \/ (\E t \in Thread : Confirm(t))
          \/ (\E t \in Thread : GiveUpLogin(t))
          \/ (\E k \in requests : ServeList(k))
          \/ (\E h \in Handler : Scan(h))
    BY <1>4 DEF ReadVerified, Confirm, GiveUpLogin, ServeList, Scan, Serve, Tell, Request, AskParticipant, TakeReply, Done, Submit, Reply, Store, Answered
<1>5. CASE 
          \/ (\E h \in Handler : Begin(h))
          \/ (\E h \in Handler : Leave(h))
          \/ FetchFails
          \/ FetchParticipant
          \/ SendTest
    BY <1>5 DEF Begin, Leave, FetchFails, FetchParticipant, SendTest, Serve, Tell, Request, AskParticipant, TakeReply, Done, Submit, Reply, Store, Answered
<1>6. CASE ReplyTest \/ TakeLogin \/ SendCode \/ ReplyCode \/ LoginFails
    BY <1>6 DEF ReplyTest, TakeLogin, SendCode, ReplyCode, LoginFails, Serve, Tell, Request, AskParticipant, TakeReply, Done, Submit, Reply, Store, Answered
<1>7. CASE (\E k \in Key : Expire(k)) \/ ForgetContext \/ UNCHANGED vars
    BY <1>7 DEF Expire, ForgetContext, vars, Serve, Tell, Request, AskParticipant, TakeReply, Done, Submit, Reply, Store, Answered
<1> QED BY <1>1, <1>2, <1>3, <1>4, <1>5, <1>6, <1>7 DEF Next, Interface, Handling, AuthWorker

\* Who moves the handlers.
LEMMA HandlerFrame ==
    ASSUME [Next]_vars
    PROVE  \/ (\E h \in Handler : Scan(h))
           \/ (\E h \in Handler : Begin(h))
           \/ (\E h \in Handler : Leave(h))
           \/ FetchFails
           \/ FetchParticipant
           \/ SendTest
           \/ ReplyTest
           \/ Crash
           \/ UNCHANGED <<handlers, tally>>
<1> USE DEF threads, redis, phone, life, handlers, tally, AskRest, PollRest, HandlerRest, LoginRest, WorkerRest, LifeRest, Kept
<1>1. CASE 
          \/ (\E t \in Thread : AskChats(t))
          \/ (\E t \in Thread : AskUsers(t))
          \/ (\E t \in Thread : AskChatInfo(t))
          \/ (\E t \in Thread : AskUserInfo(t))
          \/ (\E t \in Thread : AskTest(t))
    BY <1>1 DEF AskChats, AskUsers, AskChatInfo, AskUserInfo, AskTest, Serve, Tell, Request, AskParticipant, TakeReply, Done, Submit, Reply, Store, Answered
<1>2. CASE 
          \/ (\E t \in Thread : ReadList(t))
          \/ (\E t \in Thread : ReadTest(t))
          \/ (\E t \in Thread : ReadInfo(t))
          \/ (\E t \in Thread : GiveUp(t))
          \/ (\E t \in Thread : GiveUpUsers(t))
    BY <1>2 DEF ReadList, ReadTest, ReadInfo, GiveUp, GiveUpUsers, Serve, Tell, Request, AskParticipant, TakeReply, Done, Submit, Reply, Store, Answered
<1>3. CASE 
          \/ (\E t \in Thread : FallBack(t))
          \/ (\E t \in Thread : AskCode(t))
          \/ (\E t \in Thread : AskResend(t))
          \/ (\E t \in Thread : AskVerify(t))
          \/ (\E t \in Thread : ReadCode(t))
    BY <1>3 DEF FallBack, AskCode, AskResend, AskVerify, ReadCode, Serve, Tell, Request, AskParticipant, TakeReply, Done, Submit, Reply, Store, Answered
<1>4. CASE 
          \/ (\E t \in Thread : ReadVerified(t))
          \/ (\E t \in Thread : Confirm(t))
          \/ (\E t \in Thread : GiveUpLogin(t))
          \/ (\E k \in requests : ServeList(k))
          \/ TakeLogin
    BY <1>4 DEF ReadVerified, Confirm, GiveUpLogin, ServeList, Delete, TakeLogin, Serve, Tell, Request, AskParticipant, TakeReply, Done, Submit, Reply, Store, Answered
<1>5. CASE SendCode \/ ReplyCode \/ SignIn \/ ReplySigned \/ LoginFails
    BY <1>5 DEF SendCode, ReplyCode, SignIn, ReplySigned, LoginFails, Serve, Tell, Request, AskParticipant, TakeReply, Done, Submit, Reply, Store, Answered
<1>6. CASE 
          \/ (\E k \in Key : Expire(k))
          \/ ForgetContext
          \/ StartProcess
          \/ CachesFilled
          \/ Import
    BY <1>6 DEF Expire, ForgetContext, StartProcess, CachesFilled, Import, Serve, Tell, Request, AskParticipant, TakeReply, Done, Submit, Reply, Store, Answered
<1>7. CASE LogOut \/ UNCHANGED vars
    BY <1>7 DEF LogOut, vars, Serve, Tell, Request, AskParticipant, TakeReply, Done, Submit, Reply, Store, Answered
<1> QED BY <1>1, <1>2, <1>3, <1>4, <1>5, <1>6, <1>7 DEF Next, Interface, Handling, AuthWorker



-----------------------------------------------------------------------------
(***************************************************************************)
(* Types                                                                   *)
(***************************************************************************)

LEMMA TypesAreTypeOK == Types => TypeOK
<1> SUFFICES ASSUME Types PROVE TypeOK
    BY DEF Types
<1>1. \A i \in 1 .. Len(queue) : queue[i].action \in Login
  <2>1. \A i \in 1 .. Len(queue) : queue[i] \in Entry
      BY DEF Types, PhoneTypes
  <2> QED BY <2>1 DEF Entry
<1>2. \A t \in Thread : answers[t] = NoAnswer \/ answers[t].hash \in Hash
    BY DEF Types, PhoneTypes, AnswerSet
<1>3. signing = NoLogin \/ signing.action \in Login \cup {"sent", "signed"}
    BY DEF Types, PhoneTypes, InHand
<1>4. context.redis \in Hash /\ context.file \in Hash
    BY DEF Types, PhoneTypes
<1> QED BY <1>1, <1>2, <1>3, <1>4
        DEF Types, ThreadTypes, RedisTypes, PhoneTypes, LifeTypes, HandlerTypes, TypeOK

LEMMA InitTypes == Init => Types
<1> SUFFICES ASSUME Init PROVE Types
    OBVIOUS
<1> USE RequestsAssumption, Keys, Patterns, QueueEmpty DEF Init
<1>1. ThreadTypes
    BY DEF ThreadTypes, Telling
<1>2. RedisTypes
    BY DEF RedisTypes
<1>3. PhoneTypes
  <2>1. answers \in [Thread -> AnswerSet]
      BY DEF AnswerSet
  <2>2. context \in [redis : Hash, file : Hash] /\ issued \in Hash
      BY DEF Hash
  <2>3. faults \in 0 .. MaxFaults
      BY RequestsAssumption
  <2>4. excused \in BOOLEAN
      OBVIOUS
  <2> QED BY <2>1, <2>2, <2>3, <2>4 DEF PhoneTypes
<1>4. LifeTypes
  <2>1. up \in BOOLEAN /\ session \in BOOLEAN /\ authorized \in BOOLEAN /\ ready \in BOOLEAN
      OBVIOUS
  <2>2. generation \in Nat /\ switches \in 0 .. MaxSwitches /\ crashes \in 0 .. MaxCrashes
      BY RequestsAssumption
  <2>3. ~up
      OBVIOUS
  <2> QED BY <2>1, <2>2, <2>3 DEF LifeTypes
<1>5. HandlerTypes
  <2>1. kept \in [Thread -> 0 .. MaxFaults]
      BY RequestsAssumption
  <2> QED BY <2>1 DEF HandlerTypes
<1> QED BY <1>1, <1>2, <1>3, <1>4, <1>5 DEF Types

\* A thread that polls a response key has one.
LEMMA PolledKeys ==
    ASSUME Types, KeysMatch, NEW t \in Thread, told[t] = "waiting",
           asked[t] \in {"chats", "users", "test"}
    PROVE  /\ key[t] \in Key /\ key[t][1] = asked[t]
           /\ asked[t] # "users" => key[t] = <<asked[t], t>>
           /\ reply[key[t]] \in {"none", "list", "empty", "sent", "failed"}
<1>1. CASE asked[t] = "chats" \/ asked[t] = "test"
  <2>1. key[t] = <<asked[t], t>>
      BY <1>1 DEF KeysMatch
  <2>2. key[t] \in Key
      BY <1>1, <2>1, Keys
  <2> QED BY <1>1, <2>1, <2>2 DEF Types, RedisTypes
<1>2. CASE asked[t] = "users"
  <2>1. PICK s \in Stamp : key[t] = <<"users", s>>
      BY <1>2 DEF KeysMatch
  <2> QED BY <1>2, <2>1, Keys DEF Types, RedisTypes
<1> QED BY <1>1, <1>2

LEMMA NextThreadTypes ==
    ASSUME Types, KeysMatch, [Next]_vars
    PROVE  ThreadTypes'
<1>0. /\ ThreadTypes
      /\ \A t \in Thread : told[t] = "waiting" /\ asked[t] \in {"chats", "users", "test"} =>
             key[t] \in Key /\ reply[key[t]] \in {"none", "list", "empty", "sent", "failed"}
    BY PolledKeys DEF Types
<1> USE <1>0 DEF ThreadTypes, Telling, Kind, Info, Code, Login,
         Serve, Tell, Request, AskParticipant, Waits, TakeReply, PollRest, LoginRest, Submit,
         Answered, Store
<1>1. CASE \E t \in Thread : AskChats(t)
  <2>1. \A t \in Thread : <<"chats", t>> \in Key
      BY Keys
  <2> QED BY <1>1, <2>1 DEF AskChats
<1>2. CASE \E t \in Thread : AskUsers(t)
  <2>1. \A s \in Stamp : <<"users", s>> \in Key
      BY Keys
  <2> QED BY <1>2, <2>1 DEF AskUsers
<1>3. CASE \E t \in Thread : AskChatInfo(t)
  <2>1. <<"chatInfo", Shared>> \in Key
      BY Keys DEF Info
  <2> QED BY <1>3, <2>1 DEF AskChatInfo
<1>4. CASE \E t \in Thread : AskUserInfo(t)
  <2>1. <<"userInfo", Shared>> \in Key
      BY Keys DEF Info
  <2> QED BY <1>4, <2>1 DEF AskUserInfo
<1>5. CASE \E t \in Thread : AskTest(t)
  <2>1. \A t \in Thread : <<"test", t>> \in Key
      BY Keys
  <2> QED BY <1>5, <2>1 DEF AskTest
<1>6. CASE \E t \in Thread : ReadList(t)
    BY <1>6 DEF ReadList, Info
<1>7. CASE \E t \in Thread : ReadTest(t)
    BY <1>7 DEF ReadTest, Info
<1>8. CASE \E t \in Thread : ReadInfo(t)
    BY <1>8 DEF ReadInfo, Info
<1>9. CASE \E t \in Thread : GiveUp(t)
    BY <1>9 DEF GiveUp, Info
<1>10. CASE \E t \in Thread : GiveUpUsers(t)
    BY <1>10 DEF GiveUpUsers, Info
<1>11. CASE \E t \in Thread : FallBack(t)
    BY <1>11 DEF FallBack, Info
<1>12. CASE \E t \in Thread : AskCode(t)
    BY <1>12 DEF AskCode, Info
<1>13. CASE \E t \in Thread : AskResend(t)
    BY <1>13 DEF AskResend, Info
<1>14. CASE \E t \in Thread : AskVerify(t)
    BY <1>14 DEF AskVerify, Info
<1>15. CASE \E t \in Thread : ReadCode(t)
    BY <1>15 DEF ReadCode, Info
<1>16. CASE \E t \in Thread : ReadVerified(t)
    BY <1>16 DEF ReadVerified, Info
<1>17. CASE \E t \in Thread : Confirm(t)
    BY <1>17 DEF Confirm, Info
<1>18. CASE \E t \in Thread : GiveUpLogin(t)
    BY <1>18 DEF GiveUpLogin, Info
<1>19. CASE UNCHANGED <<asked, key, told>>
    BY <1>19
<1> HIDE DEF ThreadTypes
<1> QED BY ThreadFrame, <1>1, <1>2, <1>3, <1>4, <1>5, <1>6, <1>7, <1>8, <1>9, <1>10, <1>11, <1>12, <1>13, <1>14, <1>15, <1>16, <1>17, <1>18, <1>19

LEMMA NextRedisTypes ==
    ASSUME Types, KeysMatch, [Next]_vars
    PROVE  RedisTypes'
<1>0. /\ RedisTypes /\ HandlerTypes /\ up \in BOOLEAN /\ session \in BOOLEAN
      /\ authorized \in BOOLEAN
      /\ \A t \in Thread : told[t] = "waiting" /\ asked[t] \in {"chats", "users", "test"} =>
             key[t] \in Key
    BY PolledKeys DEF Types, LifeTypes
<1> USE <1>0, Patterns DEF RedisTypes, HandlerTypes,
         Serve, Tell, Request, AskParticipant, AskRest, TakeReply, PollRest, HandlerRest,
         WorkerRest, LifeRest, Kept, Done, Delete, Respond, Waits
<1>1. CASE \E t \in Thread : AskChats(t)
  <2>1. \A t \in Thread : <<"chats", t>> \in Key
      BY Keys
  <2> QED BY <1>1, <2>1 DEF AskChats
<1>2. CASE \E t \in Thread : AskUsers(t)
  <2>1. \A s \in Stamp : <<"users", s>> \in Key
      BY Keys
  <2> QED BY <1>2, <2>1 DEF AskUsers
<1>3. CASE \E t \in Thread : AskChatInfo(t)
  <2>1. <<"chatInfo", Shared>> \in Key
      BY Keys DEF Info
  <2> QED BY <1>3, <2>1 DEF AskChatInfo
<1>4. CASE \E t \in Thread : AskUserInfo(t)
  <2>1. <<"userInfo", Shared>> \in Key
      BY Keys DEF Info
  <2> QED BY <1>4, <2>1 DEF AskUserInfo
<1>5. CASE \E t \in Thread : AskTest(t)
  <2>1. \A t \in Thread : <<"test", t>> \in Key
      BY Keys
  <2> QED BY <1>5, <2>1 DEF AskTest
<1>6. CASE \E t \in Thread : ReadList(t)
    BY <1>6 DEF ReadList, Info
<1>7. CASE \E t \in Thread : ReadTest(t)
    BY <1>7 DEF ReadTest, Info
<1>8. CASE \E t \in Thread : GiveUp(t)
    BY <1>8 DEF GiveUp, Info
<1>9. CASE \E t \in Thread : GiveUpUsers(t)
    BY <1>9 DEF GiveUpUsers, Info
<1>10. CASE \E k \in requests : ServeList(k)
    BY <1>10 DEF ServeList, Info
<1>11. CASE FetchFails
    BY <1>11 DEF FetchFails, Info
<1>12. CASE FetchParticipant
    BY <1>12 DEF FetchParticipant, Info
<1>13. CASE ReplyTest
    BY <1>13 DEF ReplyTest, Info
<1>14. CASE ReplySigned
    BY <1>14 DEF ReplySigned, Info
<1>15. CASE \E k \in Key : Expire(k)
    BY <1>15 DEF Expire, Info
<1>16. CASE StartProcess
    BY <1>16 DEF StartProcess, Info
<1>17. CASE CachesFilled
    BY <1>17 DEF CachesFilled, Info
<1>18. CASE Import
    BY <1>18 DEF Import, Info
<1>19. CASE LogOut
    BY <1>19 DEF LogOut, Info
<1>20. CASE UNCHANGED <<requests, reply, info, lists, advertised>>
    BY <1>20
<1> QED BY RedisFrame, <1>1, <1>2, <1>3, <1>4, <1>5, <1>6, <1>7, <1>8, <1>9, <1>10, <1>11, <1>12, <1>13, <1>14, <1>15, <1>16, <1>17, <1>18, <1>19, <1>20

\* An answer that arrives has the type of answers.
LEMMA ReplyTypes ==
    ASSUME answers \in [Thread -> AnswerSet], NEW t \in Thread, NEW ok \in BOOLEAN, NEW h \in Hash,
           Reply(t, ok, h)
    PROVE  answers' \in [Thread -> AnswerSet]
<1>1. [ok |-> ok, hash |-> h] \in AnswerSet
    BY DEF AnswerSet
<1>2. answers' = [answers EXCEPT ![t] = [ok |-> ok, hash |-> h]] \/ answers' = answers
    BY DEF Reply
<1> QED BY <1>1, <1>2

LEMMA NextPhoneTypes ==
    ASSUME Types, KeysMatch, [Next]_vars
    PROVE  PhoneTypes'
<1>0. PhoneTypes /\ ThreadTypes /\ MaxFaults \in Nat
    BY RequestsAssumption DEF Types
<1> USE <1>0, QueueGrows, QueueTaken, QueueEmpty
    DEF PhoneTypes, ThreadTypes, Entry, InHand, AnswerSet, Hash, Login, Code, Kind, Serve, Submit,
        Answered, Store, Reply, Context, WorkerRest, LoginRest, LifeRest, Kept, CodeAsked
<1>1. CASE \E t \in Thread : AskCode(t)
    BY <1>1 DEF AskCode
<1>2. CASE \E t \in Thread : AskResend(t)
  <2>1. PICK t \in Thread : AskResend(t)
      BY <1>2
  <2>2. context.redis \in Hash /\ context.file \in Hash /\ Context \in Hash
      OBVIOUS
  <2>3. asked'[t] \in Login
      BY <2>1 DEF AskResend
  <2>4. [thread |-> t, action |-> asked'[t], hash |-> Context] \in Entry
      BY <2>2, <2>3
  <2>5. queue' \in Seq(Entry)
    <3> DEFINE e == [thread |-> t, action |-> asked'[t], hash |-> Context]
    <3>1. queue' = queue \/ queue' = Append(queue, e)
        BY <2>1 DEF AskResend
    <3>2. e \in Entry
        BY <2>4
    <3>3. queue \in Seq(Entry)
        OBVIOUS
    <3> HIDE DEF e, Entry, PhoneTypes, ThreadTypes
    <3> QED BY <3>1, <3>2, <3>3, QueueGrows
  <2>6. excused' \in BOOLEAN
      BY <2>1 DEF AskResend
  <2> QED BY <2>1, <2>5, <2>6 DEF AskResend
<1>3. CASE \E t \in Thread : AskVerify(t)
  <2>1. PICK t \in Thread : AskVerify(t)
      BY <1>3
  <2>2. context.redis \in Hash /\ context.file \in Hash /\ Context \in Hash
      OBVIOUS
  <2>3. asked'[t] \in Login
      BY <2>1 DEF AskVerify
  <2>4. [thread |-> t, action |-> asked'[t], hash |-> Context] \in Entry
      BY <2>2, <2>3
  <2>5. queue' \in Seq(Entry)
    <3> DEFINE e == [thread |-> t, action |-> asked'[t], hash |-> Context]
    <3>1. queue' = queue \/ queue' = Append(queue, e)
        BY <2>1 DEF AskVerify
    <3>2. e \in Entry
        BY <2>4
    <3>3. queue \in Seq(Entry)
        OBVIOUS
    <3> HIDE DEF e, Entry, PhoneTypes, ThreadTypes
    <3> QED BY <3>1, <3>2, <3>3, QueueGrows
  <2>6. excused' \in BOOLEAN
      BY <2>1 DEF AskVerify
  <2> QED BY <2>1, <2>5, <2>6 DEF AskVerify
<1>4. CASE \E t \in Thread : ReadCode(t)
  <2>1. PICK t \in Thread : ReadCode(t)
      BY <1>4
  <2>2. answers' \in [Thread -> AnswerSet]
      BY <2>1 DEF ReadCode
  <2>3. CASE answers[t].ok
    <3>1. answers[t].hash \in Hash
        BY <2>1, <2>3 DEF ReadCode
    <3>2. context' \in [redis : Hash, file : Hash] /\ faults' \in 0 .. MaxFaults
        BY <2>1, <2>3, <3>1 DEF ReadCode
    <3>3. excused' \in BOOLEAN
        BY <2>1, <2>3 DEF ReadCode
    <3> QED BY <2>1, <2>2, <3>2, <3>3 DEF ReadCode
  <2>4. CASE ~answers[t].ok
      BY <2>1, <2>2, <2>4 DEF ReadCode
  <2> QED BY <2>3, <2>4
<1>5. CASE \E t \in Thread : ReadVerified(t)
    BY <1>5 DEF ReadVerified
<1>6. CASE \E t \in Thread : GiveUpLogin(t)
    BY <1>6 DEF GiveUpLogin
<1>7. CASE TakeLogin
  <2>1. Head(queue) \in Entry /\ Tail(queue) \in Seq(Entry)
      BY <1>7 DEF TakeLogin
  <2>2. Head(queue) \in InHand /\ Head(queue).thread \in Thread
      BY <2>1
  <2>3. [ok |-> FALSE, hash |-> 0] \in AnswerSet
      OBVIOUS
  <2>4. answers' \in [Thread -> AnswerSet] /\ signing' \in {NoLogin} \cup InHand
    <3> DEFINE t == Head(queue).thread
               h == Head(queue)
               a == [ok |-> FALSE, hash |-> 0]
    <3>1. \/ answers' = [answers EXCEPT ![t] = a] /\ signing' = signing
          \/ answers' = answers /\ signing' \in {signing, h}
        BY <1>7 DEF TakeLogin
    <3>2. answers \in [Thread -> AnswerSet] /\ signing \in {NoLogin} \cup InHand
        BY <1>0 DEF PhoneTypes
    <3>3. t \in Thread /\ h \in InHand /\ a \in AnswerSet
        BY <2>2, <2>3
    <3> HIDE DEF AnswerSet, InHand, Entry, PhoneTypes, ThreadTypes, t, h, a
    <3> QED BY <3>1, <3>2, <3>3
  <2> QED BY <1>7, <2>1, <2>4 DEF TakeLogin
<1>8. CASE SendCode
  <2>1. signing \in InHand /\ issued + 1 \in Hash
      BY <1>8 DEF SendCode
  <2>2. [signing EXCEPT !.hash = issued + 1, !.action = "sent"] \in InHand
      BY <2>1
  <2> QED BY <1>8, <2>1, <2>2 DEF SendCode
<1>s. /\ signing # NoLogin => signing.thread \in Thread /\ signing.hash \in Nat
      /\ answers \in [Thread -> AnswerSet]
    OBVIOUS
<1>9. CASE ReplyCode
  <2>1. answers' \in [Thread -> AnswerSet]
    <3>1. Reply(signing.thread, TRUE, signing.hash) /\ signing # NoLogin
        BY <1>9 DEF ReplyCode
    <3> HIDE DEF AnswerSet, Hash, Reply, PhoneTypes, ThreadTypes
    <3> QED BY <1>s, <3>1, ReplyTypes DEF Hash
  <2> QED BY <1>9, <2>1 DEF ReplyCode
<1>10. CASE SignIn
    BY <1>10 DEF SignIn
<1>11. CASE ReplySigned
  <2>1. answers' \in [Thread -> AnswerSet]
    <3>1. Reply(signing.thread, TRUE, 0) /\ signing # NoLogin
        BY <1>11 DEF ReplySigned
    <3> HIDE DEF AnswerSet, Hash, Reply, PhoneTypes, ThreadTypes
    <3> QED BY <1>s, <3>1, ReplyTypes DEF Hash
  <2> QED BY <1>11, <2>1 DEF ReplySigned
<1>12. CASE LoginFails
  <2>1. answers' \in [Thread -> AnswerSet]
    <3>1. Reply(signing.thread, FALSE, 0) /\ signing # NoLogin
        BY <1>12 DEF LoginFails
    <3> HIDE DEF AnswerSet, Hash, Reply, PhoneTypes, ThreadTypes
    <3> QED BY <1>s, <3>1, ReplyTypes DEF Hash
  <2>2. excused' \in BOOLEAN
      BY <1>12 DEF LoginFails
  <2> QED BY <1>12, <2>1, <2>2 DEF LoginFails
<1>13. CASE ForgetContext
    BY <1>13 DEF ForgetContext
<1>14. CASE StartProcess
    BY <1>14 DEF StartProcess
<1>15. CASE Crash
    BY <1>15 DEF Crash
<1>16. CASE UNCHANGED <<queue, answers, context, signing, issued, signedBy, excused, faults>>
    BY <1>16
<1> QED BY PhoneFrame, <1>1, <1>2, <1>3, <1>4, <1>5, <1>6, <1>7, <1>8, <1>9, <1>10, <1>11, <1>12, <1>13, <1>14, <1>15, <1>16

LEMMA NextLifeTypes ==
    ASSUME Types, KeysMatch, [Next]_vars
    PROVE  LifeTypes'
<1> USE RequestsAssumption DEF Types, LifeTypes, WorkerRest, life
<1>1. CASE SignIn
  <2>1. up' \in BOOLEAN /\ session' \in BOOLEAN /\ authorized' \in BOOLEAN /\ ready' \in BOOLEAN
      BY <1>1 DEF SignIn
  <2>2. /\ generation' \in Nat /\ (up' /\ authorized' => generation' >= 1)
        /\ switches' \in 0 .. MaxSwitches /\ crashes' \in 0 .. MaxCrashes
      BY <1>1 DEF SignIn
  <2> QED BY <2>1, <2>2
<1>2. CASE ReplySigned
  <2>1. up' \in BOOLEAN /\ session' \in BOOLEAN /\ authorized' \in BOOLEAN /\ ready' \in BOOLEAN
      BY <1>2 DEF ReplySigned
  <2>2. /\ generation' \in Nat /\ (up' /\ authorized' => generation' >= 1)
        /\ switches' \in 0 .. MaxSwitches /\ crashes' \in 0 .. MaxCrashes
      BY <1>2 DEF ReplySigned
  <2> QED BY <2>1, <2>2
<1>3. CASE StartProcess
  <2>1. up' \in BOOLEAN /\ session' \in BOOLEAN /\ authorized' \in BOOLEAN /\ ready' \in BOOLEAN
      BY <1>3 DEF StartProcess
  <2>2. /\ generation' \in Nat /\ (up' /\ authorized' => generation' >= 1)
        /\ switches' \in 0 .. MaxSwitches /\ crashes' \in 0 .. MaxCrashes
      BY <1>3 DEF StartProcess
  <2> QED BY <2>1, <2>2
<1>4. CASE CachesFilled
  <2>1. up' \in BOOLEAN /\ session' \in BOOLEAN /\ authorized' \in BOOLEAN /\ ready' \in BOOLEAN
      BY <1>4 DEF CachesFilled
  <2>2. /\ generation' \in Nat /\ (up' /\ authorized' => generation' >= 1)
        /\ switches' \in 0 .. MaxSwitches /\ crashes' \in 0 .. MaxCrashes
      BY <1>4 DEF CachesFilled
  <2> QED BY <2>1, <2>2
<1>5. CASE Import
  <2>1. up' \in BOOLEAN /\ session' \in BOOLEAN /\ authorized' \in BOOLEAN /\ ready' \in BOOLEAN
      BY <1>5 DEF Import
  <2>2. /\ generation' \in Nat /\ (up' /\ authorized' => generation' >= 1)
        /\ switches' \in 0 .. MaxSwitches /\ crashes' \in 0 .. MaxCrashes
      BY <1>5 DEF Import
  <2> QED BY <2>1, <2>2
<1>6. CASE LogOut
  <2>1. up' \in BOOLEAN /\ session' \in BOOLEAN /\ authorized' \in BOOLEAN /\ ready' \in BOOLEAN
      BY <1>6 DEF LogOut
  <2>2. /\ generation' \in Nat /\ (up' /\ authorized' => generation' >= 1)
        /\ switches' \in 0 .. MaxSwitches /\ crashes' \in 0 .. MaxCrashes
      BY <1>6 DEF LogOut
  <2> QED BY <2>1, <2>2
<1>7. CASE Crash
  <2>1. up' \in BOOLEAN /\ session' \in BOOLEAN /\ authorized' \in BOOLEAN /\ ready' \in BOOLEAN
      BY <1>7 DEF Crash
  <2>2. /\ generation' \in Nat /\ (up' /\ authorized' => generation' >= 1)
        /\ switches' \in 0 .. MaxSwitches /\ crashes' \in 0 .. MaxCrashes
      BY <1>7 DEF Crash
  <2> QED BY <2>1, <2>2
<1>8. CASE UNCHANGED <<life, switches, crashes>>
    BY <1>8
<1> QED BY LifeFrame, <1>1, <1>2, <1>3, <1>4, <1>5, <1>6, <1>7, <1>8

LEMMA NextHandlerTypes ==
    ASSUME Types, KeysMatch, [Next]_vars
    PROVE  HandlerTypes'
<1>0. HandlerTypes /\ LifeTypes /\ RedisTypes
    BY DEF Types
<1> USE <1>0, Keys, Patterns
        DEF HandlerTypes, LifeTypes, RedisTypes, HandlerRest, Serving, Done, tally
<1>k. \A k \in Key : Delete(k) => kept' \in [Thread -> 0 .. MaxFaults]
  <2>1. \A k \in Key : k[1] = "test" => k[2] \in Thread
      BY Keys
  <2>2. MaxFaults \in Nat /\ kept \in [Thread -> 0 .. MaxFaults]
      BY RequestsAssumption
  <2>3. \A t \in Thread : kept[t] < MaxFaults => [kept EXCEPT ![t] = @ + 1] \in [Thread -> 0 .. MaxFaults]
      BY <2>2
  <2> QED BY <2>1, <2>2, <2>3 DEF Delete
<1>1. CASE \E h \in Handler : Scan(h)
    BY <1>1 DEF Scan, redis
<1>2. CASE \E h \in Handler : Begin(h)
    BY <1>2 DEF Begin, redis
<1>3. CASE \E h \in Handler : Leave(h)
    BY <1>3 DEF Leave, redis
<1>4. CASE FetchFails
    BY <1>4, <1>k DEF FetchFails, redis
<1>5. CASE FetchParticipant
    BY <1>5, <1>k DEF FetchParticipant, redis
<1>6. CASE SendTest
    BY <1>6 DEF SendTest, redis
<1>7. CASE ReplyTest
    BY <1>7, <1>k DEF ReplyTest, redis
<1>8. CASE Crash
    BY <1>8 DEF Crash, LifeRest
<1>9. CASE UNCHANGED <<handlers, tally>>
    BY <1>9 DEF handlers
<1> QED BY HandlerFrame, <1>1, <1>2, <1>3, <1>4, <1>5, <1>6, <1>7, <1>8, <1>9

LEMMA NextTypes ==
    ASSUME Types, KeysMatch, [Next]_vars
    PROVE  Types'
    BY NextThreadTypes, NextRedisTypes, NextPhoneTypes, NextLifeTypes, NextHandlerTypes DEF Types


-----------------------------------------------------------------------------
(***************************************************************************)
(* Keys and responses                                                      *)
(***************************************************************************)

\* A thread serves one request.
LEMMA AskedStays ==
    ASSUME ThreadTypes, [Next]_vars
    PROVE  \A t \in Thread : asked[t] # "nothing" => asked'[t] = asked[t]
<1> USE DEF ThreadTypes, Serve, TakeReply, PollRest, LoginRest
<1>1. CASE \E t \in Thread : AskChats(t)
    BY <1>1 DEF AskChats
<1>2. CASE \E t \in Thread : AskUsers(t)
    BY <1>2 DEF AskUsers
<1>3. CASE \E t \in Thread : AskChatInfo(t)
    BY <1>3 DEF AskChatInfo
<1>4. CASE \E t \in Thread : AskUserInfo(t)
    BY <1>4 DEF AskUserInfo
<1>5. CASE \E t \in Thread : AskTest(t)
    BY <1>5 DEF AskTest
<1>6. CASE \E t \in Thread : ReadList(t)
    BY <1>6 DEF ReadList
<1>7. CASE \E t \in Thread : ReadTest(t)
    BY <1>7 DEF ReadTest
<1>8. CASE \E t \in Thread : ReadInfo(t)
    BY <1>8 DEF ReadInfo
<1>9. CASE \E t \in Thread : GiveUp(t)
    BY <1>9 DEF GiveUp
<1>10. CASE \E t \in Thread : GiveUpUsers(t)
    BY <1>10 DEF GiveUpUsers
<1>11. CASE \E t \in Thread : FallBack(t)
    BY <1>11 DEF FallBack
<1>12. CASE \E t \in Thread : AskCode(t)
    BY <1>12 DEF AskCode
<1>13. CASE \E t \in Thread : AskResend(t)
    BY <1>13 DEF AskResend
<1>14. CASE \E t \in Thread : AskVerify(t)
    BY <1>14 DEF AskVerify
<1>15. CASE \E t \in Thread : ReadCode(t)
    BY <1>15 DEF ReadCode
<1>16. CASE \E t \in Thread : ReadVerified(t)
    BY <1>16 DEF ReadVerified
<1>17. CASE \E t \in Thread : Confirm(t)
    BY <1>17 DEF Confirm
<1>18. CASE \E t \in Thread : GiveUpLogin(t)
    BY <1>18 DEF GiveUpLogin
<1>19. CASE UNCHANGED <<asked, key, told>>
    BY <1>19
<1> HIDE DEF ThreadTypes
<1> QED BY ThreadFrame, <1>1, <1>2, <1>3, <1>4, <1>5, <1>6, <1>7, <1>8, <1>9, <1>10, <1>11, <1>12, <1>13, <1>14, <1>15, <1>16, <1>17, <1>18, <1>19

\* Who writes responses.
LEMMA ReplyFrame ==
    ASSUME [Next]_vars
    PROVE  \/ (\E t \in Thread : ReadList(t))
           \/ (\E t \in Thread : ReadTest(t))
           \/ (\E k \in requests : ServeList(k))
           \/ ReplyTest
           \/ (\E k \in Key : Expire(k))
           \/ UNCHANGED <<reply>>
<1> USE DEF threads, redis, phone, life, handlers, tally, AskRest, PollRest, HandlerRest, LoginRest, WorkerRest, LifeRest, Kept
<1>1. CASE 
          \/ (\E t \in Thread : AskChats(t))
          \/ (\E t \in Thread : AskUsers(t))
          \/ (\E t \in Thread : AskChatInfo(t))
          \/ (\E t \in Thread : AskUserInfo(t))
          \/ (\E t \in Thread : AskTest(t))
    BY <1>1 DEF AskChats, AskUsers, AskChatInfo, AskUserInfo, AskTest, Serve, Tell, Request, AskParticipant, TakeReply, Done, Submit, Reply, Store, Answered
<1>2. CASE 
          \/ (\E t \in Thread : ReadInfo(t))
          \/ (\E t \in Thread : GiveUp(t))
          \/ (\E t \in Thread : GiveUpUsers(t))
          \/ (\E t \in Thread : FallBack(t))
          \/ (\E t \in Thread : AskCode(t))
    BY <1>2 DEF ReadInfo, GiveUp, GiveUpUsers, FallBack, AskCode, Serve, Tell, Request, AskParticipant, TakeReply, Done, Submit, Reply, Store, Answered
<1>3. CASE 
          \/ (\E t \in Thread : AskResend(t))
          \/ (\E t \in Thread : AskVerify(t))
          \/ (\E t \in Thread : ReadCode(t))
          \/ (\E t \in Thread : ReadVerified(t))
          \/ (\E t \in Thread : Confirm(t))
    BY <1>3 DEF AskResend, AskVerify, ReadCode, ReadVerified, Confirm, Serve, Tell, Request, AskParticipant, TakeReply, Done, Submit, Reply, Store, Answered
<1>4. CASE 
          \/ (\E t \in Thread : GiveUpLogin(t))
          \/ (\E h \in Handler : Scan(h))
          \/ (\E h \in Handler : Begin(h))
          \/ (\E h \in Handler : Leave(h))
          \/ FetchFails
    BY <1>4 DEF GiveUpLogin, Scan, Begin, Leave, FetchFails, Serve, Tell, Request, AskParticipant, TakeReply, Done, Submit, Reply, Store, Answered
<1>5. CASE FetchParticipant \/ SendTest \/ TakeLogin \/ SendCode \/ ReplyCode
    BY <1>5 DEF FetchParticipant, SendTest, TakeLogin, SendCode, ReplyCode, Serve, Tell, Request, AskParticipant, TakeReply, Done, Submit, Reply, Store, Answered
<1>6. CASE SignIn \/ ReplySigned \/ LoginFails \/ ForgetContext \/ StartProcess
    BY <1>6 DEF SignIn, ReplySigned, LoginFails, ForgetContext, StartProcess, Serve, Tell, Request, AskParticipant, TakeReply, Done, Submit, Reply, Store, Answered
<1>7. CASE CachesFilled \/ Import \/ LogOut \/ Crash \/ UNCHANGED vars
    BY <1>7 DEF CachesFilled, Import, LogOut, Crash, vars, Serve, Tell, Request, AskParticipant, TakeReply, Done, Submit, Reply, Store, Answered
<1> QED BY <1>1, <1>2, <1>3, <1>4, <1>5, <1>6, <1>7 DEF Next, Interface, Handling, AuthWorker

LEMMA NextKeysMatch ==
    ASSUME Types, KeysMatch, [Next]_vars
    PROVE  KeysMatch'
<1> DEFINE Own(t) == told[t] = "waiting" =>
               /\ asked[t] \in {"chats", "test"} => key[t] = <<asked[t], t>>
               /\ asked[t] = "users" => key[t] \in {"users"} \X Stamp
               /\ asked[t] \in Info => key[t] = <<asked[t], Shared>>
           Fits(k) ==
               /\ k[1] \in {"chats", "users"} => reply[k] \in {"none", "list", "empty"}
               /\ k[1] \in Info => reply[k] = "none"
               /\ k[1] = "test" => reply[k] \in {"none", "sent", "failed"}
<1>0. ThreadTypes /\ (\A t \in Thread : Own(t)) /\ (\A k \in Key : Fits(k))
    BY DEF Types, KeysMatch
<1>a. \A t \in Thread : Own(t)'
  <2> USE <1>0 DEF ThreadTypes, Info, Code, Serve, Tell, Request, AskParticipant, Waits, TakeReply, PollRest,
           LoginRest, Submit, Answered
  <2>1. CASE \E t \in Thread : AskChats(t)
      BY <2>1 DEF AskChats
  <2>2. CASE \E t \in Thread : AskUsers(t)
      BY <2>2 DEF AskUsers
  <2>3. CASE \E t \in Thread : AskChatInfo(t)
      BY <2>3 DEF AskChatInfo
  <2>4. CASE \E t \in Thread : AskUserInfo(t)
      BY <2>4 DEF AskUserInfo
  <2>5. CASE \E t \in Thread : AskTest(t)
      BY <2>5 DEF AskTest
  <2>6. CASE \E t \in Thread : ReadList(t)
      BY <2>6 DEF ReadList
  <2>7. CASE \E t \in Thread : ReadTest(t)
      BY <2>7 DEF ReadTest
  <2>8. CASE \E t \in Thread : ReadInfo(t)
      BY <2>8 DEF ReadInfo
  <2>9. CASE \E t \in Thread : GiveUp(t)
      BY <2>9 DEF GiveUp
  <2>10. CASE \E t \in Thread : GiveUpUsers(t)
      BY <2>10 DEF GiveUpUsers
  <2>11. CASE \E t \in Thread : FallBack(t)
      BY <2>11 DEF FallBack
  <2>12. CASE \E t \in Thread : AskCode(t)
      BY <2>12 DEF AskCode
  <2>13. CASE \E t \in Thread : AskResend(t)
      BY <2>13 DEF AskResend
  <2>14. CASE \E t \in Thread : AskVerify(t)
      BY <2>14 DEF AskVerify
  <2>15. CASE \E t \in Thread : ReadCode(t)
      BY <2>15 DEF ReadCode
  <2>16. CASE \E t \in Thread : ReadVerified(t)
      BY <2>16 DEF ReadVerified
  <2>17. CASE \E t \in Thread : Confirm(t)
      BY <2>17 DEF Confirm
  <2>18. CASE \E t \in Thread : GiveUpLogin(t)
      BY <2>18 DEF GiveUpLogin
  <2>19. CASE UNCHANGED <<asked, key, told>>
      BY <2>19
  <2> HIDE DEF ThreadTypes, Own
  <2> QED BY ThreadFrame, <2>1, <2>2, <2>3, <2>4, <2>5, <2>6, <2>7, <2>8, <2>9, <2>10, <2>11, <2>12, <2>13, <2>14, <2>15, <2>16, <2>17, <2>18, <2>19
<1>b. \A k \in Key : Fits(k)'
  <2>0. /\ reply \in [Key -> {"none", "list", "empty", "sent", "failed"}]
        /\ doing["test"] \in Key \cup {NoKey} /\ (doing["test"] # NoKey => doing["test"][1] = "test")
        /\ \A t \in Thread : told[t] = "waiting" /\ asked[t] \in {"chats", "users", "test"} => key[t] \in Key
      BY PolledKeys, Patterns DEF Types, RedisTypes, HandlerTypes
  <2> USE <1>0, <2>0 DEF Info
  <2>1. CASE \E t \in Thread : ReadList(t)
      BY <2>1 DEF ReadList, TakeReply, Waits
  <2>2. CASE \E t \in Thread : ReadTest(t)
      BY <2>2 DEF ReadTest, TakeReply, Waits
  <2>3. CASE \E k \in requests : ServeList(k)
      BY <2>3 DEF ServeList, Respond
  <2>4. CASE ReplyTest
      BY <2>4 DEF ReplyTest, Respond
  <2>5. CASE \E k \in Key : Expire(k)
      BY <2>5 DEF Expire
  <2>6. CASE UNCHANGED <<reply>>
      BY <2>6
  <2> HIDE DEF Fits
  <2> QED BY ReplyFrame, <2>1, <2>2, <2>3, <2>4, <2>5, <2>6
<1> QED BY <1>a, <1>b DEF KeysMatch

-----------------------------------------------------------------------------
(***************************************************************************)
(* Test messages                                                           *)
(***************************************************************************)

\* A test message is counted once it is sent, and stays so.
LEMMA SentStays ==
    ASSUME Types, [Next]_vars
    PROVE  \A t \in Thread : sent'[t] >= sent[t]
<1>0. sent \in [Thread -> Nat] /\ (doing["test"] # NoKey => doing["test"][2] \in Thread)
    BY Patterns DEF Types, HandlerTypes
<1>1. CASE SendTest
    BY <1>0, <1>1 DEF SendTest
<1>2. CASE sent' = sent
    BY <1>0, <1>2
<1>3. CASE \/ (\E h \in Handler : Scan(h) \/ Begin(h) \/ Leave(h))
           \/ FetchFails \/ FetchParticipant \/ ReplyTest \/ Crash
    BY <1>2, <1>3 DEF Scan, Begin, Leave, FetchFails, FetchParticipant, ReplyTest, Crash, LifeRest, tally
<1> QED BY HandlerFrame, <1>1, <1>2, <1>3 DEF tally

LEMMA NextSentForAKey ==
    ASSUME Types, Types', KeysMatch, SentForAKey, [Next]_vars
    PROVE  SentForAKey'
<1>0. /\ sent \in [Thread -> Nat] /\ sent' \in [Thread -> Nat]
      /\ doing \in [Handler -> Key \cup {NoKey}] /\ Handler = {"participant", "test"}
      /\ doing["test"] # NoKey => /\ doing["test"] \in Key /\ doing["test"][2] \in Thread
                                  /\ doing["test"] = <<"test", doing["test"][2]>>
      /\ \A t \in Thread : sent'[t] >= sent[t]
      /\ reply \in [Key -> {"none", "list", "empty", "sent", "failed"}]
      /\ \A t \in Thread : <<"test", t>> \in Key
    BY SentStays, Patterns, Keys DEF Types, HandlerTypes, RedisTypes
<1>1. delivered' => doing'["test"] # NoKey /\ sent'[doing'["test"][2]] > 0
  <2> USE <1>0 DEF SentForAKey
  <2>1. CASE \E h \in Handler : Scan(h)
      BY <2>1 DEF Scan
  <2>2. CASE \E h \in Handler : Begin(h)
      BY <2>2 DEF Begin
  <2>3. CASE \E h \in Handler : Leave(h)
      BY <2>3 DEF Leave
  <2>4. CASE FetchFails \/ FetchParticipant
      BY <2>4 DEF FetchFails, FetchParticipant, Done
  <2>5. CASE SendTest
      BY <2>5 DEF SendTest
  <2>6. CASE ReplyTest
      BY <2>6 DEF ReplyTest
  <2>7. CASE Crash
      BY <2>7 DEF Crash
  <2>8. CASE UNCHANGED <<handlers, tally>>
      BY <2>8 DEF handlers, tally
  <2> QED BY HandlerFrame, <2>1, <2>2, <2>3, <2>4, <2>5, <2>6, <2>7, <2>8
<1>2. \A t \in Thread : reply'[<<"test", t>>] = "sent" => sent'[t] > 0
  <2>0. \A t \in Thread : told[t] = "waiting" /\ asked[t] \in {"chats", "users", "test"} => key[t] \in Key
      BY PolledKeys
  <2> USE <1>0, <2>0 DEF SentForAKey
  <2>1. CASE (\E t \in Thread : ReadList(t)) \/ (\E t \in Thread : ReadTest(t))
    <3>1. \A k \in Key : reply'[k] \in {reply[k], "none"}
        BY <2>1 DEF ReadList, ReadTest, TakeReply, Waits
    <3> QED BY <3>1
  <2>2. CASE \E k \in requests : ServeList(k)
    <3>1. \A k \in Key : reply'[k] \in {reply[k], "list", "empty"}
        BY <2>2 DEF ServeList, Respond
    <3> QED BY <3>1
  <2>3. CASE ReplyTest
    <3>1. PICK what \in {"sent", "failed"} : /\ what = "sent" => delivered
                                             /\ Respond(doing["test"], what)
        BY <2>3 DEF ReplyTest
    <3>2. sent' = sent
        BY <2>3 DEF ReplyTest
    <3> QED BY <3>1, <3>2 DEF Respond
  <2>4. CASE \E k \in Key : Expire(k)
    <3>1. \A k \in Key : reply'[k] \in {reply[k], "none"}
        BY <2>4 DEF Expire
    <3> QED BY <3>1
  <2>5. CASE UNCHANGED <<reply>>
      BY <2>5
  <2> QED BY ReplyFrame, <2>1, <2>2, <2>3, <2>4, <2>5
<1>3. \A t \in Thread : told'[t] = "sent" => sent'[t] > 0
  <2>0. told \in [Thread -> Telling] /\ \A t \in Thread : told[t] = "sent" => sent'[t] > 0
    <3>1. told \in [Thread -> Telling]
        BY DEF Types, ThreadTypes
    <3>2. \A t \in Thread : told[t] = "sent" => sent[t] > 0
        BY DEF SentForAKey
    <3>3. \A t \in Thread : sent[t] \in Nat /\ sent'[t] \in Nat /\ sent'[t] >= sent[t]
        BY <1>0
    <3> QED BY <3>1, <3>2, <3>3
  <2>s. \A t \in Thread : reply[<<"test", t>>] = "sent" => sent'[t] > 0
    <3>1. \A t \in Thread : reply[<<"test", t>>] = "sent" => sent[t] > 0
        BY DEF SentForAKey
    <3>2. \A t \in Thread : sent[t] \in Nat /\ sent'[t] \in Nat /\ sent'[t] >= sent[t]
        BY <1>0
    <3> QED BY <3>1, <3>2
  <2> USE <2>0 DEF Serve, Tell, Request, AskParticipant, Waits, TakeReply, Submit, Answered
  <2>1. CASE \E t \in Thread : AskChats(t)
      BY <2>1 DEF AskChats, Info
  <2>2. CASE \E t \in Thread : AskUsers(t)
      BY <2>2 DEF AskUsers, Info
  <2>3. CASE \E t \in Thread : AskChatInfo(t)
      BY <2>3 DEF AskChatInfo, Info
  <2>4. CASE \E t \in Thread : AskUserInfo(t)
      BY <2>4 DEF AskUserInfo, Info
  <2>5. CASE \E t \in Thread : AskTest(t)
      BY <2>5 DEF AskTest, Info
  <2>6. CASE \E t \in Thread : ReadList(t)
    <3>1. PICK t \in Thread : Waits(t, {"chats", "users"}) /\ TakeReply(t)
        BY <2>6 DEF ReadList
    <3>2. key[t] \in Key /\ key[t][1] \in {"chats", "users"}
        BY <3>1, PolledKeys
    <3>3. reply[key[t]] # "sent"
        BY <3>2 DEF KeysMatch
    <3> QED BY <3>1, <3>3
  <2>7. CASE \E t \in Thread : ReadTest(t)
    <3>1. PICK t \in Thread : Waits(t, {"test"}) /\ TakeReply(t)
        BY <2>7 DEF ReadTest
    <3>2. key[t] = <<"test", t>>
        BY <3>1, PolledKeys
    <3>3. reply[key[t]] = "sent" => sent'[t] > 0
        BY <2>s, <3>2
    <3> QED BY <3>1, <3>3
  <2>8. CASE \E t \in Thread : ReadInfo(t)
      BY <2>8 DEF ReadInfo, Info
  <2>9. CASE \E t \in Thread : GiveUp(t)
      BY <2>9 DEF GiveUp, Info
  <2>10. CASE \E t \in Thread : GiveUpUsers(t)
      BY <2>10 DEF GiveUpUsers, Info
  <2>11. CASE \E t \in Thread : FallBack(t)
      BY <2>11 DEF FallBack, Info
  <2>12. CASE \E t \in Thread : AskCode(t)
      BY <2>12 DEF AskCode, Info
  <2>13. CASE \E t \in Thread : AskResend(t)
      BY <2>13 DEF AskResend, Info
  <2>14. CASE \E t \in Thread : AskVerify(t)
      BY <2>14 DEF AskVerify, Info
  <2>15. CASE \E t \in Thread : ReadCode(t)
      BY <2>15 DEF ReadCode, Info
  <2>16. CASE \E t \in Thread : ReadVerified(t)
      BY <2>16 DEF ReadVerified, Info
  <2>17. CASE \E t \in Thread : Confirm(t)
      BY <2>17 DEF Confirm, Info
  <2>18. CASE \E t \in Thread : GiveUpLogin(t)
      BY <2>18 DEF GiveUpLogin, Info
  <2>19. CASE UNCHANGED <<asked, key, told>>
      BY <2>19
  <2> QED BY ThreadFrame, <2>1, <2>2, <2>3, <2>4, <2>5, <2>6, <2>7, <2>8, <2>9, <2>10, <2>11, <2>12, <2>13, <2>14, <2>15, <2>16, <2>17, <2>18, <2>19
<1> QED BY <1>1, <1>2, <1>3 DEF SentForAKey

\* Only a thread adds the request for its own test message.
LEMMA TestKeysAsked ==
    ASSUME Types, [Next]_vars
    PROVE  \/ \E t \in Thread : AskTest(t)
           \/ \A t \in Thread : <<"test", t>> \in requests' => <<"test", t>> \in requests
<1> USE DEF Info, Serve, Tell, Request, AskParticipant, TakeReply, PollRest, HandlerRest,
         WorkerRest, LifeRest, Done, Delete
<1>1. CASE \E t \in Thread : AskChats(t)
    BY <1>1 DEF AskChats
<1>2. CASE \E t \in Thread : AskUsers(t)
    BY <1>2 DEF AskUsers
<1>3. CASE \E t \in Thread : AskChatInfo(t)
    BY <1>3 DEF AskChatInfo
<1>4. CASE \E t \in Thread : AskUserInfo(t)
    BY <1>4 DEF AskUserInfo
<1>5. CASE \E t \in Thread : AskTest(t)
    BY <1>5
<1>6. CASE \E t \in Thread : ReadList(t)
    BY <1>6 DEF ReadList
<1>7. CASE \E t \in Thread : ReadTest(t)
    BY <1>7 DEF ReadTest
<1>8. CASE \E t \in Thread : GiveUp(t)
    BY <1>8 DEF GiveUp
<1>9. CASE \E t \in Thread : GiveUpUsers(t)
    BY <1>9 DEF GiveUpUsers
<1>10. CASE \E k \in requests : ServeList(k)
    BY <1>10 DEF ServeList
<1>11. CASE FetchFails
    BY <1>11 DEF FetchFails
<1>12. CASE FetchParticipant
    BY <1>12 DEF FetchParticipant
<1>13. CASE ReplyTest
    BY <1>13 DEF ReplyTest
<1>14. CASE ReplySigned
    BY <1>14 DEF ReplySigned
<1>15. CASE \E k \in Key : Expire(k)
    BY <1>15 DEF Expire
<1>16. CASE StartProcess
    BY <1>16 DEF StartProcess
<1>17. CASE CachesFilled
    BY <1>17 DEF CachesFilled
<1>18. CASE Import
    BY <1>18 DEF Import
<1>19. CASE LogOut
    BY <1>19 DEF LogOut
<1>20. CASE UNCHANGED <<requests, reply, info, lists, advertised>>
    BY <1>20
<1> QED BY RedisFrame, <1>1, <1>2, <1>3, <1>4, <1>5, <1>6, <1>7, <1>8, <1>9, <1>10, <1>11, <1>12, <1>13, <1>14, <1>15, <1>16, <1>17, <1>18, <1>19, <1>20

LEMMA CrashesCounted ==
    ASSUME [Next]_vars
    PROVE  Crash \/ crashes' = crashes
    BY LifeFrame DEF SignIn, ReplySigned, StartProcess, CachesFilled, Import, LogOut, WorkerRest

\* What is counted of a request stays with that request.
LEMMA DeletionsCounted ==
    ASSUME Types, NEW q \in Key, Delete(q), NEW t \in Thread
    PROVE  /\ <<"test", t>> \in requests' => <<"test", t>> \in requests
           /\ q # <<"test", t>> => kept'[t] = kept[t]
           /\ q = <<"test", t>> => \/ q \notin requests' /\ kept'[t] = kept[t]
                                  \/ kept'[t] = kept[t] + 1
<1>0. kept \in [Thread -> 0 .. MaxFaults]
    BY DEF Types, HandlerTypes
<1>1. q[1] = "test" => q[2] \in Thread /\ q = <<"test", q[2]>>
    BY Keys
<1>2. q # <<"test", t>> => kept'[t] = kept[t]
    BY <1>0, <1>1 DEF Delete
<1>3. q = <<"test", t>> => q[1] = "test" /\ q[2] = t
    OBVIOUS
<1> QED BY <1>0, <1>2, <1>3 DEF Delete

LEMMA NextSentOnce ==
    ASSUME Types, SentForAKey, SentOnce, [Next]_vars
    PROVE  SentOnce'
<1> SUFFICES ASSUME NEW t \in Thread
             PROVE  LET k == <<"test", t>> IN
                      (/\ k \in requests \cup batch["test"] \/ doing["test"] = k => asked[t] = "test"
                       /\ asked[t] # "test" => sent[t] = 0
                       /\ doing["test"] = k => k \notin batch["test"]
                       /\ k \in requests /\ ~(doing["test"] = k /\ delivered) =>
                             sent[t] <= crashes + kept[t]
                       /\ k \in batch["test"] => sent[t] <= crashes + kept[t]
                       /\ doing["test"] = k /\ ~delivered => sent[t] <= crashes + kept[t]
                       /\ sent[t] <= 1 + crashes + kept[t])'
    BY DEF SentOnce
<1> DEFINE k == <<"test", t>>
<1>0. /\ sent \in [Thread -> Nat] /\ crashes \in Nat
      /\ k \in Key /\ k \in Pattern("test") /\ k[2] = t /\ k # NoKey
      /\ Handler = {"participant", "test"} /\ k \notin Pattern("participant")
      /\ doing \in [Handler -> Key \cup {NoKey}] /\ batch \in [Handler -> SUBSET Key]
      /\ doing["test"] # NoKey => doing["test"][2] \in Thread /\ doing["test"] = <<"test", doing["test"][2]>>
      /\ doing["participant"] \in Pattern("participant") \cup {NoKey}
      /\ asked[t] # "nothing" => asked'[t] = asked[t]
      /\ delivered => doing["test"] # NoKey
    BY AskedStays, Patterns, Keys DEF Types, HandlerTypes, LifeTypes, SentForAKey, Info
<1>n. sent[t] \in Nat /\ kept[t] \in Nat
    BY <1>0, RequestsAssumption DEF Types, HandlerTypes
<1>1. /\ k \in requests \cup batch["test"] \/ doing["test"] = k => asked[t] = "test"
      /\ asked[t] # "test" => sent[t] = 0
      /\ doing["test"] = k => k \notin batch["test"]
      /\ k \in requests /\ ~(doing["test"] = k /\ delivered) => sent[t] <= crashes + kept[t]
      /\ k \in batch["test"] => sent[t] <= crashes + kept[t]
      /\ doing["test"] = k /\ ~delivered => sent[t] <= crashes + kept[t]
      /\ sent[t] <= 1 + crashes + kept[t]
    BY DEF SentOnce
<1>2. asked'[t] # "test" => asked[t] # "test"
    BY <1>0
<1> HIDE DEF k
<1> USE <1>0, <1>1, <1>2
<1>3. CASE \E u \in Thread : AskTest(u)
  <2>1. PICK u \in Thread : AskTest(u)
      BY <1>3
  <2>2. asked'[u] = "test" /\ requests' = requests \cup {<<"test", u>>} /\ asked[u] = "nothing"
      BY <2>1 DEF AskTest, Serve, Request, Types, ThreadTypes
  <2>3. UNCHANGED <<handlers, tally, crashes>>
      BY <2>1 DEF AskTest, AskRest
  <2>4. k = <<"test", u>> <=> t = u
      BY DEF k
  <2>5. CASE t = u
    <3>1. sent[t] = 0 /\ asked'[t] = "test"
        BY <2>2, <2>5
    <3>2. /\ sent'[t] = 0 /\ crashes' \in Nat /\ kept'[t] \in Nat
        BY <1>n, <2>3, <3>1 DEF tally
    <3>3. sent'[t] <= crashes' + kept'[t] /\ sent'[t] <= 1 + crashes' + kept'[t]
        BY <3>2
    <3> QED BY <2>2, <2>3, <2>5, <3>1, <3>3 DEF handlers, k
  <2>6. CASE t # u
      BY <2>2, <2>3, <2>4, <2>6 DEF handlers, tally, k
  <2> QED BY <2>5, <2>6
<1>4. CASE k \in requests' => k \in requests
  <2> USE <1>4
  <2>1. CASE \E h \in Handler : Scan(h)
      BY <2>1 DEF Scan, HandlerRest, tally, k
  <2>2. CASE \E h \in Handler : Begin(h)
      BY <2>2 DEF Begin, HandlerRest, tally, k
  <2>3. CASE \E h \in Handler : Leave(h)
      BY <2>3 DEF Leave, HandlerRest, tally, k
  <2>4. CASE FetchFails \/ FetchParticipant
    <3>1. Done("participant") /\ doing["participant"] # NoKey /\ UNCHANGED <<delivered, sent, asked, crashes>>
        BY <2>4 DEF FetchFails, FetchParticipant, HandlerRest, threads
    <3>2. doing["participant"] \in Key /\ doing["participant"] # k
        BY <3>1
    <3>3. kept'[t] = kept[t]
        BY <3>1, <3>2, DeletionsCounted DEF Done, k
    <3> QED BY <3>1, <3>3 DEF Done, k
  <2>5. CASE SendTest
    <3>1. /\ doing["test"] # NoKey /\ ~delivered /\ delivered'
          /\ sent' = [sent EXCEPT ![doing["test"][2]] = @ + 1]
          /\ UNCHANGED <<batch, doing, kept, crashes>>
        BY <2>5 DEF SendTest, HandlerRest
    <3>2. CASE doing["test"] = k
      <4>1. sent'[t] = sent[t] + 1 /\ sent[t] <= crashes + kept[t]
          BY <3>1, <3>2
      <4>2. sent'[t] <= 1 + crashes' + kept'[t]
          BY <1>n, <3>1, <4>1
      <4>3. asked'[t] = "test"
          BY <3>2
      <4> QED BY <3>1, <3>2, <4>2, <4>3 DEF k
    <3>3. CASE doing["test"] # k
      <4>1. sent'[t] = sent[t]
          BY <3>1, <3>3 DEF k
      <4> QED BY <3>1, <3>3, <4>1 DEF k
    <3> QED BY <3>2, <3>3
  <2>6. CASE ReplyTest
    <3>1. /\ doing["test"] # NoKey /\ Delete(doing["test"]) /\ doing["test"] \in Key
          /\ doing'["test"] = NoKey /\ UNCHANGED <<batch, sent, crashes>>
        BY <2>6 DEF ReplyTest, HandlerRest, Done
    <3>2. CASE doing["test"] # k
      <4>1. kept'[t] = kept[t]
          BY <3>1, <3>2, DeletionsCounted DEF k
      <4> QED BY <3>1, <3>2, <4>1 DEF k
    <3>3. CASE doing["test"] = k
      <4>1. \/ k \notin requests' /\ kept'[t] = kept[t]
            \/ kept'[t] = kept[t] + 1
          BY <3>1, <3>3, DeletionsCounted DEF k
      <4>2. sent'[t] <= 1 + crashes' + kept'[t]
          BY <1>n, <3>1, <4>1
      <4>3. k \in requests' => sent'[t] <= crashes' + kept'[t]
          BY <1>n, <3>1, <4>1
      <4>4. asked'[t] = "test"
          BY <3>3
      <4> QED BY <3>1, <3>3, <4>2, <4>3, <4>4 DEF k
    <3> QED BY <3>2, <3>3
  <2>7. CASE Crash
    <3>1. /\ batch'["test"] = {} /\ doing'["test"] = NoKey /\ crashes' = crashes + 1
          /\ UNCHANGED <<asked, sent, kept>>
        BY <2>7 DEF Crash, LifeRest, threads, tally
    <3>2. sent'[t] <= crashes' + kept'[t] /\ sent'[t] <= 1 + crashes' + kept'[t]
        BY <1>n, <3>1
    <3> QED BY <3>1, <3>2 DEF k
  <2>8. CASE UNCHANGED <<handlers, tally>> /\ crashes' = crashes
      BY <2>8 DEF handlers, tally, k
  <2> QED BY HandlerFrame, CrashesCounted, <2>1, <2>2, <2>3, <2>4, <2>5, <2>6, <2>7, <2>8
<1> QED BY TestKeysAsked, <1>3, <1>4 DEF k

-----------------------------------------------------------------------------
(***************************************************************************)
(* Log-ins                                                                 *)
(***************************************************************************)

\* How the queue moves
Enqueue(t) ==
    /\ asked[t] = "nothing" /\ asked'[t] \in Login /\ told'[t] = "waiting"
    /\ \E h \in Hash : queue' = Append(queue, [thread |-> t, action |-> asked'[t], hash |-> h])
    /\ UNCHANGED <<answers, context, signing, issued, signedBy, faults>>

LEMMA SubmitEnqueues ==
    ASSUME Types, NEW t \in Thread, AskCode(t) \/ AskResend(t) \/ AskVerify(t)
    PROVE  Enqueue(t) \/ (queue' = queue /\ excused' = excused /\ told'[t] = "expired"
                          /\ UNCHANGED <<answers, context, signing, issued, signedBy, faults>>)
<1>1. /\ asked[t] = "nothing" /\ told \in [Thread -> Telling] /\ asked \in [Thread -> Kind \cup {"nothing"}]
      /\ 0 \in Hash /\ Context \in Hash
    BY DEF Types, ThreadTypes, PhoneTypes, AskCode, AskResend, AskVerify, Serve, Context, Hash
<1>2. CASE AskCode(t)
    BY <1>1, <1>2 DEF AskCode, Serve, Submit, Enqueue, Login, Code
<1>3. CASE AskResend(t)
    BY <1>1, <1>3 DEF AskResend, Serve, Submit, Enqueue, Login, Code
<1>4. CASE AskVerify(t)
    BY <1>1, <1>4 DEF AskVerify, Serve, Submit, Enqueue, Login, Code
<1> QED BY <1>2, <1>3, <1>4

LEMMA QueueSteps ==
    ASSUME Types, [Next]_vars
    PROVE  \/ \E t \in Thread : Enqueue(t)
           \/ TakeLogin
           \/ queue' = <<>>
           \/ queue' = queue
<1>1. CASE \E t \in Thread : AskCode(t) \/ AskResend(t) \/ AskVerify(t)
    BY <1>1, SubmitEnqueues
<1>2. CASE \E t \in Thread : ReadCode(t) \/ ReadVerified(t) \/ GiveUpLogin(t)
    BY <1>2 DEF ReadCode, ReadVerified, GiveUpLogin
<1>3. CASE SendCode \/ ReplyCode \/ SignIn \/ ReplySigned \/ LoginFails
    BY <1>3 DEF SendCode, ReplyCode, SignIn, ReplySigned, LoginFails
<1>4. CASE ForgetContext \/ StartProcess \/ Crash
    BY <1>4 DEF ForgetContext, StartProcess, Crash, Kept
<1> QED BY PhoneFrame, <1>1, <1>2, <1>3, <1>4

\* Who gets an answer, and who reads one
LEMMA AnswerSteps ==
    ASSUME Types, [Next]_vars
    PROVE  \/ TakeLogin \/ ReplyCode \/ ReplySigned \/ LoginFails
           \/ \A t \in Thread : answers'[t] \in {answers[t], NoAnswer}
<1>0. answers \in [Thread -> AnswerSet]
    BY DEF Types, PhoneTypes
<1> USE <1>0
<1>1. CASE \E t \in Thread : AskCode(t) \/ AskResend(t) \/ AskVerify(t) \/ GiveUpLogin(t)
    BY <1>1 DEF AskCode, AskResend, AskVerify, GiveUpLogin
<1>2. CASE \E t \in Thread : ReadCode(t) \/ ReadVerified(t)
    BY <1>2 DEF ReadCode, ReadVerified, Answered
<1>3. CASE SendCode \/ SignIn
    BY <1>3 DEF SendCode, SignIn
<1>4. CASE ForgetContext \/ StartProcess \/ Crash
    BY <1>4 DEF ForgetContext, StartProcess, Crash, Kept
<1> QED BY PhoneFrame, <1>1, <1>2, <1>3, <1>4

LEMMA SigningSteps ==
    ASSUME [Next]_vars
    PROVE  \/ TakeLogin \/ SendCode \/ SignIn
           \/ signing' = NoLogin /\ signedBy' = signedBy
           \/ signing' = signing /\ signedBy' = signedBy
<1>1. CASE \E t \in Thread : AskCode(t) \/ AskResend(t) \/ AskVerify(t) \/ GiveUpLogin(t)
    BY <1>1 DEF AskCode, AskResend, AskVerify, GiveUpLogin
<1>2. CASE \E t \in Thread : ReadCode(t) \/ ReadVerified(t)
    BY <1>2 DEF ReadCode, ReadVerified
<1>3. CASE ReplyCode \/ ReplySigned \/ LoginFails
    BY <1>3 DEF ReplyCode, ReplySigned, LoginFails
<1>4. CASE ForgetContext \/ StartProcess \/ Crash
    BY <1>4 DEF ForgetContext, StartProcess, Crash, LifeRest
<1> QED BY PhoneFrame, <1>1, <1>2, <1>3, <1>4

LEMMA SignedByStays ==
    ASSUME [Next]_vars
    PROVE  signedBy \subseteq signedBy'
    BY SigningSteps DEF TakeLogin, SendCode, SignIn

LEMMA NextLoginsMatch ==
    ASSUME Types, Types', KeysMatch, LoginsMatch, [Next]_vars
    PROVE  LoginsMatch'
<1>0. /\ queue \in Seq(Entry) /\ signing \in {NoLogin} \cup InHand /\ answers \in [Thread -> AnswerSet]
      /\ asked \in [Thread -> Kind \cup {"nothing"}] /\ told \in [Thread -> Telling]
      /\ \A t \in Thread : asked[t] # "nothing" => asked'[t] = asked[t]
      /\ signedBy \subseteq signedBy'
    BY AskedStays, SignedByStays DEF Types, PhoneTypes, ThreadTypes
<1>1. \A i \in 1 .. Len(queue') : queue'[i].action = asked'[queue'[i].thread]
  <2>0. \A i \in 1 .. Len(queue) : /\ queue[i] \in Entry /\ queue[i].thread \in Thread
                                   /\ asked[queue[i].thread] # "nothing"
                                   /\ queue[i].action = asked'[queue[i].thread]
    <3>1. \A i \in 1 .. Len(queue) : queue[i] \in Entry
        BY <1>0
    <3> QED BY <1>0, <3>1 DEF LoginsMatch, Entry, Login, Code
  <2>1. CASE \E t \in Thread : Enqueue(t)
    <3>1. PICK t \in Thread, h \in Hash : queue' = Append(queue, [thread |-> t, action |-> asked'[t], hash |-> h])
        BY <2>1 DEF Enqueue
    <3> DEFINE e == [thread |-> t, action |-> asked'[t], hash |-> h]
    <3>2. e \in Entry /\ e.thread = t /\ e.action = asked'[t]
      <4>1. PICK u \in Thread : Enqueue(u)
          BY <2>1
      <4>2. queue' \in Seq(Entry) /\ Len(queue') = Len(queue) + 1 /\ queue'[Len(queue) + 1] = e
          BY <1>0, <3>1 DEF Types, PhoneTypes
      <4> QED BY <1>0, <4>2
    <3> HIDE DEF e
    <3>3. queue' = Append(queue, e)
        BY <3>1 DEF e
    <3> QED BY <1>0, <2>0, <3>2, <3>3, QueueGrows
  <2>2. CASE TakeLogin
      BY <1>0, <2>0, <2>2, QueueTaken DEF TakeLogin
  <2>3. CASE queue' = <<>>
      BY <2>3
  <2>4. CASE queue' = queue
      BY <2>0, <2>4
  <2> QED BY QueueSteps, <2>1, <2>2, <2>3, <2>4
<1>2. signing' # NoLogin =>
          /\ signing'.action \in Code \cup {"sent"} => asked'[signing'.thread] \in Code
          /\ signing'.action \in {"verify", "signed"} => asked'[signing'.thread] = "verify"
          /\ signing'.action = "signed" => signing'.thread \in signedBy'
  <2>0. /\ signing # NoLogin => signing \in InHand /\ signing.thread \in Thread
        /\ signing # NoLogin => asked'[signing.thread] = asked[signing.thread]
      BY <1>0 DEF InHand, LoginsMatch, Code, Login
  <2>1. CASE TakeLogin
    <3>1. Head(queue) = queue[1] /\ 1 \in 1 .. Len(queue) /\ Head(queue) \in Entry
        BY <1>0, <2>1, QueueTaken DEF TakeLogin
    <3>2. asked[Head(queue).thread] = Head(queue).action /\ Head(queue).action \in Login /\ Head(queue).thread \in Thread
        BY <3>1 DEF LoginsMatch, Entry
    <3>3. asked'[Head(queue).thread] = Head(queue).action
        BY <1>0, <3>2 DEF Login, Code
    <3>4. signedBy' = signedBy /\ signing' \in {signing, Head(queue)}
        BY <2>1 DEF TakeLogin
    <3> QED BY <1>0, <2>0, <3>2, <3>3, <3>4 DEF LoginsMatch, Login, Code
  <2>2. CASE SendCode
      BY <2>0, <2>2 DEF SendCode, LoginsMatch, InHand, Code
  <2>3. CASE SignIn
      BY <2>0, <2>3 DEF SignIn, LoginsMatch, InHand, Code
  <2>4. CASE signing' = NoLogin
      BY <2>4
  <2>5. CASE signing' = signing
      BY <1>0, <2>0, <2>5 DEF LoginsMatch
  <2> QED BY SigningSteps, <2>1, <2>2, <2>3, <2>4, <2>5
<1>3. \A t \in Thread : /\ answers'[t] # NoAnswer => asked'[t] \in Login
                        /\ answers'[t].ok /\ asked'[t] = "verify" => t \in signedBy'
  <2>0. /\ \A t \in Thread : /\ answers[t] # NoAnswer => asked'[t] \in Login
                             /\ answers[t].ok /\ asked'[t] = "verify" => t \in signedBy'
    <3>1. \A t \in Thread : answers[t] # NoAnswer => asked'[t] = asked[t]
        BY <1>0 DEF LoginsMatch, Login, Code
    <3>2. \A t \in Thread : answers[t].ok => answers[t] # NoAnswer
        BY DEF NoAnswer
    <3> QED BY <1>0, <3>1, <3>2 DEF LoginsMatch
  <2>1. ASSUME NEW u \in Thread, NEW ok \in BOOLEAN, NEW h, Reply(u, ok, h),
               asked'[u] \in Login, ok /\ asked'[u] = "verify" => u \in signedBy'
        PROVE  \A t \in Thread : /\ answers'[t] # NoAnswer => asked'[t] \in Login
                                 /\ answers'[t].ok /\ asked'[t] = "verify" => t \in signedBy'
      BY <1>0, <2>0, <2>1 DEF Reply
  <2>2. signing # NoLogin => /\ signing.thread \in Thread /\ asked[signing.thread] \in Login
                             /\ asked'[signing.thread] = asked[signing.thread]
      BY <1>0 DEF InHand, LoginsMatch, Code, Login
  <2>3. CASE TakeLogin
    <3>1. Head(queue) = queue[1] /\ 1 \in 1 .. Len(queue) /\ Head(queue) \in Entry
        BY <1>0, <2>3, QueueTaken DEF TakeLogin
    <3>2. asked[Head(queue).thread] = Head(queue).action /\ Head(queue).action \in Login /\ Head(queue).thread \in Thread
        BY <3>1 DEF LoginsMatch, Entry
    <3>3. asked'[Head(queue).thread] \in Login
        BY <1>0, <3>2 DEF Login, Code
    <3>4. Reply(Head(queue).thread, FALSE, 0) \/ answers' = answers
        BY <2>3 DEF TakeLogin
    <3> QED BY <2>0, <2>1, <3>2, <3>3, <3>4
  <2>4. CASE ReplyCode
    <3>1. Reply(signing.thread, TRUE, signing.hash) /\ signing # NoLogin /\ asked'[signing.thread] \in Code
        BY <2>2, <2>4 DEF ReplyCode, LoginsMatch
    <3> QED BY <2>1, <2>2, <3>1 DEF Login, Code
  <2>5. CASE ReplySigned
    <3>1. Reply(signing.thread, TRUE, 0) /\ signing # NoLogin /\ signing.thread \in signedBy'
        BY <1>0, <2>5 DEF ReplySigned, LoginsMatch
    <3> QED BY <2>1, <2>2, <3>1
  <2>6. CASE LoginFails
      BY <2>1, <2>2, <2>6 DEF LoginFails
  <2>7. CASE \A t \in Thread : answers'[t] \in {answers[t], NoAnswer}
    <3> SUFFICES ASSUME NEW t \in Thread
                 PROVE  /\ answers'[t] # NoAnswer => asked'[t] \in Login
                        /\ answers'[t].ok /\ asked'[t] = "verify" => t \in signedBy'
        OBVIOUS
    <3>1. CASE answers'[t] = answers[t]
        BY <2>0, <3>1
    <3>2. CASE answers'[t] = NoAnswer
        BY <3>2 DEF NoAnswer
    <3> QED BY <2>7, <3>1, <3>2
  <2> QED BY AnswerSteps, <2>3, <2>4, <2>5, <2>6, <2>7
<1>4. \A t \in Thread : told'[t] \in {"confirming", "authenticated"} => t \in signedBy'
  <2>0. \A t \in Thread : told[t] \in {"confirming", "authenticated"} => t \in signedBy'
      BY <1>0 DEF LoginsMatch
  <2> USE <1>0, <2>0 DEF Serve, Tell, Request, AskParticipant, Waits, TakeReply, Submit, Answered, LoginRest
  <2>1. CASE \E t \in Thread : AskChats(t)
      BY <2>1 DEF AskChats, Info
  <2>2. CASE \E t \in Thread : AskUsers(t)
      BY <2>2 DEF AskUsers, Info
  <2>3. CASE \E t \in Thread : AskChatInfo(t)
      BY <2>3 DEF AskChatInfo, Info
  <2>4. CASE \E t \in Thread : AskUserInfo(t)
      BY <2>4 DEF AskUserInfo, Info
  <2>5. CASE \E t \in Thread : AskTest(t)
      BY <2>5 DEF AskTest, Info
  <2>6. CASE \E t \in Thread : ReadList(t)
    <3>1. \A t \in Thread : told[t] = "waiting" /\ asked[t] \in {"chats", "users", "test"} =>
             reply[key[t]] \in {"none", "list", "empty", "sent", "failed"}
        BY PolledKeys
    <3> QED BY <2>6, <3>1 DEF ReadList
  <2>7. CASE \E t \in Thread : ReadTest(t)
    <3>1. \A t \in Thread : told[t] = "waiting" /\ asked[t] \in {"chats", "users", "test"} =>
             reply[key[t]] \in {"none", "list", "empty", "sent", "failed"}
        BY PolledKeys
    <3> QED BY <2>7, <3>1 DEF ReadTest
  <2>8. CASE \E t \in Thread : ReadInfo(t)
      BY <2>8 DEF ReadInfo, Info
  <2>9. CASE \E t \in Thread : GiveUp(t)
      BY <2>9 DEF GiveUp, Info
  <2>10. CASE \E t \in Thread : GiveUpUsers(t)
      BY <2>10 DEF GiveUpUsers, Info
  <2>11. CASE \E t \in Thread : FallBack(t)
      BY <2>11 DEF FallBack, Info
  <2>12. CASE \E t \in Thread : AskCode(t)
      BY <2>12 DEF AskCode, Info
  <2>13. CASE \E t \in Thread : AskResend(t)
      BY <2>13 DEF AskResend, Info
  <2>14. CASE \E t \in Thread : AskVerify(t)
      BY <2>14 DEF AskVerify, Info
  <2>15. CASE \E t \in Thread : ReadCode(t)
      BY <2>15 DEF ReadCode, Info
  <2>16. CASE \E t \in Thread : ReadVerified(t)
    <3>1. PICK t \in Thread : ReadVerified(t)
        BY <2>16
    <3>2. told' = [told EXCEPT ![t] = IF answers[t].ok THEN "confirming" ELSE "refused"] /\ asked[t] = "verify"
        BY <3>1 DEF ReadVerified
    <3>3. answers[t].ok => t \in signedBy'
        BY <3>2 DEF LoginsMatch
    <3> QED BY <3>2, <3>3
  <2>17. CASE \E t \in Thread : Confirm(t)
      BY <2>17 DEF Confirm, Info
  <2>18. CASE \E t \in Thread : GiveUpLogin(t)
      BY <2>18 DEF GiveUpLogin, Info
  <2>19. CASE UNCHANGED <<asked, key, told>>
      BY <2>19
  <2> QED BY ThreadFrame, <2>1, <2>2, <2>3, <2>4, <2>5, <2>6, <2>7, <2>8, <2>9, <2>10, <2>11, <2>12, <2>13, <2>14, <2>15, <2>16, <2>17, <2>18, <2>19
<1> QED BY <1>1, <1>2, <1>3, <1>4 DEF LoginsMatch

QueueDistinct == \A i, j \in 1 .. Len(queue) : queue[i].thread = queue[j].thread => i = j

\* A thread that has asked for nothing has nothing on the way.
LEMMA NothingAsked ==
    ASSUME Types, LoginsMatch, NEW u \in Thread, asked[u] = "nothing"
    PROVE  ~Queued(u) /\ ~Handled(u) /\ answers[u] = NoAnswer
<1>1. \A i \in 1 .. Len(queue) : queue[i].action \in Login
  <2>1. \A i \in 1 .. Len(queue) : queue[i] \in Entry
      BY DEF Types, PhoneTypes
  <2> QED BY <2>1 DEF Entry
<1>2. signing # NoLogin => signing.action \in Login \cup {"sent", "signed"}
    BY DEF Types, PhoneTypes, InHand
<1> QED BY <1>1, <1>2 DEF LoginsMatch, Queued, Handled, Login, Code

\* A thread that submits is nowhere yet, and then at the end of the queue.
LEMMA EnqueuedOnce ==
    ASSUME Types, LoginsMatch, OncePerThread, NEW u \in Thread, Enqueue(u)
    PROVE  /\ ~Queued(u) /\ ~Handled(u) /\ answers[u] = NoAnswer
           /\ \A t \in Thread : Queued(t)' <=> Queued(t) \/ t = u
           /\ QueueDistinct'
<1>1. PICK h \in Hash : queue' = Append(queue, [thread |-> u, action |-> asked'[u], hash |-> h])
    BY DEF Enqueue
<1> DEFINE e == [thread |-> u, action |-> asked'[u], hash |-> h]
<1>2. e \in Entry /\ e.thread = u
    BY DEF Enqueue, Entry
<1>3. queue \in Seq(Entry) /\ Len(queue) \in Nat
    BY DEF Types, PhoneTypes
<1>4. queue' = Append(queue, e)
    BY <1>1
<1> HIDE DEF e
<1>5. /\ Len(queue') = Len(queue) + 1 /\ queue'[Len(queue) + 1] = e
      /\ \A i \in 1 .. Len(queue) : queue'[i] = queue[i]
    BY <1>2, <1>3, <1>4, QueueGrows
<1>6. ~Queued(u) /\ ~Handled(u) /\ answers[u] = NoAnswer
    BY NothingAsked DEF Enqueue
<1>7. \A t \in Thread : Queued(t)' <=> Queued(t) \/ t = u
  <2> SUFFICES ASSUME NEW t \in Thread PROVE Queued(t)' <=> Queued(t) \/ t = u
      OBVIOUS
  <2>1. Queued(t) => Queued(t)'
      BY <1>3, <1>5 DEF Queued
  <2>2. t = u => Queued(t)'
      BY <1>2, <1>3, <1>5 DEF Queued
  <2>3. Queued(t)' => Queued(t) \/ t = u
    <3> SUFFICES ASSUME NEW i \in 1 .. Len(queue'), queue'[i].thread = t PROVE Queued(t) \/ t = u
        BY DEF Queued
    <3>1. i \in 1 .. Len(queue) \/ i = Len(queue) + 1
        BY <1>3, <1>5
    <3> QED BY <1>2, <1>5, <3>1 DEF Queued
  <2> QED BY <2>1, <2>2, <2>3
<1>8. QueueDistinct'
  <2> SUFFICES ASSUME NEW i \in 1 .. Len(queue'), NEW j \in 1 .. Len(queue'),
                      queue'[i].thread = queue'[j].thread
               PROVE  i = j
      BY DEF QueueDistinct
  <2>1. /\ i \in 1 .. Len(queue) \/ i = Len(queue) + 1
        /\ j \in 1 .. Len(queue) \/ j = Len(queue) + 1
      BY <1>3, <1>5
  <2> QED BY <1>2, <1>5, <1>6, <2>1 DEF Queued, OncePerThread
<1> QED BY <1>6, <1>7, <1>8

\* The entry that is taken was the only one of its thread.
LEMMA TakenOnce ==
    ASSUME Types, LoginsMatch, OncePerThread, TakeLogin
    PROVE  /\ Head(queue).thread \in Thread /\ Queued(Head(queue).thread) /\ signing = NoLogin
           /\ Head(queue).action \in Login /\ asked[Head(queue).thread] = Head(queue).action
           /\ \A t \in Thread : Queued(t)' <=> Queued(t) /\ t # Head(queue).thread
           /\ QueueDistinct'
<1>1. /\ queue \in Seq(Entry) /\ queue # <<>> /\ queue' = Tail(queue) /\ signing = NoLogin
    BY DEF Types, PhoneTypes, TakeLogin
<1>2. /\ Len(queue) \in Nat /\ Len(queue) >= 1 /\ Head(queue) = queue[1] /\ Head(queue) \in Entry
      /\ Len(queue') = Len(queue) - 1 /\ \A i \in 1 .. Len(queue') : queue'[i] = queue[i + 1]
    BY <1>1, QueueTaken
<1>3. Head(queue).thread \in Thread /\ Head(queue).action \in Login
    BY <1>2 DEF Entry
<1>4. Queued(Head(queue).thread) /\ asked[Head(queue).thread] = Head(queue).action
    BY <1>2 DEF Queued, LoginsMatch
<1>5. \A t \in Thread : Queued(t)' <=> Queued(t) /\ t # Head(queue).thread
  <2> SUFFICES ASSUME NEW t \in Thread PROVE Queued(t)' <=> Queued(t) /\ t # Head(queue).thread
      OBVIOUS
  <2>1. Queued(t)' => Queued(t) /\ t # Head(queue).thread
    <3> SUFFICES ASSUME NEW i \in 1 .. Len(queue'), queue'[i].thread = t
                 PROVE  Queued(t) /\ t # Head(queue).thread
        BY DEF Queued
    <3>1. i + 1 \in 1 .. Len(queue) /\ i + 1 # 1 /\ 1 \in 1 .. Len(queue) /\ queue[i + 1].thread = t
        BY <1>2
    <3> QED BY <1>2, <3>1 DEF Queued, OncePerThread
  <2>2. Queued(t) /\ t # Head(queue).thread => Queued(t)'
    <3> SUFFICES ASSUME NEW i \in 1 .. Len(queue), queue[i].thread = t, t # Head(queue).thread
                 PROVE  Queued(t)'
        BY DEF Queued
    <3>1. i # 1
        BY <1>2
    <3>2. i - 1 \in 1 .. Len(queue') /\ (i - 1) + 1 = i
        BY <1>2, <3>1
    <3>3. queue'[i - 1].thread = t
        BY <1>2, <3>2
    <3> QED BY <3>2, <3>3 DEF Queued
  <2> QED BY <2>1, <2>2
<1>6. QueueDistinct'
  <2> SUFFICES ASSUME NEW i \in 1 .. Len(queue'), NEW j \in 1 .. Len(queue'),
                      queue'[i].thread = queue'[j].thread
               PROVE  i = j
      BY DEF QueueDistinct
  <2>1. i + 1 \in 1 .. Len(queue) /\ j + 1 \in 1 .. Len(queue)
      BY <1>2
  <2>2. queue[i + 1].thread = queue[j + 1].thread
      BY <1>2
  <2>3. i + 1 = j + 1
      BY <2>1, <2>2 DEF OncePerThread
  <2> QED BY <1>2, <2>3
<1> QED BY <1>1, <1>3, <1>4, <1>5, <1>6

LEMMA NextOncePerThread ==
    ASSUME Types, LoginsMatch, OncePerThread, [Next]_vars
    PROVE  OncePerThread'
<1> SUFFICES /\ QueueDistinct'
             /\ \A t \in Thread : /\ ~(Queued(t)' /\ Handled(t)')
                                  /\ answers'[t] # NoAnswer => ~Queued(t)' /\ ~Handled(t)'
    BY DEF OncePerThread, QueueDistinct
<1>0. /\ answers \in [Thread -> AnswerSet] /\ (signing # NoLogin => signing.thread \in Thread)
      /\ \A t \in Thread : /\ ~(Queued(t) /\ Handled(t))
                           /\ answers[t] # NoAnswer => ~Queued(t) /\ ~Handled(t)
      /\ QueueDistinct
    BY DEF Types, PhoneTypes, InHand, OncePerThread, QueueDistinct
<1>a. ASSUME queue' = queue
      PROVE  QueueDistinct' /\ \A t \in Thread : Queued(t)' <=> Queued(t)
    BY <1>0, <1>a DEF QueueDistinct, Queued
<1>b. ASSUME queue' = queue, signing' \in {signing, NoLogin}, \A t \in Thread : answers'[t] \in {answers[t], NoAnswer}
      PROVE  /\ QueueDistinct'
             /\ \A t \in Thread : /\ ~(Queued(t)' /\ Handled(t)')
                                  /\ answers'[t] # NoAnswer => ~Queued(t)' /\ ~Handled(t)'
    BY <1>0, <1>a, <1>b DEF Handled
<1>1. CASE \E t \in Thread : AskCode(t) \/ AskResend(t) \/ AskVerify(t)
  <2>1. PICK u \in Thread : AskCode(u) \/ AskResend(u) \/ AskVerify(u)
      BY <1>1
  <2>2. CASE Enqueue(u)
    <3>1. answers' = answers /\ signing' = signing
        BY <2>2 DEF Enqueue
    <3> QED BY <1>0, <2>2, <3>1, EnqueuedOnce DEF Handled
  <2>3. CASE queue' = queue /\ UNCHANGED <<answers, signing>>
      BY <1>b, <2>3
  <2> QED BY <2>1, <2>2, <2>3, SubmitEnqueues
<1>2. CASE \E t \in Thread : ReadCode(t) \/ ReadVerified(t) \/ GiveUpLogin(t)
  <2>1. queue' = queue /\ signing' = signing /\ \A t \in Thread : answers'[t] \in {answers[t], NoAnswer}
      BY <1>0, <1>2 DEF ReadCode, ReadVerified, GiveUpLogin, Answered
  <2> QED BY <1>b, <2>1
<1>3. CASE TakeLogin
  <2>1. \/ answers' = [answers EXCEPT ![Head(queue).thread] = [ok |-> FALSE, hash |-> 0]] /\ signing' = signing
        \/ answers' = answers /\ signing' \in {signing, Head(queue)}
      BY <1>3 DEF TakeLogin, Reply
  <2> QED BY <1>0, <1>3, <2>1, TakenOnce DEF Handled
<1>4. CASE SendCode \/ SignIn
  <2>1. /\ queue' = queue /\ answers' = answers /\ signing # NoLogin
        /\ signing'.thread = signing.thread
    <3>1. signing \in InHand
        BY <1>4 DEF SendCode, SignIn, Types, PhoneTypes
    <3> QED BY <1>4, <3>1 DEF SendCode, SignIn, InHand
  <2> QED BY <1>0, <1>a, <2>1 DEF Handled
<1>5. CASE ReplyCode \/ ReplySigned \/ LoginFails
  <2>1. /\ queue' = queue /\ signing' = NoLogin /\ signing # NoLogin
        /\ \A t \in Thread : t # signing.thread => answers'[t] = answers[t]
      BY <1>0, <1>5 DEF ReplyCode, ReplySigned, LoginFails, Reply
  <2> QED BY <1>0, <1>a, <2>1 DEF Handled
<1>6. CASE ForgetContext \/ Crash
  <2>1. queue' = queue /\ signing' \in {signing, NoLogin} /\ answers' = answers
      BY <1>6 DEF ForgetContext, Crash, Kept
  <2> QED BY <1>b, <2>1
<1>7. CASE StartProcess
  <2>1. queue' = <<>> /\ \A t \in Thread : answers'[t] = NoAnswer
      BY <1>7 DEF StartProcess
  <2> QED BY <2>1, QueueEmpty DEF QueueDistinct, Queued
<1>8. CASE UNCHANGED <<queue, answers, context, signing, issued, signedBy, excused, faults>>
    BY <1>b, <1>8
<1> QED BY PhoneFrame, <1>1, <1>2, <1>3, <1>4, <1>5, <1>6, <1>7, <1>8

-----------------------------------------------------------------------------
(***************************************************************************)
(* Codes                                                                   *)
(***************************************************************************)

\* Who waits for a code changes with what the interface does about codes.
LEMMA CodeThreads ==
    ASSUME Types, KeysMatch, [Next]_vars
    PROVE  \/ \E t \in Thread : AskCode(t) \/ AskResend(t) \/ ReadCode(t) \/ GiveUpLogin(t)
           \/ \A t \in Thread : /\ AwaitsCode(t)' <=> AwaitsCode(t)
                                /\ asked'[t] \in Code <=> asked[t] \in Code
<1>0. ThreadTypes /\ \A t \in Thread : told[t] = "waiting" /\ asked[t] \in {"chats", "users", "test"} =>
             reply[key[t]] \in {"none", "list", "empty", "sent", "failed"}
    BY PolledKeys DEF Types
<1> USE <1>0 DEF ThreadTypes, AwaitsCode, Code, Info, Serve, Tell, Request, AskParticipant, Waits, TakeReply,
         PollRest, Submit, Answered, LoginRest
<1>1. CASE \E t \in Thread : AskChats(t)
    BY <1>1 DEF AskChats
<1>2. CASE \E t \in Thread : AskUsers(t)
    BY <1>2 DEF AskUsers
<1>3. CASE \E t \in Thread : AskChatInfo(t)
    BY <1>3 DEF AskChatInfo
<1>4. CASE \E t \in Thread : AskUserInfo(t)
    BY <1>4 DEF AskUserInfo
<1>5. CASE \E t \in Thread : AskTest(t)
    BY <1>5 DEF AskTest
<1>6. CASE \E t \in Thread : ReadList(t)
    BY <1>6 DEF ReadList
<1>7. CASE \E t \in Thread : ReadTest(t)
    BY <1>7 DEF ReadTest
<1>8. CASE \E t \in Thread : ReadInfo(t)
    BY <1>8 DEF ReadInfo
<1>9. CASE \E t \in Thread : GiveUp(t)
    BY <1>9 DEF GiveUp
<1>10. CASE \E t \in Thread : GiveUpUsers(t)
    BY <1>10 DEF GiveUpUsers
<1>11. CASE \E t \in Thread : FallBack(t)
    BY <1>11 DEF FallBack
<1>12. CASE \E t \in Thread : AskVerify(t)
    BY <1>12 DEF AskVerify
<1>13. CASE \E t \in Thread : ReadVerified(t)
    BY <1>13 DEF ReadVerified
<1>14. CASE \E t \in Thread : Confirm(t)
    BY <1>14 DEF Confirm
<1>15. CASE UNCHANGED <<asked, key, told>>
    BY <1>15
<1> HIDE DEF ThreadTypes, AwaitsCode, Code
<1> QED BY ThreadFrame, <1>1, <1>2, <1>3, <1>4, <1>5, <1>6, <1>7, <1>8, <1>9, <1>10, <1>11, <1>12, <1>13, <1>14, <1>15

LEMMA NextCodesInOrder ==
    ASSUME Types, Types', KeysMatch, LoginsMatch, OncePerThread, CodesInOrder, [Next]_vars
    PROVE  CodesInOrder'
<1>0. /\ answers \in [Thread -> AnswerSet] /\ issued \in Nat
      /\ signing # NoLogin => signing \in InHand /\ signing.thread \in Thread
      /\ \A t \in Thread : /\ ~(Queued(t) /\ Handled(t))
                           /\ answers[t] # NoAnswer => ~Queued(t) /\ ~Handled(t)
      /\ context.redis \in Nat /\ context.file \in Nat
      /\ context \in [redis : Hash, file : Hash]
    BY DEF Types, PhoneTypes, InHand, OncePerThread, Hash
<1>1. signing' # NoLogin /\ signing'.action = "sent" => signing'.hash = issued' /\ issued' > 0
  <2>0. signing # NoLogin /\ signing.action = "sent" => signing.hash = issued /\ issued > 0
      BY DEF CodesInOrder
  <2>1. CASE SendCode
      BY <1>0, <2>1 DEF SendCode, InHand
  <2>2. CASE SignIn
      BY <1>0, <2>2 DEF SignIn, InHand
  <2>3. CASE TakeLogin
    <3>1. Head(queue).action \in Login /\ issued' = issued /\ signing' \in {signing, Head(queue)}
        BY <2>3, TakenOnce DEF TakeLogin
    <3> QED BY <2>0, <3>1 DEF Login, Code
  <2>4. CASE signing' = NoLogin
      BY <2>4
  <2>5. CASE signing' = signing /\ ~SendCode
    <3>1. issued' = issued
        BY <2>5, PhoneFrame DEF AskCode, AskResend, AskVerify, ReadCode, ReadVerified, GiveUpLogin,
           TakeLogin, ReplyCode, SignIn, ReplySigned, LoginFails, ForgetContext, StartProcess, Crash, LifeRest
    <3> QED BY <2>0, <2>5, <3>1
  <2> QED BY SigningSteps, <2>1, <2>2, <2>3, <2>4, <2>5
<1>2. ASSUME ~excused' PROVE OneCodeAwaited' /\ CodesAwaited' /\ ContextCurrent'
  <2>0. excused => excused'
      BY PhoneFrame DEF AskCode, AskResend, AskVerify, ReadCode, ReadVerified, GiveUpLogin, Store,
         TakeLogin, SendCode, ReplyCode, SignIn, ReplySigned, LoginFails, ForgetContext, StartProcess, Crash,
         LifeRest, WorkerRest
  <2>1. OneCodeAwaited /\ CodesAwaited /\ ContextCurrent
      BY <1>2, <2>0 DEF CodesInOrder
  <2>2. ASSUME \A t \in Thread : (AwaitsCode(t)' <=> AwaitsCode(t)) /\ (asked'[t] \in Code <=> asked[t] \in Code)
        PROVE  OneCodeAwaited'
      BY <2>1, <2>2 DEF OneCodeAwaited
  <2>3. ASSUME queue' = queue PROVE \A t \in Thread : Queued(t)' <=> Queued(t)
      BY <2>3 DEF Queued
  <2> USE <1>0, <2>1 DEF OneCodeAwaited, CodesAwaited, ContextCurrent, CodeUnderWay
  <2> DEFINE SameThreads == \A t \in Thread : /\ AwaitsCode(t)' <=> AwaitsCode(t)
                                              /\ asked'[t] \in Code <=> asked[t] \in Code
  \* Nothing about codes changes but what threads are told, and answers to others.
  <2>4. ASSUME SameThreads, signing' = signing, issued' = issued,
               \A t \in Thread : asked[t] \in Code => /\ Queued(t)' <=> Queued(t)
                                                      /\ answers'[t] = answers[t],
               context'.redis = 0 \/ context'.file = 0,
               Context' \in {0, Context}
        PROVE  OneCodeAwaited' /\ CodesAwaited' /\ ContextCurrent'
    <3>1. \A t \in Thread : Handled(t)' <=> Handled(t)
        BY <2>4 DEF Handled
    <3>2. CodesAwaited'
        BY <2>4, <3>1
    <3>3. \A t \in Thread : CodeUnderWay(t) => CodeUnderWay(t)'
        BY <2>4, <3>1 DEF AwaitsCode
    <3>4. ContextCurrent'
        BY <2>4, <3>3
    <3> QED BY <2>4, <3>2, <3>4
  <2>5. CASE \E t \in Thread : AskCode(t) \/ AskResend(t)
    <3>1. PICK u \in Thread : AskCode(u) \/ AskResend(u)
        BY <2>5
    <3>2. /\ asked[u] = "nothing" /\ asked'[u] \in Code /\ told[u] = "nothing"
          /\ \A t \in Thread : t # u => asked'[t] = asked[t] /\ told'[t] = told[t]
        BY <3>1 DEF AskCode, AskResend, Serve, Submit, Code, Types, ThreadTypes
    <3>3. ~Queued(u) /\ ~Handled(u) /\ answers[u] = NoAnswer
        BY <3>2, NothingAsked
    <3>4. \A t \in Thread : t # u => (AwaitsCode(t)' <=> AwaitsCode(t))
        BY <3>2 DEF AwaitsCode
    <3>5. ~AwaitsCode(u)
        BY <3>2 DEF AwaitsCode
    <3>6. CASE Enqueue(u)
      <4>1. ~CodeAsked
        <5>1. queue' # queue
            BY <3>6, EnqueuedOnce, <3>3 DEF Queued
        <5> QED BY <1>2, <3>1, <5>1 DEF AskCode, AskResend
      <4>2. \A t \in Thread : ~AwaitsCode(t)
          BY <4>1 DEF CodeAsked, AwaitsCode
      <4>3. Context \in {0, issued}
          BY <4>2
      <4>4. /\ AwaitsCode(u)' /\ answers' = answers /\ context' = context /\ issued' = issued
            /\ signing' = signing
          BY <3>2, <3>6 DEF AwaitsCode, Enqueue
      <4>5. \A t \in Thread : (Queued(t)' <=> Queued(t) \/ t = u) /\ (Handled(t)' <=> Handled(t))
          BY <3>6, <4>4, EnqueuedOnce DEF Handled
      <4>6. OneCodeAwaited'
          BY <3>4, <4>2
      <4>7. CodesAwaited'
          BY <3>2, <3>3, <4>2, <4>4, <4>5 DEF NoAnswer
      <4>8. ContextCurrent'
          BY <4>3, <4>4 DEF Context
      <4> QED BY <4>6, <4>7, <4>8
    <3>7. CASE /\ queue' = queue /\ told'[u] = "expired"
               /\ UNCHANGED <<answers, context, signing, issued>>
      <4>1. \A t \in Thread : (AwaitsCode(t)' <=> AwaitsCode(t)) /\ (Queued(t)' <=> Queued(t))
                              /\ (Handled(t)' <=> Handled(t))
          BY <2>3, <3>4, <3>5, <3>7 DEF AwaitsCode, Handled
      <4>2. OneCodeAwaited'
          BY <4>1
      <4>3. CodesAwaited'
          BY <3>2, <3>3, <3>7, <4>1 DEF NoAnswer
      <4>4. ContextCurrent'
          BY <3>7, <4>1 DEF Context
      <4> QED BY <4>2, <4>3, <4>4
    <3> QED BY <3>1, <3>6, <3>7, SubmitEnqueues
  <2>6. CASE \E t \in Thread : ReadCode(t)
    <3>1. PICK u \in Thread : ReadCode(u)
        BY <2>6
    <3>2. /\ AwaitsCode(u) /\ answers[u] # NoAnswer /\ asked' = asked /\ told'[u] # "waiting"
          /\ \A t \in Thread : t # u => told'[t] = told[t] /\ answers'[t] = answers[t]
          /\ answers'[u] = NoAnswer
          /\ queue' = queue /\ signing' = signing /\ issued' = issued
        BY <3>1 DEF ReadCode, Answered, AwaitsCode, Types, ThreadTypes
    <3>3. \A t \in Thread : ~AwaitsCode(t)'
        BY <3>2 DEF AwaitsCode
    <3>4. \A t \in Thread : (Queued(t)' <=> Queued(t)) /\ (Handled(t)' <=> Handled(t))
        BY <2>3, <3>2 DEF Handled
    <3>5. CodesAwaited'
      <4> SUFFICES ASSUME NEW t \in Thread, asked'[t] \in Code
                   PROVE  ~Queued(t)' /\ ~Handled(t)' /\ answers'[t] = NoAnswer
          BY DEF NoAnswer
      <4>1. CASE t = u
          BY <3>2, <3>4, <4>1
      <4>2. CASE t # u
          BY <3>2, <3>4, <4>2
      <4> QED BY <4>1, <4>2
    <3>6. ContextCurrent'
      <4>1. CASE answers[u].ok
        <5>1. answers[u].hash = issued /\ issued > 0
            BY <3>2, <4>1 DEF AwaitsCode
        <5>2. /\ \/ context' = [context EXCEPT !.redis = issued]
                 \/ context' = [context EXCEPT !.file = issued]
              /\ ~(context'.redis # 0 /\ context'.file # 0)
            BY <1>2, <3>1, <4>1, <5>1 DEF ReadCode, Store
        <5>3. Context' \in {0, issued'}
            BY <3>2, <5>1, <5>2 DEF Context, Hash
        <5> QED BY <5>2, <5>3
      <4>2. CASE ~answers[u].ok
        <5>1. context' = context
            BY <3>1, <4>2 DEF ReadCode
        <5>2. \A t \in Thread : ~CodeUnderWay(t)
            BY <3>2, <4>2
        <5> QED BY <3>2, <5>1, <5>2 DEF Context
      <4> QED BY <4>1, <4>2
    <3> QED BY <3>3, <3>5, <3>6
  <2>7. CASE \E t \in Thread : GiveUpLogin(t)
    <3>1. PICK u \in Thread : GiveUpLogin(u)
        BY <2>7
    <3>2. /\ asked[u] \notin Code /\ asked' = asked /\ (\A t \in Thread : t # u => told'[t] = told[t])
          /\ UNCHANGED <<queue, answers, context, signing, issued>>
        BY <1>2, <3>1 DEF GiveUpLogin, Types, ThreadTypes
    <3>3. SameThreads
        BY <3>2 DEF AwaitsCode
    <3> QED BY <2>3, <2>4, <3>2, <3>3 DEF Context
  <2>8. CASE SameThreads
    <3> USE <2>8
    <3>1. CASE \E t \in Thread : AskVerify(t)
      <4>1. PICK u \in Thread : AskVerify(u)
          BY <3>1
      <4>2. asked'[u] = "verify"
          BY <4>1 DEF AskVerify, Serve, Types, ThreadTypes
      <4>3. asked[u] \notin Code
          BY <2>8, <4>2 DEF Code
      <4>4. CASE Enqueue(u)
        <5>1. \A t \in Thread : asked[t] \in Code => (Queued(t)' <=> Queued(t))
            BY <4>3, <4>4, EnqueuedOnce
        <5>2. answers' = answers /\ context' = context /\ issued' = issued /\ signing' = signing
            BY <4>4 DEF Enqueue
        <5> QED BY <2>4, <5>1, <5>2 DEF Context
      <4>5. CASE queue' = queue /\ UNCHANGED <<answers, context, signing, issued>>
          BY <2>3, <2>4, <4>5 DEF Context
      <4> QED BY <4>1, <4>4, <4>5, SubmitEnqueues
    <3>2. CASE \E t \in Thread : ReadVerified(t)
      <4>1. PICK u \in Thread : ReadVerified(u)
          BY <3>2
      <4>2. /\ asked[u] = "verify" /\ (\A t \in Thread : t # u => answers'[t] = answers[t])
            /\ UNCHANGED <<queue, signing, issued>>
          BY <4>1 DEF ReadVerified, Answered
      <4>3. \/ context' = context \/ context' = [context EXCEPT !.redis = 0]
            \/ context' = [context EXCEPT !.file = 0]
          BY <4>1 DEF ReadVerified
      <4>4. (context'.redis = 0 \/ context'.file = 0) /\ Context' \in {0, Context}
          BY <4>3 DEF Context
      <4> QED BY <2>3, <2>4, <4>2, <4>4 DEF Code
    <3>3. CASE TakeLogin
      <4> DEFINE u == Head(queue).thread
      <4>1. /\ u \in Thread /\ Queued(u) /\ signing = NoLogin
            /\ \A t \in Thread : Queued(t)' <=> Queued(t) /\ t # u
          BY <3>3, TakenOnce
      <4>2. /\ \/ answers' = [answers EXCEPT ![u] = [ok |-> FALSE, hash |-> 0]] /\ signing' = signing
               \/ answers' = answers /\ signing' \in {signing, Head(queue)}
            /\ context' = context /\ issued' = issued
          BY <3>3 DEF TakeLogin, Reply, WorkerRest
      <4>3. \A t \in Thread : (t # u => ~Handled(t)' /\ answers'[t] = answers[t]) /\ ~Handled(t)
          BY <4>1, <4>2 DEF Handled
      <4>4. answers'[u] # NoAnswer => ~answers'[u].ok
          BY <4>1, <4>2 DEF NoAnswer
      <4> HIDE DEF u
      <4>5. CodesAwaited'
        <5> SUFFICES ASSUME NEW t \in Thread, asked'[t] \in Code
                     PROVE  /\ Queued(t)' \/ Handled(t)' \/ answers'[t] # NoAnswer => AwaitsCode(t)'
                            /\ answers'[t].ok => answers'[t].hash = issued' /\ issued' > 0
            OBVIOUS
        <5>1. CASE t = u
            BY <4>1, <4>2, <4>4, <5>1 DEF NoAnswer
        <5>2. CASE t # u
            BY <4>1, <4>2, <4>3, <5>2
        <5> QED BY <5>1, <5>2
      <4>6. \A t \in Thread : CodeUnderWay(t) => CodeUnderWay(t)'
          BY <4>1, <4>2, <4>3
      <4>7. Context' = Context
          BY <4>2 DEF Context
      <4>8. ContextCurrent'
          BY <4>2, <4>6, <4>7
      <4> QED BY <2>2, <4>5, <4>8
    <3>4. CASE SendCode
      <4> DEFINE u == signing.thread
      <4>1. /\ Handled(u) /\ u \in Thread /\ asked[u] \in Code
            /\ UNCHANGED <<queue, answers, context>>
            /\ issued' = issued + 1
            /\ signing'.thread = u /\ signing'.action = "sent"
          BY <3>4 DEF SendCode, Handled, LoginsMatch, InHand, WorkerRest
      <4>2. AwaitsCode(u) /\ answers[u] = NoAnswer /\ ~Queued(u)
          BY <4>1
      <4>3. \A t \in Thread : /\ Queued(t)' <=> Queued(t)
                              /\ Handled(t)' => t = u
          BY <2>3, <4>1 DEF Handled
      <4>4. CodesAwaited'
          BY <4>1, <4>2, <4>3 DEF NoAnswer
      <4>5. CodeUnderWay(u)'
          BY <4>1, <4>2, <4>3
      <4> QED BY <2>2, <4>1, <4>4, <4>5
    <3>5. CASE ReplyCode
      <4> DEFINE u == signing.thread
      <4>1. /\ Handled(u) /\ u \in Thread /\ asked[u] \in Code
            /\ UNCHANGED <<queue, context, issued>>
            /\ signing' = NoLogin
            /\ \/ answers' = [answers EXCEPT ![u] = [ok |-> TRUE, hash |-> issued]]
               \/ answers' = answers
            /\ issued > 0
          BY <3>5 DEF ReplyCode, Reply, Handled, LoginsMatch, WorkerRest, CodesInOrder
      <4>2. AwaitsCode(u)
          BY <4>1
      <4>3. \A t \in Thread : (Queued(t)' <=> Queued(t)) /\ ~Handled(t)'
          BY <2>3, <4>1 DEF Handled
      <4>4. /\ answers[u] = NoAnswer
            /\ answers'[u] \in {NoAnswer, [ok |-> TRUE, hash |-> issued]}
            /\ \A t \in Thread : t # u => answers'[t] = answers[t]
          BY <4>1
      <4>5. CodesAwaited'
        <5> SUFFICES ASSUME NEW t \in Thread, asked'[t] \in Code
                     PROVE  /\ Queued(t)' \/ Handled(t)' \/ answers'[t] # NoAnswer => AwaitsCode(t)'
                            /\ answers'[t].ok => answers'[t].hash = issued' /\ issued' > 0
            OBVIOUS
        <5>1. CASE t = u
            BY <4>1, <4>2, <4>3, <4>4, <5>1 DEF NoAnswer
        <5>2. CASE t # u
            BY <4>1, <4>3, <4>4, <5>2
        <5> QED BY <5>1, <5>2
      <4>6. \A t \in Thread : CodeUnderWay(t) => CodeUnderWay(t)'
          BY <4>3, <4>4
      <4> QED BY <2>2, <4>1, <4>5, <4>6 DEF Context
    <3>6. CASE SignIn
      <4>1. /\ Handled(signing.thread) /\ signing.thread \in Thread /\ signing.action = "verify"
            /\ UNCHANGED <<queue, answers, context, issued>>
            /\ signing'.thread = signing.thread
          BY <3>6 DEF SignIn, Handled, InHand, WorkerRest
      <4>2. \A t \in Thread : /\ Queued(t)' <=> Queued(t)
                              /\ Handled(t)' => Handled(t)
          BY <2>3, <4>1 DEF Handled
      <4>3. CodesAwaited'
          BY <4>1, <4>2
      <4>4. \A t \in Thread : CodeUnderWay(t) => ~Handled(t)
          BY <4>1 DEF Handled
      <4>5. \A t \in Thread : CodeUnderWay(t) => CodeUnderWay(t)'
          BY <4>1, <4>2, <4>4
      <4> QED BY <2>2, <4>1, <4>3, <4>5 DEF Context
    <3>7. CASE ReplySigned \/ LoginFails
      <4> DEFINE u == signing.thread
      <4>1. /\ Handled(u) /\ u \in Thread
            /\ UNCHANGED <<queue, context, issued>>
            /\ signing' = NoLogin
          BY <3>7 DEF ReplySigned, LoginFails, Handled, WorkerRest
      <4>2. \A t \in Thread : (Queued(t)' <=> Queued(t)) /\ ~Handled(t)'
          BY <2>3, <4>1 DEF Handled
      <4>3. /\ \A t \in Thread : t # u => answers'[t] = answers[t]
            /\ answers[u] = NoAnswer
            /\ asked[u] \in Code => ~answers'[u].ok
        <5>0. answers[u] = NoAnswer /\ ~NoAnswer.ok
            BY <4>1 DEF NoAnswer
        <5>1. CASE ReplySigned
          <6>1. asked[u] \notin Code
              BY <5>1 DEF ReplySigned, LoginsMatch, Code
          <6> QED BY <4>1, <5>0, <5>1, <6>1 DEF ReplySigned, Reply
        <5>2. CASE LoginFails
            BY <4>1, <5>0, <5>2 DEF LoginFails, Reply
        <5> QED BY <3>7, <5>1, <5>2
      <4>4. CodesAwaited'
        <5> SUFFICES ASSUME NEW t \in Thread, asked'[t] \in Code
                     PROVE  /\ Queued(t)' \/ Handled(t)' \/ answers'[t] # NoAnswer => AwaitsCode(t)'
                            /\ answers'[t].ok => answers'[t].hash = issued' /\ issued' > 0
            OBVIOUS
        <5>1. CASE t = u
            BY <4>1, <4>2, <4>3, <5>1
        <5>2. CASE t # u
            BY <4>1, <4>2, <4>3, <5>2
        <5> QED BY <5>1, <5>2
      \* A code that was sent and whose sending failed leaves no context behind,
      \* or is excused.
      <4>5. Context = 0 \/ signing.action # "sent"
          BY <1>2, <3>7 DEF ReplySigned, LoginFails
      <4>6. \A t \in Thread : CodeUnderWay(t) => CodeUnderWay(t)' \/ Context = 0
        <5> SUFFICES ASSUME NEW t \in Thread, CodeUnderWay(t), signing.action # "sent"
                     PROVE  CodeUnderWay(t)'
            BY <4>5
        <5>1. t # u
            BY <4>1
        <5> QED BY <4>2, <4>3, <5>1
      <4>7. Context' = Context
          BY <4>1 DEF Context
      <4>8. ContextCurrent'
          BY <4>1, <4>6, <4>7
      <4> QED BY <2>2, <4>4, <4>8
    <3>8. CASE ForgetContext
      <4>1. /\ UNCHANGED <<queue, answers, signing, issued>>
            /\ context' = [context EXCEPT !.redis = 0] \/ context' = [context EXCEPT !.file = 0]
          BY <3>8 DEF ForgetContext
      <4>2. (context'.redis = 0 \/ context'.file = 0) /\ Context' \in {0, Context}
          BY <4>1 DEF Context
      <4> QED BY <2>3, <2>4, <4>1, <4>2
    <3>9. CASE StartProcess
      <4>1. /\ queue' = <<>> /\ (\A t \in Thread : answers'[t] = NoAnswer)
            /\ UNCHANGED <<signing, context, issued>>
          BY <3>9 DEF StartProcess, LifeRest
      <4>2. \A t \in Thread : ~Queued(t)' /\ (Handled(t)' <=> Handled(t))
          BY <4>1, QueueEmpty DEF Queued, Handled
      <4>3. CodesAwaited'
          BY <4>1, <4>2 DEF NoAnswer
      <4>4. \A t \in Thread : CodeUnderWay(t) => CodeUnderWay(t)'
          BY <4>1, <4>2
      <4> QED BY <2>2, <4>1, <4>3, <4>4 DEF Context
    <3>10. CASE Crash
      <4>1. UNCHANGED <<queue, answers, context, issued>> /\ signing' = NoLogin
          BY <3>10 DEF Crash, LifeRest, Kept
      <4>2. \A t \in Thread : (Queued(t)' <=> Queued(t)) /\ ~Handled(t)'
          BY <2>3, <4>1 DEF Handled
      <4>3. CodesAwaited'
          BY <4>1, <4>2
      <4>4. \A t \in Thread : CodeUnderWay(t) => CodeUnderWay(t)'
          BY <4>1, <4>2
      <4> QED BY <2>2, <4>1, <4>3, <4>4 DEF Context
    <3>11. CASE UNCHANGED <<queue, answers, context, signing, issued, signedBy, excused, faults>>
        BY <2>3, <2>4, <3>11 DEF Context
    <3> QED BY PhoneFrame, <2>5, <2>6, <2>7, <3>1, <3>2, <3>3, <3>4, <3>5, <3>6, <3>7, <3>8, <3>9, <3>10, <3>11
  <2> QED BY CodeThreads, <2>5, <2>6, <2>7, <2>8
<1> QED BY <1>1, <1>2 DEF CodesInOrder

-----------------------------------------------------------------------------
(***************************************************************************)
(* The theorems                                                            *)
(***************************************************************************)

LEMMA InitInv == Init => Inv
<1> SUFFICES ASSUME Init PROVE Inv
    OBVIOUS
<1>0. Handler = {"participant", "test"} /\ NoKey \notin Key /\ \A t \in Thread : <<"test", t>> \in Key
    BY Keys, Patterns
<1>1. Types
    BY InitTypes
<1>2. KeysMatch
    BY DEF Init, KeysMatch
<1>3. SentForAKey
    BY <1>0 DEF Init, SentForAKey
<1>4. SentOnce
    BY <1>0 DEF Init, SentOnce
<1>5. LoginsMatch
    BY QueueEmpty DEF Init, LoginsMatch, NoAnswer
<1>6. OncePerThread
    BY QueueEmpty DEF Init, OncePerThread, Queued, Handled
<1>7. CodesInOrder
    BY QueueEmpty DEF Init, CodesInOrder, OneCodeAwaited, CodesAwaited, ContextCurrent, AwaitsCode,
                      Context, Code
<1> QED BY <1>1, <1>2, <1>3, <1>4, <1>5, <1>6, <1>7 DEF Inv

LEMMA NextInv ==
    ASSUME Inv, [Next]_vars
    PROVE  Inv'
<1>1. Types'
    BY NextTypes DEF Inv
<1>2. KeysMatch'
    BY NextKeysMatch DEF Inv
<1>3. SentForAKey'
    BY <1>1, NextSentForAKey DEF Inv
<1>4. SentOnce'
    BY NextSentOnce DEF Inv
<1>5. LoginsMatch'
    BY <1>1, NextLoginsMatch DEF Inv
<1>6. OncePerThread'
    BY NextOncePerThread DEF Inv
<1>7. CodesInOrder'
    BY <1>1, NextCodesInOrder DEF Inv
<1> QED BY <1>1, <1>2, <1>3, <1>4, <1>5, <1>6, <1>7 DEF Inv

LEMMA SpecInv == Spec => []Inv
<1>1. Init => Inv
    BY InitInv
<1>2. Inv /\ [Next]_vars => Inv'
    BY NextInv
<1> QED BY <1>1, <1>2, PTL DEF Spec

\* Every variable of the requests, of their keys and of the log-in keeps its
\* type; a handler holds requests of its own kind, and only in a generation.
THEOREM SpecTypeOK == Spec => []TypeOK
<1>1. Inv => TypeOK
    BY TypesAreTypeOK DEF Inv
<1> QED BY <1>1, SpecInv, PTL

\* What the user is told of a test message or of a verification has happened,
\* and a test message is sent again only after a death of the sentinel or a
\* failed deletion of its request, once for each
\* (TelegramTestMessageHandler.run, delete_request_key, test_message_format,
\* submit_auth_request).
THEOREM SpecToldAsItWas == Spec => []ToldAsItWas
<1>1. Inv => ToldAsItWas
  <2> SUFFICES ASSUME Inv, NEW t \in Thread
               PROVE  /\ told[t] = "sent" => sent[t] > 0
                      /\ told[t] \in {"confirming", "authenticated"} => t \in signedBy
                      /\ sent[t] <= 1 + crashes + kept[t]
      BY DEF ToldAsItWas
  <2> QED BY DEF Inv, SentForAKey, SentOnce, LoginsMatch
<1> QED BY <1>1, SpecInv, PTL

\* Between two requests for a code the log-in context names the last code sent,
\* unless a thread gave up or overlapped another, a code was sent and the
\* sentinel lost Telegram's answer, or Redis failed in between
\* (store_login_context, clear_login_context, AuthManager).
THEOREM SpecLatestCodeKept == Spec => []LatestCodeKept
<1>1. Inv => LatestCodeKept
    BY DEF Inv, CodesInOrder, ContextCurrent, CodeUnderWay, AwaitsCode, CodeAsked, LatestCodeKept
<1> QED BY <1>1, SpecInv, PTL

=============================================================================
