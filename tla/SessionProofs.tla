--------------------------- MODULE SessionProofs ---------------------------
(***************************************************************************)
(* What sessions do to each other, for any accounts and any number of      *)
(* uploads, log-outs, log-ins, crashes and generations: which client is    *)
(* listened to, and whose channels are stored under a generation's keys.   *)
(***************************************************************************)
EXTENDS SessionCaches, TLAPS

-----------------------------------------------------------------------------
(***************************************************************************)
(* The inductive invariants                                                *)
(***************************************************************************)

\* Each upload and each log-out makes at most one client: counted when it is
\* published, while the monitor works on it, and once the client is made.
Replacing == IF monitor \in {"replacing", "deleting", "clearing"} THEN 1 ELSE 0

ClientsCounted == made + Len(inbox) + Replacing <= 1 + uploads + logouts

\* A process that is down has no tasks, one that has not subscribed no events.
QuietBeforeListening ==
    /\ ~Listening => inbox = <<>> /\ monitor = Idle
    /\ boot = "down" => login = Idle

\* A process has a client to use from its first step on.
ClientsReferred ==
    /\ boot # "down" => made >= 1 /\ inUse >= 1 /\ helped >= 1
    /\ inUse >= 1 => made >= 1

TypeInv == TypeOK /\ ClientsCounted /\ QuietBeforeListening /\ ClientsReferred

\* Before the first phone log-in. Client 1 is main's own, the one StartIngestion
\* registers the handler on.
FirstClientInUse ==
    /\ requests = <<>> /\ login = Idle
    /\ boot = "connecting" => inUse = 1 /\ up = {} /\ heard = {} /\ ~authorized
    /\ 1 \in up => inUse = 1

OneIsHeard ==
    /\ up \cap heard \subseteq {inUse}
    /\ monitor # Idle => up \cap heard = {} /\ 1 \notin up
    /\ monitor \in {"connecting", "verifying"} => made >= 2 /\ made \notin heard

HeardIsAuthorized ==
    /\ boot = "starting" => authorized
    /\ authorized /\ 1 \in up => authEvent
    /\ up \cap heard # {} => authEvent

WithoutLogins == logins = 0 => FirstClientInUse /\ OneIsHeard /\ HeardIsAuthorized

\* The caches: who is authorized has a generation, opened for the account of the
\* client in use; what the refresher has in hand is of the generation it noted
\* or of a later one.
GenerationKnown ==
    /\ generation <= MaxGeneration
    /\ authorized \/ authEvent => generation >= 1
    /\ generation >= 1 => inUse >= 1 /\ accounts[generation] = account[inUse]

Since(u) == u = NoUser \/ \E h \in mine .. generation : accounts[h] = u

RefresherInv ==
    /\ refresher # "off" => boot = "running"
    /\ refresher \notin {"off", "outer"} => mine \in 1 .. generation
    /\ refresher = "fetch" => source \in 1 .. made /\ Since(account[source])
    /\ refresher = "store" => Since(dialogs)

CachesInv == TypeInv /\ CTypeOK /\ GenerationKnown /\ RefresherInv


-----------------------------------------------------------------------------
(***************************************************************************)
(* Types                                                                   *)
(***************************************************************************)

LEMMA Bounds ==
    /\ MaxUploads \in Nat /\ MaxLogouts \in Nat /\ MaxLogins \in Nat
    /\ MaxCrashes \in Nat
    /\ FirstFile \subseteq Account /\ NoUser \in Account /\ User \subseteq Account
    BY SessionAssumption DEF Account

Message == {"session_imported", "session_logout"}

LEMMA NoMessages ==
    /\ <<>> \in Seq(Message) /\ <<>> \in Seq(User)
    /\ Len(<<>>) = 0
    OBVIOUS

LEMMA InitType == Init => TypeInv
<1> SUFFICES ASSUME Init PROVE TypeInv
    OBVIOUS
<1>1. account \in [Client -> Account]
    BY Bounds DEF Init
<1>2. TypeOK
  <2>1. inbox \in Seq({"session_imported", "session_logout"}) /\ requests \in Seq(User)
      BY NoMessages DEF Init, Message
  <2>2. made \in 0 .. (1 + MaxUploads + MaxLogouts)
      BY Bounds DEF Init
  <2>3. inUse \in 0 .. made /\ helped \in 0 .. made /\ asked \in 0 .. made /\ working \in 0 .. made
      BY DEF Init, None
  <2>4. uploads \in 0 .. MaxUploads /\ logouts \in 0 .. MaxLogouts
        /\ logins \in 0 .. MaxLogins /\ crashes \in 0 .. MaxCrashes
      BY Bounds DEF Init
  <2> QED BY <1>1, <2>1, <2>2, <2>3, <2>4, Bounds DEF Init, TypeOK, Idle
<1>3. ClientsCounted
    BY Bounds, NoMessages DEF Init, ClientsCounted, Replacing, Idle
<1>4. QuietBeforeListening /\ ClientsReferred
    BY DEF Init, QuietBeforeListening, ClientsReferred, Idle, None
<1> QED BY <1>2, <1>3, <1>4 DEF TypeInv

LEMMA NextType ==
    ASSUME TypeInv, [Next]_vars
    PROVE  TypeInv'
<1> USE Bounds DEF TypeInv, TypeOK, ClientsCounted, Replacing, QuietBeforeListening,
                   ClientsReferred, Listening, Idle, None, Client,
                   clients, users, shared, events, auth, bounds
<1>1. CASE StartProcess
  <2>1. account' \in [Client -> Account] /\ inbox = <<>> /\ monitor = Idle /\ login = Idle
      BY <1>1 DEF StartProcess
  <2>2. made' = 1 /\ 1 \in 1 .. 1 /\ made' \in 0 .. (1 + MaxUploads + MaxLogouts)
      BY <1>1 DEF StartProcess
  <2>3. TypeOK'
    <3>1. requests' \in Seq(User) /\ inbox' \in Seq({"session_imported", "session_logout"})
        BY <1>1, NoMessages DEF StartProcess
    <3>2. inUse' \in 0 .. made' /\ helped' \in 0 .. made' /\ asked' \in 0 .. made' /\ working' \in 0 .. made'
        BY <1>1 DEF StartProcess
    <3>3. up' \subseteq 1 .. made' /\ heard' \subseteq 1 .. made' /\ onDisk' \subseteq 1 .. made'
        BY <1>1 DEF StartProcess
    <3> QED BY <1>1, <2>1, <2>2, <3>1, <3>2, <3>3 DEF StartProcess
  <2>4. ClientsCounted'
      BY <1>1, <2>1, <2>2, NoMessages DEF StartProcess
  <2> QED BY <1>1, <2>1, <2>3, <2>4 DEF StartProcess
<1>2. CASE Connect
    BY <1>2 DEF Connect, Running, Spinning
<1>3. CASE CheckFindsUser
    BY <1>3 DEF CheckFindsUser, Running, Spinning, MarkAuthorized
<1>4. CASE CheckFindsNobody
    BY <1>4 DEF CheckFindsNobody, Running, Spinning
<1>5. CASE WaitOver
    BY <1>5 DEF WaitOver, Running, Spinning
<1>6. CASE StartIngestion
    BY <1>6 DEF StartIngestion, Running, Spinning
<1>7. CASE StartWorkers
    BY <1>7 DEF StartWorkers, Running, Spinning
<1>8. CASE ImportDisconnect
    BY <1>8 DEF ImportDisconnect, Running, Spinning, DisconnectInUse
<1>9. CASE ImportMakeClient
    BY <1>9 DEF ImportMakeClient, Running, Spinning, MakeClient, UpdateClient
<1>10. CASE ImportConnect
    BY <1>10 DEF ImportConnect, Running, Spinning
<1>11. CASE ImportFails
    BY <1>11 DEF ImportFails, Running, Spinning
<1>12. CASE ImportSucceeds
    BY <1>12 DEF ImportSucceeds, Running, Spinning, MarkAuthorized
<1>13. CASE LogoutDisconnect
    BY <1>13 DEF LogoutDisconnect, Running, Spinning, DisconnectInUse
<1>14. CASE LogoutDelete
    BY <1>14 DEF LogoutDelete, Running, Spinning
<1>15. CASE LogoutClear
  <2>1. made + 1 \in 1 .. (1 + MaxUploads + MaxLogouts)
      BY <1>15 DEF LogoutClear
  <2>2. account' \in [Client -> Account]
      BY <1>15, <2>1 DEF LogoutClear, MakeClient
  <2>3. TypeOK'
    <3>1. made' \in 0 .. (1 + MaxUploads + MaxLogouts)
        BY <1>15, <2>1 DEF LogoutClear, MakeClient
    <3>2. inUse' \in 0 .. made' /\ helped' \in 0 .. made' /\ asked' \in 0 .. made' /\ working' \in 0 .. made'
        BY <1>15 DEF LogoutClear, MakeClient, UpdateClient
    <3>3. up' \subseteq 1 .. made' /\ heard' \subseteq 1 .. made' /\ onDisk' \subseteq 1 .. made'
        BY <1>15 DEF LogoutClear, MakeClient
    <3> QED BY <1>15, <2>2, <3>1, <3>2, <3>3 DEF LogoutClear
  <2> QED BY <1>15, <2>3 DEF LogoutClear, MakeClient, UpdateClient
<1>16. CASE RejectLogin
    BY <1>16 DEF RejectLogin, Running, Spinning
<1>17. CASE TakeLogin
    BY <1>17 DEF TakeLogin, Running, Spinning
<1>18. CASE SignIn
    BY <1>18 DEF SignIn, Running, Spinning
<1>19. CASE LoginSucceeds
    BY <1>19 DEF LoginSucceeds, Running, Spinning, MarkAuthorized
<1>20. CASE LoginFails
    BY <1>20 DEF LoginFails, Running, Spinning
<1>21. CASE \E a \in Account : Upload(a)
  <2>1. inbox' \in Seq({"session_imported", "session_logout"}) /\ Len(inbox') <= Len(inbox) + 1
      BY <1>21 DEF Upload
  <2>2. ~Listening => inbox' = inbox
      BY <1>21 DEF Upload
  <2>3. TypeOK'
      BY <1>21, <2>1 DEF Upload
  <2>4. ClientsCounted'
    <3>1. monitor' = monitor /\ made' = made
        BY <1>21 DEF Upload
    <3>2. 1 + uploads' + logouts' = 1 + uploads + logouts + 1
        BY <1>21 DEF Upload
    <3>3. Len(inbox) \in Nat /\ Len(inbox') \in Nat /\ Len(inbox') <= Len(inbox) + 1
        BY <2>1
    <3>4. made \in Nat /\ 1 + uploads + logouts \in Nat
        OBVIOUS
    <3> QED BY <3>1, <3>2, <3>3, <3>4
  <2>5. QuietBeforeListening' /\ ClientsReferred'
      BY <1>21, <2>2 DEF Upload
  <2> QED BY <2>3, <2>4, <2>5
<1>22. CASE AskLogout
  <2>1. inbox' \in Seq({"session_imported", "session_logout"}) /\ Len(inbox') <= Len(inbox) + 1
      BY <1>22 DEF AskLogout
  <2>2. ~Listening => inbox' = inbox
      BY <1>22 DEF AskLogout
  <2>3. TypeOK'
      BY <1>22, <2>1 DEF AskLogout
  <2>4. ClientsCounted'
    <3>1. monitor' = monitor /\ made' = made
        BY <1>22 DEF AskLogout
    <3>2. 1 + uploads' + logouts' = 1 + uploads + logouts + 1
        BY <1>22 DEF AskLogout
    <3>3. Len(inbox) \in Nat /\ Len(inbox') \in Nat /\ Len(inbox') <= Len(inbox) + 1
        BY <2>1
    <3>4. made \in Nat /\ 1 + uploads + logouts \in Nat
        OBVIOUS
    <3> QED BY <3>1, <3>2, <3>3, <3>4
  <2>5. QuietBeforeListening' /\ ClientsReferred'
      BY <1>22, <2>2 DEF AskLogout
  <2> QED BY <2>3, <2>4, <2>5
<1>23. CASE \E u \in User : AskLogin(u)
    BY <1>23 DEF AskLogin
<1>24. CASE Crash
    BY <1>24 DEF Crash
<1>25. CASE UNCHANGED vars
    BY <1>25 DEF vars
<1> QED BY <1>1, <1>2, <1>3, <1>4, <1>5, <1>6, <1>7, <1>8, <1>9, <1>10, <1>11, <1>12, <1>13, <1>14, <1>15, <1>16, <1>17, <1>18, <1>19, <1>20, <1>21, <1>22, <1>23, <1>24, <1>25 DEF Next, Main, Monitor, AuthWorker, Interface


\* Every variable of the session keeps its type, and every client a part of the
\* program refers to was made by the running process (main.py, session_lifecycle.py).
THEOREM SpecTypeOK == Spec => []TypeOK
<1>1. Init => TypeInv
    BY InitType
<1>2. TypeInv /\ [Next]_vars => TypeInv'
    BY NextType
<1>3. TypeInv => TypeOK
    BY DEF TypeInv
<1> QED BY <1>1, <1>2, <1>3, PTL DEF Spec

-----------------------------------------------------------------------------
(***************************************************************************)
(* Who is listened to                                                      *)
(***************************************************************************)

LEMMA InitWithoutLogins == Init => WithoutLogins
    BY DEF Init, WithoutLogins, FirstClientInUse, OneIsHeard, HeardIsAuthorized, Idle

LEMMA NextWithoutLogins ==
    ASSUME TypeInv, TypeInv', WithoutLogins, [Next]_vars
    PROVE  WithoutLogins'
<1> SUFFICES ASSUME logins' = 0 PROVE (FirstClientInUse /\ OneIsHeard /\ HeardIsAuthorized)'
    BY DEF WithoutLogins
<1>0. /\ made \in Nat /\ up \subseteq 1 .. made /\ heard \subseteq 1 .. made
      /\ logins \in Nat
      /\ QuietBeforeListening /\ ClientsReferred
    BY Bounds DEF TypeInv, TypeOK
<1> USE <1>0 DEF WithoutLogins, FirstClientInUse, OneIsHeard, HeardIsAuthorized,
             QuietBeforeListening, ClientsReferred, Listening, Idle, None,
             clients, users, shared, events, auth, bounds
<1>1. CASE StartProcess
    BY <1>1 DEF StartProcess, Running, Spinning
<1>2. CASE Connect
    BY <1>2 DEF Connect, Running, Spinning
<1>3. CASE CheckFindsUser
    BY <1>3 DEF CheckFindsUser, Running, Spinning, MarkAuthorized
<1>4. CASE CheckFindsNobody
    BY <1>4 DEF CheckFindsNobody, Running, Spinning
<1>5. CASE WaitOver
    BY <1>5 DEF WaitOver, Running, Spinning
<1>6. CASE StartIngestion
    BY <1>6 DEF StartIngestion, Running, Spinning
<1>7. CASE StartWorkers
    BY <1>7 DEF StartWorkers, Running, Spinning
<1>8. CASE ImportDisconnect
    BY <1>8 DEF ImportDisconnect, Running, Spinning, DisconnectInUse
<1>9. CASE ImportMakeClient
    BY <1>9 DEF ImportMakeClient, Running, Spinning, MakeClient, UpdateClient
<1>10. CASE ImportConnect
    BY <1>10 DEF ImportConnect, Running, Spinning
<1>11. CASE ImportFails
    BY <1>11 DEF ImportFails, Running, Spinning
<1>12. CASE ImportSucceeds
    BY <1>12 DEF ImportSucceeds, Running, Spinning, MarkAuthorized
<1>13. CASE LogoutDisconnect
    BY <1>13 DEF LogoutDisconnect, Running, Spinning, DisconnectInUse
<1>14. CASE LogoutDelete
    BY <1>14 DEF LogoutDelete, Running, Spinning
<1>15. CASE LogoutClear
    BY <1>15 DEF LogoutClear, Running, Spinning, MakeClient, UpdateClient
<1>16. CASE RejectLogin
    BY <1>16 DEF RejectLogin, Running, Spinning
<1>17. CASE TakeLogin
    BY <1>17 DEF TakeLogin, Running, Spinning
<1>18. CASE SignIn
    BY <1>18 DEF SignIn, Running, Spinning
<1>19. CASE LoginSucceeds
    BY <1>19 DEF LoginSucceeds, Running, Spinning, MarkAuthorized
<1>20. CASE LoginFails
    BY <1>20 DEF LoginFails, Running, Spinning
<1>21. CASE \E a \in Account : Upload(a)
    BY <1>21 DEF Upload
<1>22. CASE AskLogout
    BY <1>22 DEF AskLogout
<1>23. CASE \E u \in User : AskLogin(u)
    BY <1>23 DEF AskLogin
<1>24. CASE Crash
    BY <1>24 DEF Crash
<1>25. CASE UNCHANGED vars
    BY <1>25 DEF vars
<1> QED BY <1>1, <1>2, <1>3, <1>4, <1>5, <1>6, <1>7, <1>8, <1>9, <1>10, <1>11, <1>12, <1>13, <1>14, <1>15, <1>16, <1>17, <1>18, <1>19, <1>20, <1>21, <1>22, <1>23, <1>24, <1>25 DEF Next, Main, Monitor, AuthWorker, Interface

LEMMA SpecWithoutLogins == Spec => [](TypeInv /\ WithoutLogins)
<1>1. Init => TypeInv /\ WithoutLogins
    BY InitType, InitWithoutLogins
<1>2. TypeInv /\ WithoutLogins /\ [Next]_vars => (TypeInv /\ WithoutLogins)'
    BY NextType, NextWithoutLogins
<1> QED BY <1>1, <1>2, PTL DEF Spec

\* However many sessions are uploaded and however often somebody logs out, the
\* only connected client with the ingestion handler is the one in use
\* (handle_session_import and handle_logout disconnect it before they replace it).
THEOREM SpecOnlyInUseIsHeard == Spec => []OnlyInUseIsHeard
<1>1. TypeInv /\ WithoutLogins => OnlyInUseIsHeard
    BY DEF WithoutLogins, OneIsHeard, OnlyInUseIsHeard
<1> QED BY <1>1, SpecWithoutLogins, PTL

\* After a log-out nothing is ingested before somebody is authorized again
\* (handle_logout disconnects, then clears the event).
THEOREM SpecHeardOnlyWhileAuthorized == Spec => []HeardOnlyWhileAuthorized
<1>1. TypeInv /\ WithoutLogins => HeardOnlyWhileAuthorized
    BY DEF WithoutLogins, HeardIsAuthorized, HeardOnlyWhileAuthorized
<1> QED BY <1>1, SpecWithoutLogins, PTL


-----------------------------------------------------------------------------
(***************************************************************************)
(* The caches                                                              *)
(***************************************************************************)

LEMMA CInitType == CInit => CachesInv
<1> SUFFICES ASSUME CInit PROVE CachesInv
    OBVIOUS
<1>1. TypeInv
    BY InitType DEF CInit
<1>2. CTypeOK
  <2>1. scoped \in [Generation -> Account] /\ accounts \in [Generation -> Account]
      BY Bounds DEF CInit
  <2>2. 0 \in 0 .. MaxGeneration /\ 0 \in 0 .. made
      BY CachesAssumption DEF CInit, Init
  <2> QED BY <2>1, <2>2, Bounds DEF CInit, CTypeOK, Nobody, None
<1>3. GenerationKnown /\ RefresherInv
    BY CachesAssumption DEF CInit, Init, GenerationKnown, RefresherInv
<1> QED BY <1>1, <1>2, <1>3 DEF CachesInv

\* The refresher connects the helpers' client; the session's other steps are as
\* they are without caches.
LEMMA AskDialogsType ==
    ASSUME TypeInv, boot # "down", AskDialogs
    PROVE  TypeInv'
    BY DEF AskDialogs, TypeInv, TypeOK, ClientsCounted, Replacing, QuietBeforeListening,
           ClientsReferred, Listening, clients, users, shared, events, auth, bounds

LEMMA CNextIsNext ==
    ASSUME [CNext]_allVars, RefresherInv
    PROVE  [Next]_vars \/ (boot # "down" /\ AskDialogs)
<1> USE DEF Next, Main, Monitor, Interface, RefresherInv
<1>1. CASE CStartProcess
    BY <1>1 DEF CStartProcess
<1>2. CASE CStartWorkers
    BY <1>2 DEF CStartWorkers
<1>3. CASE CAuthorize
    BY <1>3 DEF CAuthorize
<1>4. CASE CLogoutClear
    BY <1>4 DEF CLogoutClear
<1>5. CASE CCrash
    BY <1>5 DEF CCrash
<1>6. CASE CSession
    BY <1>6 DEF CSession
<1>7. CASE CInterface
    BY <1>7 DEF CInterface
<1>8. CASE Refresh
  <2>1. CASE AskDialogs
      BY <2>1 DEF AskDialogs
  <2>2. CASE CaptureGeneration \/ GetDialogs \/ DialogsTimeOut \/ DialogsFail \/ StoreCaches
      BY <2>2 DEF CaptureGeneration, GetDialogs, DialogsTimeOut, DialogsFail, StoreCaches
  <2>3. CASE Announce \/ AvatarsEnd \/ WarmUpEnds \/ GenerationEnds \/ RefreshAgain
      BY <2>3 DEF Announce, AvatarsEnd, WarmUpEnds, GenerationEnds, RefreshAgain
  <2> QED BY <1>8, <2>1, <2>2, <2>3 DEF Refresh
<1>9. CASE Handle
    BY <1>9 DEF Handle, HandlerStarts, HandlerStops
<1>10. CASE UNCHANGED allVars
    BY <1>10 DEF allVars
<1> QED BY <1>1, <1>2, <1>3, <1>4, <1>5, <1>6, <1>7, <1>8, <1>9, <1>10 DEF CNext

LEMMA CNextCaches ==
    ASSUME CachesInv, TypeInv', [CNext]_allVars
    PROVE  CachesInv'
<1> SUFFICES CTypeOK' /\ GenerationKnown' /\ RefresherInv'
    BY DEF CachesInv
<1>0. /\ generation \in Nat /\ MaxGeneration \in Nat /\ made \in Nat
      /\ made \in 0 .. (1 + MaxUploads + MaxLogouts)
      /\ inUse \in 0 .. made /\ inUse \in 0 .. made
      /\ account \in [Client -> Account]
      /\ boot # "down" => made >= 1 /\ inUse >= 1 /\ helped >= 1
    BY Bounds, CachesAssumption DEF CachesInv, TypeInv, TypeOK, ClientsReferred
<1> USE <1>0, Bounds DEF CachesInv, CTypeOK, GenerationKnown, RefresherInv, Since, Generation,
       Nobody, None, clients, users, shared, events, auth, bounds,
       tasks, redis, handling, cacheVars, Client
<1>1. CASE CStartProcess
  <2>1. accounts' \in [Generation -> Account] /\ 0 \in 0 .. made' /\ 0 \in 0 .. MaxGeneration
      BY <1>1 DEF CStartProcess, StartProcess
  <2>2. CTypeOK'
      BY <1>1, <2>1 DEF CStartProcess
  <2> QED BY <1>1, <2>2 DEF CStartProcess, StartProcess
<1>2. CASE CStartWorkers
    BY <1>2 DEF CStartWorkers, StartWorkers
<1>3. CASE CAuthorize
  <2>1. PICK c \in 1 .. made :
            /\ accounts' = [accounts EXCEPT ![generation + 1] = account[c]]
            /\ inUse' = c /\ account' = account /\ made' = made
            /\ generation' = generation + 1 /\ generation + 1 \in Generation
            /\ authorized' /\ authEvent' /\ nudged' \in BOOLEAN
    <3>1. CASE CheckFindsUser
        BY <1>3, <3>1 DEF CAuthorize, CheckFindsUser, ImportSucceeds, MarkAuthorized, Opens
    <3>2. CASE ImportSucceeds
      <4>1. Opens(account[made]) /\ generation < MaxGeneration /\ nudged' = (refresher # "off")
          BY <1>3, <3>2 DEF CAuthorize, CheckFindsUser, ImportSucceeds
      <4>2. nudged' \in BOOLEAN
          BY <4>1
      <4>3. made \in 1 .. made
          BY <3>2 DEF ImportSucceeds, Running
      <4>4. /\ accounts' = [accounts EXCEPT ![generation + 1] = account[made]]
            /\ inUse' = made /\ account' = account /\ made' = made
            /\ generation' = generation + 1 /\ generation + 1 \in Generation
          BY <3>2, <4>1 DEF ImportSucceeds, MarkAuthorized, Opens
      <4>5. authorized' /\ authEvent'
          BY <3>2 DEF ImportSucceeds, MarkAuthorized
      <4> QED BY <4>2, <4>3, <4>4, <4>5
    <3> QED BY <1>3, <3>1, <3>2 DEF CAuthorize
  <2>2. UNCHANGED <<refresher, mine, warm, source, dialogs, ready, redis, handling>>
      BY <1>3 DEF CAuthorize
  <2>3. account[c] \in Account
      OBVIOUS
  <2>4. CTypeOK'
      BY <2>1, <2>2, <2>3
  <2>5. GenerationKnown'
      BY <2>1
  <2>6. refresher # "off" => boot' = "running"
      BY <1>3 DEF CAuthorize, CheckFindsUser, ImportSucceeds
  <2>7. \A h \in mine .. generation : h \in mine .. generation' /\ accounts'[h] = accounts[h]
      BY <2>1
  <2>8. RefresherInv'
      BY <2>1, <2>2, <2>6, <2>7
  <2> QED BY <2>4, <2>5, <2>8
<1>4. CASE CLogoutClear
    BY <1>4 DEF CLogoutClear, LogoutClear, MakeClient, UpdateClient
<1>5. CASE CCrash
    BY <1>5 DEF CCrash, Crash
<1>6. CASE Connect /\ UNCHANGED cacheVars
    BY <1>6 DEF Connect
<1>7. CASE CheckFindsNobody /\ UNCHANGED cacheVars
    BY <1>7 DEF CheckFindsNobody
<1>8. CASE WaitOver /\ UNCHANGED cacheVars
    BY <1>8 DEF WaitOver
<1>9. CASE StartIngestion /\ UNCHANGED cacheVars
    BY <1>9 DEF StartIngestion
<1>10. CASE ImportDisconnect /\ UNCHANGED cacheVars
    BY <1>10 DEF ImportDisconnect, DisconnectInUse
<1>11. CASE ImportMakeClient /\ UNCHANGED cacheVars
    BY <1>11 DEF ImportMakeClient, MakeClient, UpdateClient
<1>12. CASE ImportConnect /\ UNCHANGED cacheVars
    BY <1>12 DEF ImportConnect
<1>13. CASE ImportFails /\ UNCHANGED cacheVars
    BY <1>13 DEF ImportFails
<1>14. CASE LogoutDisconnect /\ UNCHANGED cacheVars
    BY <1>14 DEF LogoutDisconnect, DisconnectInUse
<1>15. CASE LogoutDelete /\ UNCHANGED cacheVars
    BY <1>15 DEF LogoutDelete
<1>16. CASE CInterface
    BY <1>16 DEF CInterface, Upload, AskLogout
<1>17. CASE Running /\ CaptureGeneration
    BY <1>17 DEF CaptureGeneration, vars, RefreshEnds
<1>18. CASE Running /\ AskDialogs
    BY <1>18 DEF AskDialogs, vars, RefreshEnds
<1>19. CASE Running /\ GetDialogs
    BY <1>19 DEF GetDialogs, vars, RefreshEnds
<1>20. CASE Running /\ DialogsTimeOut
    BY <1>20 DEF DialogsTimeOut, vars, RefreshEnds
<1>21. CASE Running /\ DialogsFail
    BY <1>21 DEF DialogsFail, vars, RefreshEnds
<1>22. CASE Running /\ StoreCaches
    BY <1>22 DEF StoreCaches, vars, RefreshEnds
<1>23. CASE Running /\ Announce
    BY <1>23 DEF Announce, vars, RefreshEnds
<1>24. CASE Running /\ AvatarsEnd
    BY <1>24 DEF AvatarsEnd, vars, RefreshEnds
<1>25. CASE Running /\ WarmUpEnds
    BY <1>25 DEF WarmUpEnds, vars, RefreshEnds
<1>26. CASE Running /\ GenerationEnds
    BY <1>26 DEF GenerationEnds, vars, RefreshEnds
<1>27. CASE Running /\ RefreshAgain
    BY <1>27 DEF RefreshAgain, vars, RefreshEnds
<1>28. CASE Running /\ HandlerStarts
    BY <1>28 DEF HandlerStarts, vars
<1>29. CASE Running /\ HandlerStops
    BY <1>29 DEF HandlerStops, vars
<1>30. CASE UNCHANGED allVars
    BY <1>30 DEF allVars, vars
<1> QED BY <1>1, <1>2, <1>3, <1>4, <1>5, <1>6, <1>7, <1>8, <1>9, <1>10, <1>11, <1>12, <1>13, <1>14, <1>15, <1>16, <1>17, <1>18, <1>19, <1>20, <1>21, <1>22, <1>23, <1>24, <1>25, <1>26, <1>27, <1>28, <1>29, <1>30 DEF CNext, CSession, Refresh, Handle

LEMMA SpecCachesInv == CSpec => []CachesInv
<1>1. CachesInv /\ [CNext]_allVars => CachesInv'
  <2> SUFFICES ASSUME CachesInv, [CNext]_allVars PROVE CachesInv'
      OBVIOUS
  <2>1. TypeInv'
      BY CNextIsNext, NextType, AskDialogsType DEF CachesInv
  <2> QED BY <2>1, CNextCaches
<1> QED BY <1>1, CInitType, PTL DEF CSpec

\* Every variable of the caches keeps its type while the session goes through
\* uploads, log-outs and crashes (cache_manager.py).
THEOREM SpecCTypeOK == CSpec => []CTypeOK
<1>1. CachesInv => CTypeOK
    BY DEF CachesInv
<1> QED BY <1>1, SpecCachesInv, PTL

\* No channels or users are stored under the keys of a generation that are those
\* of an account replaced before it began: the refresher notes session_generation
\* before it asks (channels_users_cache_refresher).
THEOREM SpecStoredIsNotOlder == CSpec => StoredIsNotOlder
<1> DEFINE NotOlder == \A g \in Generation : scoped'[g] \notin {scoped[g], NoUser}
                         => \E h \in g .. MaxGeneration : accounts[h] = scoped'[g]
<1>1. ASSUME CachesInv, [CNext]_allVars PROVE NotOlder \/ UNCHANGED allVars
  <2> SUFFICES ASSUME NEW g \in Generation, scoped'[g] \notin {scoped[g], NoUser}
               PROVE  \E h \in g .. MaxGeneration : accounts[h] = scoped'[g]
      OBVIOUS
  <2>1. StoreCaches
      BY <1>1 DEF CNext, CSession, Refresh, Handle, CStartProcess, CStartWorkers, CAuthorize,
                  CLogoutClear, CCrash, CInterface, CaptureGeneration, AskDialogs, GetDialogs,
                  DialogsTimeOut, DialogsFail, Announce, AvatarsEnd, WarmUpEnds,
                  GenerationEnds, RefreshAgain, HandlerStarts, HandlerStops, cacheVars,
                  redis, allVars
  <2>2. g = mine /\ scoped'[g] = dialogs
      BY <1>1, <2>1 DEF StoreCaches, CachesInv, CTypeOK
  <2>3. PICK h \in mine .. generation : accounts[h] = dialogs
      BY <1>1, <2>1, <2>2 DEF StoreCaches, CachesInv, RefresherInv, Since
  <2>4. h \in g .. MaxGeneration
      BY <1>1, <2>2, <2>3, CachesAssumption DEF CachesInv, CTypeOK, GenerationKnown, TypeInv, TypeOK
  <2> QED BY <2>2, <2>3, <2>4
<1> QED BY <1>1, SpecCachesInv, PTL DEF CSpec, StoredIsNotOlder

=============================================================================
