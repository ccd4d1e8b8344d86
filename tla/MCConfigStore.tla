---------------------------- MODULE MCConfigStore ----------------------------
\* Two requests at a time: channels 1 and 2, user 1, alert profile 1 and
\* interest profiles 1 and 2, webhook 1 and format 1 are stored; operation 0
\* of a profile is a new one.
EXTENDS ConfigStore, TLC

CONSTANTS r1, r2

MCRequest == {r1, r2}
Twins == Permutations(MCRequest)

Old == [shown |-> {Original}, hidden |-> {Original}]

MCStored ==
    [p \in Place |->
        CASE p = "channels" -> (1 :> Old @@ 2 :> Old @@ Nothing)
          [] p = "users" -> (1 :> Old @@ Nothing)
          [] p = "alert" -> (1 :> Old @@ Nothing)
          [] p = "interest" -> (1 :> Old @@ 2 :> Old @@ Nothing)
          [] OTHER -> (1 :> Old @@ Nothing)]

MCAsked ==
    {AddChannel(3), EditChannel(1), BindChannel(1), RemoveChannel(1),
     EnableChannel(1), PatchChannel(1), AddUser(3), EditUser(1), BindUser(1),
     RemoveUser(1), SaveSettings, SetThreshold, UpsertAlert(0), UpsertAlert(1),
     DeleteAlert(1), ToggleAlert(1), ShowProfiles, Tune("alert", 1), UpsertInterest(0),
     SwitchInterest(2), ToggleInterest(2), DeleteInterest(3), AddWebhook(1), AddWebhook(2),
     EditWebhook(1), RemoveWebhook(1), SaveFormat(1), SaveFormat(2), ExportFormats,
     ImportFormats(1), ResetFormats, SaveDeveloper}

\* The two requests edit the same file: those of different files share nothing.
MCSameFile ==
    \A r, x \in Request : op[r] # NoOp /\ op[x] # NoOp =>
        op[r].place = op[x].place \/ {op[r].place, op[x].place} \subseteq Config

\* Not both a restart and a lock that ended under its holder.
MCOneMishap == crashes = 0 \/ lapsed = {}
=============================================================================
