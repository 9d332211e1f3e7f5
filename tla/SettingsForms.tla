--------------------------- MODULE SettingsForms ---------------------------
(***************************************************************************)
(* The settings page (SettingsView.tsx) with its security panel, against   *)
(* the HMI's handlers (web_routes.rs) for the infrastructure, which push   *)
(* each host's client settings to that host, and for the user accounts     *)
(* (auth.rs).                                                              *)
(*                                                                         *)
(* One user, an administrator or an engineer.  A row of a list is its id   *)
(* and, of the OPC UA servers, its address; names, the hosts' addresses    *)
(* and secrets are left out, and of the audit events all but the filter    *)
(* that chose them.  Tabs only hide parts of the page.  The HMI's database *)
(* does not fail: the fallback that a failed read of it would store over   *)
(* the row is left out.                                                    *)
(***************************************************************************)
EXTENDS OpcSecurityPanel

CONSTANTS
  Hosts,     \* ids of controller hosts, the code's supervisors
  DefaultServers, \* what an empty list of servers stands for
  NewUrl,    \* the one a new row starts with
  Settings,  \* client settings
  Default,   \* the settings a new row starts with
  Users, Me, \* accounts; the one the page is used with
  Filters,   \* filters of the audit events
  FirstRow,  \* the stored infrastructure at first
  Visits,    \* bound: admin or not, operations on infra, panel and users; a behaviour is one of these
  MaxFaults  \* bound: calls lost, and pushes to a host that fail

Rows(ids, set) == [id : ids, set : set]
Lists == [supervisors : Seq(Hosts), servers : Seq(Rows(Servers, Urls)),
          clients : Seq(Rows(Hosts, Settings)), hmi : Settings]

(* At first every host has the settings of its stored row, if it has one.  *)
ASSUME SettingsAssumption ==
  /\ None \notin Hosts \cup Users \cup Filters
  /\ NewUrl \in Urls /\ Default \in Settings /\ Me \in Users
  /\ DefaultServers \in Seq(Rows(Servers, Urls)) /\ FirstRow \in Lists
  /\ \A i \in DOMAIN FirstRow.clients : FirstRow.clients[i].set = Default
  /\ Visits \subseteq [admin : BOOLEAN, infra : Nat, panel : Nat, users : Nat]
  /\ MaxFaults \in Nat

VARIABLES
  lists,       \* supervisors, opcServers, controllerHostClients, hmiClient of the page
  infraStatus, \* what the page says of its last save
  infraCalls,  \* calls for the infrastructure under way
  row,         \* the stored infrastructure
  hosts,       \* the client settings each host has
  removed,     \* hosts and servers the administrator has removed on the page
  infraCalm,   \* no load or save failed, and none overlapped another call
  users,       \* users of the page
  audit,       \* the filter typed, the filter last asked with, the filter of the events shown
  usersStatus, \* what the page says of the last change of a user
  userCalls,   \* calls for the users under way
  accounts,    \* role and disabled of each account, or None
  usersCalm,   \* no call for the users failed, and none overlapped another
  left,        \* the visit: isAdmin, and operations left of each kind
  faults

infra == <<lists, infraStatus, infraCalls, row, hosts, removed, infraCalm>>
people == <<users, audit, usersStatus, userCalls, accounts, usersCalm>>
vars == <<panel, infra, people, left, faults>>

isAdmin == left.admin
Free == UNCHANGED <<left, faults>>
Op(area) == left[area] > 0 /\ left' = [left EXCEPT ![area] = @ - 1] /\ UNCHANGED faults
Fault == faults < MaxFaults /\ faults' = faults + 1 /\ UNCHANGED left

SeqIds(s) == {s[i].id : i \in DOMAIN s}

-----------------------------------------------------------------------------
(* The HMI's handlers of the infrastructure.                               *)
InfraAsked(kind, arg) ==
  [kind |-> kind, arg |-> arg, phase |-> "sent", row |-> None, todo |-> <<>>, failed |-> FALSE]
InfraAt(i, c) ==
  infraCalls' = [infraCalls EXCEPT ![i] = c] /\ UNCHANGED <<lists, infraStatus, removed, infraCalm>>
InPhase(i, phase) == infraCalls[i].phase = phase

ClientOf(r, h) == r.clients[CHOOSE i \in DOMAIN r.clients : r.clients[i].id = h]
(* Every host has a row of settings, its own or one with the settings x.   *)
Filled(r, x) ==
  [r EXCEPT !.clients = [i \in DOMAIN r.supervisors |->
     IF r.supervisors[i] \in SeqIds(@) THEN ClientOf(r, r.supervisors[i])
     ELSE [id |-> r.supervisors[i], set |-> x]]]
(* The row as every load and every save makes it.                          *)
Normal(r) == [Filled(r, r.hmi) EXCEPT !.servers = IF @ = <<>> THEN DefaultServers ELSE @]

(* The address the proxy finds for each server: that of its first row.     *)
Addresses ==
  LET known == Normal(row).servers
      Place(s) == CHOOSE i \in DOMAIN known :
                    known[i].id = s /\ \A j \in DOMAIN known : known[j].id = s => i <= j
  IN [s \in Servers |-> IF s \in SeqIds(known) THEN known[Place(s)].set ELSE None]

Unique(servers) ==
  \A i, j \in DOMAIN servers : servers[i].set = servers[j].set => i = j

ReadRow(i) ==
  LET c == infraCalls[i] IN
  /\ c.kind = "read" /\ InPhase(i, "sent")
  /\ InfraAt(i, [c EXCEPT !.row = Normal(row), !.phase = "ok"]) /\ UNCHANGED <<row, hosts>>

(* A save of the clients alone starts from the row as it reads it.         *)
TakeSave(i) ==
  LET c == infraCalls[i] IN
  /\ c.kind = "apply" /\ InPhase(i, "sent")
  /\ InfraAt(i, IF Unique(c.arg.servers) THEN [c EXCEPT !.row = c.arg, !.phase = "taken"]
                ELSE [c EXCEPT !.phase = "refused"])
  /\ UNCHANGED <<row, hosts>>
BadTakeClients(i) ==
  LET c == infraCalls[i] IN
  /\ c.kind = "clients" /\ InPhase(i, "sent")
  /\ InfraAt(i, [c EXCEPT !.phase = "taken", !.row = [c.arg EXCEPT !.servers = <<>>]])
  /\ UNCHANGED <<row, hosts>>
TakeClients(i) ==
  LET c == infraCalls[i] IN
  /\ c.kind = "clients" /\ InPhase(i, "sent")
  /\ InfraAt(i, [c EXCEPT !.phase = "taken",
       !.row = [Normal(row) EXCEPT !.supervisors = c.arg.supervisors, !.clients = c.arg.clients]])
  /\ UNCHANGED <<row, hosts>>

StoreRow(i) ==
  LET c == infraCalls[i] IN
  /\ InPhase(i, "taken") /\ row' = Normal(c.row)
  /\ InfraAt(i, [c EXCEPT !.phase = "pushing",
       !.todo = Kept(c.row.supervisors, SeqIds(c.row.clients))])
  /\ UNCHANGED hosts

(* The hosts get their settings one after the other; one that cannot be    *)
(* reached does not keep them from the others.                             *)
Push(i) ==
  LET c == infraCalls[i] IN
  /\ InPhase(i, "pushing") /\ c.todo # <<>>
  /\ hosts' = [hosts EXCEPT ![Head(c.todo)] = ClientOf(c.row, Head(c.todo)).set]
  /\ InfraAt(i, [c EXCEPT !.todo = Tail(@)]) /\ UNCHANGED row
PushFails(i) ==
  LET c == infraCalls[i] IN
  /\ InPhase(i, "pushing") /\ c.todo # <<>>
  /\ InfraAt(i, [c EXCEPT !.todo = Tail(@), !.failed = TRUE]) /\ UNCHANGED <<row, hosts>>
Pushed(i) ==
  LET c == infraCalls[i] IN
  /\ InPhase(i, "pushing") /\ c.todo = <<>>
  /\ InfraAt(i, [c EXCEPT !.phase = IF c.failed THEN "refused" ELSE "ok"])
  /\ UNCHANGED <<row, hosts>>
Reconnect(i) ==
  /\ infraCalls[i].kind = "reconnect" /\ InPhase(i, "sent")
  /\ InfraAt(i, [infraCalls[i] EXCEPT !.phase = "ok"]) /\ UNCHANGED <<row, hosts>>

ServeInfra(i) ==
  \/ /\ ReadRow(i) \/ TakeSave(i) \/ TakeClients(i) \/ Push(i) \/ Pushed(i) \/ Reconnect(i)
     /\ UNCHANGED panel
  \/ StoreRow(i) /\ Readdressed(Addresses' = Addresses)

-----------------------------------------------------------------------------
(* The lists of the page.  The panel follows when its server goes.         *)
EditLists(l) ==
  lists' = l /\ UNCHANGED <<infraStatus, infraCalls, row, hosts, infraCalm>>
Without(s, id) == Kept(s, {r \in ToSet(s) : r.id # id})

AddSupervisor ==
  /\ \E h \in Hosts \ ToSet(lists.supervisors) :
       EditLists([lists EXCEPT !.supervisors = Append(@, h),
                               !.clients = Append(@, [id |-> h, set |-> Default])])
  /\ UNCHANGED <<removed, panel>>
RemoveSupervisor ==
  \E h \in ToSet(lists.supervisors) :
    /\ EditLists([lists EXCEPT !.supervisors = Kept(@, Hosts \ {h}),
                               !.clients = Without(@, h)])
    /\ removed' = removed \cup {h} /\ UNCHANGED panel
AddOpc ==
  /\ \E s \in Servers \ SeqIds(lists.servers) :
       EditLists([lists EXCEPT !.servers = Append(@, [id |-> s, set |-> NewUrl])])
  /\ UNCHANGED <<removed, panel>>
UpdateOpc ==
  /\ \E i \in DOMAIN lists.servers, u \in Urls : EditLists([lists EXCEPT !.servers[i].set = u])
  /\ UNCHANGED <<removed, panel>>
RemoveOpc ==
  \E s \in SeqIds(lists.servers) :
    LET next == Without(lists.servers, s) IN
    /\ EditLists([lists EXCEPT !.servers = next]) /\ removed' = removed \cup {s}
    /\ IF active # s THEN UNCHANGED panel
       ELSE /\ Show(IF next = <<>> THEN None ELSE next[1].id) /\ Alone
            /\ secStatus' = IF next = <<>> THEN secStatus ELSE "busy"
            /\ UNCHANGED <<files, conf, toks, confirming>>
UpdateClients ==
  /\ \/ \E i \in DOMAIN lists.clients, x \in Settings : EditLists([lists EXCEPT !.clients[i].set = x])
     \/ \E x \in Settings : EditLists([lists EXCEPT !.hmi = x])
  /\ UNCHANGED <<removed, panel>>

Save ==
  \E kind \in {"apply", "clients"} :
    /\ Len(infraCalls) < MaxCalls
    /\ infraCalls' = Append(infraCalls, InfraAsked(kind, lists)) /\ infraStatus' = "busy"
    /\ infraCalm' = (infraCalm /\ infraCalls = <<>>)
    /\ UNCHANGED <<lists, row, hosts, removed, panel>>

UseInfra ==
  AddSupervisor \/ RemoveSupervisor \/ AddOpc \/ UpdateOpc \/ RemoveOpc \/ UpdateClients \/ Save

-----------------------------------------------------------------------------
(* Answers of the infrastructure.                                          *)
InfraTaken(i) == infraCalls' = RemoveAt(infraCalls, i)

HearRow(i) ==
  /\ infraCalls[i].kind = "read" /\ InPhase(i, "ok") /\ InfraTaken(i)
  /\ lists' = Filled(infraCalls[i].row, Default)
  /\ active' = None /\ conf' = None /\ toks' = {}
  /\ UNCHANGED <<infraStatus, row, hosts, removed, infraCalm>>
  /\ UNCHANGED <<files, secStatus, confirming, panelCalls, panelCalm>>
HearSaved(i) ==
  LET c == infraCalls[i] IN
  /\ c.kind # "read" /\ InPhase(i, "ok")
  /\ IF c.kind = "apply"
     THEN infraCalls' = [infraCalls EXCEPT ![i] = InfraAsked("reconnect", None)] /\ UNCHANGED infraStatus
     ELSE InfraTaken(i) /\ infraStatus' = "ok"
  /\ UNCHANGED <<lists, row, hosts, removed, infraCalm, panel>>
BadInfraFails(i) ==
  InfraTaken(i) /\ infraCalm' = FALSE /\ UNCHANGED <<lists, infraStatus, row, hosts, removed, panel>>
InfraFails(i) ==
  /\ InfraTaken(i) /\ infraCalm' = FALSE
  /\ infraStatus' = IF infraCalls[i].kind = "reconnect" THEN "partial" ELSE "failed"
  /\ UNCHANGED <<lists, row, hosts, removed, panel>>
HearInfraRefusal(i) == InPhase(i, "refused") /\ InfraFails(i)
LoseInfraCall(i) == ~InPhase(i, "refused") /\ InfraFails(i)

HearInfra(i) == HearRow(i) \/ HearSaved(i) \/ HearInfraRefusal(i)

-----------------------------------------------------------------------------
(* The accounts.  A request needs an administrator behind it.              *)
Roles == {"viewer", "admin"}
UserAsked(kind, u, arg) == [kind |-> kind, u |-> u, arg |-> arg, list |-> None, answer |-> None]
Changes == {"create", "role", "disable", "password"}
UserAt(i, answer, list) ==
  /\ userCalls' = [userCalls EXCEPT ![i].answer = answer, ![i].list = list]
  /\ UNCHANGED <<users, audit, usersStatus, usersCalm>>
Granted == accounts[Me] = [role |-> "admin", disabled |-> FALSE]

(* A change of the own role, or of the own password, ends the own session;*)
(* the model goes on granting or refusing by the account alone.            *)
Permits(c) ==
  /\ Granted
  /\ c.kind = "create" => accounts[c.u] = None
  /\ c.kind \in Changes \ {"create"} => accounts[c.u] # None
  /\ c.kind = "disable" => ~(c.u = Me /\ c.arg)

ServeUsers(i) ==
  LET c == userCalls[i] IN
  /\ c.answer = None
  /\ IF ~Permits(c) THEN UserAt(i, "refused", None) /\ UNCHANGED accounts
     ELSE /\ UserAt(i, "ok", IF c.kind = "list" THEN accounts ELSE None)
          /\ accounts' = CASE c.kind = "create" -> [accounts EXCEPT ![c.u] = [role |-> c.arg, disabled |-> FALSE]]
                           [] c.kind = "role" -> [accounts EXCEPT ![c.u].role = c.arg]
                           [] c.kind = "disable" -> [accounts EXCEPT ![c.u].disabled = c.arg]
                           [] OTHER -> accounts

AskUsers(c) ==
  /\ isAdmin /\ Len(userCalls) < MaxCalls /\ userCalls' = Append(userCalls, c)
  /\ usersCalm' = (usersCalm /\ userCalls = <<>>) /\ UNCHANGED <<users, accounts>>
Shown == {u \in Users : users[u] # None}

FetchUsers == AskUsers(UserAsked("list", Me, None)) /\ UNCHANGED <<audit, usersStatus>>
CreateUser == \E u \in Users, r \in Roles :
  AskUsers(UserAsked("create", u, r)) /\ usersStatus' = "busy" /\ UNCHANGED audit
UpdateRole == \E u \in Shown, r \in Roles :
  AskUsers(UserAsked("role", u, r)) /\ UNCHANGED <<audit, usersStatus>>
SetDisabled == \E u \in Shown :
  AskUsers(UserAsked("disable", u, ~users[u].disabled)) /\ UNCHANGED <<audit, usersStatus>>
ResetPassword == \E u \in Shown :
  AskUsers(UserAsked("password", u, None)) /\ UNCHANGED <<audit, usersStatus>>
IncompleteUser ==
  isAdmin /\ usersStatus' = "failed" /\ UNCHANGED <<users, audit, userCalls, accounts, usersCalm>>
TypeFilter == \E f \in Filters \cup {None} :
  /\ isAdmin /\ audit' = [audit EXCEPT !.typed = f]
  /\ UNCHANGED <<users, usersStatus, userCalls, accounts, usersCalm>>
FetchAudit ==
  /\ AskUsers(UserAsked("audit", Me, audit.typed))
  /\ audit' = [audit EXCEPT !.asked = audit.typed] /\ UNCHANGED usersStatus

UseUsers ==
  FetchUsers \/ CreateUser \/ UpdateRole \/ SetDisabled \/ ResetPassword \/ IncompleteUser
  \/ TypeFilter \/ FetchAudit

UserTaken(i) == userCalls' = RemoveAt(userCalls, i)
HearUsers(i) ==
  /\ userCalls[i].kind = "list" /\ userCalls[i].answer = "ok"
  /\ users' = userCalls[i].list /\ UserTaken(i)
  /\ UNCHANGED <<audit, usersStatus, accounts, usersCalm>>
HearAudit(i) ==
  /\ userCalls[i].kind = "audit" /\ userCalls[i].answer = "ok"
  /\ audit' = [audit EXCEPT !.shown = userCalls[i].arg] /\ UserTaken(i)
  /\ UNCHANGED <<users, usersStatus, accounts, usersCalm>>

(* The list is asked for again after a change, but for a new password.     *)
BadThenAsk(i) ==
  IF userCalls[i].kind \in {"disable", "password"} THEN UserTaken(i)
  ELSE userCalls' = [userCalls EXCEPT ![i] = UserAsked("list", Me, None)]
ThenAsk(i) ==
  IF userCalls[i].kind = "password" THEN UserTaken(i)
  ELSE userCalls' = [userCalls EXCEPT ![i] = UserAsked("list", Me, None)]
HearChanged(i) ==
  /\ userCalls[i].kind \in Changes /\ userCalls[i].answer = "ok"
  /\ ThenAsk(i) /\ usersStatus' = "ok" /\ UNCHANGED <<users, audit, accounts, usersCalm>>
HearUserRefusal(i) ==
  /\ userCalls[i].answer = "refused" /\ UserTaken(i)
  /\ usersStatus' = IF userCalls[i].kind = "audit" THEN usersStatus ELSE "failed"
  /\ usersCalm' = FALSE /\ UNCHANGED <<users, audit, accounts>>
HearAccounts(i) == HearUsers(i) \/ HearAudit(i) \/ HearChanged(i) \/ HearUserRefusal(i)

(* Only the requests of the lists are guarded against a lost answer.       *)
LoseUserCall(i) ==
  /\ UserTaken(i) /\ usersCalm' = FALSE
  /\ usersStatus' = IF userCalls[i].kind = "list" THEN "failed" ELSE usersStatus
  /\ UNCHANGED <<users, audit, accounts>>

-----------------------------------------------------------------------------
Init ==
  /\ PanelInit
  /\ left \in Visits /\ faults = 0
  /\ row = FirstRow /\ hosts = [h \in Hosts |-> Default]
  /\ lists = [supervisors |-> <<>>, servers |-> <<>>, clients |-> <<>>, hmi |-> Default]
  /\ infraStatus = "none" /\ removed = {} /\ infraCalm = TRUE
  /\ infraCalls = <<InfraAsked("read", None)>>
  /\ accounts = [u \in Users |-> IF u = Me THEN [role |-> "admin", disabled |-> FALSE] ELSE None]
  /\ users = [u \in Users |-> None] /\ usersStatus = "none" /\ usersCalm = TRUE
  /\ audit = [typed |-> None, asked |-> None, shown |-> "nothing"]
  /\ userCalls = IF isAdmin THEN <<UserAsked("list", Me, None), UserAsked("audit", Me, None)>> ELSE <<>>

(* The question about a restart covers the page.                           *)
User ==
  \/ Op("infra") /\ ~confirming /\ UseInfra /\ UNCHANGED people
  \/ /\ Op("panel") /\ (UsePanel \/ \E s \in SeqIds(lists.servers) : Toggle(s))
     /\ UNCHANGED <<infra, people>>
  \/ Op("users") /\ ~confirming /\ UseUsers /\ UNCHANGED <<panel, infra>>

Panel == \E i \in DOMAIN panelCalls :
  ServePanel(i, Addresses) \/ HearPanel(i)
Infra == \E i \in DOMAIN infraCalls : ServeInfra(i) \/ HearInfra(i)
People == \E i \in DOMAIN userCalls : ServeUsers(i) \/ HearAccounts(i)
Answers ==
  /\ Free
  /\ \/ Panel /\ UNCHANGED <<infra, people>>
     \/ Infra /\ UNCHANGED people
     \/ People /\ UNCHANGED <<panel, infra>>
Losses ==
  /\ Fault
  /\ \/ /\ \E i \in DOMAIN panelCalls : LosePanelCall(i)
        /\ UNCHANGED <<infra, people>>
     \/ /\ \E i \in DOMAIN infraCalls : LoseInfraCall(i) \/ (PushFails(i) /\ UNCHANGED panel)
        /\ UNCHANGED people
     \/ /\ \E i \in DOMAIN userCalls : LoseUserCall(i)
        /\ UNCHANGED <<panel, infra>>

Next == User \/ Answers \/ Losses
Spec == Init /\ [][Next]_vars
FairSpec == Spec /\ WF_vars(Answers)

-----------------------------------------------------------------------------
PanelCall ==
  [kind : {"load", "reload", "restart"} \cup Writers, srv : Servers, arg : {None} \cup Tokens \cup Config,
   conf : {None} \cup Config, toks : {None} \cup SUBSET (Tokens \cup {Anon}), answer : {None, "ok", "refused"}]

(* The page, the HMI and the servers keep their types: what the panel      *)
(* shows and sends, what the lists hold, what is stored.                   *)
TypeOK ==
  /\ files \in [Urls -> File]
  /\ active \in Servers \cup {None} /\ conf \in Config \cup {None}
  /\ toks \subseteq Tokens \cup {Anon} /\ confirming \in BOOLEAN
  /\ secStatus \in {"none", "busy", "ok", "failed"} /\ panelCalm \in BOOLEAN
  /\ panelCalls \in Seq(PanelCall)
  /\ lists \in Lists /\ row \in Lists /\ hosts \in [Hosts -> Settings]
  /\ infraStatus \in {"none", "busy", "ok", "partial", "failed"} /\ infraCalm \in BOOLEAN
  /\ removed \subseteq Hosts \cup Servers
  /\ \A u \in Users : {users[u], accounts[u]} \subseteq {None} \cup [role : Roles, disabled : BOOLEAN]
  /\ audit \in [typed : Filters \cup {None}, asked : Filters \cup {None},
               shown : Filters \cup {None, "nothing"}]
  /\ usersStatus \in {"none", "busy", "ok", "failed"} /\ usersCalm \in BOOLEAN

(* Whatever overlaps and whatever is lost, a server's file names a default *)
(* profile it has, and no profile that asks for security admits ANONYMOUS: *)
(* the server refuses the one (set_security_payload), only the page        *)
(* prevents the other (saveOpcSecurityConfig).                             *)
StoredSound ==
  \A u \in Urls : LET c == files[u].conf IN
    /\ c.default \in Ids(c)
    /\ \A i \in DOMAIN c.endpoints : c.endpoints[i].open \/ Anon \notin c.endpoints[i].tokens

(* While no request of the panel failed or overlapped another or an edit,  *)
(* and the address stored for a server did not change under a panel that   *)
(* shows or asks for one, the panel that has its answers shows the         *)
(* profiles and the tokens of its own server, a save carries profiles of   *)
(* the server it goes to, and no stored profile lists a token that is      *)
(* gone: the page follows a change of server, a stored and a removed token *)
(* (fetchOpcSecurityData), and the server clears a removed token away.     *)
PanelMatches ==
  panelCalm =>
    /\ panelCalls = <<>> /\ active # None => conf # None /\ conf.from = Addresses[active]
                                             /\ toks = files[conf.from].toks
    /\ \A i \in DOMAIN panelCalls :
         panelCalls[i].kind = "put" => panelCalls[i].arg.from = Addresses[panelCalls[i].srv]
    /\ \A u \in Urls : \A i \in DOMAIN files[u].conf.endpoints :
         files[u].conf.endpoints[i].tokens \subseteq files[u].toks

(* The page has exactly one row of client settings for each controller     *)
(* host, in the order of the hosts, whatever was added, removed or loaded. *)
ClientPerHost ==
  lists.supervisors = [i \in DOMAIN lists.clients |-> lists.clients[i].id]

(* Types, what the servers store, and the rows of the page.                *)
SettingsInv == TypeOK /\ StoredSound /\ ClientPerHost

(* While no load and no save failed, and none overlapped another, the      *)
(* stored row loses a host or a server only if the administrator removed   *)
(* it, and when nothing is under way every host has the settings of its    *)
(* stored row (handleSave, sync_controller_host_opc_defaults).  After a    *)
(* load that failed the page is empty, and its save stores that.           *)
RowFollowsPage ==
  infraCalm =>
    /\ ToSet(FirstRow.supervisors) \cup SeqIds(FirstRow.servers)
         \subseteq ToSet(row.supervisors) \cup SeqIds(row.servers) \cup removed
    /\ infraCalls = <<>> => \A i \in DOMAIN row.clients :
         row.clients[i].id \in ToSet(row.supervisors) => hosts[row.clients[i].id] = row.clients[i].set

(* The administrator's own account stays enabled, and while no call failed *)
(* or overlapped another, the list shown is the accounts' when nothing is  *)
(* under way: every change but a new password asks for the list again; the *)
(* audit events shown are those of the filter last asked with.             *)
UsersMatch ==
  /\ ~accounts[Me].disabled
  /\ usersCalm /\ isAdmin /\ userCalls = <<>> =>
       users = accounts /\ audit.shown = audit.asked

(* A save and a request of the panel do not stay without a word: whatever  *)
(* comes, or fails to come, takes the place of the busy text. A new        *)
(* account's text stays only if its answer is lost (createUser).           *)
RequestsReport ==
  /\ infraStatus = "busy" ~> infraStatus # "busy"
  /\ secStatus = "busy" ~> secStatus # "busy"
  /\ usersStatus = "busy" ~> usersStatus # "busy" \/ ~usersCalm
=============================================================================
