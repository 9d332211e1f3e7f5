------------------------- MODULE OpcSecurityPanel -------------------------
(***************************************************************************)
(* The security panel of the settings page (SettingsView.tsx) against the  *)
(* administration interface of the OPC UA servers (opcua_server,           *)
(* web_api.rs), through the HMI's proxy (web_routes.rs).                   *)
(*                                                                         *)
(* One administrator.  Calls run at the same time, are answered in any     *)
(* order, and may be lost.  A server's handlers read its file and write it *)
(* back without a lock.  A policy and a mode are one flag, open: None and  *)
(* None; paths and levels are left out.  The running endpoints, which a    *)
(* restart replaces, are left out.                                         *)
(*                                                                         *)
(* The page names a server by its id; the proxy looks the stored address   *)
(* up for each request.  at is that address of each id, or None.           *)
(***************************************************************************)
EXTENDS Integers, Sequences, SequencesExt, FiniteSets, Filtering

CONSTANTS
  Servers,   \* ids of OPC UA servers
  Urls,      \* addresses of OPC UA servers
  Endpoints, \* ids of endpoint profiles
  Tokens,    \* ids of user tokens made here
  Anon,      \* the built-in token ANONYMOUS
  None,
  FirstFile, \* a server's file at first
  MaxCalls   \* bound: calls of each form under way

VARIABLES
  files,      \* the file of the server at each address: endpoint profiles and tokens
  active,     \* activeOpcSecurityServerId, or None
  conf,       \* opcSecurityConfig, or None, and the address it was read from
  toks,       \* opcTokens
  secStatus,  \* what the panel says of its last request
  confirming, \* showRestartConfirm
  panelCalls, \* calls under way, in the order they were made
  panelCalm   \* no request of the panel failed, none overlapped another or an edit, and no
              \* address stored changed while a server was shown or asked

panel == <<files, active, conf, toks, secStatus, confirming, panelCalls, panelCalm>>
form == <<active, conf, toks, confirming>>

Profile == [id : Endpoints, open : BOOLEAN, tokens : SUBSET (Tokens \cup {Anon})]
Config == [from : Urls, default : Endpoints \cup {None}, endpoints : Seq(Profile)]
File == [conf : Config, toks : SUBSET (Tokens \cup {Anon})]
Ids(c) == {c.endpoints[i].id : i \in DOMAIN c.endpoints}

ASSUME PanelAssumption ==
  /\ None \notin Servers \cup Urls \cup Endpoints \cup Tokens \cup Config \cup {"ok", "refused"}
  /\ MaxCalls \in Nat
  /\ FirstFile \in File /\ FirstFile.conf.default \in Ids(FirstFile.conf)
  /\ \A i \in DOMAIN FirstFile.conf.endpoints : LET ep == FirstFile.conf.endpoints[i] IN
       ep.tokens \subseteq FirstFile.toks /\ (ep.open \/ Anon \notin ep.tokens)

-----------------------------------------------------------------------------
(* The server's handlers.  A call waits for its handler to read the file,  *)
(* then for it to write, then for the page to take the answer.             *)
Asked(kind, s, arg) ==
  [kind |-> kind, srv |-> s, arg |-> arg, conf |-> None, toks |-> None, answer |-> None]
Writers == {"put", "post", "delete"}

(* The file's map of profiles: of two with one id the last one is kept.    *)
LastOf(eps, i) == CHOOSE j \in DOMAIN eps : eps[j].id = eps[i].id
                  /\ \A k \in DOMAIN eps : eps[k].id = eps[i].id => k <= j
IsFirst(eps, i) == \A k \in DOMAIN eps : eps[k].id = eps[i].id => i <= k
AsMap(eps) == LET firsts == Kept([i \in DOMAIN eps |-> i], {i \in DOMAIN eps : IsFirst(eps, i)})
              IN [n \in DOMAIN firsts |-> eps[LastOf(eps, firsts[n])]]

Accepts(c) == c.endpoints # <<>> /\ c.default \in Ids(c)

Unticked(ep, t) == [ep EXCEPT !.tokens = @ \ {t}]
WithoutToken(c, t) == [c EXCEPT !.endpoints = [i \in DOMAIN @ |-> Unticked(@[i], t)]]

(* What the handler of call c leaves in the file.                          *)
Written(c) ==
  CASE c.kind = "put" -> {[conf |-> [c.arg EXCEPT !.endpoints = AsMap(@), !.from = c.conf.from], toks |-> c.toks]}
    [] c.kind = "post" -> {[conf |-> c.conf, toks |-> c.toks \cup {t}] : t \in Tokens \ c.toks}
    [] c.kind = "delete" -> {[conf |-> WithoutToken(c.conf, c.arg), toks |-> c.toks \ {c.arg}]}

At(i, c) == panelCalls' = [panelCalls EXCEPT ![i] = c] /\ UNCHANGED <<form, secStatus, panelCalm>>

(* The proxy knows the servers of the saved infrastructure only.           *)
RefuseUnknown(i, at) ==
  LET c == panelCalls[i] IN
  /\ c.answer = None /\ at[c.srv] = None /\ (c.kind \in Writers => c.conf = None)
  /\ At(i, [c EXCEPT !.answer = "refused"]) /\ UNCHANGED files

Restart(i, at) ==
  LET c == panelCalls[i] IN
  /\ c.answer = None /\ c.kind = "restart" /\ at[c.srv] # None
  /\ At(i, [c EXCEPT !.answer = "ok"]) /\ UNCHANGED files

(* Two requests make one load: of the profiles and of the tokens.          *)
ReadConfig(i, at) ==
  LET c == panelCalls[i] IN
  /\ c.kind \in {"load", "reload"} \cup Writers /\ c.answer = None /\ c.conf = None /\ at[c.srv] # None
  /\ LET file == files[at[c.srv]]
         read == [c EXCEPT !.conf = file.conf]
     IN At(i, IF c.kind \in Writers THEN [read EXCEPT !.toks = file.toks]
              ELSE IF c.toks # None THEN [read EXCEPT !.answer = "ok"] ELSE read)
  /\ UNCHANGED files
ReadTokens(i, at) ==
  LET c == panelCalls[i] IN
  /\ c.kind \in {"load", "reload"} /\ c.answer = None /\ c.toks = None /\ at[c.srv] # None
  /\ LET read == [c EXCEPT !.toks = files[at[c.srv]].toks]
     IN At(i, IF c.conf # None THEN [read EXCEPT !.answer = "ok"] ELSE read)
  /\ UNCHANGED files

(* The handler writes where it has read, whatever the address is by then.  *)
WriteFile(i) ==
  LET c == panelCalls[i] IN
  /\ c.kind \in Writers /\ c.answer = None /\ c.conf # None
  /\ IF c.kind = "put" /\ ~Accepts(c.arg)
     THEN At(i, [c EXCEPT !.answer = "refused"]) /\ UNCHANGED files
     ELSE /\ \E file \in Written(c) : files' = [files EXCEPT ![c.conf.from] = file]
          /\ At(i, [c EXCEPT !.answer = "ok"])

ServePanel(i, at) ==
  RefuseUnknown(i, at) \/ Restart(i, at) \/ ReadConfig(i, at) \/ ReadTokens(i, at) \/ WriteFile(i)

(* What a change of the addresses leaves calm: a page that shows no server *)
(* and has asked for none.                                                 *)
Readdressed(same) ==
  /\ panelCalm' = (panelCalm /\ (same \/ (active = None /\ panelCalls = <<>>)))
  /\ UNCHANGED <<files, form, secStatus, panelCalls>>

-----------------------------------------------------------------------------
(* The page.  Requests are sent with the server shown when they are made.  *)
Sends(c) == Len(panelCalls) < MaxCalls /\ panelCalls' = Append(panelCalls, c)
Quiet == panelCalm /\ panelCalls = <<>>
Alone == panelCalm' = Quiet

(* The effect of a change of the server shown.                             *)
BadShow(s) == active' = s /\ UNCHANGED panelCalls
Show(s) ==
  /\ active' = s
  /\ IF s \in {None, active} THEN UNCHANGED panelCalls ELSE Sends(Asked("load", s, None))

Toggle(s) ==
  /\ ~confirming /\ Show(IF active = s THEN None ELSE s) /\ Alone
  /\ secStatus' = IF active = s THEN secStatus ELSE "busy"
  /\ UNCHANGED <<files, conf, toks, confirming>>

Edit(c) ==
  /\ ~confirming
  /\ conf' = c /\ Alone
  /\ UNCHANGED <<files, active, toks, secStatus, confirming, panelCalls>>

Added(c, id) ==
  [c EXCEPT !.default = IF @ = None THEN id ELSE @,
            !.endpoints = Append(@, [id |-> id, open |-> FALSE, tokens |-> {}])]
Patched(ep, field, value) == [ep EXCEPT ![field] = value]
Updated(c, id, field, value) ==
  [c EXCEPT !.endpoints = [i \in DOMAIN @ |-> IF @[i].id = id THEN Patched(@[i], field, value) ELSE @[i]]]
Removed(c, id) ==
  LET left == [c EXCEPT !.endpoints = Kept(@, {ep \in ToSet(@) : ep.id # id})]
  IN [left EXCEPT !.default = CASE @ \in Ids(left) -> @
                                [] left.endpoints = <<>> -> None
                                [] OTHER -> left.endpoints[1].id]

(* The boxes of a profile show ANONYMOUS only while the profile is open.   *)
Boxes(ep) == {t \in toks : t = Anon => ep.open}

AddProfile == \E id \in Endpoints \ Ids(conf) : Edit(Added(conf, id))
RemoveProfile == \E id \in Ids(conf) : Edit(Removed(conf, id))
SetDefault == \E id \in Ids(conf) : Edit([conf EXCEPT !.default = id])
Rename == \E id \in Ids(conf), new \in Endpoints :
            id # new /\ Edit(Updated(conf, id, "id", new))
SetPolicy == \E i \in DOMAIN conf.endpoints : LET ep == conf.endpoints[i]
                                              IN  Edit(Updated(conf, ep.id, "open", ~ep.open))
TickToken == \E i \in DOMAIN conf.endpoints : \E t \in Boxes(conf.endpoints[i]) :
  LET ep == conf.endpoints[i]
      ticked == IF t \in ep.tokens THEN ep.tokens \ {t} ELSE ep.tokens \cup {t}
  IN Edit(Updated(conf, ep.id, "tokens", ticked))

Request(c) == ~confirming /\ Sends(c) /\ secStatus' = "busy" /\ Alone

BadSanitized(c) == c
Sanitized(c) ==
  [c EXCEPT !.endpoints = [i \in DOMAIN @ |-> IF @[i].open THEN @[i] ELSE Unticked(@[i], Anon)]]

SaveConfig == Request(Asked("put", active, Sanitized(conf))) /\ UNCHANGED <<files, form>>
(* The bound on tokens keeps one for each request to store one.            *)
Posts == SelectSeq(panelCalls, LAMBDA c : c.kind = "post")
SaveToken ==
  /\ \A u \in Urls : Len(Posts) + Cardinality(files[u].toks) <= Cardinality(Tokens)
  /\ Request(Asked("post", active, None)) /\ UNCHANGED <<files, form>>
IncompleteToken ==
  /\ ~confirming /\ secStatus' = "failed"
  /\ UNCHANGED <<files, form, panelCalls, panelCalm>>
RemoveToken == \E t \in toks \ {Anon} :
  Request(Asked("delete", active, t)) /\ UNCHANGED <<files, form>>

AskRestart ==
  /\ ~confirming /\ confirming' = TRUE
  /\ UNCHANGED <<files, active, conf, toks, secStatus, panelCalls, panelCalm>>
CancelRestart ==
  /\ confirming /\ confirming' = FALSE
  /\ UNCHANGED <<files, active, conf, toks, secStatus, panelCalls, panelCalm>>
ConfirmRestart ==
  /\ confirming /\ confirming' = FALSE
  /\ IF active = None THEN UNCHANGED <<secStatus, panelCalls>> /\ Alone
     ELSE Sends(Asked("restart", active, None)) /\ secStatus' = "busy" /\ Alone
  /\ UNCHANGED <<files, active, conf, toks>>

(* The panel is on the page while a server is shown and profiles are held. *)
UsePanel ==
  \/ /\ active # None /\ conf # None
     /\ \/ AddProfile \/ RemoveProfile \/ SetDefault \/ Rename \/ SetPolicy \/ TickToken
        \/ SaveConfig \/ SaveToken \/ IncompleteToken \/ RemoveToken \/ AskRestart
  \/ CancelRestart \/ ConfirmRestart

(* Answers reach the page in any order.  A reload follows a stored token;  *)
(* what it meets itself is covered by the success of the token.            *)
Loaded(c) == conf' = c.conf /\ toks' = c.toks

Taken(i) == panelCalls' = RemoveAt(panelCalls, i)
HearLoad(i) ==
  LET c == panelCalls[i] IN
  /\ c.kind \in {"load", "reload"} /\ c.answer = "ok"
  /\ Loaded(c) /\ Taken(i) /\ secStatus' = "ok"
  /\ UNCHANGED <<files, active, confirming, panelCalm>>
HearPut(i) ==
  LET c == panelCalls[i] IN
  /\ c.kind = "put" /\ c.answer = "ok"
  /\ conf' = [c.arg EXCEPT !.from = c.conf.from] /\ Taken(i) /\ secStatus' = "ok"
  /\ UNCHANGED <<files, active, toks, confirming, panelCalm>>
HearToken(i) ==
  LET c == panelCalls[i] IN
  /\ c.kind \in {"post", "delete"} /\ c.answer = "ok"
  /\ panelCalls' = [panelCalls EXCEPT ![i] = Asked("reload", c.srv, None)]
  /\ secStatus' = "busy" /\ UNCHANGED <<files, form, panelCalm>>
HearRestart(i) ==
  /\ panelCalls[i].kind = "restart" /\ panelCalls[i].answer = "ok"
  /\ Taken(i) /\ secStatus' = "ok" /\ UNCHANGED <<files, form, panelCalm>>

Fails(i) ==
  /\ Taken(i) /\ panelCalm' = FALSE
  /\ secStatus' = IF panelCalls[i].kind = "reload" THEN "ok" ELSE "failed"
  /\ UNCHANGED <<files, form>>
HearRefusal(i) == panelCalls[i].answer = "refused" /\ Fails(i)
LosePanelCall(i) == panelCalls[i].answer # "refused" /\ Fails(i)

HearPanel(i) == HearLoad(i) \/ HearPut(i) \/ HearToken(i) \/ HearRestart(i) \/ HearRefusal(i)

PanelInit ==
  /\ files = [u \in Urls |-> [FirstFile EXCEPT !.conf.from = u]]
  /\ active = None /\ conf = None /\ toks = {} /\ secStatus = "none"
  /\ confirming = FALSE /\ panelCalls = <<>> /\ panelCalm = TRUE
=============================================================================
