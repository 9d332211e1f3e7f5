---------------------------- MODULE HmiSession ----------------------------
(***************************************************************************)
(* The front end's root (App.tsx, lib/api.ts) against the server's         *)
(* sessions (auth.rs) and its WebSocket (web_routes.rs): who is logged in, *)
(* whether the socket is usable, and which mode the two switches of the    *)
(* controller on display show.                                             *)
(*                                                                         *)
(* One browser and one user.  Calls to the server are answered in any      *)
(* order and their answers arrive in any order; calls that ask the same    *)
(* and have come equally far are one.  A closed socket ends by an event of *)
(* its own that may come late.  The two switches are the mode they stand   *)
(* for: 0 off, 1 calculator, 2 calculator and control action.              *)
(***************************************************************************)
EXTENDS Integers, Sequences, FiniteSets

CONSTANTS
  Controllers, \* controllers the user may open; other pages are None
  None,
  FirstRoles,  \* roles the user may have at first
  FirstModes,  \* modes the controllers may be in at first
  MaxMsgs,     \* bound: messages under way in each direction of the socket
  MaxCalls,    \* bound: calls under way
  MaxOps,      \* bound: operations of the user
  MaxOthers,   \* bound: changes by administrators and by others than the user
  MaxFaults    \* bound: calls that get lost, sockets the server drops

ASSUME SessionAssumption ==
  /\ None \notin Controllers
  /\ FirstRoles \subseteq {"viewer", "operator"} /\ FirstModes \subseteq [Controllers -> 0..2]
  /\ MaxMsgs \in Nat /\ MaxCalls \in Nat /\ MaxOps \in Nat /\ MaxOthers \in Nat
  /\ MaxFaults \in Nat

VARIABLES
  user,      \* the user's row at the server: role and auth_version
  session,   \* what the server holds for the browser's cookie, or None
  changing,  \* the server has stored a new password and not yet the session
  page,      \* authReady, authenticated, role, csrfToken
  calls,     \* calls to the server under way
  socket,    \* the last socket made: none, connecting or open; the role it has at the server
  held,      \* ws.current is that socket, and not null
  closing,   \* sockets closed by the page whose end it has not heard of yet
  active,    \* activeModel
  loading,   \* the controller whose model is being fetched, or None
  prefix,    \* systemPrefix
  prefixTag, \* the tag _systemPrefix, which the socket's handler reads
  tags,      \* the last mode heard of each controller
  switches,  \* calcOn and controlEnable
  plant,     \* the mode of each controller
  down, up,  \* messages under way to the page and from it
  ops, others, faults

auth == <<user, session, changing, page, calls>>
link == <<socket, held, closing, down, up>>
shown == <<active, loading, prefix, prefixTag, tags, switches>>
vars == <<auth, link, shown, plant, ops, others, faults>>

Roles == {"disabled", "viewer", "operator"}
Told == Roles \ {"disabled"}
Modes == 0..2
Step == ops < MaxOps /\ ops' = ops + 1 /\ UNCHANGED <<others, faults>>
Other == others < MaxOthers /\ others' = others + 1 /\ UNCHANGED <<ops, faults>>
Fault == faults < MaxFaults /\ faults' = faults + 1 /\ UNCHANGED <<ops, others>>
Free == UNCHANGED <<ops, others, faults>>

-----------------------------------------------------------------------------
(* The server.                                                             *)
CurrentUser ==
  session # None /\ user.role # "disabled"
  /\ session.version = user.version /\ session.role = user.role

(* Answers: who the browser is, or whether a request was granted.          *)
Reply(status, in, role, token) == [status |-> status, in |-> in, role |-> role, token |-> token]
Says(status) == Reply(status, FALSE, "viewer", None)
Me == IF CurrentUser THEN Reply("ok", TRUE, user.role, session.token) ELSE Says("ok")

Asked(kind) == [kind |-> kind, token |-> None, answer |-> None]
Answered(c, a) == (calls \ {c}) \cup {[c EXCEPT !.answer = a]}
MeKinds == {"bootstrap", "alive", "stale", "changed"}
LoginKinds == {"login"} \cup Told

(* What CsrfVerified and CurrentUser let through.                          *)
Verified(c) == session # None /\ c.token = session.token
Refusal(c) == IF session = None \/ (Verified(c) /\ ~CurrentUser) THEN Says("401") ELSE Says("403")

AnswerMe(c) ==
  /\ c.kind \in MeKinds
  /\ calls' = Answered(c, Me) /\ UNCHANGED <<user, session, changing, page>>

(* A login goes on as the role it found with the credentials; the session  *)
(* gets that role, and the version of the row as it is by then.            *)
FindUser(c) ==
  /\ c.kind = "login" /\ user.role # "disabled"
  /\ calls' = (calls \ {c}) \cup {[c EXCEPT !.kind = user.role]}
  /\ UNCHANGED <<user, session, changing, page>>
(* A token no earlier session had: the number of operations is one.        *)
AnswerLogin(c) ==
  /\ c.kind \in Told
  /\ session' = [role |-> c.kind, version |-> user.version, token |-> ops]
  /\ calls' = Answered(c, Reply("ok", TRUE, c.kind, ops))
  /\ UNCHANGED <<user, changing, page>>
RefuseLogin(c) ==
  /\ c.kind = "login"
  /\ calls' = Answered(c, Says("401")) /\ UNCHANGED <<user, session, changing, page>>

AnswerLogout(c) ==
  /\ c.kind = "logout"
  /\ IF Verified(c) /\ CurrentUser
     THEN session' = None /\ calls' = Answered(c, Says("ok"))
     ELSE UNCHANGED session /\ calls' = Answered(c, Refusal(c))
  /\ UNCHANGED <<user, changing, page>>

(* The new password ends every session; this one is then let in again.     *)
StorePassword(c) ==
  /\ c.kind = "change" /\ ~changing
  /\ IF Verified(c) /\ CurrentUser
     THEN user' = [user EXCEPT !.version = @ + 1] /\ changing' = TRUE /\ UNCHANGED calls
     ELSE calls' = Answered(c, Refusal(c)) /\ UNCHANGED <<user, changing>>
  /\ UNCHANGED <<session, page>>
RenewSession(c) ==
  /\ c.kind = "change" /\ changing /\ changing' = FALSE
  /\ session' = IF session = None THEN None ELSE [session EXCEPT !.version = user.version]
  /\ calls' = Answered(c, Says("ok")) /\ UNCHANGED <<user, page>>

Serve(c) ==
  /\ c \in calls /\ c.answer = None
  /\ AnswerMe(c) \/ FindUser(c) \/ AnswerLogin(c) \/ RefuseLogin(c) \/ AnswerLogout(c)
     \/ StorePassword(c) \/ RenewSession(c)
  /\ Free /\ UNCHANGED <<link, shown, plant>>

(* An administrator changes the role, or disables the user.                *)
SetRole(role) ==
  /\ role # user.role
  /\ user' = [role |-> role, version |-> user.version + 1]
  /\ Other /\ UNCHANGED <<session, changing, page, calls, link, shown, plant>>

-----------------------------------------------------------------------------
(* The page's effects on logging in and out.                               *)
Load(p) ==
  /\ active' = p /\ loading' = p /\ prefix' = None
  /\ UNCHANGED <<prefixTag, tags, switches>>

OpenSocket ==
  IF held THEN UNCHANGED <<socket, held, closing, down, up>>
  ELSE /\ socket' = [state |-> "connecting", role |-> None] /\ held' = TRUE
       /\ down' = <<>> /\ up' = <<>> /\ UNCHANGED closing
BadCloseSocket ==
  IF held
  THEN /\ closing' = closing + 1 /\ socket' = [socket EXCEPT !.state = "none"]
       /\ held' = FALSE /\ down' = <<>> /\ UNCHANGED up
  ELSE UNCHANGED <<socket, held, closing, down, up>>
CloseSocket ==
  /\ closing' = IF socket.state = "none" THEN closing ELSE closing + 1
  /\ socket' = [socket EXCEPT !.state = "none"] /\ held' = FALSE
  /\ down' = <<>> /\ UNCHANGED up

(* Keep-alive calls of a login that ended are cancelled.                   *)
Cancelled(cs) ==
  {c \in cs : c.kind # "alive"}
  \cup {[c EXCEPT !.kind = "stale"] : c \in {d \in cs : d.kind = "alive"}}

(* The page learns that it is logged in, or not, as p says.                *)
Becomes(p, cs) ==
  /\ page' = p
  /\ IF p.in /\ ~page.in
     THEN calls' = cs \cup {Asked("alive")} /\ OpenSocket /\ Load(active)
     ELSE IF page.in /\ ~p.in
     THEN calls' = Cancelled(cs) /\ CloseSocket /\ loading' = None
          /\ UNCHANGED <<active, prefix, prefixTag, tags, switches>>
     ELSE calls' = cs /\ UNCHANGED <<link, shown>>

As(reply) == [page EXCEPT !.in = reply.in, !.role = reply.role, !.token = reply.token]

-----------------------------------------------------------------------------
(* Answers arrive.                                                         *)
Bootstrapped(c, rest) ==
  c.kind = "bootstrap" /\ Becomes([As(c.answer) EXCEPT !.ready = TRUE], rest)
BadKeptAlive(c, rest) ==
  c.kind = "alive" /\ Becomes(IF c.answer.in THEN As(c.answer) ELSE page, rest)
KeptAlive(c, rest) == c.kind = "alive" /\ Becomes(As(c.answer), rest)
HeardStale(c, rest) ==
  c.kind = "stale" /\ Becomes([page EXCEPT !.token = c.answer.token], rest)
LoggedIn(c, rest) ==
  c.kind \in LoginKinds /\ Becomes(IF c.answer.status = "401" THEN page ELSE As(c.answer), rest)
LoggedOut(c, rest) ==
  /\ c.kind = "logout"
  /\ Becomes([page EXCEPT !.in = FALSE, !.role = "viewer",
                          !.token = IF c.answer.status \in {"ok", "401"} THEN None ELSE @], rest)
PasswordStored(c, rest) ==
  c.kind = "change" /\ Becomes(page, IF c.answer.status = "ok" THEN rest \cup {Asked("changed")} ELSE rest)
PasswordChanged(c, rest) == c.kind = "changed" /\ Becomes(As(c.answer), rest)

Deliver(c) ==
  /\ c \in calls /\ c.answer # None
  /\ LET rest == calls \ {c}
     IN  \/ Bootstrapped(c, rest) \/ KeptAlive(c, rest) \/ HeardStale(c, rest)
         \/ LoggedIn(c, rest) \/ LoggedOut(c, rest)
         \/ PasswordStored(c, rest) \/ PasswordChanged(c, rest)
  /\ Free /\ UNCHANGED <<user, session, changing, plant>>

(* The network fails: the bootstrap shows the login form, a logout logs    *)
(* out all the same, other calls are given up.                             *)
Lose(c) ==
  /\ c \in calls /\ ~(c.kind = "change" /\ changing)
  /\ LET rest == calls \ {c}
     IN  Becomes(CASE c.kind = "bootstrap" -> [page EXCEPT !.ready = TRUE]
                   [] c.kind = "logout" -> [page EXCEPT !.in = FALSE, !.role = "viewer"]
                   [] OTHER -> page, rest)
  /\ Fault /\ UNCHANGED <<user, session, changing, plant>>

-----------------------------------------------------------------------------
(* Calls of the page: the timer and the user.                              *)
Ask(kind, token) ==
  /\ Cardinality(calls) < MaxCalls
  /\ calls' = calls \cup {[Asked(kind) EXCEPT !.token = token]}
  /\ UNCHANGED <<user, session, changing, page, link, shown, plant>>

KeepAlive == page.in /\ Asked("alive") \notin calls /\ Ask("alive", None) /\ Free
Waiting(kinds) == \E c \in calls : c.kind \in kinds
Login == page.ready /\ ~page.in /\ ~Waiting(LoginKinds) /\ Ask("login", None) /\ Step
Logout == page.in /\ ~Waiting({"logout"}) /\ Ask("logout", page.token) /\ Step
ChangePassword == page.in /\ ~Waiting({"change"}) /\ Ask("change", page.token) /\ Step

-----------------------------------------------------------------------------
(* The socket.                                                             *)
SocketOpens ==
  /\ socket.state = "connecting" /\ CurrentUser
  /\ socket' = [state |-> "open", role |-> user.role]
  /\ Free /\ UNCHANGED <<held, closing, down, up, auth, shown, plant>>
SocketRefused ==
  /\ socket.state = "connecting" /\ ~CurrentUser
  /\ socket' = [state |-> "none", role |-> None] /\ held' = FALSE
  /\ Free /\ UNCHANGED <<closing, down, up, auth, shown, plant>>
SocketDropped ==
  /\ socket.state # "none"
  /\ socket' = [state |-> "none", role |-> None] /\ held' = FALSE /\ down' = <<>> /\ up' = <<>>
  /\ Fault /\ UNCHANGED <<closing, auth, shown, plant>>

(* The end of an earlier socket: the handler clears the reference to the   *)
(* present one.                                                            *)
OldSocketEnds ==
  /\ closing > 0 /\ closing' = closing - 1 /\ held' = FALSE
  /\ Free /\ UNCHANGED <<socket, down, up, auth, shown, plant>>

(* Snapshots and changes are broadcast at any time.                        *)
Announce(c) ==
  /\ socket.state = "open" /\ Len(down) < MaxMsgs
  /\ down' = Append(down, [of |-> c, mode |-> plant[c]])
  /\ Free /\ UNCHANGED <<socket, held, closing, up, auth, shown, plant>>

BadMessage ==
  /\ down # <<>> /\ down' = Tail(down)
  /\ tags' = [tags EXCEPT ![Head(down).of] = Head(down).mode]
  /\ switches' = IF Head(down).of = prefixTag /\ Head(down).mode # tags[prefixTag]
               THEN Head(down).mode ELSE switches
  /\ Free /\ UNCHANGED <<socket, held, closing, up, active, loading, prefix, prefixTag, auth, plant>>
Message ==
  /\ down # <<>> /\ down' = Tail(down)
  /\ tags' = [tags EXCEPT ![Head(down).of] = Head(down).mode]
  /\ switches' = IF Head(down).of = prefixTag THEN Head(down).mode ELSE switches
  /\ Free /\ UNCHANGED <<socket, held, closing, up, active, loading, prefix, prefixTag, auth, plant>>

(* A write of the page, for the role its socket was opened with.           *)
Write ==
  /\ up # <<>> /\ up' = Tail(up)
  /\ plant' = IF socket.role = "operator" THEN [plant EXCEPT ![Head(up).of] = Head(up).mode] ELSE plant
  /\ Free /\ UNCHANGED <<socket, held, closing, down, auth, shown>>

(* Somebody else sets the mode, or the engine does.                        *)
SetMode(c, m) ==
  /\ plant[c] # m /\ plant' = [plant EXCEPT ![c] = m]
  /\ Other /\ UNCHANGED <<auth, link, shown>>

-----------------------------------------------------------------------------
(* The page on display.                                                    *)
Select(p) ==
  /\ page.in /\ active # p /\ Load(p)
  /\ Step /\ UNCHANGED <<auth, link, plant>>

(* The model arrives: its prefix becomes the page's, and the switches show *)
(* the last mode heard of it, if any.                                      *)
BadSynced(c) == switches
Synced(c) == IF tags[c] = None THEN switches ELSE tags[c]
Loaded ==
  /\ loading # None /\ loading' = None
  /\ prefix' = loading /\ prefixTag' = loading /\ switches' = Synced(loading)
  /\ Free /\ UNCHANGED <<active, tags, auth, link, plant>>
LoadFails ==
  /\ loading # None /\ loading' = None /\ prefix' = None
  /\ Fault /\ UNCHANGED <<active, prefixTag, tags, switches, auth, link, plant>>

(* A switch is moved: it shows the new mode at once; whether the write     *)
(* leaves depends on the socket.                                           *)
Toggle(m) ==
  /\ page.in /\ loading = None /\ prefix # None /\ page.role = "operator" /\ m # switches
  /\ switches' = m
  /\ IF held /\ socket.state = "open"
     THEN Len(up) < MaxMsgs /\ up' = Append(up, [of |-> prefix, mode |-> m])
     ELSE UNCHANGED up
  /\ Step /\ UNCHANGED <<socket, held, closing, down, active, loading, prefix, prefixTag, tags, auth, plant>>

-----------------------------------------------------------------------------
Init ==
  /\ user \in [role : FirstRoles, version : {0}]
  /\ session = None /\ changing = FALSE
  /\ page = [ready |-> FALSE, in |-> FALSE, role |-> "viewer", token |-> None]
  /\ calls = {Asked("bootstrap")}
  /\ socket = [state |-> "none", role |-> None] /\ held = FALSE /\ closing = 0
  /\ down = <<>> /\ up = <<>>
  /\ active = None /\ loading = None /\ prefix = None /\ prefixTag = None
  /\ tags = [c \in Controllers |-> None] /\ switches = 0
  /\ plant \in FirstModes
  /\ ops = 0 /\ others = 0 /\ faults = 0

Next ==
  \/ \E c \in calls : Serve(c) \/ Deliver(c) \/ Lose(c)
  \/ \E role \in Roles : SetRole(role)
  \/ KeepAlive \/ Login \/ Logout \/ ChangePassword
  \/ SocketOpens \/ SocketRefused \/ SocketDropped \/ OldSocketEnds
  \/ \E c \in Controllers : Announce(c) \/ \E m \in Modes : SetMode(c, m)
  \/ Message \/ Write
  \/ \E p \in Controllers \cup {None} : Select(p)
  \/ Loaded \/ LoadFails
  \/ \E m \in Modes : Toggle(m)

(* The server and the network go on, the keep-alive timer fires, the       *)
(* worker broadcasts every value again and again.                          *)
Fairness ==
  /\ WF_vars(\E c \in calls : Serve(c)) /\ WF_vars(\E c \in calls : Deliver(c))
  /\ WF_vars(KeepAlive) /\ WF_vars(SocketOpens) /\ WF_vars(SocketRefused)
  /\ \A c \in Controllers : SF_vars(Announce(c))
  /\ WF_vars(Message) /\ WF_vars(Write) /\ WF_vars(Loaded)

Spec == Init /\ [][Next]_vars
FairSpec == Spec /\ Fairness

-----------------------------------------------------------------------------
Token == {None} \cup 0..MaxOps
AnswerType == [status : {"ok", "401", "403"}, in : BOOLEAN, role : Told, token : Token]
CallType == [kind : MeKinds \cup LoginKinds \cup {"logout", "change"}, token : Token,
             answer : {None} \cup AnswerType]
MessageType == [of : Controllers, mode : Modes]

AuthTyped ==
  /\ user \in [role : Roles, version : Nat] /\ changing \in BOOLEAN /\ ops \in 0..MaxOps
  /\ session \in {None} \cup [role : Told, version : Nat, token : Token]
  /\ page \in [ready : BOOLEAN, in : BOOLEAN, role : Told, token : Token]
  /\ calls \subseteq CallType
LinkTyped ==
  /\ socket \in [state : {"none", "connecting", "open"}, role : {None} \cup Roles]
  /\ held \in BOOLEAN /\ closing \in Nat
  /\ down \in Seq(MessageType) /\ up \in Seq(MessageType)
  /\ Len(down) <= MaxMsgs /\ Len(up) <= MaxMsgs
ShownTyped ==
  /\ active \in Controllers \cup {None} /\ prefixTag \in Controllers \cup {None}
  /\ loading \in {None, active} /\ prefix \in {None, active}
  /\ tags \in [Controllers -> Modes \cup {None}]
  /\ switches \in Modes /\ plant \in [Controllers -> Modes]
TypeOK == AuthTyped /\ LinkTyped /\ ShownTyped

(* Whatever closed sockets still have to say, a page that is not logged in *)
(* leaves no socket behind, and the reference is never to a dead socket.   *)
NoSocketLeft ==
  /\ ~page.in => socket.state = "none"
  /\ held => socket.state # "none"

(* Nothing but the bootstrap call is made before it has ended, so the page *)
(* does not show itself logged in while it still asks whether it is.       *)
BootstrapFirst ==
  /\ page.in => page.ready
  /\ \A c \in calls : c.kind # "bootstrap" => page.ready

(* The types, the socket that follows the login, and the bootstrap.        *)
SessionInv == TypeOK /\ NoSocketLeft /\ BootstrapFirst

(* Once the mode of the controller on display is known, only the user's    *)
(* own hand makes the switches differ from the last mode heard.            *)
Honest == prefix # None /\ tags[prefix] # None => switches = tags[prefix]
OnlyTogglesDiffer == [][Honest /\ ~Honest' => \E m \in Modes : Toggle(m)]_vars

(* When nobody changes anything any more, a page that takes itself for     *)
(* logged in has a session, the role and the token of that session.        *)
Agrees ==
  page.in => /\ CurrentUser
             /\ page.role = user.role /\ page.token = session.token
SessionConverges == <>[]Agrees

(* While the socket stays open, the switches come to show the mode the     *)
(* controller is in, whatever was sent, refused or lost before.            *)
SwitchesConverge ==
  <>[](socket.state = "open" /\ prefix # None) =>
    <>[](prefix # None => switches = plant[prefix])
=============================================================================
