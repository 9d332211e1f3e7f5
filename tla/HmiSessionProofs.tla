------------------------- MODULE HmiSessionProofs -------------------------
(* For any controllers, roles and bounds, and whatever is lost, late or    *)
(* dropped: the types of HmiSession, and that the page's socket follows    *)
(* its login.                                                              *)
EXTENDS HmiSession, TLAPS

-----------------------------------------------------------------------------
(* The server's answers.                                                   *)
LEMMA AnswerTyped ==
  ASSUME AuthTyped
  PROVE  /\ \A status \in {"ok", "401", "403"} : Says(status) \in AnswerType
         /\ user.role # "disabled" => Reply("ok", TRUE, user.role, ops) \in AnswerType
         /\ Me \in AnswerType
<1>1. \A status \in {"ok", "401", "403"} : Says(status) \in AnswerType
  BY DEF Says, Reply, AnswerType, Told, Roles, Token
<1>2. user.role # "disabled" => Reply("ok", TRUE, user.role, ops) \in AnswerType
  BY DEF AuthTyped, Reply, AnswerType, Told, Token
<1>3. Me \in AnswerType
  <2>1. CASE CurrentUser
    <3>1. session.token \in Token /\ user.role \in Told
      BY <2>1 DEF CurrentUser, AuthTyped, Told
    <3>2. QED
      BY <2>1, <3>1 DEF Me, Reply, AnswerType
  <2>2. CASE ~CurrentUser
    BY <1>1, <2>2 DEF Me
  <2>3. QED
    BY <2>1, <2>2
<1>4. QED
  BY <1>1, <1>2, <1>3

LEMMA RefusalTyped == ASSUME NEW c PROVE Refusal(c) \in AnswerType
BY DEF Refusal, Says, Reply, AnswerType, Told, Roles, Token

LEMMA AnsweredTyped ==
  ASSUME calls \subseteq CallType, NEW c \in calls, NEW a \in AnswerType
  PROVE  /\ Answered(c, a) \subseteq CallType
         /\ \A d \in Answered(c, a) : \E e \in calls : d.kind = e.kind
<1>1. c \in CallType /\ [c EXCEPT !.answer = a] \in CallType /\ [c EXCEPT !.answer = a].kind = c.kind
  BY DEF CallType
<1>2. QED
  BY <1>1 DEF Answered

LEMMA ServeTyped ==
  ASSUME SessionInv, NEW c \in calls, Serve(c)
  PROVE  AuthTyped' /\ UNCHANGED page /\ \A d \in calls' : d.kind # "bootstrap" => \E e \in calls : e.kind # "bootstrap"
<1> USE DEF SessionInv, TypeOK
<1> DEFINE Kept == \A d \in calls' : d.kind # "bootstrap" => \E e \in calls : e.kind # "bootstrap"
<1>1. calls \subseteq CallType /\ ops' = ops
  BY DEF AuthTyped, Serve, Free
<1>2. CASE AnswerMe(c)
  <2>1. calls' \subseteq CallType /\ Kept
    BY <1>1, <1>2, AnswerTyped, AnsweredTyped DEF AnswerMe
  <2>2. QED
    BY <1>1, <1>2, <2>1 DEF AnswerMe, AuthTyped
<1>9. CASE FindUser(c)
  <2>1. PICK d : d = [c EXCEPT !.kind = user.role]
    OBVIOUS
  <2>2. user.role \in Told
    BY <1>9 DEF FindUser, AuthTyped, Told
  <2>3. d \in CallType /\ c.kind = "login"
    BY <1>1, <1>9, <2>1, <2>2 DEF FindUser, CallType, LoginKinds
  <2>4. calls' \subseteq CallType /\ Kept
    BY <1>1, <1>9, <2>1, <2>3 DEF FindUser
  <2>5. QED
    BY <1>1, <1>9, <2>4 DEF FindUser, AuthTyped
<1>3. CASE AnswerLogin(c)
  <2>3. Reply("ok", TRUE, c.kind, ops) \in AnswerType
    BY <1>1, <1>3 DEF AnswerLogin, Reply, AnswerType, AuthTyped, Token
  <2>1. calls' \subseteq CallType /\ Kept
    BY <1>1, <1>3, <2>3, AnsweredTyped DEF AnswerLogin
  <2>2. session' \in [role : Told, version : Nat, token : Token]
    BY <1>3 DEF AnswerLogin, AuthTyped, Told, Token
  <2>4. QED
    BY <1>1, <1>3, <2>1, <2>2 DEF AnswerLogin, AuthTyped
<1>4. CASE RefuseLogin(c)
  <2>1. calls' \subseteq CallType /\ Kept
    BY <1>1, <1>4, AnswerTyped, AnsweredTyped DEF RefuseLogin
  <2>2. QED
    BY <1>1, <1>4, <2>1 DEF RefuseLogin, AuthTyped
<1>5. CASE AnswerLogout(c)
  <2>1. PICK a \in AnswerType : calls' = Answered(c, a)
    BY <1>5, AnswerTyped, RefusalTyped DEF AnswerLogout
  <2>2. calls' \subseteq CallType /\ Kept
    BY <1>1, <2>1, AnsweredTyped
  <2>3. session' \in {None, session}
    BY <1>5 DEF AnswerLogout
  <2>4. QED
    BY <1>1, <1>5, <2>2, <2>3 DEF AnswerLogout, AuthTyped
<1>6. CASE StorePassword(c)
  <2>1. calls' = calls \/ \E a \in AnswerType : calls' = Answered(c, a)
    BY <1>6, RefusalTyped DEF StorePassword
  <2>2. calls' \subseteq CallType /\ Kept
    BY <1>1, <2>1, AnsweredTyped
  <2>3. user' \in [role : Roles, version : Nat] /\ changing' \in BOOLEAN
    <3>1. user' = [user EXCEPT !.version = user.version + 1] \/ user' = user
      BY <1>6 DEF StorePassword
    <3>2. user' \in [role : Roles, version : Nat]
      BY <3>1 DEF AuthTyped
    <3>3. changing' = TRUE \/ changing' = changing
      BY <1>6, Zenon DEF StorePassword
    <3>4. changing' \in BOOLEAN
      BY <3>3, Zenon DEF AuthTyped
    <3>5. QED
      BY <3>2, <3>4
  <2>4. UNCHANGED <<session, page>>
    BY <1>6 DEF StorePassword
  <2>5. AuthTyped'
    BY <1>1, <2>2, <2>3, <2>4 DEF AuthTyped
  <2>6. QED
    BY <2>2, <2>4, <2>5
<1>7. CASE RenewSession(c)
  <2>1. calls' \subseteq CallType /\ Kept
    BY <1>1, <1>7, AnswerTyped, AnsweredTyped DEF RenewSession
  <2>2. session' \in {None} \cup [role : Told, version : Nat, token : Token]
    BY <1>7 DEF RenewSession, AuthTyped
  <2>3. QED
    BY <1>1, <1>7, <2>1, <2>2 DEF RenewSession, AuthTyped
<1>8. QED
  BY <1>2, <1>3, <1>4, <1>5, <1>6, <1>7, <1>9 DEF Serve

-----------------------------------------------------------------------------
(* The page learns something: whatever it is, the socket follows.          *)
PageType == [ready : BOOLEAN, in : BOOLEAN, role : Told, token : Token]
Early(cs, p) == \A c \in cs : c.kind # "bootstrap" => p.ready

LEMMA AskedTyped ==
  ASSUME NEW kind \in MeKinds \cup {"login", "logout", "change"}, NEW token \in Token
  PROVE  /\ Asked(kind) \in CallType /\ Asked(kind).kind = kind
         /\ [Asked(kind) EXCEPT !.token = token] \in CallType
         /\ [Asked(kind) EXCEPT !.token = token].kind = kind
BY DEF Asked, CallType, LoginKinds, Token

LEMMA CancelledTyped ==
  ASSUME NEW cs \in SUBSET CallType
  PROVE  /\ Cancelled(cs) \subseteq CallType
         /\ \A p : Early(cs, p) => Early(Cancelled(cs), p)
<1>1. ASSUME NEW c \in CallType
      PROVE  [c EXCEPT !.kind = "stale"] \in CallType /\ [c EXCEPT !.kind = "stale"].kind = "stale"
  BY DEF CallType, MeKinds
<1>2. Cancelled(cs) \subseteq CallType
  BY <1>1 DEF Cancelled
<1>3. ASSUME NEW p, Early(cs, p), NEW d \in Cancelled(cs), d.kind # "bootstrap" PROVE p.ready
  <2>1. CASE d \in cs
    BY <1>3, <2>1 DEF Early
  <2>2. CASE d \notin cs
    <3>1. PICK c \in cs : c.kind = "alive"
      BY <1>3, <2>2 DEF Cancelled
    <3>2. QED
      BY <1>3, <3>1 DEF Early
  <2>3. QED
    BY <2>1, <2>2
<1>4. QED
  BY <1>2, <1>3 DEF Early

LEMMA LearnedKeeps ==
  ASSUME SessionInv, NEW p \in PageType, NEW cs \in SUBSET CallType, Becomes(p, cs),
         Early(cs, p), p.in => p.ready, ops' \in 0..MaxOps,
         UNCHANGED <<user, session, changing, plant>>
  PROVE  SessionInv'
<1> USE DEF SessionInv, TypeOK
<1>1. page' = p
  BY DEF Becomes
<1>2. CASE p.in /\ ~page.in
  <2>1. calls' = cs \cup {Asked("alive")} /\ OpenSocket /\ Load(active)
    BY <1>2 DEF Becomes
  <2>2. Asked("alive") \in CallType /\ Asked("alive").kind = "alive"
    BY AskedTyped DEF MeKinds, Token
  <2>3. AuthTyped'
    BY <1>1, <2>1, <2>2 DEF AuthTyped, PageType
  <2>4. ~held
    BY <1>2 DEF NoSocketLeft
  <2>5. /\ socket' = [state |-> "connecting", role |-> None] /\ held' = TRUE
        /\ down' = <<>> /\ up' = <<>> /\ closing' = closing
    BY <2>1, <2>4 DEF OpenSocket
  <2>6. LinkTyped'
    BY <2>5, SessionAssumption DEF LinkTyped
  <2>7. ShownTyped'
    BY <2>1 DEF ShownTyped, Load
  <2>8. NoSocketLeft'
    BY <1>1, <1>2, <2>5 DEF NoSocketLeft
  <2>9. BootstrapFirst'
    BY <1>1, <1>2, <2>1, <2>2 DEF BootstrapFirst, Early
  <2>10. QED
    BY <2>3, <2>6, <2>7, <2>8, <2>9
<1>3. CASE page.in /\ ~p.in
  <2>1. /\ calls' = Cancelled(cs) /\ CloseSocket /\ loading' = None
        /\ UNCHANGED <<active, prefix, prefixTag, tags, switches>>
    BY <1>3 DEF Becomes
  <2>2. calls' \subseteq CallType /\ Early(calls', p)
    BY <2>1, CancelledTyped
  <2>3. AuthTyped'
    BY <1>1, <2>2 DEF AuthTyped, PageType
  <2>4. /\ socket' = [socket EXCEPT !.state = "none"] /\ held' = FALSE
        /\ down' = <<>> /\ up' = up /\ closing' \in {closing, closing + 1}
    BY <2>1 DEF CloseSocket
  <2>5. LinkTyped'
    <3>1. socket' \in [state : {"none", "connecting", "open"}, role : {None} \cup Roles]
      BY <2>4 DEF LinkTyped
    <3>2. closing' \in Nat
      BY <2>4 DEF LinkTyped
    <3>3. down' \in Seq(MessageType) /\ Len(down') <= MaxMsgs
      BY <2>4, SessionAssumption
    <3>4. up' \in Seq(MessageType) /\ Len(up') <= MaxMsgs
      BY <2>4 DEF LinkTyped
    <3>5. QED
      BY <2>4, <3>1, <3>2, <3>3, <3>4 DEF LinkTyped
  <2>6. ShownTyped'
    BY <2>1 DEF ShownTyped
  <2>7. NoSocketLeft'
    BY <2>4 DEF NoSocketLeft, LinkTyped
  <2>8. BootstrapFirst'
    BY <1>1, <1>3, <2>2 DEF BootstrapFirst, Early
  <2>9. QED
    BY <2>3, <2>5, <2>6, <2>7, <2>8
<1>4. CASE ~(p.in /\ ~page.in) /\ ~(page.in /\ ~p.in)
  <2>1. calls' = cs /\ UNCHANGED <<socket, held, closing, down, up>>
        /\ UNCHANGED <<active, loading, prefix, prefixTag, tags, switches>>
    BY <1>4 DEF Becomes, link, shown
  <2>2. AuthTyped'
    BY <1>1, <2>1 DEF AuthTyped, PageType
  <2>3. LinkTyped' /\ ShownTyped'
    BY <2>1 DEF LinkTyped, ShownTyped
  <2>4. NoSocketLeft'
    BY <1>1, <1>4, <2>1 DEF NoSocketLeft
  <2>5. BootstrapFirst'
    BY <1>1, <2>1 DEF BootstrapFirst, Early
  <2>6. QED
    BY <2>2, <2>3, <2>4, <2>5
<1>5. QED
  BY <1>2, <1>3, <1>4

LEMMA AsTyped ==
  ASSUME page \in PageType, NEW a \in AnswerType
  PROVE  As(a) \in PageType /\ As(a).ready = page.ready /\ As(a).in = a.in
BY DEF As, PageType, AnswerType

LEMMA DeliverKeeps == ASSUME SessionInv, NEW c \in calls, Deliver(c) PROVE SessionInv'
<1> DEFINE rest == calls \ {c}
<1>1. /\ page \in PageType /\ c \in CallType /\ c.answer \in AnswerType
      /\ rest \in SUBSET CallType /\ ops' \in 0..MaxOps
      /\ UNCHANGED <<user, session, changing, plant>>
  BY DEF SessionInv, TypeOK, AuthTyped, PageType, CallType, Deliver, Free
<1>2. c.kind # "bootstrap" => page.ready
  BY DEF SessionInv, BootstrapFirst
<1>3. Early(rest, page) /\ (page.in => page.ready)
  BY DEF SessionInv, BootstrapFirst, Early
<1>4. As(c.answer) \in PageType /\ As(c.answer).ready = page.ready
  BY <1>1, AsTyped
<1>5. SUFFICES ASSUME NEW p, NEW cs,
                      p \in PageType, cs \in SUBSET CallType, Becomes(p, cs),
                      Early(cs, p), p.in => p.ready
               PROVE  SessionInv'
  <2>1. ASSUME NEW p \in PageType, Becomes(p, rest), p.ready PROVE SessionInv'
    BY <1>1, <1>5, <2>1 DEF Early
  <2>2. ASSUME NEW p \in PageType, Becomes(p, rest), p.ready = page.ready, ~p.in \/ p.in = page.in
        PROVE  SessionInv'
    BY <1>1, <1>3, <1>5, <2>2 DEF Early
  <2>3. CASE Bootstrapped(c, rest)
    <3>1. [As(c.answer) EXCEPT !.ready = TRUE] \in PageType
          /\ [As(c.answer) EXCEPT !.ready = TRUE].ready
      BY <1>4 DEF PageType
    <3>2. QED
      BY <2>1, <2>3, <3>1 DEF Bootstrapped
  <2>4. CASE KeptAlive(c, rest)
    BY <1>2, <1>4, <2>1, <2>4 DEF KeptAlive
  <2>5. CASE HeardStale(c, rest)
    <3>1. [page EXCEPT !.token = c.answer.token] \in PageType
          /\ [page EXCEPT !.token = c.answer.token].ready = page.ready
      BY <1>1 DEF PageType, AnswerType
    <3>2. QED
      BY <1>2, <2>1, <2>5, <3>1 DEF HeardStale
  <2>6. CASE LoggedIn(c, rest)
    BY <1>1, <1>2, <1>4, <2>1, <2>6 DEF LoggedIn, LoginKinds, Told, Roles
  <2>7. CASE LoggedOut(c, rest)
    <3>1. PICK t \in Token : Becomes([page EXCEPT !.in = FALSE, !.role = "viewer", !.token = t], rest)
      BY <1>1, <2>7 DEF LoggedOut, PageType, Token
    <3>2. LET p == [page EXCEPT !.in = FALSE, !.role = "viewer", !.token = t]
          IN  p \in PageType /\ p.ready = page.ready
      BY <1>1 DEF PageType, Told, Roles
    <3>3. QED
      BY <1>2, <2>1, <2>7, <3>1, <3>2 DEF LoggedOut
  <2>8. CASE PasswordStored(c, rest)
    <3>1. Asked("changed") \in CallType
      BY AskedTyped DEF MeKinds, Token
    <3>2. page.ready
      BY <1>2, <2>8 DEF PasswordStored
    <3>3. PICK cs \in SUBSET CallType : Becomes(page, cs)
      BY <1>1, <2>8, <3>1 DEF PasswordStored
    <3>4. QED
      BY <1>1, <1>5, <3>2, <3>3 DEF Early
  <2>9. CASE PasswordChanged(c, rest)
    BY <1>2, <1>4, <2>1, <2>9 DEF PasswordChanged
  <2>10. QED
    BY <2>3, <2>4, <2>5, <2>6, <2>7, <2>8, <2>9 DEF Deliver
<1>6. QED
  BY <1>1, <1>5, LearnedKeeps

LEMMA LoseKeeps == ASSUME SessionInv, NEW c \in calls, Lose(c) PROVE SessionInv'
<1> DEFINE rest == calls \ {c}
<1> DEFINE shut == [page EXCEPT !.in = FALSE, !.role = "viewer"]
<1> DEFINE ready == [page EXCEPT !.ready = TRUE]
<1>1. /\ page \in PageType /\ rest \in SUBSET CallType /\ ops' \in 0..MaxOps
      /\ UNCHANGED <<user, session, changing, plant>>
  BY DEF SessionInv, TypeOK, AuthTyped, PageType, Lose, Fault
<1>2. Early(rest, page) /\ (page.in => page.ready)
  BY DEF SessionInv, BootstrapFirst, Early
<1>3. ready \in PageType /\ ready.ready
  BY <1>1 DEF PageType
<1>4. shut \in PageType /\ shut.ready = page.ready /\ ~shut.in
  BY <1>1 DEF PageType, Told, Roles
<1>5. PICK p \in {page, ready, shut} : Becomes(p, rest)
  BY DEF Lose
<1>6. p \in PageType /\ Early(rest, p) /\ (p.in => p.ready)
  BY <1>1, <1>2, <1>3, <1>4, <1>5 DEF Early
<1>7. QED
  BY <1>1, <1>5, <1>6, LearnedKeeps
-----------------------------------------------------------------------------
(* Steps that change neither what the page knows of its login nor, but for *)
(* a new call of a page that is ready, the calls.                          *)
Quiet ==
  /\ page' = page
  /\ \A d \in calls' : (d.kind # "bootstrap" => \E e \in calls : e.kind # "bootstrap") \/ page.ready

LEMMA QuietKeeps ==
  ASSUME SessionInv, Quiet, AuthTyped', LinkTyped', ShownTyped', NoSocketLeft'
  PROVE  SessionInv'
<1>1. BootstrapFirst'
  <2>1. page'.in => page'.ready
    BY DEF Quiet, SessionInv, BootstrapFirst
  <2>2. ASSUME NEW d \in calls', d.kind # "bootstrap" PROVE page'.ready
    BY <2>2 DEF Quiet, SessionInv, BootstrapFirst
  <2>3. QED
    BY <2>1, <2>2 DEF BootstrapFirst
<1>2. QED
  BY <1>1 DEF SessionInv, TypeOK

LEMMA AuthKept == ASSUME SessionInv, UNCHANGED auth, ops' \in 0..MaxOps PROVE AuthTyped' /\ Quiet
BY DEF SessionInv, TypeOK, AuthTyped, auth, Quiet

LEMMA LinkKept == ASSUME SessionInv, UNCHANGED <<link, page>> PROVE LinkTyped' /\ NoSocketLeft'
BY DEF SessionInv, TypeOK, LinkTyped, NoSocketLeft, link

LEMMA ShownKept == ASSUME SessionInv, UNCHANGED <<shown, plant>> PROVE ShownTyped'
BY DEF SessionInv, TypeOK, ShownTyped, shown

LEMMA ServeKeeps == ASSUME SessionInv, NEW c \in calls, Serve(c) PROVE SessionInv'
<1>1. AuthTyped' /\ Quiet
  BY ServeTyped DEF Quiet
<1>2. QED
  BY <1>1, LinkKept, ShownKept, QuietKeeps DEF Serve, Quiet

LEMMA SetRoleKeeps == ASSUME SessionInv, NEW role \in Roles, SetRole(role) PROVE SessionInv'
<1>1. AuthTyped' /\ Quiet
  BY DEF SetRole, Other, Quiet, SessionInv, TypeOK, AuthTyped
<1>2. QED
  BY <1>1, LinkKept, ShownKept, QuietKeeps DEF SetRole

LEMMA AskKeeps ==
  ASSUME SessionInv, page.ready, NEW kind \in MeKinds \cup {"login", "logout", "change"},
         NEW token \in Token, Ask(kind, token), ops' \in 0..MaxOps
  PROVE  SessionInv'
<1>1. calls' \subseteq CallType
  BY AskedTyped DEF Ask, SessionInv, TypeOK, AuthTyped
<1>2. AuthTyped' /\ Quiet
  BY <1>1 DEF Ask, Quiet, SessionInv, TypeOK, AuthTyped
<1>3. QED
  BY <1>2, LinkKept, ShownKept, QuietKeeps DEF Ask

LEMMA AsksKeep ==
  ASSUME SessionInv, KeepAlive \/ Login \/ Logout \/ ChangePassword PROVE SessionInv'
<1>1. page.ready /\ page.token \in Token /\ None \in Token /\ ops' \in 0..MaxOps
  BY SessionAssumption
     DEF KeepAlive, Login, Logout, ChangePassword, Free, Step, SessionInv, TypeOK, AuthTyped,
         BootstrapFirst, Token
<1>2. \E kind \in MeKinds \cup {"login", "logout", "change"}, token \in Token : Ask(kind, token)
  BY <1>1 DEF KeepAlive, Login, Logout, ChangePassword, MeKinds
<1>3. QED
  BY <1>1, <1>2, AskKeeps

-----------------------------------------------------------------------------
(* The socket.                                                             *)
LEMMA SocketKeeps ==
  ASSUME SessionInv, SocketOpens \/ SocketRefused \/ SocketDropped \/ OldSocketEnds
  PROVE  SessionInv'
<1> USE DEF SessionInv, TypeOK
<1>1. UNCHANGED auth /\ ops' \in 0..MaxOps /\ UNCHANGED <<shown, plant>>
  BY DEF SocketOpens, SocketRefused, SocketDropped, OldSocketEnds, Free, Fault, AuthTyped
<1>2. page' = page
  BY <1>1 DEF auth
<1>3. CASE SocketOpens
  <2>1. socket' \in [state : {"none", "connecting", "open"}, role : {None} \cup Roles]
    BY <1>3 DEF SocketOpens, AuthTyped
  <2>2. LinkTyped'
    BY <1>3, <2>1 DEF SocketOpens, LinkTyped
  <2>3. NoSocketLeft'
    BY <1>2, <1>3 DEF SocketOpens, NoSocketLeft
  <2>4. QED
    BY <1>1, <2>2, <2>3, AuthKept, ShownKept, QuietKeeps
<1>4. CASE SocketRefused
  <2>1. LinkTyped'
    BY <1>4 DEF SocketRefused, LinkTyped
  <2>2. NoSocketLeft'
    BY <1>4 DEF SocketRefused, NoSocketLeft
  <2>3. QED
    BY <1>1, <2>1, <2>2, AuthKept, ShownKept, QuietKeeps
<1>5. CASE SocketDropped
  <2>1. LinkTyped'
    <3>1. /\ socket' = [state |-> "none", role |-> None] /\ held' = FALSE
          /\ down' = <<>> /\ up' = <<>> /\ closing' = closing
      BY <1>5 DEF SocketDropped
    <3>2. socket' \in [state : {"none", "connecting", "open"}, role : {None} \cup Roles]
      BY <3>1
    <3>3. down' \in Seq(MessageType) /\ Len(down') <= MaxMsgs
      BY <3>1, SessionAssumption
    <3>4. up' \in Seq(MessageType) /\ Len(up') <= MaxMsgs
      BY <3>1, SessionAssumption
    <3>5. QED
      BY <3>1, <3>2, <3>3, <3>4 DEF LinkTyped
  <2>2. NoSocketLeft'
    BY <1>5 DEF SocketDropped, NoSocketLeft
  <2>3. QED
    BY <1>1, <2>1, <2>2, AuthKept, ShownKept, QuietKeeps
<1>6. CASE OldSocketEnds
  <2>1. closing' \in Nat /\ held' = FALSE /\ UNCHANGED <<socket, down, up>>
    BY <1>6 DEF OldSocketEnds, LinkTyped
  <2>2. LinkTyped'
    BY <2>1 DEF LinkTyped
  <2>3. NoSocketLeft'
    BY <1>2, <2>1 DEF NoSocketLeft
  <2>4. QED
    BY <1>1, <2>2, <2>3, AuthKept, ShownKept, QuietKeeps
<1>7. QED
  BY <1>3, <1>4, <1>5, <1>6

(* A step of an open socket's messages keeps the socket itself.            *)
LEMMA MessagesKeep ==
  ASSUME SessionInv, UNCHANGED <<socket, held, closing>>, UNCHANGED auth, ops' \in 0..MaxOps,
         down' \in Seq(MessageType), Len(down') <= MaxMsgs,
         up' \in Seq(MessageType), Len(up') <= MaxMsgs, ShownTyped'
  PROVE  SessionInv'
<1>1. LinkTyped'
  BY DEF SessionInv, TypeOK, LinkTyped
<1>2. NoSocketLeft'
  BY DEF SessionInv, NoSocketLeft, auth
<1>3. QED
  BY <1>1, <1>2, AuthKept, QuietKeeps

LEMMA AnnounceKeeps == ASSUME SessionInv, NEW c \in Controllers, Announce(c) PROVE SessionInv'
<1> USE DEF SessionInv, TypeOK
<1>1. [of |-> c, mode |-> plant[c]] \in MessageType
  BY DEF ShownTyped, MessageType
<1>2. down' \in Seq(MessageType) /\ Len(down') <= MaxMsgs
  BY <1>1, SessionAssumption DEF Announce, LinkTyped
<1>3. UNCHANGED <<socket, held, closing, up>> /\ UNCHANGED auth /\ UNCHANGED <<shown, plant>>
      /\ ops' \in 0..MaxOps
  BY DEF Announce, Free, AuthTyped
<1>4. QED
  BY <1>2, <1>3, ShownKept, MessagesKeep DEF LinkTyped

LEMMA MessageKeeps == ASSUME SessionInv, Message PROVE SessionInv'
<1> USE DEF SessionInv, TypeOK
<1>1. Head(down) \in MessageType /\ down' \in Seq(MessageType) /\ Len(down') <= MaxMsgs
  BY SessionAssumption DEF Message, LinkTyped
<1>2. Head(down).of \in Controllers /\ Head(down).mode \in Modes
  BY <1>1 DEF MessageType
<1>3. tags' \in [Controllers -> Modes \cup {None}] /\ switches' \in Modes
  BY <1>2 DEF Message, ShownTyped
<1>4. ShownTyped'
  BY <1>3 DEF Message, ShownTyped
<1>5. UNCHANGED <<socket, held, closing, up>> /\ UNCHANGED auth /\ ops' \in 0..MaxOps
  BY DEF Message, Free, AuthTyped
<1>6. QED
  BY <1>1, <1>4, <1>5, MessagesKeep DEF LinkTyped

LEMMA WriteKeeps == ASSUME SessionInv, Write PROVE SessionInv'
<1> USE DEF SessionInv, TypeOK
<1>1. Head(up) \in MessageType /\ up' \in Seq(MessageType) /\ Len(up') <= MaxMsgs
  BY SessionAssumption DEF Write, LinkTyped
<1>2. plant' \in [Controllers -> Modes]
  BY <1>1 DEF Write, ShownTyped, MessageType
<1>3. ShownTyped'
  BY <1>2 DEF Write, ShownTyped, shown
<1>4. UNCHANGED <<socket, held, closing, down>> /\ UNCHANGED auth /\ ops' \in 0..MaxOps
  BY DEF Write, Free, AuthTyped
<1>5. QED
  BY <1>1, <1>3, <1>4, MessagesKeep DEF LinkTyped

-----------------------------------------------------------------------------
(* The controller on display.                                              *)
LEMMA SetModeKeeps ==
  ASSUME SessionInv, NEW c \in Controllers, NEW m \in Modes, SetMode(c, m) PROVE SessionInv'
<1>1. ShownTyped' /\ UNCHANGED auth /\ UNCHANGED <<link, page>> /\ ops' \in 0..MaxOps
  BY DEF SetMode, Other, SessionInv, TypeOK, AuthTyped, ShownTyped, auth, shown
<1>2. QED
  BY <1>1, AuthKept, LinkKept, QuietKeeps

LEMMA DisplayKeeps ==
  ASSUME SessionInv, Loaded \/ LoadFails \/ \E p \in Controllers \cup {None} : Select(p)
  PROVE  SessionInv'
<1> USE DEF SessionInv, TypeOK
<1>1. UNCHANGED auth /\ UNCHANGED <<link, page>> /\ ops' \in 0..MaxOps
  BY SessionAssumption DEF Loaded, LoadFails, Select, Free, Fault, Step, AuthTyped, auth
<1>2. CASE Loaded
  <2>1. loading \in Controllers
    BY <1>2 DEF Loaded, ShownTyped
  <2>2. switches' \in Modes
    BY <1>2, <2>1 DEF Loaded, Synced, ShownTyped
  <2>3. ShownTyped'
    BY <1>2, <2>1, <2>2 DEF Loaded, ShownTyped
  <2>4. QED
    BY <1>1, <2>3, AuthKept, LinkKept, QuietKeeps
<1>3. CASE LoadFails
  <2>1. ShownTyped'
    BY <1>3 DEF LoadFails, ShownTyped
  <2>2. QED
    BY <1>1, <2>1, AuthKept, LinkKept, QuietKeeps
<1>4. ASSUME NEW p \in Controllers \cup {None}, Select(p) PROVE SessionInv'
  <2>1. ShownTyped'
    BY <1>4 DEF Select, Load, ShownTyped
  <2>2. QED
    BY <1>1, <2>1, AuthKept, LinkKept, QuietKeeps
<1>5. QED
  BY <1>2, <1>3, <1>4

LEMMA ToggleKeeps == ASSUME SessionInv, NEW m \in Modes, Toggle(m) PROVE SessionInv'
<1> USE DEF SessionInv, TypeOK
<1>1. prefix \in Controllers
  BY DEF Toggle, ShownTyped
<1>2. [of |-> prefix, mode |-> m] \in MessageType
  BY <1>1 DEF MessageType
<1>3. up' \in Seq(MessageType) /\ Len(up') <= MaxMsgs
  <2>1. CASE up' = up
    BY <2>1 DEF LinkTyped
  <2>2. CASE Len(up) < MaxMsgs /\ up' = Append(up, [of |-> prefix, mode |-> m])
    BY <1>2, <2>2, SessionAssumption DEF LinkTyped
  <2>3. QED
    BY <2>1, <2>2 DEF Toggle
<1>4. ShownTyped'
  BY DEF Toggle, ShownTyped
<1>5. UNCHANGED <<socket, held, closing, down>> /\ UNCHANGED auth /\ ops' \in 0..MaxOps
  BY SessionAssumption DEF Toggle, Step, AuthTyped
<1>6. QED
  BY <1>3, <1>4, <1>5, MessagesKeep DEF LinkTyped

-----------------------------------------------------------------------------
LEMMA SessionStep == SessionInv /\ [Next]_vars => SessionInv'
<1> SUFFICES ASSUME SessionInv, [Next]_vars PROVE SessionInv'
  OBVIOUS
<1>1. CASE UNCHANGED vars
  <2>1. UNCHANGED auth /\ UNCHANGED <<link, page>> /\ UNCHANGED <<shown, plant>> /\ ops' = ops
    BY <1>1 DEF vars, auth
  <2>2. ops' \in 0..MaxOps
    BY <2>1 DEF SessionInv, TypeOK, AuthTyped
  <2>3. QED
    BY <2>1, <2>2, AuthKept, LinkKept, ShownKept, QuietKeeps
<1>2. CASE Next
  BY <1>2, ServeKeeps, DeliverKeeps, LoseKeeps, SetRoleKeeps, AsksKeep, SocketKeeps, AnnounceKeeps,
     SetModeKeeps, MessageKeeps, WriteKeeps, DisplayKeeps, ToggleKeeps DEF Next
<1>3. QED
  BY <1>1, <1>2

(* Whatever answers come late or not at all, and whatever closed sockets   *)
(* still have to say, a page that is not logged in leaves no socket behind *)
(* (App.tsx, effects on authentication), never refers to a dead one, and   *)
(* shows nothing of a login before its first call has ended.               *)
THEOREM SocketFollowsLogin == Spec => []SessionInv
<1>1. Init => SessionInv
  <2> SUFFICES ASSUME Init PROVE SessionInv
    OBVIOUS
  <2> USE DEF Init
  <2>1. Asked("bootstrap") \in CallType /\ Asked("bootstrap").kind = "bootstrap"
    BY AskedTyped DEF MeKinds, Token
  <2>2. user \in [role : Roles, version : Nat] /\ ops \in 0..MaxOps
    <3>1. user \in [role : FirstRoles, version : {0}] /\ FirstRoles \subseteq Roles /\ ops = 0
      BY SessionAssumption DEF Roles
    <3>2. user \in [role : Roles, version : Nat]
      BY <3>1
    <3>3. ops \in 0..MaxOps
      BY <3>1, SessionAssumption
    <3>4. QED
      BY <3>2, <3>3
  <2>3. AuthTyped
    BY <2>1, <2>2 DEF AuthTyped, Told, Roles, Token
  <2>4. LinkTyped
    <3>1. socket \in [state : {"none", "connecting", "open"}, role : {None} \cup Roles]
      OBVIOUS
    <3>2. held \in BOOLEAN /\ closing \in Nat
      OBVIOUS
    <3>3. /\ down \in Seq(MessageType) /\ up \in Seq(MessageType)
          /\ Len(down) <= MaxMsgs /\ Len(up) <= MaxMsgs
      BY SessionAssumption
    <3>4. QED
      BY <3>1, <3>2, <3>3 DEF LinkTyped
  <2>5. ShownTyped
    BY SessionAssumption DEF ShownTyped, Modes
  <2>6. NoSocketLeft /\ BootstrapFirst
    BY <2>1 DEF NoSocketLeft, BootstrapFirst
  <2>7. QED
    BY <2>3, <2>4, <2>5, <2>6 DEF SessionInv, TypeOK
<1>2. QED
  BY <1>1, SessionStep, PTL DEF Spec

-----------------------------------------------------------------------------
(* The socket's handler reads the prefix from a tag of its own, which may  *)
(* lag behind only while no model is on display.                           *)
TagFollows == prefix # None => prefixTag = prefix

(* All a step but a switch of the user's can do to what is displayed.      *)
Displays ==
  \/ UNCHANGED <<prefix, prefixTag, tags, switches>>
  \/ prefix' = None
  \/ loading # None /\ prefix' = loading /\ prefixTag' = loading /\ tags' = tags
     /\ switches' = Synced(loading)
  \/ Message

LEMMA LearnedDisplays == ASSUME NEW p, NEW cs, Becomes(p, cs) PROVE Displays
BY DEF Becomes, Load, shown, Displays

LEMMA StepDisplays ==
  ASSUME Next PROVE Displays \/ \E m \in Modes : Toggle(m)
<1>1. ASSUME NEW c \in calls, Serve(c) \/ Deliver(c) \/ Lose(c) PROVE Displays
  <2>1. CASE Serve(c)
    BY <2>1 DEF Serve, shown, Displays
  <2>2. CASE Deliver(c)
    <3>1. \E p, cs : Becomes(p, cs)
      BY <2>2 DEF Deliver, Bootstrapped, KeptAlive, HeardStale, LoggedIn, LoggedOut,
                  PasswordStored, PasswordChanged
    <3>2. QED
      BY <3>1, LearnedDisplays
  <2>3. CASE Lose(c)
    BY <2>3, LearnedDisplays DEF Lose
  <2>4. QED
    BY <1>1, <2>1, <2>2, <2>3
<1>2. ASSUME NEW role \in Roles, SetRole(role) PROVE Displays
  BY <1>2 DEF SetRole, shown, Displays
<1>3. CASE KeepAlive \/ Login \/ Logout \/ ChangePassword
  BY <1>3 DEF KeepAlive, Login, Logout, ChangePassword, Ask, shown, Displays
<1>4. CASE SocketOpens \/ SocketRefused \/ SocketDropped \/ OldSocketEnds
  BY <1>4 DEF SocketOpens, SocketRefused, SocketDropped, OldSocketEnds, shown, Displays
<1>5. ASSUME NEW c \in Controllers, NEW m \in Modes, Announce(c) \/ SetMode(c, m) PROVE Displays
  BY <1>5 DEF Announce, SetMode, shown, Displays
<1>6. ASSUME NEW c \in Controllers, Announce(c) PROVE Displays
  BY <1>6 DEF Announce, shown, Displays
<1>7. CASE Message \/ Write
  BY <1>7 DEF Write, shown, Displays
<1>8. ASSUME NEW p \in Controllers \cup {None}, Select(p) PROVE Displays
  BY <1>8 DEF Select, Load, Displays
<1>9. CASE Loaded \/ LoadFails
  BY <1>9 DEF Loaded, LoadFails, Displays
<1>10. QED
  BY <1>1, <1>2, <1>3, <1>4, <1>5, <1>6, <1>7, <1>8, <1>9 DEF Next

LEMMA MessageHonest ==
  ASSUME SessionInv, TagFollows, Honest, Message PROVE Honest' /\ TagFollows'
<1>1. /\ UNCHANGED <<prefix, prefixTag>>
      /\ tags' = [tags EXCEPT ![Head(down).of] = Head(down).mode]
      /\ switches' = IF Head(down).of = prefixTag THEN Head(down).mode ELSE switches
  BY DEF Message
<1>2. DOMAIN tags = Controllers
  BY DEF SessionInv, TypeOK, ShownTyped
<1>3. prefix # None => prefix \in Controllers
  BY DEF SessionInv, TypeOK, ShownTyped
<1>4. QED
  BY <1>1, <1>2, <1>3 DEF Honest, TagFollows

(* The two switches differ from the last mode heard of the controller on   *)
(* display only by the hand of the user: however messages, model changes,  *)
(* logouts and lost calls interleave, no other step makes them differ      *)
(* (App.tsx, the effect that takes the mode over and socket.onmessage).    *)
THEOREM SwitchesHonest == Spec => OnlyTogglesDiffer
<1>1. Init => TagFollows
  BY DEF Init, TagFollows
<1>2. SessionInv /\ TagFollows /\ [Next]_vars => TagFollows'
  <2> SUFFICES ASSUME TagFollows, [Next]_vars PROVE TagFollows'
    OBVIOUS
  <2>1. CASE UNCHANGED vars
    BY <2>1 DEF vars, shown, TagFollows
  <2>2. CASE Displays
    BY <2>2 DEF Displays, TagFollows, Message
  <2>3. ASSUME NEW m \in Modes, Toggle(m) PROVE TagFollows'
    BY <2>3 DEF Toggle, TagFollows
  <2>4. QED
    BY <2>1, <2>2, <2>3, StepDisplays
<1>3. SessionInv /\ TagFollows /\ [Next]_vars
        => [Honest /\ ~Honest' => \E m \in Modes : Toggle(m)]_vars
  <2> SUFFICES ASSUME SessionInv, TagFollows, Next, Honest, ~Honest'
               PROVE  \E m \in Modes : Toggle(m)
    BY DEF Honest
  <2>1. ASSUME Displays PROVE FALSE
    <3>1. CASE UNCHANGED <<prefix, prefixTag, tags, switches>>
      BY <3>1 DEF Honest
    <3>2. CASE prefix' = None
      BY <3>2 DEF Honest
    <3>3. CASE loading # None /\ prefix' = loading /\ prefixTag' = loading /\ tags' = tags
               /\ switches' = Synced(loading)
      BY <3>3 DEF Honest, Synced
    <3>4. CASE Message
      BY <3>4, MessageHonest
    <3>5. QED
      BY <2>1, <3>1, <3>2, <3>3, <3>4 DEF Displays
  <2>2. QED
    BY <2>1, StepDisplays
<1>4. QED
  BY <1>1, <1>2, <1>3, SocketFollowsLogin, PTL DEF Spec, OnlyTogglesDiffer
=============================================================================
