---------------------------- MODULE TrendsView ----------------------------
(***************************************************************************)
(* The trends tab of the front end (components/TrendsTab.tsx).  It shows a *)
(* window of time over the series the user chose, out of a buffer that     *)
(* holds the last answer of the historian and reaches a little further     *)
(* than the window.  An effect asks again whenever a render leaves the     *)
(* window outside the buffer; in live mode a timer asks every 30 seconds.  *)
(* Several requests may be in flight, their answers come in any order, and *)
(* each one that succeeds replaces the buffer.                             *)
(*                                                                         *)
(* Time is counted in units longer than the timer's interval.  A series is *)
(* its base (the tag) and its field.  Of the rows of an answer only their  *)
(* interval, their bases and the sampling are kept; of the flags, those    *)
(* that decide on a request: loading, which greys out Refresh, is not.     *)
(***************************************************************************)
EXTENDS Integers, Sequences

CONSTANTS
  Series,      \* the series of all controllers
  Defaults,    \* those chosen when nothing is saved
  TagLists,    \* the series of each controller; {} when its model failed to load
  Presets,     \* series chosen by the buttons for a preset or for a kind
  Filters,     \* series the filters of the table let through
  Base,        \* the tag a series belongs to
  Ranges,      \* lengths of the window on offer
  Preload,     \* how much further than the window a request reaches
  None,        \* no buffer
  Start,       \* the time at which the front end starts, far from zero
  CustomTimes, \* bounds of custom windows the user may enter
  MaxTime,     \* bound: the clock and the ends of windows
  MaxRequests, \* bound: requests in flight
  MaxOps,      \* bound: operations of the user
  MaxFailures  \* bound: answers that are not data

Limits == {"none", "fitted", "typed"}
Samplings == {"all", "best_fit"}
BufferType == [from : Int, to : Int, bases : SUBSET {Base[k] : k \in Series}, sampling : Samplings]

ASSUME TrendsAssumption ==
  /\ Defaults \subseteq Series /\ TagLists \subseteq SUBSET Series
  /\ Presets \subseteq SUBSET Series /\ Filters \subseteq SUBSET Series
  /\ Ranges \subseteq Nat \ {0} /\ Ranges # {} /\ Preload \in [Ranges -> Nat]
  /\ DOMAIN Base = Series /\ None \notin BufferType
  /\ Start \in Nat /\ MaxTime \in Nat /\ Start <= MaxTime
  /\ \A r \in Ranges : r + MaxOps <= Start
  /\ CustomTimes \subseteq MaxOps..MaxTime
  /\ MaxRequests \in Nat /\ MaxOps \in Nat /\ MaxFailures \in Nat

VARIABLES
  now,        \* Date.now()
  open,       \* the tab is mounted
  variables,  \* the series of the controller and what the user set for each
  drafts,     \* the limits in the inputs of the rows of the table
  prefs,      \* what local storage holds: the range and the choice
  window,     \* timeRange, windowMode, windowEndMs, liveAutoRefresh, custom window
  sampling,   \* samplingMode
  buffer,     \* the interval and contents of fullData, or None
  inFlight,   \* requests that have no answer yet
  authError,  \* the last answer that counts was a 401
  failed,     \* a request failed since the last one was sent
  ops,        \* operations of the user so far
  failures    \* answers so far that were not data

vars == <<now, open, variables, drafts, prefs, window, sampling, buffer, inFlight,
          authError, failed, ops, failures>>

Smaller(a, b) == IF a < b THEN a ELSE b
Larger(a, b) == IF a > b THEN a ELSE b

-----------------------------------------------------------------------------
(* What is chosen, where the window lies, what is asked for.               *)
Enabled == {k \in DOMAIN variables : variables[k].enabled}
Bases == {Base[k] : k \in Enabled}

CurrentWindow ==
  IF window.mode = "custom" THEN [from |-> window.from, to |-> window.to]
  ELSE [from |-> window.end - window.range, to |-> window.end]

Covers(b, w) == b.from <= w.from /\ w.to <= b.to

(* A request for the current window; its answer will fit the limits of the *)
(* series that scale themselves now.                                       *)
Request ==
  LET w == CurrentWindow
      ahead == Preload[window.range]
  IN  [from |-> Larger(0, w.from - ahead),
       to |-> IF window.mode = "relative" THEN Smaller(now, w.to + ahead) ELSE w.to + ahead,
       bases |-> Bases, fits |-> {k \in Enabled : variables[k].auto}, sampling |-> sampling]

BadNeedsFetch == Enabled # {} /\ ~authError /\ buffer = None
NeedsFetch ==
  Enabled # {} /\ ~authError /\ (buffer = None \/ ~Covers(buffer, CurrentWindow))

(* The effects that follow a render.  q are the requests the operation     *)
(* leaves in flight, b its buffer.  What the effect depends on decides     *)
(* whether it runs; it runs once more when the rows shown change too.      *)
Watched ==
  <<open, authError, buffer, CurrentWindow, variables, window.range, window.mode, sampling>>
Copies(n, r) == [i \in 1..n |-> r]
Rendered(q, b, reruns) ==
  /\ buffer' = IF ~authError' /\ Enabled' = {} THEN None ELSE b
  /\ \E n \in IF ~NeedsFetch' THEN {0}
              ELSE IF Watched' # Watched THEN {1, 2} ELSE {0} \cup reruns :
       /\ inFlight' = q \o Copies(n, Request')
       /\ failed' = (failed /\ n = 0 /\ Len(q) <= Len(inFlight))
  /\ Len(inFlight') <= MaxRequests

(* The effect that saves the choice.                                       *)
BadSaved == prefs' = [prefs EXCEPT !.range = window.range']
Saved ==
  prefs' = [range |-> window.range',
            chosen |-> [k \in DOMAIN variables' |->
                          [enabled |-> variables'[k].enabled, auto |-> variables'[k].auto]]]

-----------------------------------------------------------------------------
(* The tab is mounted for a controller whose model was loaded, or failed   *)
(* to; its series never change while it is.                                *)
Nothing == [k \in {} |-> None]
NewWindow(r) == [range |-> r, mode |-> "relative", end |-> now, live |-> TRUE,
                 from |-> now - r, to |-> now]
Variables(list) ==
  [k \in list |->
    IF k \in DOMAIN prefs.chosen
    THEN [enabled |-> prefs.chosen[k].enabled, auto |-> prefs.chosen[k].auto, limits |-> "none"]
    ELSE [enabled |-> k \in Defaults, auto |-> TRUE, limits |-> "none"]]

Open(list) ==
  /\ ~open /\ open' = TRUE /\ ops < MaxOps /\ ops' = ops + 1
  /\ variables' = Variables(list)
  /\ drafts' = [k \in list |-> "none"]
  /\ window' = NewWindow(prefs.range)
  /\ authError' = FALSE /\ UNCHANGED <<now, sampling, failures>>
  /\ Rendered(<<>>, None, {}) /\ Saved

(* From another page to a controller, App draws the tab for one render     *)
(* before its own effect begins to load the controller's model and takes   *)
(* the tab away.  The series of the tab are only set by its first effects, *)
(* so that render has none, and that is what it saves.                     *)
Glance ==
  /\ ~open /\ ops < MaxOps /\ ops' = ops + 1
  /\ variables' = Nothing /\ drafts' = Nothing /\ window' = NewWindow(prefs.range) /\ Saved
  /\ UNCHANGED <<now, open, sampling, buffer, inFlight, authError, failed, failures>>

Close ==
  /\ open /\ open' = FALSE /\ ops < MaxOps /\ ops' = ops + 1
  /\ inFlight' = <<>> /\ failed' = FALSE /\ buffer' = None /\ authError' = FALSE
  /\ UNCHANGED <<now, variables, drafts, prefs, window, sampling, failures>>

-----------------------------------------------------------------------------
(* Operations of the user.                                                 *)
Op == open /\ ops < MaxOps /\ ops' = ops + 1

Chosen(v) ==
  /\ Op /\ variables' = v
  /\ UNCHANGED <<now, open, drafts, window, sampling, authError, failures>>
  /\ Rendered(inFlight, buffer, {}) /\ Saved

ToggleVariable(k) == Chosen([variables EXCEPT ![k].enabled = ~@])
SetEnabled(chosen) ==
  Chosen([k \in DOMAIN variables |-> [variables[k] EXCEPT !.enabled = k \in chosen]])
UpdateAutoScale(k) == Chosen([variables EXCEPT ![k].auto = ~@])

(* Leaving an input commits its text, edited or not.                       *)
CommitField(k) ==
  /\ k \in DOMAIN drafts /\ variables[k].limits # drafts[k]
  /\ Chosen([variables EXCEPT ![k].limits = drafts[k]])

(* The rows of the table: those that were there keep their drafts.         *)
Table(d) ==
  Op /\ drafts' = d
     /\ UNCHANGED <<now, open, variables, prefs, window, sampling, buffer, inFlight,
                    authError, failed, failures>>
UpdateDraft(k, text) == drafts[k] # text /\ Table([drafts EXCEPT ![k] = text])
SetFilter(rows) ==
  /\ DOMAIN drafts # rows
  /\ Table([k \in rows |-> IF k \in DOMAIN drafts THEN drafts[k] ELSE variables[k].limits])

Moved(w) ==
  /\ Op /\ window' = w
  /\ UNCHANGED <<now, open, variables, drafts, sampling, authError, failures>>
  /\ Rendered(inFlight, buffer, {}) /\ Saved

SetTimeRange(r) ==
  Moved([window EXCEPT !.range = r,
           !.end = IF window.live /\ window.mode = "relative" THEN now ELSE @])

ShiftBy(w, d) ==
  IF w.mode = "custom" THEN [w EXCEPT !.live = FALSE, !.from = @ + d, !.to = @ + d]
  ELSE [w EXCEPT !.live = FALSE, !.end = Smaller(@ + d, now)]
ShiftWindow(d) ==
  /\ window.mode = "custom" => window.to + d <= MaxTime
  /\ Moved(ShiftBy(window, d))

ApplyCustomWindow(from, to) ==
  from < to /\ Moved([window EXCEPT !.live = FALSE, !.mode = "custom", !.from = from, !.to = to])

UseLiveWindow ==
  Moved([window EXCEPT !.live = TRUE, !.mode = "relative", !.end = now,
                       !.from = now - window.range, !.to = now])

SetSampling(s) ==
  /\ s # sampling /\ Op /\ sampling' = s
  /\ UNCHANGED <<now, open, variables, drafts, window, authError, failures>>
  /\ Rendered(inFlight, buffer, {}) /\ Saved

(* Refresh now: the request itself, and what the effects make of it.       *)
Refresh ==
  /\ Op /\ Enabled # {} /\ authError' = FALSE
  /\ UNCHANGED <<now, open, variables, drafts, window, sampling, failures>>
  /\ Rendered(Append(inFlight, Request), buffer, {}) /\ Saved

-----------------------------------------------------------------------------
Pass ==
  /\ now < MaxTime /\ now' = now + 1
  /\ UNCHANGED <<open, variables, drafts, prefs, window, sampling, buffer, inFlight,
                 authError, failed, ops, failures>>

Live == open /\ window.live /\ ~authError /\ Enabled # {}

(* The timer moves the window to the present and asks for it.              *)
BadTick ==
  /\ Live
  /\ window' = [window EXCEPT !.end = now]
  /\ UNCHANGED <<now, open, variables, drafts, sampling, authError, ops, failures>>
  /\ Rendered(inFlight, buffer, {}) /\ Saved
Tick ==
  /\ Live
  /\ window' = [window EXCEPT !.end = now]
  /\ UNCHANGED <<now, open, variables, drafts, sampling, authError, ops, failures>>
  /\ Rendered(Append(inFlight, Request'), buffer, {}) /\ Saved

-----------------------------------------------------------------------------
(* Answers.  A series without a value in the window keeps its limits.      *)
Ends(i) == [j \in 1..(Len(inFlight) - 1) |-> inFlight[IF j < i THEN j ELSE j + 1]]

BadFitted(r) == {k \in DOMAIN variables : variables[k].enabled}
Fitted(r) == r.fits

Data(i) ==
  LET r == inFlight[i]
  IN  /\ \E fitted \in SUBSET Fitted(r) :
           variables' = [k \in DOMAIN variables |->
             IF k \in fitted THEN [variables[k] EXCEPT !.limits = "fitted"] ELSE variables[k]]
      /\ UNCHANGED <<now, open, drafts, window, sampling, authError, ops, failures>>
      /\ Rendered(Ends(i), [from |-> r.from, to |-> r.to, bases |-> r.bases,
                            sampling |-> r.sampling], {1}) /\ Saved

NotData == failures < MaxFailures /\ failures' = failures + 1
Unauthorized(i) ==
  /\ NotData /\ authError' = TRUE /\ inFlight' = Ends(i)
  /\ UNCHANGED <<now, open, variables, drafts, prefs, window, sampling, buffer, failed, ops>>
Fails(i) ==
  /\ NotData /\ failed' = TRUE /\ inFlight' = Ends(i)
  /\ UNCHANGED <<now, open, variables, drafts, prefs, window, sampling, buffer, authError, ops>>

-----------------------------------------------------------------------------
Init ==
  /\ now = Start /\ open = FALSE /\ sampling = "best_fit" /\ buffer = None /\ inFlight = <<>>
  /\ authError = FALSE /\ failed = FALSE /\ ops = 0 /\ failures = 0
  /\ \E r \in Ranges :
       /\ prefs = [range |-> r, chosen |-> Nothing] /\ window = NewWindow(r)
  /\ variables = Nothing /\ drafts = Nothing

Choices ==
  \/ \E k \in DOMAIN variables : ToggleVariable(k) \/ UpdateAutoScale(k)
  \/ \E chosen \in Presets : SetEnabled(chosen)
  \/ \E s \in Samplings : SetSampling(s)
Rows ==
  \/ \E k \in DOMAIN drafts : CommitField(k) \/ \E text \in {"none", "typed"} : UpdateDraft(k, text)
  \/ \E rows \in Filters : SetFilter(rows \cap DOMAIN variables)
Windows ==
  \/ \E r \in Ranges \ {window.range} : SetTimeRange(r)
  \/ \E d \in {-1, 1} : ShiftWindow(d)
  \/ \E from, to \in CustomTimes : ApplyCustomWindow(from, to)
  \/ UseLiveWindow
Answer(i) == Data(i) \/ Unauthorized(i) \/ Fails(i)

Next ==
  \/ \E list \in TagLists : Open(list)
  \/ Glance \/ Close \/ Choices \/ (open /\ Rows) \/ Windows \/ Refresh
  \/ Pass \/ Tick
  \/ \E i \in DOMAIN inFlight : Answer(i)

(* The timer fires again and again, and the server answers every request;  *)
(* nothing is assumed of the user or of the order of the answers.          *)
Fairness ==
  /\ WF_vars(Tick)
  /\ \A i \in 1..MaxRequests : WF_vars(i \in DOMAIN inFlight /\ Data(i))

Spec == Init /\ [][Next]_vars
FairSpec == Spec /\ Fairness

-----------------------------------------------------------------------------
TypeOK ==
  /\ now \in Start..MaxTime /\ open \in BOOLEAN /\ sampling \in Samplings
  /\ DOMAIN variables \in TagLists \cup {{}}
  /\ \A k \in DOMAIN variables :
       variables[k] \in [enabled : BOOLEAN, auto : BOOLEAN, limits : Limits]
  /\ DOMAIN drafts \subseteq DOMAIN variables /\ \A k \in DOMAIN drafts : drafts[k] \in Limits
  /\ prefs.range \in Ranges /\ DOMAIN prefs.chosen \subseteq Series
  /\ window.range \in Ranges /\ window.mode \in {"relative", "custom"}
  /\ window.end \in Int /\ window.end <= now /\ window.live \in BOOLEAN
  /\ window.from < window.to
  /\ Len(inFlight) <= MaxRequests /\ authError \in BOOLEAN /\ failed \in BOOLEAN
  /\ ops \in 0..MaxOps /\ failures \in 0..MaxFailures

(* Whatever the order of the answers and wherever the window went          *)
(* meanwhile, a window the buffer does not reach is being asked for, unless *)
(* the request failed or was refused; and nothing is kept of series that   *)
(* are no longer chosen.                                                   *)
FetchedOrFetching ==
  open /\ ~authError =>
    /\ Enabled = {} => buffer = None
    /\ \/ Enabled = {} \/ failed
       \/ buffer # None /\ Covers(buffer, CurrentWindow)
       \/ \E i \in DOMAIN inFlight : Covers(inFlight[i], CurrentWindow)

(* The types, and the buffer that follows the window.                      *)
TrendsInv == TypeOK /\ FetchedOrFetching

(* The length of the window survives leaving the tab and coming back; so   *)
(* does the choice of series, when what was drawn last were the series of  *)
(* the same controller.  A glance in between draws none: it wipes the      *)
(* choice that was stored, and the property claims nothing after it.       *)
Choice == [k \in DOMAIN variables |-> <<variables[k].enabled, variables[k].auto>>]
SelectionSurvives ==
  [][~open /\ open' =>
       /\ window'.range = window.range
       /\ DOMAIN variables' = DOMAIN variables => Choice' = Choice]_vars

(* Typed limits give way to fitted ones only in an answer to a request     *)
(* made while the series scaled itself.                                    *)
TypedLimitsKept ==
  [][\A k \in DOMAIN variables :
       open /\ open' /\ variables[k].limits = "typed" /\ variables'[k].limits = "fitted" =>
         \E i \in DOMAIN inFlight : k \in inFlight[i].fits]_vars

(* In live mode the tab comes to show the present: the window, every       *)
(* chosen series and the sampling chosen, again and again.                 *)
UpToDate ==
  /\ window.end = now /\ buffer # None /\ Covers(buffer, CurrentWindow)
  /\ Bases \subseteq buffer.bases /\ buffer.sampling = sampling
LiveShowsAll == []<>(UpToDate \/ ~Live)
=============================================================================
