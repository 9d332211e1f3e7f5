------------------------- MODULE TrendsViewProofs -------------------------
(* For any series, ranges and bounds of TrendsView, and any order of       *)
(* answers: its types, that the buffer follows the window, that typed      *)
(* limits are kept, and that the choice survives leaving the tab.          *)
EXTENDS TrendsView, TLAPS

VariableType == [enabled : BOOLEAN, auto : BOOLEAN, limits : Limits]
SeriesTyped(v) == DOMAIN v \in TagLists \cup {{}} /\ \A k \in DOMAIN v : v[k] \in VariableType
DraftsTyped == DOMAIN drafts \subseteq DOMAIN variables /\ \A k \in DOMAIN drafts : drafts[k] \in Limits
PrefsTyped ==
  /\ prefs.range \in Ranges /\ DOMAIN prefs.chosen \subseteq Series
  /\ \A k \in DOMAIN prefs.chosen : prefs.chosen[k].enabled \in BOOLEAN /\ prefs.chosen[k].auto \in BOOLEAN

(* Each operation moves the window back by one unit at most, so that what  *)
(* is shown never reaches below zero.                                      *)
WindowType == [range : Ranges, mode : {"relative", "custom"}, end : Int, live : BOOLEAN,
               from : Int, to : Int]
WindowIn(w, done, time) ==
  /\ w \in WindowType /\ w.from < w.to /\ w.end <= time /\ w.end >= Start - done
  /\ w.mode = "custom" => w.from >= MaxOps - done

RequestType == [from : Int, to : Int, bases : SUBSET {Base[k] : k \in Series},
                fits : SUBSET Series, sampling : Samplings]
CountsTyped ==
  /\ now \in Start..MaxTime /\ open \in BOOLEAN /\ sampling \in Samplings
  /\ authError \in BOOLEAN /\ ops \in 0..MaxOps /\ failures \in 0..MaxFailures
QueueTyped ==
  inFlight \in Seq(RequestType) /\ Len(inFlight) <= MaxRequests /\ failed \in BOOLEAN

Typed ==
  /\ CountsTyped /\ SeriesTyped(variables) /\ DraftsTyped /\ PrefsTyped
  /\ WindowIn(window, ops, now) /\ QueueTyped

LEMMA TypedSuffices == ASSUME Typed PROVE TypeOK
BY DEF Typed, TypeOK, CountsTyped, SeriesTyped, DraftsTyped, PrefsTyped, WindowIn, WindowType,
       QueueTyped, VariableType

-----------------------------------------------------------------------------
(* What is asked for reaches as far as what is shown.                      *)
LEMMA RequestReaches ==
  ASSUME CountsTyped, SeriesTyped(variables), WindowIn(window, ops, now)
  PROVE  Request \in RequestType /\ Covers(Request, CurrentWindow)
<1>1. window.range \in Nat /\ Preload[window.range] \in Nat /\ window.range + MaxOps <= Start
  BY TrendsAssumption DEF WindowIn, WindowType
<1>2. now \in Int /\ ops \in Int /\ ops <= MaxOps /\ MaxOps \in Int /\ Start \in Int
  BY TrendsAssumption DEF CountsTyped
<1>3. /\ CurrentWindow.from \in Int /\ CurrentWindow.to \in Int /\ CurrentWindow.from >= 0
      /\ window.mode = "relative" => CurrentWindow.to <= now
  <2>1. CASE window.mode = "custom"
    BY <1>2, <2>1 DEF CurrentWindow, WindowIn, WindowType
  <2>2. CASE window.mode # "custom"
    BY <1>1, <1>2, <2>2 DEF CurrentWindow, WindowIn, WindowType
  <2>3. QED
    BY <2>1, <2>2
<1>4. /\ Request.from = Larger(0, CurrentWindow.from - Preload[window.range])
      /\ Request.to = IF window.mode = "relative"
                      THEN Smaller(now, CurrentWindow.to + Preload[window.range])
                      ELSE CurrentWindow.to + Preload[window.range]
  BY DEF Request
<1>5. Request.from \in Int /\ Request.from <= CurrentWindow.from
  BY <1>1, <1>3, <1>4 DEF Larger
<1>6. Request.to \in Int /\ CurrentWindow.to <= Request.to
  BY <1>1, <1>2, <1>3, <1>4 DEF Smaller
<1>7. Bases \subseteq {Base[k] : k \in Series} /\ {k \in Enabled : variables[k].auto} \subseteq Series
  BY TrendsAssumption DEF Bases, Enabled, SeriesTyped
<1>8. Request = [from |-> Request.from, to |-> Request.to, bases |-> Bases,
                 fits |-> {k \in Enabled : variables[k].auto}, sampling |-> sampling]
  BY DEF Request
<1>9. QED
  BY <1>5, <1>6, <1>7, <1>8 DEF RequestType, Covers, CountsTyped

LEMMA Reaches ==
  CountsTyped /\ SeriesTyped(variables) /\ WindowIn(window, ops, now)
    => Request \in RequestType /\ Covers(Request, CurrentWindow)
BY RequestReaches

LEMMA ReachesNext ==
  (CountsTyped /\ SeriesTyped(variables) /\ WindowIn(window, ops, now)
    => Request \in RequestType /\ Covers(Request, CurrentWindow))'
BY Reaches, PTL

LEMMA Appended ==
  ASSUME NEW q \in Seq(RequestType), NEW r \in RequestType, NEW n \in {0, 1, 2}
  PROVE  q \o Copies(n, r) \in Seq(RequestType)
BY DEF Copies

LEMMA StillQueued ==
  ASSUME NEW q \in Seq(RequestType), NEW r \in RequestType, NEW n \in {0, 1, 2}, NEW i \in DOMAIN q
  PROVE  i \in DOMAIN (q \o Copies(n, r)) /\ (q \o Copies(n, r))[i] = q[i]
BY DEF Copies

LEMMA CopyAppended ==
  ASSUME NEW q \in Seq(RequestType), NEW r \in RequestType, NEW n \in {0, 1, 2}, n # 0
  PROVE  \E i \in DOMAIN (q \o Copies(n, r)) : (q \o Copies(n, r))[i] = r
<1>1. Copies(n, r) \in Seq(RequestType) /\ Len(Copies(n, r)) = n /\ Copies(n, r)[1] = r
  BY DEF Copies
<1>2. Len(q) + 1 \in DOMAIN (q \o Copies(n, r)) /\ (q \o Copies(n, r))[Len(q) + 1] = r
  BY <1>1
<1>3. QED
  BY <1>2, Zenon

(* The effects of a render keep the buffer and the window together, when   *)
(* the operation leaves in flight what made up for the buffer before.      *)
LEMMA RenderedFetches ==
  ASSUME NEW q \in Seq(RequestType), NEW b, NEW reruns \in {{}, {1}}, Rendered(q, b, reruns),
         CountsTyped', SeriesTyped(variables)', WindowIn(window, ops, now)', failed \in BOOLEAN,
         Watched' = Watched /\ NeedsFetch' =>
           \/ failed /\ Len(q) <= Len(inFlight)
           \/ \E i \in DOMAIN q : Covers(q[i], CurrentWindow')
  PROVE  QueueTyped' /\ FetchedOrFetching'
<1>1. Request' \in RequestType /\ Covers(Request', CurrentWindow')
  BY ReachesNext
<1>2. PICK n \in {0, 1, 2} :
        /\ n \in IF ~NeedsFetch' THEN {0}
                 ELSE IF Watched' # Watched THEN {1, 2} ELSE {0} \cup reruns
        /\ inFlight' = q \o Copies(n, Request')
        /\ failed' = (failed /\ n = 0 /\ Len(q) <= Len(inFlight))
  BY DEF Rendered
<1>3. QueueTyped'
  <2>1. inFlight' \in Seq(RequestType) /\ Len(inFlight') <= MaxRequests
    BY <1>1, <1>2, Appended DEF Rendered
  <2>2. failed' \in BOOLEAN
    BY <1>2
  <2>3. QED
    BY <2>1, <2>2 DEF QueueTyped
<1>4. ASSUME NeedsFetch'
      PROVE  failed' = TRUE \/ \E i \in DOMAIN inFlight' : Covers(inFlight'[i], CurrentWindow')
  <2>1. CASE n # 0
    <3>1. \E i \in DOMAIN (q \o Copies(n, Request')) : (q \o Copies(n, Request'))[i] = Request'
      BY <1>1, <2>1, CopyAppended
    <3>2. \E i \in DOMAIN inFlight' : inFlight'[i] = Request'
      BY <1>2, <3>1
    <3>3. QED
      BY <1>1, <3>2
  <2>2. CASE n = 0 /\ failed /\ Len(q) <= Len(inFlight)
    <3>1. failed' = (failed /\ n = 0 /\ Len(q) <= Len(inFlight))
      BY <1>2
    <3>2. failed' = TRUE
      BY <2>2, <3>1
    <3>3. QED
      BY <3>2
  <2>3. CASE \E i \in DOMAIN q : Covers(q[i], CurrentWindow')
    <3>1. PICK i \in DOMAIN q : Covers(q[i], CurrentWindow')
      BY <2>3
    <3>2. /\ i \in DOMAIN (q \o Copies(n, Request'))
          /\ (q \o Copies(n, Request'))[i] = q[i]
      BY <1>1, StillQueued
    <3>3. i \in DOMAIN inFlight' /\ inFlight'[i] = q[i]
      BY <1>2, <3>2
    <3>4. QED
      BY <3>1, <3>3
  <2>4. n = 0 => Watched' = Watched
    BY <1>2, <1>4
  <2>5. QED
    BY <1>4, <2>1, <2>2, <2>3, <2>4
<1>5. ~authError' /\ Enabled' = {} => buffer' = None
  BY DEF Rendered
<1>6. FetchedOrFetching'
  BY <1>4, <1>5 DEF FetchedOrFetching, NeedsFetch
<1>7. QED
  BY <1>3, <1>6

LEMMA StillMissing ==
  ASSUME FetchedOrFetching, open = TRUE, Watched' = Watched, NeedsFetch'
  PROVE  failed \/ \E i \in DOMAIN inFlight : Covers(inFlight[i], CurrentWindow')
<1>1. /\ authError' = authError /\ buffer' = buffer /\ CurrentWindow' = CurrentWindow
      /\ variables' = variables
  BY DEF Watched
<1>2. Enabled' = Enabled
  BY <1>1 DEF Enabled
<1>3. Enabled # {} /\ ~authError /\ (buffer = None \/ ~Covers(buffer, CurrentWindow))
  BY <1>1, <1>2 DEF NeedsFetch
<1>4. QED
  BY <1>1, <1>3 DEF FetchedOrFetching

LEMMA SaveTyped ==
  ASSUME Saved, SeriesTyped(variables)', WindowIn(window, ops, now)' PROVE PrefsTyped'
<1>1. window'.range \in Ranges /\ DOMAIN variables' \subseteq Series
  BY TrendsAssumption DEF SeriesTyped, WindowIn, WindowType
<1>2. ASSUME NEW k \in DOMAIN variables'
      PROVE  variables'[k].enabled \in BOOLEAN /\ variables'[k].auto \in BOOLEAN
  BY <1>2 DEF SeriesTyped, VariableType
<1>3. QED
  BY <1>1, <1>2 DEF Saved, PrefsTyped

(* A user's operation that renders and asks for nothing itself.            *)
LEMMA RendersKeep ==
  ASSUME Typed, FetchedOrFetching, open = TRUE, Rendered(inFlight, buffer, {}), Saved,
         CountsTyped', SeriesTyped(variables)', DraftsTyped', WindowIn(window, ops, now)'
  PROVE  Typed' /\ FetchedOrFetching'
<1>1. inFlight \in Seq(RequestType) /\ failed \in BOOLEAN
  BY DEF Typed, QueueTyped
<1>2. ASSUME Watched' = Watched, NeedsFetch'
      PROVE  \/ failed /\ Len(inFlight) <= Len(inFlight)
             \/ \E i \in DOMAIN inFlight : Covers(inFlight[i], CurrentWindow')
  BY <1>1, <1>2, StillMissing
<1>3. QueueTyped' /\ FetchedOrFetching'
  BY <1>1, <1>2, RenderedFetches
<1>4. QED
  BY <1>3, SaveTyped DEF Typed

(* One that asks, too.                                                     *)
LEMMA AsksKeep ==
  ASSUME Typed, NEW r \in RequestType, Rendered(Append(inFlight, r), buffer, {}), Saved,
         Covers(r, CurrentWindow'),
         CountsTyped', SeriesTyped(variables)', DraftsTyped', WindowIn(window, ops, now)'
  PROVE  Typed' /\ FetchedOrFetching'
<1> DEFINE q == Append(inFlight, r)
<1>1. inFlight \in Seq(RequestType) /\ failed \in BOOLEAN
  BY DEF Typed, QueueTyped
<1>2. q \in Seq(RequestType) /\ Len(inFlight) + 1 \in DOMAIN q /\ q[Len(inFlight) + 1] = r
  BY <1>1
<1>3. \E i \in DOMAIN q : Covers(q[i], CurrentWindow')
  BY <1>2
<1> HIDE DEF q
<1>4. Rendered(q, buffer, {})
  BY DEF q
<1>5. QueueTyped' /\ FetchedOrFetching'
  BY <1>1, <1>2, <1>3, <1>4, RenderedFetches
<1>6. QED
  BY <1>5, SaveTyped DEF Typed

LEMMA WindowLater ==
  ASSUME NEW w, NEW d \in Int, NEW e \in Int, NEW t \in Int, NEW u \in Int,
         d <= e, t <= u, WindowIn(w, d, t)
  PROVE  WindowIn(w, e, u)
BY TrendsAssumption DEF WindowIn, WindowType

LEMMA OpCounts ==
  ASSUME CountsTyped, Op, UNCHANGED <<now, open, authError, failures>>, sampling' \in Samplings
  PROVE  CountsTyped' /\ open = TRUE /\ now \in Int /\ ops \in Int /\ ops' = ops + 1
<1>1. ops \in Int /\ ops' = ops + 1 /\ ops' \in 0..MaxOps /\ now \in Int
  BY TrendsAssumption DEF CountsTyped, Op
<1>2. open = TRUE
  BY DEF CountsTyped, Op
<1>3. QED
  BY <1>1, <1>2 DEF CountsTyped

-----------------------------------------------------------------------------
(* The series and their rows.                                              *)
LEMMA ChosenKeeps ==
  ASSUME Typed, FetchedOrFetching, NEW v, Chosen(v), SeriesTyped(v), DOMAIN v = DOMAIN variables
  PROVE  Typed' /\ FetchedOrFetching'
<1>1. sampling' \in Samplings
  BY DEF Typed, CountsTyped, Chosen
<1>2. CountsTyped' /\ open = TRUE /\ now \in Int /\ ops \in Int /\ ops' = ops + 1
  BY <1>1, OpCounts DEF Typed, Chosen
<1>3. SeriesTyped(variables)' /\ DraftsTyped'
  BY DEF Typed, Chosen, SeriesTyped, DraftsTyped
<1>4. WindowIn(window, ops + 1, now)
  BY <1>2, WindowLater DEF Typed
<1>5. WindowIn(window, ops, now)'
  BY <1>2, <1>4 DEF Chosen, WindowIn
<1>6. QED
  BY <1>2, <1>3, <1>5, RendersKeep DEF Chosen

(* What becomes of one series when its flags or limits are set.            *)
LEMMA OneSeries ==
  ASSUME SeriesTyped(variables), NEW k \in DOMAIN variables, NEW one \in VariableType
  PROVE  SeriesTyped([variables EXCEPT ![k] = one])
BY DEF SeriesTyped

LEMMA ChoicesKeep == ASSUME Typed, FetchedOrFetching, Choices PROVE Typed' /\ FetchedOrFetching'
<1>1. SeriesTyped(variables)
  BY DEF Typed
<1>2. ASSUME NEW k \in DOMAIN variables, ToggleVariable(k) PROVE Typed' /\ FetchedOrFetching'
  <2> DEFINE one == [variables[k] EXCEPT !.enabled = ~@]
  <2>1. one \in VariableType
    BY <1>1 DEF SeriesTyped, VariableType
  <2>2. SeriesTyped([variables EXCEPT ![k] = one])
    BY <1>1, <2>1, OneSeries
  <2>3. Chosen([variables EXCEPT ![k] = one])
    BY <1>2 DEF ToggleVariable
  <2>4. QED
    BY <2>2, <2>3, ChosenKeeps
<1>3. ASSUME NEW k \in DOMAIN variables, UpdateAutoScale(k) PROVE Typed' /\ FetchedOrFetching'
  <2> DEFINE one == [variables[k] EXCEPT !.auto = ~@]
  <2>1. one \in VariableType
    BY <1>1 DEF SeriesTyped, VariableType
  <2>2. SeriesTyped([variables EXCEPT ![k] = one])
    BY <1>1, <2>1, OneSeries
  <2>3. Chosen([variables EXCEPT ![k] = one])
    BY <1>3 DEF UpdateAutoScale
  <2>4. QED
    BY <2>2, <2>3, ChosenKeeps
<1>4. ASSUME NEW chosen \in Presets, SetEnabled(chosen) PROVE Typed' /\ FetchedOrFetching'
  <2> DEFINE v == [k \in DOMAIN variables |-> [variables[k] EXCEPT !.enabled = k \in chosen]]
  <2>1. ASSUME NEW k \in DOMAIN variables
        PROVE  [variables[k] EXCEPT !.enabled = k \in chosen] \in VariableType
    <3>1. (k \in chosen) \in BOOLEAN
      OBVIOUS
    <3>2. variables[k] \in VariableType
      BY <1>1 DEF SeriesTyped
    <3>3. QED
      BY <3>1, <3>2 DEF VariableType
  <2>2. SeriesTyped(v) /\ DOMAIN v = DOMAIN variables
    BY <1>1, <2>1 DEF SeriesTyped
  <2>3. Chosen(v)
    BY <1>4 DEF SetEnabled
  <2> HIDE DEF v
  <2>4. QED
    BY <2>2, <2>3, ChosenKeeps
<1>5. ASSUME NEW s \in Samplings, SetSampling(s) PROVE Typed' /\ FetchedOrFetching'
  <2>1. sampling' \in Samplings
    BY <1>5 DEF SetSampling
  <2>2. CountsTyped' /\ open = TRUE /\ now \in Int /\ ops \in Int /\ ops' = ops + 1
    BY <1>5, <2>1, OpCounts DEF Typed, SetSampling
  <2>3. SeriesTyped(variables)' /\ DraftsTyped'
    BY <1>5 DEF Typed, SetSampling, SeriesTyped, DraftsTyped
  <2>4. WindowIn(window, ops + 1, now)
    BY <2>2, WindowLater DEF Typed
  <2>5. WindowIn(window, ops, now)'
    BY <1>5, <2>2, <2>4 DEF SetSampling, WindowIn
  <2>6. QED
    BY <1>5, <2>2, <2>3, <2>5, RendersKeep DEF SetSampling
<1>6. QED
  BY <1>2, <1>3, <1>4, <1>5 DEF Choices

LEMMA TableKeeps ==
  ASSUME Typed, FetchedOrFetching, NEW d, Table(d), DOMAIN d \subseteq DOMAIN variables,
         \A k \in DOMAIN d : d[k] \in Limits
  PROVE  Typed' /\ FetchedOrFetching'
<1>1. CountsTyped' /\ now \in Int /\ ops \in Int /\ ops' = ops + 1
  BY OpCounts DEF Typed, Table, CountsTyped
<1>2. WindowIn(window, ops + 1, now)
  BY <1>1, WindowLater DEF Typed
<1>3. WindowIn(window, ops, now)'
  BY <1>1, <1>2 DEF Table, WindowIn
<1>4. SeriesTyped(variables)' /\ DraftsTyped' /\ PrefsTyped'
  BY DEF Typed, Table, SeriesTyped, DraftsTyped, PrefsTyped
<1>5. QueueTyped'
  BY DEF Typed, Table, QueueTyped
<1>6. FetchedOrFetching'
  BY DEF Table, FetchedOrFetching, Enabled, CurrentWindow, Covers
<1>7. QED
  BY <1>1, <1>3, <1>4, <1>5, <1>6 DEF Typed

LEMMA RowsKeep == ASSUME Typed, FetchedOrFetching, Rows PROVE Typed' /\ FetchedOrFetching'
<1>1. SeriesTyped(variables) /\ DraftsTyped
  BY DEF Typed
<1>2. ASSUME NEW k \in DOMAIN drafts, CommitField(k) PROVE Typed' /\ FetchedOrFetching'
  <2> DEFINE one == [variables[k] EXCEPT !.limits = drafts[k]]
  <2>1. k \in DOMAIN variables /\ variables[k] \in VariableType /\ drafts[k] \in Limits
    BY <1>1 DEF SeriesTyped, DraftsTyped
  <2>2. one \in VariableType
    BY <2>1 DEF VariableType
  <2>3. SeriesTyped([variables EXCEPT ![k] = one])
    BY <1>1, <2>1, <2>2, OneSeries
  <2>4. Chosen([variables EXCEPT ![k] = one])
    BY <1>2 DEF CommitField
  <2>5. QED
    BY <2>3, <2>4, ChosenKeeps
<1>3. ASSUME NEW k \in DOMAIN drafts, NEW text \in {"none", "typed"}, UpdateDraft(k, text)
      PROVE  Typed' /\ FetchedOrFetching'
  <2>1. LET d == [drafts EXCEPT ![k] = text]
        IN  DOMAIN d \subseteq DOMAIN variables /\ \A n \in DOMAIN d : d[n] \in Limits
    BY <1>1 DEF DraftsTyped, Limits
  <2>2. QED
    BY <1>3, <2>1, TableKeeps DEF UpdateDraft
<1>4. ASSUME NEW rows \in Filters, SetFilter(rows \cap DOMAIN variables)
      PROVE  Typed' /\ FetchedOrFetching'
  <2> DEFINE d == [k \in rows \cap DOMAIN variables |->
                    IF k \in DOMAIN drafts THEN drafts[k] ELSE variables[k].limits]
  <2>1. DOMAIN d \subseteq DOMAIN variables /\ \A n \in DOMAIN d : d[n] \in Limits
    BY <1>1 DEF DraftsTyped, SeriesTyped, VariableType
  <2>2. Table(d)
    BY <1>4 DEF SetFilter
  <2> HIDE DEF d
  <2>3. QED
    BY <2>1, <2>2, TableKeeps
<1>5. QED
  BY <1>2, <1>3, <1>4 DEF Rows

-----------------------------------------------------------------------------
(* The window.                                                             *)
LEMMA MovedKeeps ==
  ASSUME Typed, FetchedOrFetching, NEW w, Moved(w), WindowIn(w, ops + 1, now)
  PROVE  Typed' /\ FetchedOrFetching'
<1>1. sampling' \in Samplings
  BY DEF Typed, CountsTyped, Moved
<1>2. CountsTyped' /\ open = TRUE /\ now \in Int /\ ops \in Int /\ ops' = ops + 1
  BY <1>1, OpCounts DEF Typed, Moved
<1>3. SeriesTyped(variables)' /\ DraftsTyped'
  BY DEF Typed, Moved, SeriesTyped, DraftsTyped
<1>4. WindowIn(window, ops, now)'
  BY <1>2 DEF Moved, WindowIn
<1>5. QED
  BY <1>2, <1>3, <1>4, RendersKeep DEF Moved

LEMMA WindowsKeep == ASSUME Typed, FetchedOrFetching, Windows PROVE Typed' /\ FetchedOrFetching'
<1>1. /\ now \in Int /\ ops \in Int /\ Start \in Int /\ MaxOps \in Int
      /\ Start <= now /\ 0 <= ops
  BY TrendsAssumption DEF Typed, CountsTyped
<1>2. WindowIn(window, ops, now) /\ window \in WindowType
  BY DEF Typed, WindowIn
<1>3. \A r \in Ranges : r \in Int /\ r > 0
  BY TrendsAssumption
<1>4. ASSUME NEW r \in Ranges, SetTimeRange(r) PROVE Typed' /\ FetchedOrFetching'
  <2> DEFINE w == [window EXCEPT !.range = r,
                     !.end = IF window.live /\ window.mode = "relative" THEN now ELSE @]
  <2>1. PICK e \in {now, window.end} : w = [window EXCEPT !.range = r, !.end = e]
    BY <1>2 DEF WindowType
  <2>2. e \in Int /\ e <= now /\ e >= Start - ops
    BY <1>1, <1>2 DEF WindowIn, WindowType
  <2>3. WindowIn(w, ops + 1, now)
    <3>1. /\ w \in WindowType /\ w.end = e
          /\ w.from = window.from /\ w.to = window.to /\ w.mode = window.mode
      BY <1>2, <2>1, <2>2 DEF WindowType
    <3> HIDE DEF w
    <3>2. w.mode = "custom" => w.from >= MaxOps - (ops + 1)
      BY <1>1, <1>2, <3>1 DEF WindowIn, WindowType
    <3>3. QED
      BY <1>1, <1>2, <2>2, <3>1, <3>2 DEF WindowIn
  <2>4. Moved(w)
    BY <1>4 DEF SetTimeRange
  <2> HIDE DEF w
  <2>5. QED
    BY <2>3, <2>4, MovedKeeps
<1>5. ASSUME NEW d \in {-1, 1}, ShiftWindow(d) PROVE Typed' /\ FetchedOrFetching'
  <2>1. CASE window.mode = "custom"
    <3> DEFINE f == window.from + d
    <3> DEFINE t == window.to + d
    <3> DEFINE w == [window EXCEPT !.live = FALSE, !.from = f, !.to = t]
    <3>1. WindowIn(w, ops + 1, now)
      <4>1. /\ f \in Int /\ t \in Int /\ f < t /\ f >= MaxOps - (ops + 1)
            /\ window.end \in Int /\ window.end <= now /\ window.end >= Start - (ops + 1)
        BY <1>1, <1>2, <2>1 DEF WindowIn, WindowType
      <4> HIDE DEF f, t
      <4>2. w \in WindowType /\ w.end = window.end /\ w.from = f /\ w.to = t
        BY <1>2, <4>1 DEF WindowType
      <4> HIDE DEF w
      <4>3. QED
        BY <4>1, <4>2 DEF WindowIn
    <3>2. Moved(w)
      BY <1>2, <1>5, <2>1 DEF ShiftWindow, ShiftBy, WindowType
    <3> HIDE DEF w
    <3>3. QED
      BY <3>1, <3>2, MovedKeeps
  <2>2. CASE window.mode # "custom"
    <3> DEFINE e == Smaller(window.end + d, now)
    <3> DEFINE w == [window EXCEPT !.live = FALSE, !.end = e]
    <3>1. e \in Int /\ e <= now /\ e >= Start - (ops + 1)
      BY <1>1, <1>2 DEF WindowIn, WindowType, Smaller
    <3>2. Moved(w)
      BY <1>5, <2>2 DEF ShiftWindow, ShiftBy
    <3> HIDE DEF e
    <3>3. WindowIn(w, ops + 1, now)
      BY <1>1, <1>2, <2>2, <3>1 DEF WindowIn, WindowType
    <3> HIDE DEF w
    <3>4. QED
      BY <3>2, <3>3, MovedKeeps
  <2>3. QED
    BY <2>1, <2>2
<1>6. ASSUME NEW from \in CustomTimes, NEW to \in CustomTimes, ApplyCustomWindow(from, to)
      PROVE  Typed' /\ FetchedOrFetching'
  <2> DEFINE w == [window EXCEPT !.live = FALSE, !.mode = "custom", !.from = from, !.to = to]
  <2>1. from \in Int /\ to \in Int /\ from >= MaxOps /\ from < to
    BY <1>6, TrendsAssumption DEF ApplyCustomWindow
  <2>2. WindowIn(w, ops + 1, now)
    <3>1. w \in WindowType /\ w.end = window.end /\ w.from = from /\ w.to = to
      BY <1>2, <2>1 DEF WindowType
    <3>2. window.end \in Int /\ window.end <= now /\ window.end >= Start - (ops + 1)
      BY <1>1, <1>2 DEF WindowIn, WindowType
    <3> HIDE DEF w
    <3>3. QED
      BY <1>1, <2>1, <3>1, <3>2 DEF WindowIn
  <2>3. Moved(w)
    BY <1>6 DEF ApplyCustomWindow
  <2> HIDE DEF w
  <2>4. QED
    BY <2>2, <2>3, MovedKeeps
<1>7. ASSUME UseLiveWindow PROVE Typed' /\ FetchedOrFetching'
  <2> DEFINE w == [window EXCEPT !.live = TRUE, !.mode = "relative", !.end = now,
                                 !.from = now - window.range, !.to = now]
  <2>1. window.range \in Int /\ window.range > 0
    BY <1>2, <1>3 DEF WindowType
  <2>2. WindowIn(w, ops + 1, now)
    <3> DEFINE f == now - window.range
    <3>1. f \in Int /\ f < now
      BY <1>1, <2>1
    <3>2. w = [window EXCEPT !.live = TRUE, !.mode = "relative", !.end = now, !.from = f, !.to = now]
      OBVIOUS
    <3> HIDE DEF f, w
    <3>3. w \in WindowType /\ w.mode = "relative" /\ w.end = now /\ w.from = f /\ w.to = now
      BY <1>1, <1>2, <3>1, <3>2 DEF WindowType
    <3>4. QED
      BY <1>1, <3>1, <3>3 DEF WindowIn
  <2>3. Moved(w)
    BY <1>7 DEF UseLiveWindow
  <2> HIDE DEF w
  <2>4. QED
    BY <2>2, <2>3, MovedKeeps
<1>8. QED
  BY <1>4, <1>5, <1>6, <1>7 DEF Windows

LEMMA RefreshKeeps == ASSUME Typed, FetchedOrFetching, Refresh PROVE Typed' /\ FetchedOrFetching'
<1>1. /\ ops \in Int /\ ops' = ops + 1 /\ ops' \in 0..MaxOps /\ now \in Int
      /\ UNCHANGED <<now, open, variables, drafts, window, sampling, failures>> /\ authError' = FALSE
  BY TrendsAssumption DEF Refresh, Op, Typed, CountsTyped
<1>2. CountsTyped'
  BY <1>1 DEF Typed, CountsTyped
<1>3. WindowIn(window, ops + 1, now)
  BY <1>1, WindowLater DEF Typed
<1>4. WindowIn(window, ops, now)'
  BY <1>1, <1>3 DEF WindowIn
<1>5. SeriesTyped(variables)' /\ DraftsTyped'
  BY <1>1 DEF Typed, SeriesTyped, DraftsTyped
<1>6. Request \in RequestType /\ Covers(Request, CurrentWindow)
  BY RequestReaches DEF Typed
<1>7. CurrentWindow' = CurrentWindow
  BY <1>1 DEF CurrentWindow
<1>8. Rendered(Append(inFlight, Request), buffer, {}) /\ Saved
  BY DEF Refresh
<1>9. Covers(Request, CurrentWindow')
  BY <1>6, <1>7
<1>10. QED
  BY <1>2, <1>4, <1>5, <1>6, <1>8, <1>9, AsksKeep

LEMMA TickKeeps == ASSUME Typed, FetchedOrFetching, Tick PROVE Typed' /\ FetchedOrFetching'
<1>1. /\ window' = [window EXCEPT !.end = now]
      /\ UNCHANGED <<now, open, variables, drafts, sampling, authError, ops, failures>>
  BY DEF Tick
<1>2. CountsTyped' /\ SeriesTyped(variables)' /\ DraftsTyped'
  BY <1>1 DEF Typed, CountsTyped, SeriesTyped, DraftsTyped
<1>3. now \in Int /\ Start \in Int /\ Start <= now /\ ops \in Int /\ 0 <= ops
  BY TrendsAssumption DEF Typed, CountsTyped
<1>4. WindowIn([window EXCEPT !.end = now], ops, now)
  BY <1>3 DEF Typed, WindowIn, WindowType
<1>5. WindowIn(window, ops, now)'
  BY <1>1, <1>4 DEF WindowIn
<1>6. Request' \in RequestType /\ Covers(Request', CurrentWindow')
  BY <1>2, <1>5, ReachesNext
<1>7. Rendered(Append(inFlight, Request'), buffer, {}) /\ Saved
  BY DEF Tick
<1> DEFINE r == Request'
<1>8. r \in RequestType /\ Covers(r, CurrentWindow') /\ Rendered(Append(inFlight, r), buffer, {})
  BY <1>6, <1>7
<1> HIDE DEF r
<1>9. QED
  BY <1>2, <1>5, <1>7, <1>8, AsksKeep

-----------------------------------------------------------------------------
(* Answers.                                                                *)
LEMMA EndsTyped ==
  ASSUME inFlight \in Seq(RequestType), NEW i \in DOMAIN inFlight
  PROVE  /\ Ends(i) \in Seq(RequestType) /\ Len(Ends(i)) = Len(inFlight) - 1
         /\ \A j \in DOMAIN inFlight \ {i} :
              \E k \in DOMAIN Ends(i) : Ends(i)[k] = inFlight[j]
<1>1. i \in 1..Len(inFlight) /\ DOMAIN inFlight = 1..Len(inFlight)
  OBVIOUS
<1>2. Ends(i) \in [1..(Len(inFlight) - 1) -> RequestType]
  BY <1>1 DEF Ends
<1>3. Ends(i) \in Seq(RequestType) /\ Len(Ends(i)) = Len(inFlight) - 1
  <2>1. Len(inFlight) - 1 \in Nat
    BY <1>1
  <2>2. QED
    BY <1>2, <2>1
<1>4. ASSUME NEW j \in DOMAIN inFlight \ {i}
      PROVE  \E k \in DOMAIN Ends(i) : Ends(i)[k] = inFlight[j]
  <2>1. CASE j < i
    <3>1. j \in DOMAIN Ends(i) /\ Ends(i)[j] = inFlight[j]
      BY <1>1, <2>1 DEF Ends
    <3>2. QED
      BY <3>1
  <2>2. CASE j > i
    <3>1. j - 1 \in DOMAIN Ends(i) /\ Ends(i)[j - 1] = inFlight[j]
      BY <1>1, <2>2 DEF Ends
    <3>2. QED
      BY <3>1
  <2>3. QED
    BY <1>1, <2>1, <2>2
<1>5. QED
  BY <1>3, <1>4

LEMMA DataKeeps ==
  ASSUME Typed, FetchedOrFetching, open = TRUE, NEW i \in DOMAIN inFlight, Data(i)
  PROVE  Typed' /\ FetchedOrFetching'
<1> DEFINE r == inFlight[i]
<1> DEFINE b == [from |-> r.from, to |-> r.to, bases |-> r.bases, sampling |-> r.sampling]
<1>1. PICK fitted \in SUBSET Fitted(r) :
        variables' = [k \in DOMAIN variables |->
          IF k \in fitted THEN [variables[k] EXCEPT !.limits = "fitted"] ELSE variables[k]]
  BY DEF Data
<1>2. /\ UNCHANGED <<now, open, drafts, window, sampling, authError, ops, failures>>
      /\ Rendered(Ends(i), b, {1}) /\ Saved
  BY DEF Data
<1>3. ASSUME NEW k \in DOMAIN variables
      PROVE  [variables[k] EXCEPT !.limits = "fitted"] \in VariableType
  BY DEF Typed, SeriesTyped, VariableType, Limits
<1>4. SeriesTyped(variables)'
  BY <1>1, <1>3 DEF Typed, SeriesTyped
<1>5. CountsTyped' /\ DraftsTyped' /\ WindowIn(window, ops, now)'
  BY <1>1, <1>2 DEF Typed, CountsTyped, DraftsTyped, WindowIn
<1>6. inFlight \in Seq(RequestType) /\ failed \in BOOLEAN
  BY DEF Typed, QueueTyped
<1>7. r \in RequestType
  BY <1>6
<1>8. b # None
  BY <1>7, TrendsAssumption DEF RequestType, BufferType
<1>9. Ends(i) \in Seq(RequestType) /\ Len(Ends(i)) <= Len(inFlight)
  BY <1>6, EndsTyped
<1>10. ASSUME Watched' = Watched, NeedsFetch'
       PROVE  \/ failed /\ Len(Ends(i)) <= Len(inFlight)
              \/ \E k \in DOMAIN Ends(i) : Covers(Ends(i)[k], CurrentWindow')
  <2>1. buffer' = b
    BY <1>2, <1>10 DEF Rendered, NeedsFetch
  <2>2. ~Covers(b, CurrentWindow')
    BY <1>8, <1>10, <2>1 DEF NeedsFetch
  <2>3. ~Covers(r, CurrentWindow')
    BY <2>2 DEF Covers
  <2>4. CASE failed
    BY <1>9, <2>4
  <2>5. ASSUME NEW j \in DOMAIN inFlight, Covers(inFlight[j], CurrentWindow')
        PROVE  \E k \in DOMAIN Ends(i) : Covers(Ends(i)[k], CurrentWindow')
    <3>1. j # i
      BY <2>3, <2>5
    <3>2. PICK k \in DOMAIN Ends(i) : Ends(i)[k] = inFlight[j]
      BY <1>6, <3>1, EndsTyped
    <3>3. QED
      BY <2>5, <3>2
  <2>6. QED
    BY <1>10, <2>4, <2>5, StillMissing
<1> DEFINE q == Ends(i)
<1>11. /\ q \in Seq(RequestType) /\ Rendered(q, b, {1})
       /\ Watched' = Watched /\ NeedsFetch' =>
            \/ failed /\ Len(q) <= Len(inFlight)
            \/ \E k \in DOMAIN q : Covers(q[k], CurrentWindow')
  BY <1>2, <1>9, <1>10
<1> HIDE DEF q, b, r
<1>12. QueueTyped' /\ FetchedOrFetching'
  BY <1>4, <1>5, <1>6, <1>11, RenderedFetches
<1>13. QED
  BY <1>2, <1>4, <1>5, <1>12, SaveTyped DEF Typed

LEMMA NoDataKeeps ==
  ASSUME Typed, FetchedOrFetching, NEW i \in DOMAIN inFlight, Unauthorized(i) \/ Fails(i)
  PROVE  Typed' /\ FetchedOrFetching'
<1>1. /\ UNCHANGED <<now, open, variables, drafts, prefs, window, sampling, buffer, ops>>
      /\ inFlight' = Ends(i) /\ failures' = failures + 1 /\ failures < MaxFailures
  BY DEF Unauthorized, Fails, NotData
<1>2. (authError' = TRUE /\ failed' = failed) \/ (authError' = authError /\ failed' = TRUE)
  BY DEF Unauthorized, Fails
<1>3. CountsTyped'
  <2>1. authError' \in BOOLEAN
    BY <1>2 DEF Typed, CountsTyped
  <2>2. failures' \in 0..MaxFailures
    BY <1>1, TrendsAssumption DEF Typed, CountsTyped
  <2>3. QED
    BY <1>1, <2>1, <2>2 DEF Typed, CountsTyped
<1>4. inFlight' \in Seq(RequestType) /\ Len(inFlight') <= MaxRequests
  BY <1>1, EndsTyped, TrendsAssumption DEF Typed, QueueTyped
<1>5. QueueTyped'
  BY <1>2, <1>4 DEF Typed, QueueTyped
<1>6. SeriesTyped(variables)' /\ DraftsTyped' /\ PrefsTyped' /\ WindowIn(window, ops, now)'
  BY <1>1 DEF Typed, SeriesTyped, DraftsTyped, PrefsTyped, WindowIn
<1>7. FetchedOrFetching'
  <2>1. Enabled' = Enabled /\ buffer' = buffer /\ open' = open
    BY <1>1 DEF Enabled
  <2>2. CASE authError' = TRUE
    BY <2>2 DEF FetchedOrFetching
  <2>3. CASE authError' = authError /\ failed' = TRUE
    BY <2>1, <2>3 DEF FetchedOrFetching
  <2>4. QED
    BY <1>2, <2>2, <2>3
<1>8. QED
  BY <1>3, <1>5, <1>6, <1>7 DEF Typed

-----------------------------------------------------------------------------
(* The tab as a whole.                                                     *)
LEMMA RangePositive == ASSUME NEW r \in Ranges PROVE r \in Int /\ r > 0
BY TrendsAssumption

LEMMA NoneQueued == <<>> \in Seq(RequestType) /\ Len(<<>>) <= MaxRequests
<1>1. MaxRequests \in Nat
  BY TrendsAssumption
<1>2. QED
  BY <1>1

LEMMA OpenKeeps ==
  ASSUME Typed, NEW list \in TagLists, Open(list) PROVE Typed' /\ FetchedOrFetching'
<1>1. /\ open = FALSE /\ open' = TRUE /\ ops \in Int /\ ops' = ops + 1 /\ ops' \in 0..MaxOps
      /\ 0 <= ops /\ now \in Int /\ Start \in Int /\ Start <= now /\ MaxOps \in Int
      /\ authError' = FALSE /\ UNCHANGED <<now, sampling, failures>>
  BY TrendsAssumption DEF Open, Typed, CountsTyped
<1>2. CountsTyped'
  BY <1>1 DEF Typed, CountsTyped
<1>3. variables' = Variables(list) /\ list \subseteq Series /\ DOMAIN Variables(list) = list
  BY TrendsAssumption DEF Open, Variables
<1>4. ASSUME NEW k \in list PROVE Variables(list)[k] \in VariableType
  <2>1. CASE k \in DOMAIN prefs.chosen
    BY <2>1 DEF Variables, VariableType, Limits, Typed, PrefsTyped
  <2>2. CASE k \notin DOMAIN prefs.chosen
    BY <2>2 DEF Variables, VariableType, Limits
  <2>3. QED
    BY <2>1, <2>2
<1>5. SeriesTyped(variables)'
  BY <1>3, <1>4 DEF SeriesTyped
<1>6. DraftsTyped'
  BY <1>3 DEF Open, DraftsTyped, Limits
<1>7. WindowIn(window, ops, now)'
  <2>1. prefs.range \in Ranges /\ prefs.range \in Int /\ prefs.range > 0
    <3>1. prefs.range \in Ranges
      BY DEF Typed, PrefsTyped
    <3>2. QED
      BY <3>1, RangePositive
  <2>2. window' = [range |-> prefs.range, mode |-> "relative", end |-> now, live |-> TRUE,
                   from |-> now - prefs.range, to |-> now]
    BY DEF Open, NewWindow
  <2>3. window' \in WindowType
    BY <1>1, <2>1, <2>2 DEF WindowType
  <2>4. QED
    BY <1>1, <2>1, <2>2, <2>3 DEF WindowIn
<1>8. Rendered(<<>>, None, {}) /\ Saved
  BY DEF Open
<1>9. Watched' # Watched
  BY <1>1 DEF Watched
<1>10. <<>> \in Seq(RequestType) /\ failed \in BOOLEAN
  BY DEF Typed, QueueTyped
<1>11. QueueTyped' /\ FetchedOrFetching'
  BY <1>2, <1>5, <1>7, <1>8, <1>9, <1>10, RenderedFetches
<1>12. QED
  BY <1>2, <1>5, <1>6, <1>7, <1>8, <1>11, SaveTyped DEF Typed

LEMMA GlanceKeeps ==
  ASSUME Typed, FetchedOrFetching, Glance PROVE Typed' /\ FetchedOrFetching'
<1>1. /\ open = FALSE /\ open' = FALSE /\ ops \in Int /\ ops' = ops + 1 /\ ops' \in 0..MaxOps
      /\ 0 <= ops /\ now \in Int /\ Start \in Int /\ Start <= now /\ MaxOps \in Int
      /\ UNCHANGED <<now, sampling, inFlight, authError, failed, failures>>
  BY TrendsAssumption DEF Glance, Typed, CountsTyped
<1>2. CountsTyped'
  BY <1>1 DEF Typed, CountsTyped
<1>3. SeriesTyped(variables)' /\ DraftsTyped'
  BY DEF Glance, Nothing, SeriesTyped, DraftsTyped
<1>4. WindowIn(window, ops, now)'
  <2>1. prefs.range \in Ranges /\ prefs.range \in Int /\ prefs.range > 0
    BY RangePositive DEF Typed, PrefsTyped
  <2>2. window' = [range |-> prefs.range, mode |-> "relative", end |-> now, live |-> TRUE,
                   from |-> now - prefs.range, to |-> now]
    BY DEF Glance, NewWindow
  <2>3. window' \in WindowType
    BY <1>1, <2>1, <2>2 DEF WindowType
  <2>4. QED
    BY <1>1, <2>1, <2>2, <2>3 DEF WindowIn
<1>5. QueueTyped' /\ FetchedOrFetching'
  BY <1>1 DEF Typed, QueueTyped, FetchedOrFetching
<1>6. PrefsTyped'
  BY <1>3, <1>4, SaveTyped DEF Glance
<1>7. QED
  BY <1>2, <1>3, <1>4, <1>5, <1>6 DEF Typed

LEMMA CloseKeeps == ASSUME Typed, Close PROVE Typed' /\ FetchedOrFetching'
<1>1. /\ open' = FALSE /\ ops \in Int /\ ops' = ops + 1 /\ ops' \in 0..MaxOps /\ now \in Int
      /\ inFlight' = <<>> /\ failed' = FALSE /\ authError' = FALSE
      /\ UNCHANGED <<now, variables, drafts, prefs, window, sampling, failures>>
  BY TrendsAssumption DEF Close, Typed, CountsTyped
<1>2. CountsTyped'
  BY <1>1 DEF Typed, CountsTyped
<1>3. WindowIn(window, ops + 1, now)
  BY <1>1, WindowLater DEF Typed
<1>4. WindowIn(window, ops, now)'
  BY <1>1, <1>3 DEF WindowIn
<1>5. SeriesTyped(variables)' /\ DraftsTyped' /\ PrefsTyped'
  BY <1>1 DEF Typed, SeriesTyped, DraftsTyped, PrefsTyped
<1>6. QueueTyped'
  BY <1>1, NoneQueued DEF QueueTyped
<1>7. FetchedOrFetching'
  BY <1>1 DEF FetchedOrFetching
<1>8. QED
  BY <1>2, <1>4, <1>5, <1>6, <1>7 DEF Typed

LEMMA PassKeeps == ASSUME Typed, FetchedOrFetching, Pass PROVE Typed' /\ FetchedOrFetching'
<1>1. /\ now \in Int /\ now' = now + 1 /\ now' \in Start..MaxTime /\ ops \in Int
      /\ UNCHANGED <<open, variables, drafts, prefs, window, sampling, buffer, inFlight,
                     authError, failed, ops, failures>>
  BY TrendsAssumption DEF Pass, Typed, CountsTyped
<1>2. CountsTyped'
  BY <1>1 DEF Typed, CountsTyped
<1>3. WindowIn(window, ops, now + 1)
  BY <1>1, WindowLater DEF Typed
<1>4. WindowIn(window, ops, now)'
  BY <1>1, <1>3 DEF WindowIn
<1>5. SeriesTyped(variables)' /\ DraftsTyped' /\ PrefsTyped' /\ QueueTyped'
  BY <1>1 DEF Typed, SeriesTyped, DraftsTyped, PrefsTyped, QueueTyped
<1>6. FetchedOrFetching'
  BY <1>1 DEF FetchedOrFetching, Enabled, CurrentWindow
<1>7. QED
  BY <1>2, <1>4, <1>5, <1>6 DEF Typed

(* Requests are in flight only while the tab is mounted.                   *)
ClosedIsEmpty == ~open => inFlight = <<>>

LEMMA ClosedStep ==
  ASSUME Typed, ClosedIsEmpty, [Next]_vars PROVE ClosedIsEmpty'
<1>1. CASE UNCHANGED vars
  BY <1>1 DEF vars, ClosedIsEmpty
<1>2. ASSUME NEW i \in DOMAIN inFlight, Answer(i) PROVE ClosedIsEmpty'
  <2>1. open /\ open' = open
    BY <1>2 DEF ClosedIsEmpty, Answer, Data, Unauthorized, Fails
  <2>2. QED
    BY <2>1 DEF ClosedIsEmpty
<1>3. CASE Choices \/ Windows \/ Refresh \/ Tick \/ (open /\ Rows)
  <2>1. open /\ open' = open
    BY <1>3 DEF Choices, Windows, Refresh, Tick, Rows, ToggleVariable, UpdateAutoScale, SetEnabled,
       SetSampling, Chosen, Op, Live, CommitField, UpdateDraft, SetFilter, Table, SetTimeRange,
       ShiftWindow, ApplyCustomWindow, UseLiveWindow, Moved
  <2>2. QED
    BY <2>1 DEF ClosedIsEmpty
<1>4. CASE Glance \/ Close \/ Pass \/ \E list \in TagLists : Open(list)
  BY <1>4 DEF Glance, Close, Pass, Open, ClosedIsEmpty
<1>5. QED
  BY <1>1, <1>2, <1>3, <1>4 DEF Next

Inductive == Typed /\ FetchedOrFetching /\ ClosedIsEmpty

LEMMA TrendsStep == Inductive /\ [Next]_vars => Inductive'
<1> SUFFICES ASSUME Inductive, [Next]_vars PROVE Inductive'
  OBVIOUS
<1> USE DEF Inductive
<1>1. CASE UNCHANGED vars
  <2>1. UNCHANGED <<now, open, variables, drafts, prefs, window, sampling, buffer, inFlight,
                    authError, failed, ops, failures>>
    BY <1>1 DEF vars
  <2>2. Typed'
    BY <2>1 DEF Typed, CountsTyped, SeriesTyped, DraftsTyped, PrefsTyped, QueueTyped, WindowIn
  <2>3. FetchedOrFetching'
    BY <2>1 DEF FetchedOrFetching, Enabled, CurrentWindow
  <2>4. QED
    BY <2>2, <2>3, ClosedStep
<1>2. ASSUME NEW i \in DOMAIN inFlight, Answer(i) PROVE Typed' /\ FetchedOrFetching'
  <2>1. open = TRUE
    <3>1. open
      BY DEF ClosedIsEmpty
    <3>2. QED
      BY <3>1 DEF Typed, CountsTyped
  <2>2. QED
    BY <1>2, <2>1, DataKeeps, NoDataKeeps DEF Answer
<1>3. ASSUME NEW list \in TagLists, Open(list) PROVE Typed' /\ FetchedOrFetching'
  BY <1>3, OpenKeeps
<1>4. ClosedIsEmpty'
  BY ClosedStep
<1>5. CASE Next
  BY <1>2, <1>3, <1>4, <1>5, GlanceKeeps, CloseKeeps, ChoicesKeep, RowsKeep, WindowsKeep, RefreshKeeps, PassKeeps,
     TickKeeps DEF Next
<1>6. QED
  BY <1>1, <1>5

LEMMA TrendsInit == Init => Inductive
<1> SUFFICES ASSUME Init PROVE Inductive
  OBVIOUS
<1>1. /\ now = Start /\ open = FALSE /\ sampling = "best_fit" /\ inFlight = <<>>
      /\ authError = FALSE /\ failed = FALSE /\ ops = 0 /\ failures = 0
      /\ DOMAIN variables = {} /\ DOMAIN drafts = {}
  BY DEF Init, Nothing
<1>2. PICK r \in Ranges :
        /\ prefs = [range |-> r, chosen |-> Nothing]
        /\ window = [range |-> r, mode |-> "relative", end |-> now, live |-> TRUE,
                     from |-> now - r, to |-> now]
  BY DEF Init, NewWindow
<1>3. r \in Int /\ r > 0 /\ Start \in Int /\ MaxOps \in Int
  BY TrendsAssumption
<1>4. CountsTyped
  <2>1. now \in Start..MaxTime /\ ops \in 0..MaxOps /\ failures \in 0..MaxFailures
    <3>1. Start \in Nat /\ MaxTime \in Nat /\ Start <= MaxTime /\ MaxOps \in Nat /\ MaxFailures \in Nat
      BY TrendsAssumption
    <3>2. QED
      BY <1>1, <3>1
  <2>2. sampling \in Samplings /\ open \in BOOLEAN /\ authError \in BOOLEAN
    BY <1>1 DEF Samplings
  <2>3. QED
    BY <2>1, <2>2 DEF CountsTyped
<1>5. SeriesTyped(variables) /\ DraftsTyped
  BY <1>1 DEF SeriesTyped, DraftsTyped
<1>6. PrefsTyped
  BY <1>2 DEF PrefsTyped, Nothing
<1>7. window \in WindowType
  BY <1>1, <1>2, <1>3 DEF WindowType
<1>8. WindowIn(window, ops, now)
  BY <1>1, <1>2, <1>3, <1>7 DEF WindowIn
<1>9. QueueTyped
  BY <1>1, NoneQueued DEF QueueTyped
<1>10. FetchedOrFetching /\ ClosedIsEmpty
  BY <1>1 DEF FetchedOrFetching, ClosedIsEmpty
<1>11. QED
  BY <1>4, <1>5, <1>6, <1>8, <1>9, <1>10 DEF Inductive, Typed

(* Whatever the order of the answers, and wherever the window went         *)
(* meanwhile, a window the buffer does not reach has been asked for, or    *)
(* the request failed or was refused (TrendsTab.tsx, the effect that       *)
(* fetches when the window leaves the buffer).                             *)
THEOREM BufferFollowsWindow == Spec => []TrendsInv
<1>1. Inductive => TrendsInv
  BY TypedSuffices DEF Inductive, TrendsInv
<1>2. QED
  BY <1>1, TrendsInit, TrendsStep, PTL DEF Spec

-----------------------------------------------------------------------------
(* A row's draft holds fitted limits only as long as the series does: what *)
(* is typed goes into the draft first.                                     *)
DraftsFollow ==
  \A k \in DOMAIN drafts : variables[k].limits = "typed" => drafts[k] # "fitted"

(* What a step can do to typed limits, and to the drafts behind them.      *)
LimitsStep ==
  \/ ~open \/ ~open'
  \/ \A k \in DOMAIN variables : variables'[k].limits = variables[k].limits
  \/ \E k \in DOMAIN drafts :
       variables' = [variables EXCEPT ![k] = [variables[k] EXCEPT !.limits = drafts[k]]]
  \/ \E i \in DOMAIN inFlight : \A k \in DOMAIN variables :
       k \in inFlight[i].fits \/ variables'[k] = variables[k]

LEMMA ChosenLimits ==
  ASSUME Typed, NEW v, Chosen(v), \A k \in DOMAIN variables : v[k].limits = variables[k].limits
  PROVE  LimitsStep
BY DEF Chosen, LimitsStep

LEMMA DataLimits == ASSUME NEW i \in DOMAIN inFlight, Data(i) PROVE LimitsStep
<1>1. PICK fitted \in SUBSET inFlight[i].fits :
        variables' = [k \in DOMAIN variables |->
          IF k \in fitted THEN [variables[k] EXCEPT !.limits = "fitted"] ELSE variables[k]]
  BY DEF Data, Fitted
<1>2. \A k \in DOMAIN variables : k \in inFlight[i].fits \/ variables'[k] = variables[k]
  BY <1>1
<1>3. QED
  BY <1>2 DEF LimitsStep

LEMMA NextLimits == ASSUME Typed, Next PROVE LimitsStep
<1>1. ASSUME NEW i \in DOMAIN inFlight, Answer(i) PROVE LimitsStep
  BY <1>1, DataLimits DEF Answer, Unauthorized, Fails, LimitsStep
<1>2. CASE Choices
  <2>1. \A k \in DOMAIN variables : variables[k] \in VariableType
    BY DEF Typed, SeriesTyped
  <2>2. ASSUME NEW k \in DOMAIN variables, ToggleVariable(k) \/ UpdateAutoScale(k) PROVE LimitsStep
    <3>1. CASE ToggleVariable(k)
      BY <2>1, <3>1, ChosenLimits DEF ToggleVariable, VariableType
    <3>2. CASE UpdateAutoScale(k)
      BY <2>1, <3>2, ChosenLimits DEF UpdateAutoScale, VariableType
    <3>3. QED
      BY <2>2, <3>1, <3>2
  <2>3. ASSUME NEW chosen \in Presets, SetEnabled(chosen) PROVE LimitsStep
    BY <2>1, <2>3, ChosenLimits DEF SetEnabled, VariableType
  <2>4. ASSUME NEW s \in Samplings, SetSampling(s) PROVE LimitsStep
    BY <2>4 DEF SetSampling, LimitsStep
  <2>5. QED
    BY <1>2, <2>2, <2>3, <2>4 DEF Choices
<1>3. CASE Rows
  <2>1. ASSUME NEW k \in DOMAIN drafts, CommitField(k) PROVE LimitsStep
    BY <2>1 DEF CommitField, Chosen, LimitsStep
  <2>2. ASSUME NEW k \in DOMAIN drafts, NEW text, UpdateDraft(k, text) PROVE LimitsStep
    BY <2>2 DEF UpdateDraft, Table, LimitsStep
  <2>3. ASSUME NEW rows, SetFilter(rows) PROVE LimitsStep
    BY <2>3 DEF SetFilter, Table, LimitsStep
  <2>4. QED
    BY <1>3, <2>1, <2>2, <2>3 DEF Rows
<1>4. CASE Windows
  BY <1>4 DEF Windows, SetTimeRange, ShiftWindow, ApplyCustomWindow, UseLiveWindow, Moved, LimitsStep
<1>5. CASE Refresh \/ Tick \/ Pass
  BY <1>5 DEF Refresh, Tick, Pass, LimitsStep
<1>6. CASE Glance \/ Close \/ \E list \in TagLists : Open(list)
  BY <1>6 DEF Glance, Close, Open, LimitsStep
<1>7. QED
  BY <1>1, <1>2, <1>3, <1>4, <1>5, <1>6 DEF Next

(* What a step does to typed limits is then what the property allows.      *)
LEMMA LimitsKept ==
  ASSUME Typed, DraftsFollow, LimitsStep, NEW k \in DOMAIN variables, open, open',
         variables[k].limits = "typed", variables'[k].limits = "fitted"
  PROVE  \E i \in DOMAIN inFlight : k \in inFlight[i].fits
<1>1. CASE \A n \in DOMAIN variables : variables'[n].limits = variables[n].limits
  BY <1>1
<1>2. ASSUME NEW n \in DOMAIN drafts,
             variables' = [variables EXCEPT ![n] = [variables[n] EXCEPT !.limits = drafts[n]]]
      PROVE  FALSE
  <2>1. variables[n] \in VariableType /\ n \in DOMAIN variables
    BY DEF Typed, SeriesTyped, DraftsTyped
  <2>2. variables'[n].limits = drafts[n]
    BY <1>2, <2>1 DEF VariableType
  <2>3. k # n => variables'[k] = variables[k]
    BY <1>2
  <2>4. QED
    BY <2>2, <2>3 DEF DraftsFollow
<1>3. CASE \E i \in DOMAIN inFlight : \A n \in DOMAIN variables :
             n \in inFlight[i].fits \/ variables'[n] = variables[n]
  BY <1>3
<1>4. QED
  BY <1>1, <1>2, <1>3 DEF LimitsStep

LEMMA SameDraftsFollow ==
  ASSUME Typed, DraftsFollow, drafts' = drafts,
         \A k \in DOMAIN variables : variables'[k].limits \in {variables[k].limits, "fitted"}
  PROVE  DraftsFollow'
<1>1. DOMAIN drafts \subseteq DOMAIN variables
  BY DEF Typed, DraftsTyped
<1>2. QED
  BY <1>1 DEF DraftsFollow

LEMMA FollowStep == ASSUME Typed, DraftsFollow, Next PROVE DraftsFollow'
<1>1. \A k \in DOMAIN variables : variables[k] \in VariableType
  BY DEF Typed, SeriesTyped
<1>2. DOMAIN drafts \subseteq DOMAIN variables
  BY DEF Typed, DraftsTyped
<1>3. ASSUME NEW i \in DOMAIN inFlight, Answer(i) PROVE DraftsFollow'
  <2>1. CASE Data(i)
    <3>1. PICK fitted \in SUBSET Fitted(inFlight[i]) :
            variables' = [k \in DOMAIN variables |->
              IF k \in fitted THEN [variables[k] EXCEPT !.limits = "fitted"] ELSE variables[k]]
      BY <2>1 DEF Data
    <3>2. \A k \in DOMAIN variables : variables'[k].limits \in {variables[k].limits, "fitted"}
      BY <1>1, <3>1 DEF VariableType
    <3>3. QED
      BY <2>1, <3>2, SameDraftsFollow DEF Data
  <2>2. CASE Unauthorized(i) \/ Fails(i)
    BY <2>2 DEF Unauthorized, Fails, DraftsFollow
  <2>3. QED
    BY <1>3, <2>1, <2>2 DEF Answer
<1>4. CASE Choices
  <2>1. ASSUME NEW k \in DOMAIN variables, ToggleVariable(k) PROVE DraftsFollow'
    <3>1. \A n \in DOMAIN variables : variables'[n].limits = variables[n].limits
      BY <1>1, <2>1 DEF ToggleVariable, Chosen, VariableType
    <3>2. QED
      BY <2>1, <3>1, SameDraftsFollow DEF ToggleVariable, Chosen
  <2>2. ASSUME NEW k \in DOMAIN variables, UpdateAutoScale(k) PROVE DraftsFollow'
    <3>1. \A n \in DOMAIN variables : variables'[n].limits = variables[n].limits
      BY <1>1, <2>2 DEF UpdateAutoScale, Chosen, VariableType
    <3>2. QED
      BY <2>2, <3>1, SameDraftsFollow DEF UpdateAutoScale, Chosen
  <2>3. ASSUME NEW chosen \in Presets, SetEnabled(chosen) PROVE DraftsFollow'
    <3>1. \A n \in DOMAIN variables : variables'[n].limits = variables[n].limits
      BY <1>1, <2>3 DEF SetEnabled, Chosen, VariableType
    <3>2. QED
      BY <2>3, <3>1, SameDraftsFollow DEF SetEnabled, Chosen
  <2>4. ASSUME NEW s \in Samplings, SetSampling(s) PROVE DraftsFollow'
    BY <2>4 DEF SetSampling, DraftsFollow
  <2>5. QED
    BY <1>4, <2>1, <2>2, <2>3, <2>4 DEF Choices
<1>5. CASE Rows
  <2>1. ASSUME NEW k \in DOMAIN drafts, CommitField(k) PROVE DraftsFollow'
    <3>1. /\ drafts' = drafts
          /\ variables' = [variables EXCEPT ![k] = [variables[k] EXCEPT !.limits = drafts[k]]]
      BY <2>1 DEF CommitField, Chosen
    <3>2. variables'[k].limits = drafts[k]
      BY <1>1, <1>2, <3>1 DEF VariableType
    <3>3. \A n \in DOMAIN drafts : n # k => variables'[n] = variables[n]
      BY <1>2, <3>1
    <3>4. QED
      BY <3>1, <3>2, <3>3 DEF DraftsFollow
  <2>2. ASSUME NEW k \in DOMAIN drafts, NEW text \in {"none", "typed"}, UpdateDraft(k, text)
        PROVE  DraftsFollow'
    BY <2>2 DEF UpdateDraft, Table, DraftsFollow
  <2>3. ASSUME NEW rows, SetFilter(rows) PROVE DraftsFollow'
    BY <2>3 DEF SetFilter, Table, DraftsFollow
  <2>4. QED
    BY <1>5, <2>1, <2>2, <2>3 DEF Rows
<1>6. CASE Windows
  BY <1>6 DEF Windows, SetTimeRange, ShiftWindow, ApplyCustomWindow, UseLiveWindow, Moved, DraftsFollow
<1>7. CASE Refresh \/ Tick \/ Pass \/ Close
  BY <1>7 DEF Refresh, Tick, Pass, Close, DraftsFollow
<1>8. ASSUME Glance \/ \E list \in TagLists : Open(list) PROVE DraftsFollow'
  BY <1>8 DEF Glance, Nothing, Open, DraftsFollow
<1>9. QED
  BY <1>3, <1>4, <1>5, <1>6, <1>7, <1>8 DEF Next

(* Limits the user typed for a series give way to fitted ones only by an   *)
(* answer to a request made while that series scaled itself, however       *)
(* answers, filters of the table and edits of its rows interleave          *)
(* (TrendsTab.tsx, commitField and the fit of an answer).                  *)
THEOREM TypedLimitsStay == Spec => TypedLimitsKept
<1>1. Init => DraftsFollow
  BY DEF Init, Nothing, DraftsFollow
<1>2. Inductive /\ DraftsFollow /\ [Next]_vars => DraftsFollow'
  <2> SUFFICES ASSUME Inductive, DraftsFollow, [Next]_vars PROVE DraftsFollow'
    OBVIOUS
  <2>1. CASE UNCHANGED vars
    BY <2>1 DEF vars, DraftsFollow
  <2>2. CASE Next
    BY <2>2, FollowStep DEF Inductive
  <2>3. QED
    BY <2>1, <2>2
<1>3. Inductive /\ DraftsFollow /\ [Next]_vars
        => [\A k \in DOMAIN variables :
              open /\ open' /\ variables[k].limits = "typed" /\ variables'[k].limits = "fitted" =>
                \E i \in DOMAIN inFlight : k \in inFlight[i].fits]_vars
  <2> SUFFICES ASSUME Inductive, DraftsFollow, Next, NEW k \in DOMAIN variables, open, open',
                      variables[k].limits = "typed", variables'[k].limits = "fitted"
               PROVE  \E i \in DOMAIN inFlight : k \in inFlight[i].fits
    OBVIOUS
  <2>1. LimitsStep
    BY NextLimits DEF Inductive
  <2>2. QED
    BY <2>1, LimitsKept DEF Inductive
<1>4. QED
  BY <1>1, <1>2, <1>3, TrendsInit, TrendsStep, PTL DEF Spec, TypedLimitsKept

-----------------------------------------------------------------------------
(* Local storage holds the length of the window and the choice of the last *)
(* render, the one for which the tab was drawn only to be taken away       *)
(* included.                                                               *)
StorageFollows ==
  /\ prefs.range = window.range
  /\ DOMAIN prefs.chosen = DOMAIN variables
  /\ \A k \in DOMAIN variables : /\ prefs.chosen[k].enabled = variables[k].enabled
                                 /\ prefs.chosen[k].auto = variables[k].auto

LEMMA SavedStores == ASSUME Saved PROVE StorageFollows'
BY DEF Saved, StorageFollows

LEMMA StorageStep == StorageFollows /\ [Next]_vars => StorageFollows'
<1> SUFFICES ASSUME StorageFollows, [Next]_vars PROVE StorageFollows'
  OBVIOUS
<1>1. CASE Saved
  BY <1>1, SavedStores
<1>2. ASSUME UNCHANGED <<prefs, window, variables>> PROVE StorageFollows'
  BY <1>2 DEF StorageFollows
<1>3. CASE UNCHANGED vars
  BY <1>2, <1>3 DEF vars
<1>4. ASSUME NEW i \in DOMAIN inFlight, Answer(i) PROVE StorageFollows'
  BY <1>1, <1>2, <1>4 DEF Answer, Data, Unauthorized, Fails
<1>5. CASE Choices
  BY <1>1, <1>5 DEF Choices, ToggleVariable, UpdateAutoScale, SetEnabled, SetSampling, Chosen
<1>6. CASE Rows
  BY <1>1, <1>2, <1>6 DEF Rows, CommitField, Chosen, UpdateDraft, SetFilter, Table
<1>7. CASE Windows
  BY <1>1, <1>7 DEF Windows, SetTimeRange, ShiftWindow, ApplyCustomWindow, UseLiveWindow, Moved
<1>8. CASE Refresh \/ Tick \/ Glance \/ \E list \in TagLists : Open(list)
  BY <1>1, <1>8 DEF Refresh, Tick, Glance, Open
<1>9. CASE Close \/ Pass
  BY <1>2, <1>9 DEF Close, Pass
<1>10. QED
  BY <1>3, <1>4, <1>5, <1>6, <1>7, <1>8, <1>9 DEF Next

(* Only mounting the tab opens it.                                         *)
LEMMA OpenedByOpen ==
  ASSUME Next, ~open, open' PROVE \E list \in TagLists : Open(list)
<1>1. ASSUME NEW i \in DOMAIN inFlight, Answer(i) PROVE FALSE
  BY <1>1 DEF Answer, Data, Unauthorized, Fails
<1>2. CASE Choices \/ Windows \/ Refresh \/ Tick
  BY <1>2 DEF Choices, Windows, Refresh, Tick, ToggleVariable, UpdateAutoScale, SetEnabled,
     SetSampling, Chosen, Op, Live, SetTimeRange, ShiftWindow, ApplyCustomWindow,
     UseLiveWindow, Moved
<1>3. CASE Glance \/ Close \/ Pass \/ (open /\ Rows)
  BY <1>3 DEF Glance, Close, Pass
<1>4. QED
  BY <1>1, <1>2, <1>3 DEF Next

LEMMA OpenRestores ==
  ASSUME StorageFollows, NEW list \in TagLists, Open(list)
  PROVE  /\ window'.range = window.range
         /\ DOMAIN variables' = DOMAIN variables => Choice' = Choice
<1>1. window'.range = window.range
  BY DEF StorageFollows, Open, NewWindow
<1>2. SUFFICES ASSUME DOMAIN variables' = DOMAIN variables PROVE Choice' = Choice
  BY <1>1
<1>3. variables' = Variables(list) /\ list = DOMAIN variables
  BY <1>2 DEF Open, Variables
<1>4. ASSUME NEW k \in DOMAIN variables
      PROVE  /\ variables'[k].enabled = variables[k].enabled
             /\ variables'[k].auto = variables[k].auto
  <2>1. variables'[k] = [enabled |-> prefs.chosen[k].enabled, auto |-> prefs.chosen[k].auto,
                         limits |-> "none"]
    BY <1>3 DEF StorageFollows, Variables
  <2>2. QED
    BY <2>1 DEF StorageFollows
<1>5. QED
  BY <1>2, <1>4 DEF Choice

(* The length of the window comes back when the tab is mounted again; the  *)
(* series chosen and which of them scale themselves do so when the series  *)
(* are those of the last render, whatever answers, failures, edits and     *)
(* timers came in between (TrendsTab.tsx, the effect that saves the        *)
(* preferences).  A render without series, as App causes before it loads a *)
(* model, is a last render too, and after it the choice is gone.           *)
THEOREM ChoiceComesBack == Spec => SelectionSurvives
<1>1. Init => StorageFollows
  BY DEF Init, NewWindow, Nothing, StorageFollows
<1>2. StorageFollows /\ [Next]_vars
        => [~open /\ open' =>
              /\ window'.range = window.range
              /\ DOMAIN variables' = DOMAIN variables => Choice' = Choice]_vars
  BY OpenedByOpen, OpenRestores
<1>3. QED
  BY <1>1, <1>2, StorageStep, PTL DEF Spec, SelectionSurvives
=============================================================================
