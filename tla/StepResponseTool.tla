-------------------------- MODULE StepResponseTool --------------------------
(***************************************************************************)
(* The step response tab of the model generator                            *)
(* (components/StepResponseTool.tsx): it loads recorded series, finds the  *)
(* step of an input or takes one from the user, has the HMI calculate the  *)
(* responses of controlled variables (web_routes.rs), and writes them to a *)
(* file.  Leaving the tab forgets everything.                              *)
(*                                                                         *)
(* Times are instants.  A series is the sequence of its points, and stands *)
(* for OP of an MV and PV of a DV; of a CV only its having points counts.  *)
(* Curves, and messages to the user, are left out.                         *)
(***************************************************************************)
EXTENDS ModelEditor, SequencesExt

CONSTANTS
  History,    \* recorded points of each input: [at, value]
  CvTimes,    \* times at which every CV has a point
  Times,      \* times a user may enter
  Baselines,  \* durations of a baseline; the first is the page's
  FirstBaseline,
  Hour, Zone, \* an hour, and what local time is ahead of UTC
  Threshold,  \* the change that is not yet a step, 0.5
  Shortly,    \* the ten seconds after a step
  ToolOpens,  \* bound: operations of the editor before the tab is opened
  MaxToolOps  \* bound: operations on the tab

ASSUME ToolAssumption ==
  /\ History \in [InputTags -> Seq([at : Nat, value : Int])]
  /\ \A x \in InputTags : \A i, j \in DOMAIN History[x] : i < j => History[x][i].at < History[x][j].at
  /\ CvTimes \subseteq Nat /\ Times \subseteq Nat
  /\ Baselines \subseteq Nat \ {0} /\ FirstBaseline \in Baselines
  /\ Hour \in Nat /\ Zone \in Int /\ Threshold \in Nat /\ Shortly \in Nat \ {0}
  /\ ToolOpens \in Nat /\ MaxToolOps \in Nat

VARIABLES
  opened,    \* the tab is mounted
  form,      \* start and end of the range, input, CVs, step time, baseline
  truncated, \* baselineTruncated
  loading,   \* the load under way, or None
  data,      \* historicalData: the input it holds, its points, the CVs
  calcs,     \* calculations under way
  result,    \* calculatedResponse: what it was calculated from
  file,      \* the last file exported
  detected,  \* the points in which the step time of the form was found
  rechosen,  \* an input was chosen after a calculation was asked for
  toolOps    \* operations so far

toolVars == <<opened, form, truncated, loading, data, calcs, result, file, detected, rechosen, toolOps>>

EmptyForm == [start |-> None, end |-> None, input |-> None, cvs |-> {}, step |-> None,
              baseline |-> FirstBaseline]
NoData == [input |-> None, points |-> <<>>, cvs |-> {}]

-----------------------------------------------------------------------------
(* The step: the first of the largest changes from one point to the next.  *)
Change(ps, i) == IF ps[i].value > ps[i-1].value THEN ps[i].value - ps[i-1].value
                                                ELSE ps[i-1].value - ps[i].value
BadLargest(ps) ==
  LET best[i \in 1..Len(ps)] ==
        IF i = 1 THEN [change |-> 0, at |-> 1]
        ELSE IF Change(ps, i) >= best[i-1].change THEN [change |-> Change(ps, i), at |-> i] ELSE best[i-1]
  IN  best[Len(ps)]
Largest(ps) ==
  LET best[i \in 1..Len(ps)] ==
        IF i = 1 THEN [change |-> 0, at |-> 1]
        ELSE IF Change(ps, i) > best[i-1].change THEN [change |-> Change(ps, i), at |-> i] ELSE best[i-1]
  IN  best[Len(ps)]
Detects(ps) == Len(ps) >= 2 /\ Largest(ps).change > Threshold
StepOf(ps) == ps[Largest(ps).at].at

-----------------------------------------------------------------------------
(* The HMI: the points of a range, and whether a response can be           *)
(* calculated from points on both sides of the step.                       *)
Between(ps, from, to) == Kept(ps, {p \in Elems(ps) : from <= p.at /\ p.at < to})
Total(ps) == FoldSeq(LAMBDA p, sum : p.value + sum, 0, ps)
Calculable(c) ==
  LET before == Between(c.points, c.step - c.baseline, c.step)
      after == Between(c.points, c.step, c.step + Shortly)
  IN  /\ before # <<>> /\ after # <<>>
      /\ Total(after) * Len(before) # Total(before) * Len(after)

(* A series the historian fails on is missing from the answer.             *)
Answered(l, nodes) ==
  [input |-> l.input, cvs |-> {c \in l.cvs \cap nodes : \E t \in CvTimes : l.start <= t /\ t < l.end},
   points |-> IF l.input \in nodes THEN Between(History[l.input], l.start, l.end) ELSE <<>>]

-----------------------------------------------------------------------------
(* What the user does.  An effect follows start, step time and baseline.   *)
Truncates(f) == f.start # None /\ f.step # None /\ f.step - f.baseline < f.start

ToolStep == opened /\ toolOps < MaxToolOps /\ toolOps' = toolOps + 1 /\ UNCHANGED opened
Fill(f) ==
  /\ ToolStep /\ form' = f /\ truncated' = Truncates(f)
  /\ UNCHANGED <<loading, data, calcs, result, file>>
FillOther(f) == Fill(f) /\ UNCHANGED <<detected, rechosen>>

(* The end an hour later is written in UTC and read in local time.         *)
SetStart(t) ==
  FillOther([form EXCEPT !.start = t, !.end = IF @ = None THEN t + Hour - Zone ELSE @])
SetEnd(t) == FillOther([form EXCEPT !.end = t])
SetInput(x) ==
  /\ Fill([form EXCEPT !.input = x]) /\ UNCHANGED detected
  /\ rechosen' = (rechosen \/ calcs # {} \/ result # None)
ToggleCV(c) ==
  FillOther([form EXCEPT !.cvs = IF c \in @ THEN @ \ {c} ELSE @ \cup {c}])

(* On the chart, or in its field.                                          *)
HasData == data.points # <<>> \/ data.cvs # {}
SetStep(t) ==
  HasData /\ Fill([form EXCEPT !.step = t]) /\ detected' = <<>> /\ UNCHANGED rechosen
SetBaseline(d) == HasData /\ FillOther([form EXCEPT !.baseline = d])

LoadData ==
  /\ loading = None /\ None \notin {form.start, form.end, form.input} /\ form.cvs # {}
  /\ ToolStep /\ loading' = [start |-> form.start, end |-> form.end, input |-> form.input, cvs |-> form.cvs]
  /\ UNCHANGED <<form, truncated, data, calcs, result, file, detected, rechosen>>

Calculate ==
  /\ form.step # None /\ form.input = data.input /\ data.points # <<>> /\ form.cvs \subseteq data.cvs
  /\ ToolStep
  /\ calcs' = calcs \cup {[input |-> form.input, cvs |-> form.cvs, points |-> data.points,
                           step |-> form.step, baseline |-> form.baseline]}
  /\ UNCHANGED <<form, truncated, loading, data, result, file, detected, rechosen>>

ExportToJSON ==
  /\ result # None /\ ToolStep
  /\ file' = [input |-> form.input, from |-> result]
  /\ UNCHANGED <<form, truncated, loading, data, calcs, result, detected, rechosen>>

-----------------------------------------------------------------------------
(* What is answered, to the tab as it was when it asked.                   *)
HearData ==
  /\ loading # None /\ loading' = None
  /\ \E nodes \in SUBSET (loading.cvs \cup {loading.input}) :
       LET d == Answered(loading, nodes)
           f == IF Detects(d.points) THEN [form EXCEPT !.step = StepOf(d.points)] ELSE form
       IN  /\ data' = d /\ form' = f /\ truncated' = Truncates(f)
           /\ detected' = IF Detects(d.points) THEN d.points ELSE detected
  /\ UNCHANGED <<opened, calcs, result, file, rechosen, toolOps>>
DataFails ==
  /\ loading # None /\ loading' = None
  /\ UNCHANGED <<opened, form, truncated, data, calcs, result, file, detected, rechosen, toolOps>>

HearResponse(c) ==
  /\ Calculable(c) /\ calcs' = calcs \ {c}
  /\ result' = [input |-> c.input, cvs |-> c.cvs, step |-> c.step]
  /\ UNCHANGED <<opened, form, truncated, loading, data, file, detected, rechosen, toolOps>>
ResponseFails(c) ==
  /\ calcs' = calcs \ {c}
  /\ UNCHANGED <<opened, form, truncated, loading, data, result, file, detected, rechosen, toolOps>>

-----------------------------------------------------------------------------
ToolIsNew ==
  /\ form' = EmptyForm /\ truncated' = FALSE /\ loading' = None /\ data' = NoData
  /\ calcs' = {} /\ result' = None /\ file' = None /\ detected' = <<>> /\ rechosen' = FALSE
  /\ toolOps' = 0
OpenTool == ~opened /\ ops = ToolOpens /\ reading = {} /\ ~deploying /\ opened' = TRUE /\ ToolIsNew
LeaveTool == opened /\ opened' = FALSE /\ ToolIsNew

ToolInit ==
  /\ opened = FALSE /\ form = EmptyForm /\ truncated = FALSE /\ loading = None /\ data = NoData
  /\ calcs = {} /\ result = None /\ file = None /\ detected = <<>> /\ rechosen = FALSE /\ toolOps = 0

UseTool ==
  \/ \E t \in Times : SetStart(t) \/ SetEnd(t) \/ SetStep(t)
  \/ \E x \in Elems(model.mvs) \cup Elems(model.dvs) \cup {None} : SetInput(x)
  \/ \E c \in Elems(model.cvs) : ToggleCV(c)
  \/ \E d \in Baselines : SetBaseline(d)
  \/ LoadData \/ Calculate \/ ExportToJSON
ToolAnswers ==
  HearData \/ DataFails \/ \E c \in calcs : HearResponse(c) \/ ResponseFails(c)
ToolNext == OpenTool \/ LeaveTool \/ UseTool \/ ToolAnswers

(* The tabs of the editor and this one are not shown together.             *)
GeneratorInit == Init /\ ToolInit
GeneratorNext == (~opened /\ Next /\ UNCHANGED toolVars) \/ (ToolNext /\ UNCHANGED vars)
GeneratorSpec == GeneratorInit /\ [][GeneratorNext]_<<vars, toolVars>>

-----------------------------------------------------------------------------
IsFirstLargest(ps, k) ==
  /\ k \in 2..Len(ps) /\ Change(ps, k) > Threshold
  /\ \A j \in 2..Len(ps) : Change(ps, j) <= Change(ps, k) /\ (j < k => Change(ps, j) < Change(ps, k))

(* A step time that the tool found, whatever loads and choices followed,   *)
(* is where the input first changed most, by more than the threshold       *)
(* (autoDetectStep); the warning of a short baseline is there exactly when *)
(* the baseline begins before the range (the effect); an exported file     *)
(* names the input its responses were calculated for, unless another was   *)
(* chosen since (exportToJSON).                                            *)
ToolInv ==
  /\ detected # <<>> =>
       \E k \in DOMAIN detected : IsFirstLargest(detected, k) /\ form.step = detected[k].at
  /\ truncated = (/\ form.start # None /\ form.step # None
                  /\ form.step < form.start + form.baseline)
  /\ file # None /\ ~rechosen => file.input = file.from.input
=============================================================================
