---------------------------- MODULE ModelEditor ----------------------------
(***************************************************************************)
(* The model generator of the front end (components/ModelGenerator.tsx):   *)
(* tables of controlled, manipulated and disturbance variables, and the    *)
(* matrices that hold, for every pair of a controlled variable and an      *)
(* input, what was identified for that pair.  The tables and the matrices  *)
(* are separate arrays; only their indices relate them.                    *)
(*                                                                         *)
(* A datum is the pair it was identified for, so that a datum at the wrong *)
(* indices can be told.  Gain, time constant and dead time are edited side *)
(* by side by the same code and stand here as one matrix, gain; a curve is *)
(* one datum.  Fields that are not an index, a name or the optional target *)
(* of an MV are left out.                                                  *)
(*                                                                         *)
(* Files are read, and models fetched, asynchronously: the handler goes on *)
(* with the model of the render in which it was called.                    *)
(***************************************************************************)
EXTENDS Integers, Sequences, FiniteSets, Filtering

CONSTANTS
  CvTags,     \* names of controlled variables
  InputTags,  \* names of manipulated and disturbance variables
  Zero,       \* the datum of a pair nothing is known about
  None,       \* no curve, no file, no handler's model
  MdlFiles,   \* legacy files a user may choose
  JsonFiles,  \* files of the step response tool
  MaxVars,    \* bound: variables of each table
  MaxOps      \* bound: operations of the user and answers

ASSUME EditorAssumption ==
  /\ MaxVars \in Nat /\ MaxOps \in Nat
  /\ None \notin (CvTags \X InputTags) \cup {Zero}
  /\ MdlFiles \subseteq [cvs : Seq(CvTags), mvs : Seq(InputTags),
                         blocks : Seq([cv : CvTags \cup {None}, mvs : SUBSET InputTags])]
  /\ \A f \in MdlFiles : \A j \in 1..(Len(f.blocks) - 1) :
       f.blocks[j].cv \in CvTags => f.blocks[j].cv # f.blocks[j + 1].cv
  /\ JsonFiles \subseteq [input : InputTags, type : {"MV", "DV"}, cvs : Seq(CvTags)]

VARIABLES
  model,     \* the model being edited
  disk,      \* the last model file downloaded or sent to a supervisor
  reading,   \* files being read and models being fetched
  deploying, \* isDeploying
  ops        \* operations so far

vars == <<model, disk, reading, deploying, ops>>

Modes == {"parametric", "step_response"}
Entries == (CvTags \X InputTags) \cup {Zero, None}

-----------------------------------------------------------------------------
(* Arrays.                                                                 *)
Without(s, i) == [j \in 1..(Len(s) - 1) |-> IF j < i THEN s[j] ELSE s[j + 1]]
Row(mat, r) == IF r \in DOMAIN mat THEN mat[r] ELSE <<>>
Cell(mat, r, c, default) == IF c \in DOMAIN Row(mat, r) THEN mat[r][c] ELSE default

Resize(mat, rows, cols) == [r \in 1..rows |-> [c \in 1..cols |-> Cell(mat, r, c, Zero)]]

(* filter on every row of the matrix: a row too short loses nothing.       *)
WithoutColumn(mat, i) ==
  [r \in 1..Len(mat) |-> IF i \in DOMAIN mat[r] THEN Without(mat[r], i) ELSE mat[r]]

(* One column of a matrix appended to every CV's row of another.           *)
WithColumn(mat, from, i, rows, default) ==
  [r \in 1..rows |-> Append(Row(mat, r), Cell(from, r, i, default))]

Index(s, x) == CHOOSE i \in DOMAIN s : s[i] = x
Elems(s) == {s[i] : i \in DOMAIN s}

Larger(a, b) == IF a > b THEN a ELSE b

-----------------------------------------------------------------------------
(* The tables.                                                             *)
UpdateMatrixSize(m, cvs, mvs, dvs) ==
  [m EXCEPT !.cvs = cvs, !.mvs = mvs, !.dvs = dvs,
            !.gain = Resize(@, Len(cvs), Len(mvs)),
            !.gainDv = Resize(@, Len(cvs), Len(dvs))]

(* Curves follow the move in step response mode only.                      *)
MovesCurves(m) == m.mode = "step_response" /\ m.loaded

BadMoveMvToDv(m, i) ==
  [m EXCEPT !.mvs = Without(@, i), !.dvs = Append(@, m.mvs[i]),
            !.gain = WithoutColumn(@, i),
            !.gainDv = WithColumn(@, WithoutColumn(m.gain, i), i, Len(m.cvs), Zero),
            !.step = IF MovesCurves(m) THEN WithoutColumn(@, i) ELSE @,
            !.stepDv = IF MovesCurves(m) THEN WithColumn(@, m.step, i, Len(m.cvs), None) ELSE @]
MoveMvToDv(m, i) ==
  [m EXCEPT !.mvs = Without(@, i), !.dvs = Append(@, m.mvs[i]),
            !.gain = WithoutColumn(@, i),
            !.gainDv = WithColumn(@, m.gain, i, Len(m.cvs), Zero),
            !.step = IF MovesCurves(m) THEN WithoutColumn(@, i) ELSE @,
            !.stepDv = IF MovesCurves(m) THEN WithColumn(@, m.step, i, Len(m.cvs), None) ELSE @]

MoveDvToMv(m, i) ==
  [m EXCEPT !.dvs = Without(@, i), !.mvs = Append(@, m.dvs[i]),
            !.gainDv = WithoutColumn(@, i),
            !.gain = WithColumn(@, m.gainDv, i, Len(m.cvs), Zero),
            !.step = IF MovesCurves(m) THEN WithColumn(@, m.stepDv, i, Len(m.cvs), None) ELSE @,
            !.stepDv = IF MovesCurves(m) THEN WithoutColumn(@, i) ELSE @]

-----------------------------------------------------------------------------
(* Model files: the matrices of the mode in use, the target of an MV that  *)
(* has one with a positive weight.                                         *)
HasTarget(m) == m.targets \cap Elems(m.mvs)

GenerateJson(m) ==
  [mode |-> m.mode, cvs |-> m.cvs, mvs |-> m.mvs, dvs |-> m.dvs, targets |-> HasTarget(m),
   gain   |-> IF m.mode = "parametric" THEN m.gain ELSE <<>>,
   gainDv |-> IF m.mode = "parametric" THEN m.gainDv ELSE <<>>,
   step   |-> IF m.mode = "step_response" THEN m.step ELSE <<>>,
   stepDv |-> IF m.mode = "step_response" THEN m.stepDv ELSE <<>>]

LoadedModel(f) ==
  [mode |-> f.mode, cvs |-> f.cvs, mvs |-> f.mvs, dvs |-> f.dvs, targets |-> f.targets,
   gain |-> f.gain, gainDv |-> f.gainDv, loaded |-> f.step # <<>>,
   step |-> f.step, stepDv |-> IF f.step # <<>> THEN f.stepDv ELSE <<>>]

(* Loading shows the model of the file, its matrices brought to size.      *)
BadLoad(f) == LoadedModel(f)
Load(f) == UpdateMatrixSize(LoadedModel(f), f.cvs, f.mvs, f.dvs)

(* The nodes the OPC UA server is told to create, and the nodes the model  *)
(* file makes the engine look for.                                         *)
MvNodes(m) == (Elems(m.mvs) \X {"SP", "OP", "PV", "Mode", "ModeTarget", "FuturePlan", "Limits"})
              \cup (HasTarget(m) \X {"Target"})
GenerateYaml(m) ==
  (Elems(m.cvs) \X {"PV", "Target", "Prediction", "Limits"}) \cup MvNodes(m)
  \cup (Elems(m.dvs) \X {"PV", "Limits"})

NodeIds(f) ==
  (Elems(f.cvs) \X {"PV", "Target", "Prediction", "Limits"})
  \cup (Elems(f.mvs) \X {"PV", "SP", "OP", "Mode", "ModeTarget", "FuturePlan", "Limits"})
  \cup (f.targets \X {"Target"})
  \cup (Elems(f.dvs) \X {"PV", "Limits"})

(* The engine's loader: the numbers of rows and columns it insists on, and *)
(* that no curve is missing.  It insists as well that every curve is as    *)
(* long as the horizon of the file; the length of curves is left out.      *)
CountsMatch(f) ==
  IF f.mode = "parametric"
  THEN Len(f.gain) = Len(f.cvs) /\ \A r \in 1..Len(f.gain) : Len(f.gain[r]) >= Len(f.mvs)
  ELSE /\ Len(f.step) = Len(f.cvs)
       /\ \A r \in 1..Len(f.step) : Len(f.step[r]) = Len(f.mvs) /\ None \notin Elems(f.step[r])
       /\ f.stepDv # <<>> =>
            /\ Len(f.stepDv) = Len(f.cvs)
            /\ \A r \in 1..Len(f.stepDv) :
                 Len(f.stepDv[r]) = Len(f.dvs) /\ None \notin Elems(f.stepDv[r])

-----------------------------------------------------------------------------
(* Imported responses.  A file of the step response tool holds the         *)
(* responses of some CVs to one input.                                     *)
Padded(mat, rows, cols) ==
  [r \in 1..Larger(Len(mat), rows) |->
    [c \in 1..Larger(Len(Row(mat, r)), cols) |-> Cell(mat, r, c, Zero)]]

WithInput(inputs, x) == IF x \in Elems(inputs) THEN inputs ELSE Append(inputs, x)
NewCvs(m, f) == Kept(f.cvs, CvTags \ Elems(m.cvs))

(* Rows for the responses of the file first, then one for every new CV.    *)
BadRowsFor(mat, m, f, cols) == Padded(mat, Len(f.cvs), cols)
RowsFor(mat, m, f, cols) ==
  LET n == Larger(Len(m.cvs), Len(f.cvs))
  IN  Padded(mat, Larger(Len(mat), n) + Len(NewCvs(m, f)), cols)

Merged(mat, cvs, f, col) ==
  [r \in 1..Len(mat) |->
    IF r <= Len(cvs) /\ cvs[r] \in Elems(f.cvs)
    THEN [mat[r] EXCEPT ![col] = <<cvs[r], f.input>>] ELSE mat[r]]

ImportJson(m, f) ==
  LET cvs == m.cvs \o NewCvs(m, f)
      mvs == IF f.type = "MV" THEN WithInput(m.mvs, f.input) ELSE m.mvs
      dvs == IF f.type = "DV" THEN WithInput(m.dvs, f.input) ELSE m.dvs
      step == RowsFor(m.step, m, f, Len(mvs))
      stepDv == RowsFor(m.stepDv, m, f, Len(dvs))
  IN  [m EXCEPT !.mode = "step_response", !.cvs = cvs, !.mvs = mvs, !.dvs = dvs, !.loaded = TRUE,
         !.targets = IF f.input \in Elems(m.mvs \o m.dvs) THEN @ ELSE @ \ {f.input},
         !.step = IF f.type = "MV" THEN Merged(step, cvs, f, Index(mvs, f.input)) ELSE step,
         !.stepDv = IF f.type = "DV" THEN Merged(stepDv, cvs, f, Index(dvs, f.input)) ELSE stepDv]

(* A legacy file declares its variables, then gives a block of responses   *)
(* for every CV, in the order declared; other blocks are passed over, and  *)
(* adjacent blocks of one CV are one block.  An MV missing from a block    *)
(* has no effect on the CV.                                                *)
BlockOf(f) ==
  LET at[k \in 0..Len(f.cvs)] ==
        IF k = 0 THEN 0
        ELSE LET from == {j \in DOMAIN f.blocks : at[k-1] < j /\ f.blocks[j].cv = f.cvs[k]}
             IN  IF at[k-1] > Len(f.blocks) \/ from = {} THEN Len(f.blocks) + 1
                 ELSE CHOOSE j \in from : \A i \in from : j <= i
  IN  at

Parses(f) == /\ f.cvs # <<>> /\ f.mvs # <<>>
             /\ BlockOf(f)[Len(f.cvs)] <= Len(f.blocks)

BadCurves(f) ==
  [r \in 1..Len(f.cvs) |-> SelectSeq([c \in 1..Len(f.mvs) |->
     IF f.mvs[c] \in f.blocks[BlockOf(f)[r]].mvs THEN <<f.cvs[r], f.mvs[c]>> ELSE Zero],
     LAMBDA e : e # Zero)]
Curves(f) ==
  [r \in 1..Len(f.cvs) |-> [c \in 1..Len(f.mvs) |->
     IF f.mvs[c] \in f.blocks[BlockOf(f)[r]].mvs THEN <<f.cvs[r], f.mvs[c]>> ELSE Zero]]

UploadMdl(m, f) ==
  [m EXCEPT !.mode = "step_response", !.cvs = f.cvs, !.mvs = f.mvs, !.dvs = <<>>,
            !.targets = {}, !.loaded = TRUE, !.step = Curves(f), !.stepDv = <<>>]

-----------------------------------------------------------------------------
(* Operations of the user.                                                 *)
Step == ops < MaxOps /\ ops' = ops + 1
Edited(m) == Step /\ model' = m /\ UNCHANGED <<disk, reading, deploying>>

(* A variable is added and named in one operation, apart from the others;  *)
(* a new one has no target.                                                *)
NewInput(x) == x \notin Elems(model.mvs) \cup Elems(model.dvs)
Untargeted(x) == [model EXCEPT !.targets = @ \ {x}]

AddCv(t) == Len(model.cvs) < MaxVars /\ t \notin Elems(model.cvs)
            /\ Edited(UpdateMatrixSize(model, Append(model.cvs, t), model.mvs, model.dvs))
RemoveCv(i) == Edited(UpdateMatrixSize(model, Without(model.cvs, i), model.mvs, model.dvs))

AddMv(x) == Len(model.mvs) < MaxVars /\ NewInput(x)
            /\ Edited(UpdateMatrixSize(Untargeted(x), model.cvs, Append(model.mvs, x), model.dvs))
RemoveMv(i) == Edited(UpdateMatrixSize(model, model.cvs, Without(model.mvs, i), model.dvs))

AddDv(x) == Len(model.dvs) < MaxVars /\ NewInput(x)
            /\ Edited(UpdateMatrixSize(Untargeted(x), model.cvs, model.mvs, Append(model.dvs, x)))
RemoveDv(i) == Edited(UpdateMatrixSize(model, model.cvs, model.mvs, Without(model.dvs, i)))

ToDv(i) == Edited(MoveMvToDv(model, i))
ToMv(i) == Edited(MoveDvToMv(model, i))

(* A cell of a matrix; a row the matrix lacks cannot be edited.            *)
Set(row, c, e) ==
  [k \in 1..Larger(Len(row), c) |-> IF k = c THEN e ELSE IF k \in DOMAIN row THEN row[k] ELSE None]
EditMatrix(r, c) ==
  /\ model.mode = "parametric" /\ r \in DOMAIN model.gain
  /\ Edited([model EXCEPT !.gain[r] = Set(@, c, <<model.cvs[r], model.mvs[c]>>)])
EditMatrixDv(r, c) ==
  /\ model.mode = "parametric" /\ r \in DOMAIN model.gainDv
  /\ Edited([model EXCEPT !.gainDv[r] = Set(@, c, <<model.cvs[r], model.dvs[c]>>)])

SetTarget(i) ==
  \/ Edited([model EXCEPT !.targets = @ \cup {model.mvs[i]}])
  \/ Edited([model EXCEPT !.targets = @ \ {model.mvs[i]}])
SetMode(mode) == model.mode # mode /\ Edited([model EXCEPT !.mode = mode])

Download == Step /\ disk' = GenerateJson(model) /\ UNCHANGED <<model, reading, deploying>>

(* Push Model, Deploy Nodes: one at a time; the answer is awaited.         *)
Deploy ==
  /\ ~deploying /\ deploying' = TRUE
  /\ disk' \in {disk, GenerateJson(model)}
  /\ Step /\ UNCHANGED <<model, reading>>
Deployed == deploying /\ deploying' = FALSE /\ UNCHANGED <<model, disk, reading, ops>>

-----------------------------------------------------------------------------
(* Files and fetched models.                                               *)
Begin(what, file, base) ==
  Step /\ reading' = reading \cup {[what |-> what, file |-> file, base |-> base]}
       /\ UNCHANGED <<model, disk, deploying>>

PickModel == disk # None /\ Begin("model", disk, None)
PickMdl(f) == model.mode = "step_response" /\ Begin("mdl", f, model)
(* Two imports at once write into each other's arrays when both models     *)
(* already hold coefficients; the code allows it, and it is left out.      *)
PickJson(f) ==
  /\ model.mode = "step_response"
  /\ \A p \in reading : p.what = "json" => ~(p.base.loaded /\ model.loaded)
  /\ Begin("json", f, model)

Ends(p) == p \in reading /\ reading' = reading \ {p} /\ UNCHANGED <<disk, deploying, ops>>

ReadModel(p) == p.what = "model" /\ Ends(p) /\ model' = Load(p.file)
ReadMdl(p) == p.what = "mdl" /\ Ends(p) /\ Parses(p.file) /\ model' = UploadMdl(p.base, p.file)
ReadJson(p) == p.what = "json" /\ Ends(p) /\ model' = ImportJson(p.base, p.file)
(* A model that cannot be fetched or read, a legacy file that does not     *)
(* parse, and a response file that is not one: the user is told.           *)
ReadFails(p) == (p.what = "mdl" => ~Parses(p.file)) /\ Ends(p) /\ UNCHANGED model

-----------------------------------------------------------------------------
DefaultModel(t, x) ==
  [mode |-> "parametric", cvs |-> <<t>>, mvs |-> <<x>>, dvs |-> <<>>, targets |-> {},
   gain |-> << <<Zero>> >>, gainDv |-> <<>>, loaded |-> FALSE, step |-> <<>>, stepDv |-> <<>>]

Init == /\ \E t \in CvTags, x \in InputTags : model = DefaultModel(t, x)
        /\ disk = None /\ reading = {} /\ deploying = FALSE /\ ops = 0

Tables ==
  \/ \E t \in CvTags : AddCv(t)
  \/ \E x \in InputTags : AddMv(x) \/ AddDv(x)
  \/ \E i \in DOMAIN model.cvs : RemoveCv(i)
  \/ \E i \in DOMAIN model.mvs : RemoveMv(i) \/ ToDv(i) \/ SetTarget(i)
  \/ \E i \in DOMAIN model.dvs : RemoveDv(i) \/ ToMv(i)
Matrices == \E r \in DOMAIN model.cvs :
  \/ \E c \in DOMAIN model.mvs : EditMatrix(r, c)
  \/ \E c \in DOMAIN model.dvs : EditMatrixDv(r, c)
Answers == \E p \in reading : ReadModel(p) \/ ReadMdl(p) \/ ReadJson(p) \/ ReadFails(p)

Next ==
  \/ Tables \/ Matrices \/ Answers
  \/ \E mode \in Modes : SetMode(mode)
  \/ Download \/ Deploy \/ Deployed \/ PickModel
  \/ \E f \in MdlFiles : PickMdl(f)
  \/ \E f \in JsonFiles : PickJson(f)

Spec == Init /\ [][Next]_vars

-----------------------------------------------------------------------------
TypeOK ==
  /\ model.mode \in Modes /\ model.loaded \in BOOLEAN /\ model.targets \subseteq InputTags
  /\ model.cvs \in Seq(CvTags) /\ model.mvs \in Seq(InputTags) /\ model.dvs \in Seq(InputTags)
  /\ \A mat \in {model.gain, model.gainDv, model.step, model.stepDv} : mat \in Seq(Seq(Entries))
  /\ ~model.loaded => model.step = <<>> /\ model.stepDv = <<>>
  /\ deploying \in BOOLEAN /\ ops \in 0..MaxOps

(* Until coefficients are imported, whatever was added, removed, moved,    *)
(* saved and loaded, the parametric model has the rows and columns the     *)
(* engine's loader wants.                                                  *)
CleanModelsLoad ==
  ~model.loaded /\ model.mode = "parametric" => CountsMatch(GenerateJson(model))

(* Every node the model file names is among the nodes of the node file.    *)
NodesCoverModel == NodeIds(GenerateJson(model)) \subseteq GenerateYaml(model)

(* Types, the engine's loader, and the node file.                          *)
EditorInv == TypeOK /\ CleanModelsLoad /\ NodesCoverModel

(* What the matrices of the mode in use say of row r and the input x.      *)
Datum(m, r, x) ==
  LET mv == IF m.mode = "parametric" THEN m.gain ELSE m.step
      dv == IF m.mode = "parametric" THEN m.gainDv ELSE m.stepDv
  IN  IF x \in Elems(m.mvs) THEN Cell(mv, r, Index(m.mvs, x), None)
                            ELSE Cell(dv, r, Index(m.dvs, x), None)

Sized(mat, rows, cols) == Len(mat) = rows /\ \A r \in 1..rows : Len(mat[r]) = cols
Fits(m) ==
  LET mv == IF m.mode = "parametric" THEN m.gain ELSE m.step
      dv == IF m.mode = "parametric" THEN m.gainDv ELSE m.stepDv
  IN  /\ Sized(mv, Len(m.cvs), Len(m.mvs))
      /\ Sized(dv, Len(m.cvs), Len(m.dvs)) \/ (m.dvs = <<>> /\ dv = <<>>)
Distinct(s) == Cardinality(Elems(s)) = Len(s)

(* An input moved between the tables takes along, for every CV, what the   *)
(* matrices of the mode in use say of it, and no other input loses or      *)
(* gains anything there.  Of the other mode's matrices nothing is claimed: *)
(* curves imported before stay where they are when an input is moved in    *)
(* parametric mode, and are then beside the tables.                        *)
MovesKeepData ==
  [][(\E i \in DOMAIN model.mvs : ToDv(i)) \/ (\E i \in DOMAIN model.dvs : ToMv(i)) =>
       (Fits(model) /\ Distinct(model.mvs \o model.dvs) =>
         /\ Fits(model')
         /\ \A r \in DOMAIN model.cvs, x \in Elems(model.mvs \o model.dvs) :
              Datum(model', r, x) = Datum(model, r, x))]_vars

(* Every response of an imported file ends at its pair, whatever the       *)
(* tables were; all other pairs keep what they had, and a CV that the      *)
(* import adds starts with nothing else known.                             *)
Merges(m, f, new) ==
  \A r \in DOMAIN new.cvs :
    LET inputs == IF f.type = "MV" THEN new.mvs ELSE new.dvs
        mat == IF f.type = "MV" THEN new.step ELSE new.stepDv
        old == IF f.type = "MV" THEN m.step ELSE m.stepDv
    IN  \A c \in DOMAIN inputs :
          Cell(mat, r, c, None) =
            IF new.cvs[r] \in Elems(f.cvs) /\ c = Index(inputs, f.input)
            THEN <<new.cvs[r], f.input>>
            ELSE Cell(old, r, c, Zero)
ImportMerges ==
  [][\A p \in reading : ReadJson(p) => Merges(p.base, p.file, model')]_vars

(* A legacy file that parses gives a curve for every pair of its CVs and   *)
(* MVs, also where the file has no block or no response, so that the model *)
(* saved has the rows and columns the engine's loader wants.               *)
UploadsFill == [][\A p \in reading : ReadMdl(p) => CountsMatch(GenerateJson(model'))]_vars
=============================================================================
