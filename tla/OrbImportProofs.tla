--------------------------- MODULE OrbImportProofs ---------------------------
(***************************************************************************)
(* Theorems about OrbImport, for any number of callers, artifacts and      *)
(* versions, whatever fails.  That the graph is signed needs nothing else; *)
(* the others need requests that do not meet inside the gate, and what the *)
(* page shows a history that takes every record.                           *)
(***************************************************************************)
EXTENDS OrbImport, SequenceTheorems, TLAPS

LEMMA HydratedType ==
    ASSUME TypeOK
    PROVE  Hydrated \in [version : 0..MaxVersion, content : Contents \cup {None}]
<1>1. Nothing \in [version : 0..MaxVersion, content : Contents \cup {None}]
  BY OrbImportAssumption DEF Nothing
<1>2. \A i \in DOMAIN hist : Recorded(i) \in [version : 0..MaxVersion, content : Contents \cup {None}]
  <2>1. hist \in Seq(Records)
    BY DEF TypeOK
  <2>2. \A i \in DOMAIN hist : hist[i] \in Records
    BY <2>1
  <2> QED BY <2>2 DEF Recorded, Records
<1>3. DEFINE last == {i \in Done : \A k \in Done : k <= i}
<1>4. last # {} => (CHOOSE i \in last : TRUE) \in DOMAIN hist
  BY DEF Done
<1> QED BY <1>1, <1>2, <1>4 DEF Hydrated

-----------------------------------------------------------------------------
(* Types, and what a request carries.                                      *)

Loading == {"drop", "schema", "load", "record", "dispatch", "finalize", "done"}

\* An upload carries a bundle, a pull an artifact; past the verification an
\* artifact is signed.
Carries == \A h \in Handlers :
    /\ pc[h] = "admitted" /\ kind[h] # "registry" => got[h] \in Bundles
    /\ pc[h] = "verify" => got[h] \in Artifacts
    /\ pc[h] \in Loading => got[h] \in Bundles \cup signed

CarryInv == TypeOK /\ Carries /\ OnlySigned

\* A step of a goroutine to next, with what it may do to the rest.
LEMMA MovesType ==
    ASSUME TypeOK, NEW h \in Handlers, NEW here, NEW next \in PCs, Moves(h, here, next),
           got' \in [Handlers -> Contents \cup {None}],
           ok' \in [Handlers -> BOOLEAN],
           graph' \in SUBSET (Contents \cup {None}),
           hist' \in Seq(Records)
    PROVE  TypeOK'
  BY DEF TypeOK, Moves, Goto, regVars, stateVars

LEMMA HistAppend ==
    ASSUME hist \in Seq(Records), NEW r \in Records
    PROVE  Append(hist, r) \in Seq(Records)
  OBVIOUS

LEMMA HistFinalize ==
    ASSUME hist \in Seq(Records), hist # <<>>, NEW s \in {"done", "partial"}
    PROVE  [hist EXCEPT ![Len(hist)].status = s] \in Seq(Records)
<1>1. Len(hist) \in DOMAIN hist /\ hist[Len(hist)] \in Records
  OBVIOUS
<1>2. [hist[Len(hist)] EXCEPT !.status = s] \in Records
  BY <1>1 DEF Records
<1> QED BY <1>1, <1>2

LEMMA WorkType ==
    ASSUME TypeOK, Carries, NEW h \in Handlers, Work(h)
    PROVE  TypeOK'
<1> USE OrbImportAssumption
<1>1. /\ got \in [Handlers -> Contents \cup {None}] /\ ok \in [Handlers -> BOOLEAN]
      /\ graph \in SUBSET (Contents \cup {None}) /\ hist \in Seq(Records)
  BY DEF TypeOK
<1>2. Working \subseteq PCs
  BY DEF PCs
<1>3. CASE Begin(h)
  BY <1>3 DEF Begin, TypeOK, Goto, Statuses, PCs, Working, regVars, diskVars
<1>4. CASE Pull(h)
  <2>1. got' \in [Handlers -> Contents \cup {None}]
    BY <1>1, <1>4 DEF Pull, Contents
  <2> QED BY <1>1, <1>2, <1>4, <2>1, MovesType DEF Pull, Working, diskVars
<1>5. CASE Verify(h) \/ ApplySchema(h)
  BY <1>1, <1>2, <1>5, MovesType DEF Verify, ApplySchema, Working, diskVars
<1>6. CASE DropAll(h)
  BY <1>1, <1>2, <1>6, MovesType DEF DropAll, Working
<1>7. CASE LoadData(h)
  <2>1. graph' \in SUBSET (Contents \cup {None})
    BY <1>1, <1>7 DEF LoadData
  <2> QED BY <1>1, <1>2, <1>7, <2>1, MovesType DEF LoadData, Working
<1>8. CASE RecordHistory(h)
  <2>1. got[h] \in Contents /\ want[h] \in 0..MaxVersion
    BY <1>8 DEF RecordHistory, Moves, Carries, Loading, TypeOK, Contents
  <2>2. [version |-> want[h], content |-> got[h], status |-> "done"] \in Records
    BY <2>1 DEF Records
  <2>3. hist' \in Seq(Records)
    BY <1>1, <1>8, <2>2, HistAppend DEF RecordHistory
  <2>4. (IF kind[h] = "subgraph" THEN "done" ELSE "dispatch") \in PCs
    BY DEF PCs, Working
  <2> QED BY <1>1, <1>8, <2>3, <2>4, MovesType DEF RecordHistory
<1>9. CASE Dispatch(h)
  <2>1. ok' \in [Handlers -> BOOLEAN]
    BY <1>1, <1>9 DEF Dispatch
  <2> QED BY <1>1, <1>2, <1>9, <2>1, MovesType DEF Dispatch, Working, diskVars
<1>10. CASE Finalize(h)
  <2>1. Outcome(h) \in {"done", "partial"}
    BY DEF Outcome
  <2>2. hist' \in Seq(Records)
    BY <1>1, <1>10, <2>1, HistFinalize DEF Finalize
  <2> QED BY <1>1, <1>2, <1>10, <2>2, MovesType DEF Finalize, Working
<1>11. CASE SetDone(h)
  <2>1. current' \in [version : 0..MaxVersion, content : Contents \cup {None}]
    BY <1>11 DEF SetDone, TypeOK
  <2> QED BY <1>11, <2>1
          DEF SetDone, Ends, Goto, Outcome, TypeOK, PCs, ImportKinds, Statuses, regVars, diskVars
<1>12. CASE SetFailed(h)
  BY <1>12 DEF SetFailed, Ends, Goto, TypeOK, PCs, ImportKinds, Statuses, regVars, diskVars
<1> QED BY <1>3, <1>4, <1>5, <1>6, <1>7, <1>8, <1>9, <1>10, <1>11, <1>12 DEF Work

LEMMA WorkCarries ==
    ASSUME CarryInv, NEW h \in Handlers, Work(h)
    PROVE  Carries' /\ OnlySigned'
<1> USE OrbImportAssumption DEF CarryInv, TypeOK, Carries, OnlySigned, Goto, Loading,
        regVars, stateVars, diskVars
<1>1. CASE Begin(h)
  BY <1>1 DEF Begin, ImportKinds
<1>2. CASE Pull(h)
  <2>1. \A i \in Handlers : i # h => pc'[i] = pc[i] /\ got'[i] = got[i]
    BY <1>2, ZenonT(40) DEF Pull, Moves
  <2>2. pc'[h] = "fail" \/ (pc'[h] = "verify" /\ got'[h] \in Artifacts)
    BY <1>2, ZenonT(40) DEF Pull, Moves
  <2>3. kind' = kind /\ signed' = signed /\ graph' = graph
    BY <1>2, ZenonT(40) DEF Pull, Moves
  <2> QED BY <2>1, <2>2, <2>3
<1>3. CASE Verify(h)
  BY <1>3 DEF Verify, Moves
<1>4. CASE DropAll(h) \/ ApplySchema(h)
  BY <1>4 DEF DropAll, ApplySchema, Moves
<1>5. CASE LoadData(h)
  BY <1>5 DEF LoadData, Moves
<1>6. CASE RecordHistory(h) \/ Dispatch(h) \/ Finalize(h)
  BY <1>6 DEF RecordHistory, Dispatch, Finalize, Moves
<1>7. CASE SetDone(h) \/ SetFailed(h)
  <2>1. /\ \A i \in Handlers : i # h => pc'[i] = pc[i] /\ got'[i] = got[i] /\ kind'[i] = kind[i]
        /\ pc'[h] \in {"idle", "failed"}
    BY <1>7 DEF SetDone, SetFailed, Ends
  <2>2. signed' = signed /\ graph' = graph
    BY <1>7 DEF SetDone, SetFailed
  <2> QED BY <2>1, <2>2
<1> QED BY <1>1, <1>2, <1>3, <1>4, <1>5, <1>6, <1>7 DEF Work

LEMMA AdmitType ==
    ASSUME TypeOK, NEW h \in Handlers, NEW k \in ImportKinds, NEW n \in 0..MaxVersion,
           NEW c \in Contents \cup {None}, Admit(h, k, n, c),
           UNCHANGED <<regVars, status, current, diskVars, restarts>>,
           available' \in 0..MaxVersion
    PROVE  TypeOK'
  BY DEF Admit, Goto, TypeOK, PCs, regVars, diskVars

LEMMA CarryStep ==
    ASSUME CarryInv, [Next]_vars
    PROVE  CarryInv'
<1> USE OrbImportAssumption
<1>1. CASE UNCHANGED vars
  BY <1>1 DEF CarryInv, TypeOK, Carries, OnlySigned, vars, regVars, stateVars, reqVars, diskVars
<1>2. CASE Registry
  <2>1. TypeOK'
    BY <1>2 DEF CarryInv, TypeOK, Registry, RegistryStep, RegistryPush, RegistrySign,
                RegistryDelete, stateVars, reqVars, diskVars
  <2>2. signed \subseteq signed'
    BY <1>2 DEF Registry, RegistryStep, RegistryPush, RegistrySign, RegistryDelete
  <2> QED BY <1>2, <2>1, <2>2
          DEF CarryInv, Carries, OnlySigned, Registry, reqVars, diskVars
<1>3. ASSUME NEW h \in Handlers, NEW k \in ImportKinds, NEW n \in 0..MaxVersion,
             NEW c \in Contents \cup {None}, Admit(h, k, n, c),
             k # "registry" => c \in Bundles,
             UNCHANGED <<regVars, status, current, diskVars, restarts>>,
             available' \in 0..MaxVersion
      PROVE CarryInv'
  <2>1. TypeOK'
    BY <1>3, AdmitType DEF CarryInv
  <2>2. Carries' /\ OnlySigned'
    BY <1>3 DEF CarryInv, TypeOK, Carries, OnlySigned, Admit, Goto, Loading, regVars, diskVars
  <2> QED BY <2>1, <2>2 DEF CarryInv
<1>4. available \in 0..MaxVersion /\ 0 \in 0..MaxVersion
  BY DEF CarryInv, TypeOK
<1>5. ASSUME NEW h \in Callers, NEW n \in 1..MaxVersion, TriggerImport(h, n) PROVE CarryInv'
  <2>1. h \in Handlers /\ n \in 0..MaxVersion /\ "registry" \in ImportKinds
        /\ None \in Contents \cup {None}
    BY DEF Handlers, ImportKinds
  <2> QED BY <1>3, <1>4, <1>5, <2>1 DEF TriggerImport, stateVars
<1>6. ASSUME NEW h \in Callers, NEW b \in Bundles, NEW k \in {"artifact", "subgraph"},
             Upload(h, k, b)
      PROVE CarryInv'
  <2>1. h \in Handlers /\ k \in ImportKinds /\ b \in Contents
    BY DEF Handlers, ImportKinds, Contents
  <2> QED BY <1>3, <1>4, <1>6, <2>1 DEF Upload, stateVars
<1>7. CASE Poll
  <2>1. PICK n \in 0..MaxVersion :
          /\ available' = IF n > current.version THEN n ELSE 0
          /\ Admit(Poller, "registry", n, None) \/ UNCHANGED reqVars
          /\ UNCHANGED <<regVars, status, current, diskVars, restarts>>
    BY <1>7 DEF Poll
  <2>2. available' \in 0..MaxVersion
    BY <1>4, <2>1
  <2>3. CASE Admit(Poller, "registry", n, None)
    <3>1. Poller \in Handlers /\ "registry" \in ImportKinds /\ None \in Contents \cup {None}
      BY DEF Handlers, ImportKinds
    <3> QED BY <1>3, <2>1, <2>2, <2>3, <3>1
  <2>4. CASE UNCHANGED reqVars
    BY <2>1, <2>2, <2>4 DEF CarryInv, TypeOK, Carries, OnlySigned, regVars, reqVars, diskVars
  <2> QED BY <2>1, <2>3, <2>4
<1>8. CASE Restart
  <2>1. current' \in [version : 0..MaxVersion, content : Contents \cup {None}]
    BY <1>8, HydratedType DEF Restart, CarryInv
  <2>2. TypeOK'
    BY <1>8, <2>1 DEF Restart, CarryInv, TypeOK, Statuses, PCs, ImportKinds, regVars, diskVars
  <2>3. Carries' /\ OnlySigned'
    BY <1>8 DEF Restart, CarryInv, Carries, OnlySigned, Loading, regVars, diskVars
  <2> QED BY <2>2, <2>3 DEF CarryInv
<1>9. ASSUME NEW h \in Handlers, Work(h) PROVE CarryInv'
  BY <1>9, WorkType, WorkCarries DEF CarryInv
<1> QED BY <1>1, <1>2, <1>5, <1>6, <1>7, <1>8, <1>9 DEF Next, OrbNext

LEMMA CarryInvariant == Spec => []CarryInv
<1>1. Init => CarryInv
  BY OrbImportAssumption DEF Init, CarryInv, TypeOK, Carries, OnlySigned, Statuses, PCs,
         Loading, ImportKinds, Nothing
<1>2. CarryInv /\ [Next]_vars => CarryInv'
  BY CarryStep
<1> QED BY <1>1, <1>2, PTL DEF Spec

\* Every variable keeps its type, whatever fails: no history row without its
\* content, no version outside the registry's.
THEOREM OrbTypeCorrect == Spec => []TypeOK
<1>1. CarryInv => TypeOK
  BY DEF CarryInv
<1> QED BY <1>1, CarryInvariant, PTL

\* Whatever reaches the graph through the registry is signed, though its tag
\* may have moved between the pull and the load, and imports may overlap.
THEOREM GraphIsSigned == Spec => []OnlySigned
<1>1. CarryInv => OnlySigned
  BY DEF CarryInv
<1> QED BY <1>1, CarryInvariant, PTL

-----------------------------------------------------------------------------
(* One import at a time.                                                   *)

\* Requests that do not meet in the gate: one import at most, visible in the
\* state as running while it works, and what the graph holds at its stages.
OneRequest == \A h, i \in Handlers : ~Free(h) /\ ~Free(i) => h = i
Visible    == \A h \in Handlers : InProgress(h) => status = "running"
Stage(h)   == /\ pc[h] \in {"schema", "load"} => graph = {}
              /\ pc[h] \in {"record", "dispatch", "finalize", "done"} => graph = {got[h]}
Staged     == \A h \in Handlers : Stage(h)
SerialInv  == OneRequest /\ Visible /\ Staged /\ ShownIsLoaded

\* A step of the only import: the other requests are free, and stay so.
LEMMA OnlyImport ==
    ASSUME TypeOK, SerialInv, NEW h \in Handlers, ~Free(h),
           \A i \in Handlers : i # h => pc'[i] = pc[i],
           InProgress(h)' => status' = "running",
           Stage(h)',
           ShownIsLoaded'
    PROVE  SerialInv'
<1>1. \A i \in Handlers : i # h => Free(i) /\ Free(i)'
  BY DEF SerialInv, OneRequest, Free
<1>2. OneRequest'
  BY <1>1 DEF OneRequest
<1>3. Visible' /\ Staged'
  BY <1>1 DEF Visible, Staged, Stage, InProgress, Working, Free
<1> QED BY <1>2, <1>3 DEF SerialInv

LEMMA SerialWork ==
    ASSUME TypeOK, SerialInv, NEW h \in Handlers, Work(h)
    PROVE  SerialInv'
<1> USE DEF Goto, regVars, stateVars, diskVars
<1>1. /\ ~Free(h)
      /\ \A i \in Handlers : i # h => pc'[i] = pc[i]
      /\ pc \in [Handlers -> PCs] /\ got \in [Handlers -> Contents \cup {None}]
  BY DEF Work, Begin, Pull, Verify, DropAll, ApplySchema, LoadData, RecordHistory, Dispatch,
         Finalize, SetDone, SetFailed, Moves, Ends, Free, TypeOK
<1>2. ASSUME ~SetDone(h), ~SetFailed(h) PROVE status' = "running"
  BY <1>2 DEF Work, Begin, Pull, Verify, DropAll, ApplySchema, LoadData, RecordHistory,
              Dispatch, Finalize, Moves, SerialInv, Visible, InProgress, Working
<1>3. Stage(h)
  BY DEF SerialInv, Staged
<1>4. CASE Begin(h)
  <2>1. Stage(h)'
    BY <1>1, <1>4 DEF Begin, Stage
  <2> QED BY <1>1, <1>4, <2>1, OnlyImport DEF Begin, ShownIsLoaded
<1>5. CASE Pull(h) \/ Verify(h) \/ ApplySchema(h) \/ RecordHistory(h) \/ Dispatch(h) \/ Finalize(h)
  <2>1. status' = "running"
    BY <1>5 DEF Pull, Verify, ApplySchema, RecordHistory, Dispatch, Finalize, Moves,
                SerialInv, Visible, InProgress, Working
  <2>2. Stage(h)'
    BY <1>1, <1>3, <1>5 DEF Pull, Verify, ApplySchema, RecordHistory, Dispatch, Finalize,
                            Moves, Stage
  <2> QED BY <1>1, <2>1, <2>2, OnlyImport DEF ShownIsLoaded
<1>6. CASE DropAll(h) \/ LoadData(h)
  <2>1. status' = "running"
    BY <1>6 DEF DropAll, LoadData, Moves, SerialInv, Visible, InProgress, Working
  <2>2. Stage(h)'
    BY <1>1, <1>3, <1>6 DEF DropAll, LoadData, Moves, Stage
  <2> QED BY <1>1, <2>1, <2>2, OnlyImport DEF ShownIsLoaded
<1>7. CASE SetDone(h)
  <2>1. graph' = {current'.content}
    BY <1>3, <1>7 DEF SetDone, Stage
  <2>2. pc'[h] = "idle"
    BY <1>1, <1>7 DEF SetDone, Ends
  <2> QED BY <1>1, <2>1, <2>2, OnlyImport DEF ShownIsLoaded, Stage, InProgress, Working
<1>8. CASE SetFailed(h)
  <2>1. pc'[h] = "failed" /\ status' = "failed"
    BY <1>1, <1>8 DEF SetFailed, Ends
  <2> QED BY <1>1, <2>1, OnlyImport DEF ShownIsLoaded, Stage, InProgress, Working
<1> QED BY <1>4, <1>5, <1>6, <1>7, <1>8 DEF Work

LEMMA SerialAdmit ==
    ASSUME ~Racing, TypeOK, SerialInv, NEW h \in Handlers, NEW k, NEW n, NEW c,
           Admit(h, k, n, c), UNCHANGED <<status, graph>>
    PROVE  SerialInv'
<1>1. \A i \in Handlers : Free(i)
  BY DEF Admit, Gate, SerialInv, Visible, InProgress, Free, TypeOK, PCs
<1>2. \A i \in Handlers : pc'[i] = IF i = h THEN "admitted" ELSE pc[i]
  BY DEF Admit, Goto, TypeOK
<1>3. OneRequest' /\ Visible' /\ Staged'
  BY <1>1, <1>2 DEF OneRequest, Visible, Staged, Stage, InProgress, Working, Free
<1>4. ShownIsLoaded'
  BY <1>2 DEF ShownIsLoaded, Free
<1> QED BY <1>3, <1>4 DEF SerialInv

LEMMA SerialStep ==
    ASSUME ~Racing, TypeOK, SerialInv, [Next]_vars
    PROVE  SerialInv'
<1>1. ASSUME UNCHANGED <<status, current, pc, got, graph>> PROVE SerialInv'
  BY <1>1 DEF SerialInv, OneRequest, Visible, Staged, Stage, ShownIsLoaded, InProgress, Free
<1>2. CASE UNCHANGED vars \/ Registry
  BY <1>1, <1>2 DEF vars, Registry, stateVars, reqVars, diskVars
<1>3. ASSUME NEW h \in Callers,
             \/ \E n \in 1..MaxVersion : TriggerImport(h, n)
             \/ \E b \in Bundles, k \in {"artifact", "subgraph"} : Upload(h, k, b)
      PROVE SerialInv'
  BY <1>3, SerialAdmit DEF TriggerImport, Upload, Handlers, stateVars, diskVars
<1>4. CASE Poll
  <2>1. PICK n \in 0..MaxVersion :
          /\ Admit(Poller, "registry", n, None) \/ UNCHANGED reqVars
          /\ UNCHANGED <<status, current, diskVars>>
    BY <1>4 DEF Poll
  <2>2. CASE Admit(Poller, "registry", n, None)
    BY <2>1, <2>2, SerialAdmit DEF Handlers, diskVars
  <2>3. CASE UNCHANGED reqVars
    BY <1>1, <2>1, <2>3 DEF reqVars, diskVars
  <2> QED BY <2>1, <2>2, <2>3
<1>5. CASE Restart
  BY <1>5 DEF Restart, SerialInv, OneRequest, Visible, Staged, Stage, ShownIsLoaded,
              InProgress, Working, Free
<1>6. ASSUME NEW h \in Handlers, Work(h) PROVE SerialInv'
  BY <1>6, SerialWork
<1> QED BY <1>2, <1>3, <1>4, <1>5, <1>6 DEF Next, OrbNext

LEMMA SerialInvariant ==
    ASSUME ~Racing
    PROVE  Spec => []SerialInv
<1>1. Init => SerialInv
  BY DEF Init, SerialInv, OneRequest, Visible, Staged, Stage, ShownIsLoaded, InProgress,
         Working, Free
<1>2. TypeOK /\ SerialInv /\ [Next]_vars => SerialInv'
  BY SerialStep
<1> QED BY <1>1, <1>2, OrbTypeCorrect, PTL DEF Spec

\* While requests do not meet between the gate's check and setRunning, one
\* import at a time works on the local graph.
THEOREM ImportsAreSerial ==
    ASSUME ~Racing
    PROVE  Spec => []OneImport
<1>1. SerialInv => OneImport
  BY DEF SerialInv, OneRequest, OneImport, InProgress, Working, Free
<1> QED BY <1>1, SerialInvariant, PTL

\* Under the same condition the graph of a finished import is that version,
\* whole and alone, through failed and interrupted imports before it.
THEOREM ShownVersionIsLoaded ==
    ASSUME ~Racing
    PROVE  Spec => []ShownIsLoaded
<1>1. SerialInv => ShownIsLoaded
  BY DEF SerialInv
<1> QED BY <1>1, SerialInvariant, PTL

-----------------------------------------------------------------------------
(* The history.                                                            *)

\* The newest record is this request's, with this outcome.
NewestIs(h, outcome) ==
    /\ hist # <<>>
    /\ hist[Len(hist)] = [version |-> want[h], content |-> got[h], status |-> outcome]

\* An import that was recorded is the newest record, done until it is finalized;
\* only one that came by tag can fail to dispatch, so that an upload, which
\* nobody finalizes, is done when its record says so.
Logged(h) ==
    /\ pc[h] \in {"dispatch", "finalize"} => NewestIs(h, "done")
    /\ pc[h] = "done" => NewestIs(h, Outcome(h))
    /\ kind[h] # "registry" => ok[h]
HistoryInv == (\A h \in Handlers : Logged(h)) /\ HistoryIsShown

LEMMA NewestAppended ==
    ASSUME hist \in Seq(Records), NEW r, hist' = Append(hist, r)
    PROVE  hist' # <<>> /\ hist'[Len(hist')] = r
  OBVIOUS

LEMMA NewestFinalized ==
    ASSUME hist \in Seq(Records), NEW h, NEW s, NewestIs(h, "done"),
           hist' = [hist EXCEPT ![Len(hist)].status = s],
           UNCHANGED <<want, got>>
    PROVE  hist' # <<>>
           /\ hist'[Len(hist')] = [version |-> want[h], content |-> got[h], status |-> s]
<1>1. Len(hist) \in DOMAIN hist
  BY DEF NewestIs
<1>2. hist'[Len(hist)] = [hist[Len(hist)] EXCEPT !.status = s] /\ Len(hist') = Len(hist)
  BY <1>1
<1>3. hist' # <<>>
  BY <1>1, <1>2 DEF NewestIs
<1> QED BY <1>2, <1>3 DEF NewestIs

\* A step of the only import: nobody else has anything at stake in the history.
LEMMA OnlyLogged ==
    ASSUME SerialInv, SerialInv', HistoryInv, NEW h \in Handlers, ~Free(h),
           \A i \in Handlers : i # h =>
              pc'[i] = pc[i] /\ kind'[i] = kind[i] /\ ok'[i] = ok[i],
           Logged(h)', HistoryIsShown'
    PROVE  HistoryInv'
<1>1. \A i \in Handlers : i # h => Free(i) /\ Free(i)'
  BY DEF SerialInv, OneRequest, Free
<1> QED BY <1>1 DEF HistoryInv, Logged, Free

LEMMA LoggedWork ==
    ASSUME "sqlite" \notin Faults, TypeOK, SerialInv, SerialInv', HistoryInv,
           NEW h \in Handlers, Work(h)
    PROVE  HistoryInv'
<1> USE DEF Goto, regVars, stateVars, diskVars
<1>1. /\ ~Free(h)
      /\ \A i \in Handlers : i # h => pc'[i] = pc[i] /\ kind'[i] = kind[i] /\ ok'[i] = ok[i]
      /\ hist \in Seq(Records) /\ pc \in [Handlers -> PCs] /\ ok \in [Handlers -> BOOLEAN]
      /\ kind \in [Handlers -> ImportKinds]
  BY DEF Work, Begin, Pull, Verify, DropAll, ApplySchema, LoadData, RecordHistory, Dispatch,
         Finalize, SetDone, SetFailed, Moves, Ends, Free, TypeOK
<1>2. Logged(h) /\ HistoryIsShown
  BY DEF HistoryInv
<1>3. ASSUME ~SetDone(h), ~SetFailed(h) PROVE HistoryIsShown'
  <2>1. ~Free(h)'
    BY <1>1, <1>3 DEF Work, Begin, Pull, Verify, DropAll, ApplySchema, LoadData, RecordHistory,
                      Dispatch, Finalize, Moves, Free
  <2> QED BY <2>1 DEF HistoryIsShown
<1>4. CASE Begin(h) \/ Pull(h) \/ Verify(h) \/ DropAll(h) \/ ApplySchema(h) \/ LoadData(h)
  <2>1. /\ pc'[h] \notin {"dispatch", "finalize", "done"} /\ kind' = kind /\ ok' = ok
        /\ pc[h] \notin {"done", "fail"}
    BY <1>1, <1>4 DEF Begin, Pull, Verify, DropAll, ApplySchema, LoadData, Moves
  <2>2. Logged(h)'
    BY <1>2, <2>1 DEF Logged
  <2> QED BY <1>1, <1>3, <2>1, <2>2, OnlyLogged DEF SetDone, SetFailed
<1>5. CASE RecordHistory(h)
  <2>1. /\ hist' = Append(hist, [version |-> want[h], content |-> got[h], status |-> "done"])
        /\ pc[h] = "record" /\ UNCHANGED <<want, got, ok, kind>>
        /\ pc'[h] = IF kind[h] = "subgraph" THEN "done" ELSE "dispatch"
    BY <1>1, <1>5 DEF RecordHistory, Moves
  <2>2. NewestIs(h, "done")'
    BY <1>1, <2>1, NewestAppended DEF NewestIs
  <2>3. pc'[h] = "done" => Outcome(h)' = "done"
    BY <1>2, <2>1 DEF Logged, Outcome
  <2>4. Logged(h)'
    BY <1>2, <2>1, <2>2, <2>3 DEF Logged
  <2> QED BY <1>1, <1>3, <2>1, <2>4, OnlyLogged DEF SetDone, SetFailed
<1>6. CASE Dispatch(h)
  <2>1. /\ pc[h] = "dispatch" /\ pc'[h] = "finalize" /\ UNCHANGED <<want, got, hist, kind>>
        /\ kind[h] # "registry" => ok'[h] = ok[h]
    BY <1>1, <1>6 DEF Dispatch, Moves
  <2>2. Logged(h)'
    BY <1>2, <2>1 DEF Logged, NewestIs
  <2> QED BY <1>1, <1>3, <2>1, <2>2, OnlyLogged DEF SetDone, SetFailed
<1>7. CASE Finalize(h)
  <2>1. /\ pc[h] = "finalize" /\ pc'[h] = "done" /\ UNCHANGED <<want, got, ok, kind>>
        /\ \/ hist' = [hist EXCEPT ![Len(hist)].status = Outcome(h)]
           \/ kind[h] = "artifact" /\ hist' = hist
    BY <1>1, <1>2, <1>7 DEF Finalize, Moves, Logged, NewestIs
  <2>2. NewestIs(h, "done")
    BY <1>2, <2>1 DEF Logged
  <2>3. Outcome(h)' = Outcome(h)
    BY <2>1 DEF Outcome
  <2>4. NewestIs(h, Outcome(h))'
    <3>1. CASE hist' = [hist EXCEPT ![Len(hist)].status = Outcome(h)]
      <4>1. UNCHANGED <<want, got>>
        BY <2>1
      <4>2. /\ hist' # <<>>
            /\ hist'[Len(hist')] = [version |-> want[h], content |-> got[h], status |-> Outcome(h)]
        BY <1>1, <2>2, <3>1, <4>1, NewestFinalized
      <4> QED BY <2>3, <4>1, <4>2 DEF NewestIs
    <3>2. CASE kind[h] = "artifact" /\ hist' = hist
      <4>1. Outcome(h) = "done"
        BY <1>2, <3>2 DEF Logged, Outcome
      <4> QED BY <2>1, <2>2, <2>3, <3>2, <4>1 DEF NewestIs
    <3> QED BY <2>1, <3>1, <3>2
  <2>5. Logged(h)'
    BY <1>2, <2>1, <2>4 DEF Logged
  <2> QED BY <1>1, <1>3, <2>1, <2>5, OnlyLogged DEF SetDone, SetFailed
<1>8. CASE SetDone(h)
  <2>1. /\ pc[h] = "done" /\ pc'[h] = "idle" /\ kind'[h] = "registry" /\ hist' = hist
        /\ status' = Outcome(h) /\ current' = [version |-> want[h], content |-> got[h]]
    BY <1>1, <1>8 DEF SetDone, Ends
  <2>2. Logged(h)'
    BY <2>1 DEF Logged
  <2>3. HistoryIsShown'
    BY <1>2, <2>1 DEF Logged, NewestIs, HistoryIsShown
  <2> QED BY <1>1, <2>2, <2>3, OnlyLogged
<1>9. CASE SetFailed(h)
  <2>1. pc'[h] = "failed" /\ kind'[h] = "registry" /\ status' = "failed"
    BY <1>1, <1>9 DEF SetFailed, Ends
  <2>2. Logged(h)' /\ HistoryIsShown'
    BY <2>1 DEF Logged, HistoryIsShown
  <2> QED BY <1>1, <2>2, OnlyLogged
<1> QED BY <1>4, <1>5, <1>6, <1>7, <1>8, <1>9 DEF Work

LEMMA LoggedAdmit ==
    ASSUME ~Racing, TypeOK, SerialInv, HistoryInv, NEW h \in Handlers, NEW k, NEW n, NEW c,
           Admit(h, k, n, c), UNCHANGED <<status, hist>>
    PROVE  HistoryInv'
<1>1. \A i \in Handlers : Free(i)
  BY DEF Admit, Gate, SerialInv, Visible, InProgress, Free, TypeOK, PCs
<1>2. \A i \in Handlers :
        /\ pc'[i] = IF i = h THEN "admitted" ELSE pc[i]
        /\ kind'[i] = IF i = h THEN k ELSE kind[i]
        /\ ok'[i] = IF i = h THEN TRUE ELSE ok[i]
  BY DEF Admit, Goto, TypeOK
<1>3. \A i \in Handlers : Logged(i)'
  BY <1>1, <1>2 DEF HistoryInv, Logged, Free
<1>4. HistoryIsShown'
  BY <1>2 DEF HistoryIsShown, Free
<1> QED BY <1>3, <1>4 DEF HistoryInv

LEMMA LoggedStep ==
    ASSUME ~Racing, "sqlite" \notin Faults, TypeOK, SerialInv, SerialInv', HistoryInv, [Next]_vars
    PROVE  HistoryInv'
<1>1. ASSUME UNCHANGED <<status, current, reqVars, hist>> PROVE HistoryInv'
  BY <1>1 DEF HistoryInv, Logged, NewestIs, Outcome, HistoryIsShown, Free, reqVars
<1>2. CASE UNCHANGED vars \/ Registry
  BY <1>1, <1>2 DEF vars, Registry, stateVars, diskVars
<1>3. ASSUME NEW h \in Callers,
             \/ \E n \in 1..MaxVersion : TriggerImport(h, n)
             \/ \E b \in Bundles, k \in {"artifact", "subgraph"} : Upload(h, k, b)
      PROVE HistoryInv'
  BY <1>3, LoggedAdmit DEF TriggerImport, Upload, Handlers, stateVars, diskVars
<1>4. CASE Poll
  <2>1. PICK n \in 0..MaxVersion :
          /\ Admit(Poller, "registry", n, None) \/ UNCHANGED reqVars
          /\ UNCHANGED <<status, current, diskVars>>
    BY <1>4 DEF Poll
  <2>2. CASE Admit(Poller, "registry", n, None)
    BY <2>1, <2>2, LoggedAdmit DEF Handlers, diskVars
  <2>3. CASE UNCHANGED reqVars
    BY <1>1, <2>1, <2>3 DEF diskVars
  <2> QED BY <2>1, <2>2, <2>3
<1>5. CASE Restart
  BY <1>5 DEF Restart, HistoryInv, Logged, HistoryIsShown
<1>6. ASSUME NEW h \in Handlers, Work(h) PROVE HistoryInv'
  BY <1>6, LoggedWork
<1> QED BY <1>2, <1>3, <1>4, <1>5, <1>6 DEF Next, OrbNext

\* While history writes succeed and requests do not meet in the gate, the newest
\* import record is the import the status page shows, with its outcome, whatever
\* failed or was interrupted before: FinalizeLastHistory, which updates the newest
\* row whoever wrote it, updates the row of its own import.
THEOREM ShownImportIsRecorded ==
    ASSUME ~Racing, "sqlite" \notin Faults
    PROVE  Spec => []HistoryIsShown
<1>1. Init => HistoryInv
  BY DEF Init, HistoryInv, Logged, HistoryIsShown
<1>2. TypeOK /\ SerialInv /\ SerialInv' /\ HistoryInv /\ [Next]_vars => HistoryInv'
  BY LoggedStep
<1>3. HistoryInv => HistoryIsShown
  BY DEF HistoryInv
<1> QED BY <1>1, <1>2, <1>3, OrbTypeCorrect, SerialInvariant, PTL DEF Spec
=============================================================================
