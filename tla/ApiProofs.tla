------------------------------ MODULE ApiProofs ------------------------------
(***************************************************************************)
(* Proofs about what the API process runs: its engines (EngineManager),    *)
(* for any number of users, engines and requests in flight, and its        *)
(* backtests (Backtests), for any jobs, bars, orders, stops and crashes.   *)
(***************************************************************************)
EXTENDS EngineManager, Backtests, SumTheorems, TLAPS
-----------------------------------------------------------------------------
(* The engines.                                                            *)

\* A start that has its engine is a live one, for the key of that engine as long as
\* the engine has a broker.
StartsMatch ==
  \A s \in Starts : starts[s].pc \in {"syncing", "failing"} =>
    /\ Live(starts[s].key)
    /\ engines[starts[s].engine].open => engines[starts[s].engine].key = starts[s].key

\* One build at a time, for a key that has no engine.
BuildsAlone ==
  \A s \in Starts : starts[s].pc = "building" =>
    /\ handles[starts[s].key] = NoEngine
    /\ \A t \in Starts : starts[t].pc = "building" => t = s

\* KillReaches in two parts: execution hears of a kill when its turn comes, risk when
\* the kill moves on.
Told ==
  engaged => \A e \in Engine :
    Registered(e) /\ ~engines[e].missed /\ (\A x \in Kills : e \notin kills[x].todo)
      => /\ engines[e].halted
         /\ (\A x \in Kills : kills[x].at # e) => engines[e].killed

Inv == TypeOK /\ StartsMatch /\ BuildsAlone /\ HandlesServe /\ PaperOwned /\ BookIsCurrent /\ Told
-----------------------------------------------------------------------------
(* Types.                                                                  *)

\* The values slots and requests start from are typed, and a free slot is one.
LEMMA Blanks ==
  /\ Blank \in EngineState
  /\ Blank.open = FALSE /\ Blank.wired = FALSE /\ Blank.halted = FALSE
  /\ Blank.stale = FALSE /\ Blank.closing = "no"
  /\ Idle \in [pc: {"idle", "building"}, key: Key, engine: {NoEngine}]
  /\ Idle.pc = "idle" /\ Idle.engine = NoEngine
  /\ NotKilling \in [todo: SUBSET Engine, at: Engine \cup {NoEngine}]
  /\ NotKilling.todo = {} /\ NotKilling.at = NoEngine
<1>1. Key # {}
  <2>1. PICK u \in Users : TRUE
    BY ManagerAssumption
  <2>2. <<u, "paper">> \in Key
    BY <2>1 DEF Key, Mode
  <2> QED BY <2>2
<1>2. (CHOOSE k \in Key : TRUE) \in Key
  BY <1>1
<1> QED BY <1>2 DEF Blank, EngineState, Idle, NotKilling

\* What is left of a closed engine.
LEMMA ClosedState ==
  ASSUME NEW state \in EngineState
  PROVE  /\ Closed(state) \in EngineState
         /\ Closed(state).open = FALSE /\ Closed(state).wired = FALSE
         /\ Closed(state).halted = FALSE /\ Closed(state).stale = FALSE
         /\ Closed(state).closing = state.closing
  BY Blanks DEF Closed, EngineState

\* Flags that are set keep the state typed.
LEMMA FlagsTyped ==
  ASSUME NEW state \in EngineState, NEW a \in BOOLEAN, NEW b \in BOOLEAN, NEW c \in BOOLEAN
  PROVE  [state EXCEPT !.halted = a, !.killed = b, !.missed = c] \in EngineState
  BY DEF EngineState

\* The loops of an engine get their task.
LEMMA TaskState ==
  ASSUME NEW state \in EngineState
  PROVE  [state EXCEPT !.task = TRUE] \in EngineState
  BY DEF EngineState

\* An engine whose agents stopped keeps its type.
LEMMA UnwiredState ==
  ASSUME NEW state \in EngineState
  PROVE  Unwired(state) \in EngineState
  BY DEF EngineState, Unwired

\* The slot a new engine gets.
LEMMA FreeSlot ==
  ASSUME Free # {}
  PROVE  (CHOOSE e \in Free : TRUE) \in Free
  OBVIOUS

\* Every step of a start, a stop, a kill, a flatten or a reset keeps the types.
LEMMA Typing == TypeOK /\ [Next]_vars => TypeOK'
<1> SUFFICES ASSUME TypeOK, [Next]_vars
             PROVE  TypeOK'
  OBVIOUS
<1> USE DEF TypeOK
<1>1. ASSUME NEW s \in Starts, NEW k \in Key, Start(s, k)
      PROVE  TypeOK'
  BY <1>1, Blanks DEF Start
<1>2. ASSUME NEW s \in Starts, Built(s)
      PROVE  TypeOK'
  <2> DEFINE e == CHOOSE x \in Free : TRUE
             k == starts[s].key
             b == [Blank EXCEPT !.key = k, !.open = TRUE, !.wired = TRUE, !.missed = engaged,
                                !.task = ~Live(k)]
  <2>1. e \in Engine /\ k \in Key
    BY <1>2, FreeSlot DEF Built, Free
  <2>2. b \in EngineState
    BY <2>1, Blanks DEF EngineState, Live
  <2>3. [pc |-> "syncing", key |-> k, engine |-> e]
          \in [pc: {"syncing", "failing"}, key: Key, engine: Engine]
    BY <2>1
  <2>4. /\ handles' = [handles EXCEPT ![k] = e]
        /\ engines' = [engines EXCEPT ![e] = b]
        /\ starts' = [starts EXCEPT ![s] =
             IF Live(k) THEN [pc |-> "syncing", key |-> k, engine |-> e] ELSE Idle]
        /\ UNCHANGED <<engaged, exits, kills, flatten>>
    BY <1>2 DEF Built
  <2> HIDE DEF e, k, b
  <2> QED BY <2>1, <2>2, <2>3, <2>4, Blanks
<1>3. ASSUME NEW s \in Starts, BuildFails(s)
      PROVE  TypeOK'
  BY <1>3, Blanks DEF BuildFails
<1>4. ASSUME NEW s \in Starts, Synced(s)
      PROVE  TypeOK'
  <2> DEFINE e == starts[s].engine
             b == [engines[e] EXCEPT !.task = TRUE]
  <2>1. e \in Engine
    <3>1. starts[s].pc = "syncing"
      BY <1>4 DEF Synced
    <3>2. starts[s] \in [pc: {"syncing", "failing"}, key: Key, engine: Engine]
      BY <3>1
    <3> QED BY <3>2
  <2>2. b \in EngineState
    <3>1. engines[e] \in EngineState
      BY <2>1
    <3> QED BY <3>1, TaskState
  <2>3. /\ engines' = [engines EXCEPT ![e] = b] /\ starts' = [starts EXCEPT ![s] = Idle]
        /\ UNCHANGED <<engaged, handles, exits, kills, flatten>>
    BY <1>4 DEF Synced
  <2> HIDE DEF e, b
  <2> QED BY <2>1, <2>2, <2>3, Blanks
<1>5. ASSUME NEW s \in Starts, SyncFails(s)
      PROVE  TypeOK'
  BY <1>5 DEF SyncFails
<1>6. ASSUME NEW s \in Starts, StartFailed(s)
      PROVE  TypeOK'
  BY <1>6, Blanks, ClosedState DEF StartFailed
<1>7. ASSUME NEW k \in Key, Stop(k)
      PROVE  TypeOK'
  BY <1>7 DEF Stop, EngineState
<1>8. ASSUME NEW e \in Engine, CloseLoops(e)
      PROVE  TypeOK'
  BY <1>8, UnwiredState DEF CloseLoops
<1>9. ASSUME NEW e \in Engine, CloseBroker(e)
      PROVE  TypeOK'
  <2>1. [engines[e] EXCEPT !.closing = "no"] \in EngineState
    BY DEF EngineState
  <2> QED BY <1>9, <2>1, ClosedState DEF CloseBroker
<1>10. ASSUME NEW x \in Kills, NEW before, NEW todo \in SUBSET Engine, Sweep(x, before, todo),
              UNCHANGED <<handles, exits, starts, flatten>>, engaged' \in BOOLEAN
       PROVE  TypeOK'
  <2>1. PICK done \in SUBSET todo :
          \E next \in {e \in todo \ done : Live(engines[e].key)} \cup {NoEngine} :
            /\ engines' = [e \in Engine |->
                 [engines[e] EXCEPT
                    !.halted = @ \/ (e \in done \cup {next} /\ engines[e].wired),
                    !.killed = @ \/ (e \in done \cup {before} /\ engines[e].wired),
                    !.missed = @ /\ e \notin todo]]
            /\ kills' = [kills EXCEPT ![x] = [todo |-> todo \ (done \cup {next}), at |-> next]]
    BY <1>10 DEF Sweep
  <2>2. PICK next \in todo \cup {NoEngine} :
            /\ engines' = [e \in Engine |->
                 [engines[e] EXCEPT
                    !.halted = engines[e].halted \/ (e \in done \cup {next} /\ engines[e].wired),
                    !.killed = engines[e].killed \/ (e \in done \cup {before} /\ engines[e].wired),
                    !.missed = engines[e].missed /\ e \notin todo]]
            /\ kills' = [kills EXCEPT ![x] = [todo |-> todo \ (done \cup {next}), at |-> next]]
    BY <2>1
  <2>3. engines' \in [Engine -> EngineState]
    BY <2>2, FlagsTyped
  <2>4. kills' \in [Kills -> [todo: SUBSET Engine, at: Engine \cup {NoEngine}]]
    BY <2>2
  <2> QED BY <1>10, <2>3, <2>4
<1>11. ASSUME NEW x \in Kills, Kill(x) \/ KillGoesOn(x)
       PROVE  TypeOK'
  <2>1. {e \in Engine : Registered(e)} \in SUBSET Engine /\ kills[x].todo \in SUBSET Engine
    OBVIOUS
  <2> QED BY <1>10, <1>11, <2>1 DEF Kill, KillGoesOn
<1>12. ASSUME NEW u \in Users, Resume(u)
       PROVE  TypeOK'
  <2>1. \A e \in Engine :
          [engines[e] EXCEPT !.halted = engines[e].halted /\ ~engines[e].wired,
                             !.killed = engines[e].killed /\ ~engines[e].wired,
                             !.missed = FALSE] \in EngineState
    BY FlagsTyped
  <2> QED BY <1>12, <2>1 DEF Resume
<1>13. ASSUME NEW k \in Key, Reset(k)
       PROVE  TypeOK'
  BY <1>13 DEF Reset, EngineState
<1>14. CASE Restart
  BY <1>14, Blanks DEF Restart
<1>15. ASSUME NEW k \in Key, Flatten(k)
       PROVE  TypeOK'
  BY <1>15 DEF Flatten, SendExits
<1>16. ASSUME NEW e \in Engine, ExitEnds(e)
       PROVE  TypeOK'
  BY <1>16 DEF ExitEnds
<1>17. CASE UNCHANGED vars
  BY <1>17 DEF vars
<1>18. CASE FlattenGoesOn
  BY <1>18 DEF FlattenGoesOn, SendExits
<1> QED
  BY <1>1, <1>2, <1>3, <1>4, <1>5, <1>6, <1>7, <1>8, <1>9, <1>11, <1>12, <1>13, <1>14, <1>15,
     <1>16, <1>17, <1>18
  DEF Next, StartGoesOn, StopGoesOn
-----------------------------------------------------------------------------
(* What a step leaves alone.                                               *)

\* A kill changes no more than the flags of an engine.
LEMMA SweepKeeps ==
  ASSUME TypeOK, NEW x, NEW before, NEW todo, Sweep(x, before, todo), NEW e \in Engine
  PROVE  /\ engines'[e].key = engines[e].key /\ engines'[e].open = engines[e].open
         /\ engines'[e].wired = engines[e].wired /\ engines'[e].closing = engines[e].closing
         /\ engines'[e].stale = engines[e].stale
<1>1. PICK done \in SUBSET todo :
        \E next \in {d \in todo \ done : Live(engines[d].key)} \cup {NoEngine} :
          engines' = [d \in Engine |->
            [engines[d] EXCEPT
               !.halted = @ \/ (d \in done \cup {next} /\ engines[d].wired),
               !.killed = @ \/ (d \in done \cup {before} /\ engines[d].wired),
               !.missed = @ /\ d \notin todo]]
  BY DEF Sweep
<1>2. PICK next : engines'[e] =
        [engines[e] EXCEPT
           !.halted = engines[e].halted \/ (e \in done \cup {next} /\ engines[e].wired),
           !.killed = engines[e].killed \/ (e \in done \cup {before} /\ engines[e].wired),
           !.missed = engines[e].missed /\ e \notin todo]
  BY <1>1
<1>3. engines[e] \in EngineState
  BY DEF TypeOK
<1> QED BY <1>2, <1>3 DEF EngineState

\* So does a resume.
LEMMA ResumeKeeps ==
  ASSUME TypeOK, NEW u, Resume(u), NEW e \in Engine
  PROVE  /\ UNCHANGED <<handles, exits, starts, kills, flatten>> /\ engaged' = FALSE
         /\ engines'[e].key = engines[e].key /\ engines'[e].open = engines[e].open
         /\ engines'[e].wired = engines[e].wired /\ engines'[e].closing = engines[e].closing
         /\ engines'[e].stale = engines[e].stale
<1>1. \/ engines'[e] = engines[e]
      \/ engines'[e] = [engines[e] EXCEPT !.halted = engines[e].halted /\ ~engines[e].wired,
                                          !.killed = engines[e].killed /\ ~engines[e].wired,
                                          !.missed = FALSE]
  BY DEF Resume
<1>2. engines[e] \in EngineState
  BY DEF TypeOK
<1>3. UNCHANGED <<handles, exits, starts, kills, flatten>> /\ engaged' = FALSE
  BY DEF Resume
<1> QED BY <1>1, <1>2, <1>3 DEF EngineState

\* A reset marks the open engines of its account.
LEMMA ResetMarks ==
  ASSUME TypeOK, NEW k, Reset(k), NEW e \in Engine
  PROVE  /\ UNCHANGED <<engaged, handles, exits, starts, kills, flatten>>
         /\ handles[k] = NoEngine
         /\ engines'[e].key = engines[e].key /\ engines'[e].open = engines[e].open
         /\ engines'[e].wired = engines[e].wired /\ engines'[e].closing = engines[e].closing
         /\ engines'[e].halted = engines[e].halted /\ engines'[e].killed = engines[e].killed
         /\ engines'[e].missed = engines[e].missed
         /\ engines'[e].stale => engines[e].stale \/ engines[e].key = k
<1>1. engines'[e] = [engines[e] EXCEPT !.stale = engines[e].stale \/ (engines[e].open
                      /\ engines[e].key = k /\ engines[e].closing = "no")]
  BY DEF Reset
<1>2. engines[e] \in EngineState
  BY DEF TypeOK
<1>3. UNCHANGED <<engaged, handles, exits, starts, kills, flatten>> /\ handles[k] = NoEngine
  BY DEF Reset
<1> QED BY <1>1, <1>2, <1>3 DEF EngineState

\* What the end of a teardown does.
LetGo(e) ==
  /\ UNCHANGED <<engaged, handles, exits, starts, kills, flatten>>
  /\ \A d \in Engine \ {e} : engines'[d] = engines[d]
  /\ engines[e].closing = "broker"
  /\ engines'[e].open = FALSE /\ engines'[e].wired = FALSE /\ engines'[e].halted = FALSE
  /\ engines'[e].closing = "no"

\* The last step of a teardown does no more than that.
LEMMA ClosingDoes ==
  ASSUME TypeOK, NEW e \in Engine, CloseBroker(e)
  PROVE  LetGo(e)
<1>1. /\ [engines[e] EXCEPT !.closing = "no"] \in EngineState
      /\ [engines[e] EXCEPT !.closing = "no"].closing = "no"
  BY DEF TypeOK, EngineState
<1>2. engines' = [engines EXCEPT ![e] = Closed([engines[e] EXCEPT !.closing = "no"])]
  BY DEF CloseBroker
<1>3. engines'[e] = Closed([engines[e] EXCEPT !.closing = "no"])
  BY <1>2 DEF TypeOK
<1>4. \A d \in Engine \ {e} : engines'[d] = engines[d]
  BY <1>2 DEF TypeOK
<1>5. /\ UNCHANGED <<engaged, handles, exits, starts, kills, flatten>>
      /\ engines[e].closing = "broker"
  BY DEF CloseBroker
<1> QED BY <1>1, <1>3, <1>4, <1>5, ClosedState DEF LetGo

\* What a failed start does: its broker is closed, and its key has no engine.
Failed(s) ==
  LET e == starts[s].engine
  IN /\ starts[s].pc = "failing" /\ e \in Engine /\ starts[s].key \in Key
     /\ UNCHANGED <<engaged, kills, flatten>> /\ exits' \subseteq exits
     /\ handles' = [handles EXCEPT ![starts[s].key] = NoEngine]
     /\ \A d \in Engine \ {e} : engines'[d] = engines[d]
     /\ engines'[e].open = FALSE /\ engines'[e].wired = FALSE
     /\ engines'[e].halted = FALSE /\ engines'[e].stale = FALSE
     /\ engines'[e].closing = engines[e].closing
     /\ starts'[s].pc = "idle"
     /\ \A t \in Starts \ {s} : starts'[t] = starts[t]

\* A start that failed closes its engine, empties its entry and is over.
LEMMA FailureDoes ==
  ASSUME TypeOK, NEW s \in Starts, StartFailed(s)
  PROVE  Failed(s)
<1> USE DEF TypeOK
<1> DEFINE e == starts[s].engine
<1>1. starts[s].pc = "failing" /\ e \in Engine /\ starts[s].key \in Key
  BY DEF StartFailed
<1>2. /\ engines' = [engines EXCEPT ![e] = Closed(engines[e])]
      /\ handles' = [handles EXCEPT ![starts[s].key] = NoEngine]
      /\ starts' = [starts EXCEPT ![s] = Idle]
      /\ UNCHANGED <<engaged, kills, flatten>> /\ exits' \subseteq exits
  BY DEF StartFailed
<1> HIDE DEF e
<1>3. /\ engines'[e] = Closed(engines[e])
      /\ \A d \in Engine \ {e} : engines'[d] = engines[d]
      /\ starts'[s].pc = "idle"
      /\ \A t \in Starts \ {s} : starts'[t] = starts[t]
  BY <1>1, <1>2, Blanks
<1>4. engines[e] \in EngineState
  BY <1>1
<1> QED BY <1>1, <1>2, <1>3, <1>4, ClosedState DEF e, Failed

\* What a build does: it hands a slot nobody refers to to the key of its start.
Opened(s, e) ==
  /\ starts[s].pc = "building" /\ starts[s].key \in Key
  /\ UNCHANGED <<engaged, exits, kills, flatten>>
  /\ handles' = [handles EXCEPT ![starts[s].key] = e]
  /\ \A d \in Engine \ {e} : engines'[d] = engines[d]
  /\ engines'[e].key = starts[s].key /\ engines'[e].open /\ engines'[e].wired
  /\ engines'[e].closing = "no" /\ engines'[e].missed = engaged
  /\ engines'[e].stale = FALSE /\ engines'[e].halted = FALSE
  /\ \A t \in Starts \ {s} : starts'[t] = starts[t]
  /\ starts'[s].pc \in {"idle", "syncing"}
  /\ starts'[s].pc = "syncing" =>
       Live(starts[s].key) /\ starts'[s].key = starts[s].key /\ starts'[s].engine = e

\* A build opens a free slot, registers it, and is over or awaits its reconciliation.
LEMMA BuiltDoes ==
  ASSUME TypeOK, NEW s \in Starts, Built(s)
  PROVE  \E e \in Free : Opened(s, e)
<1> USE DEF TypeOK
<1> DEFINE e == CHOOSE x \in Free : TRUE
           k == starts[s].key
           b == [Blank EXCEPT !.key = k, !.open = TRUE, !.wired = TRUE, !.missed = engaged,
                              !.task = ~Live(k)]
<1>1. e \in Free /\ e \in Engine /\ k \in Key
  BY FreeSlot DEF Built, Free
<1>2. /\ b.key = k /\ b.open /\ b.wired /\ b.closing = "no" /\ b.missed = engaged
      /\ b.stale = FALSE /\ b.halted = FALSE
  BY DEF Blank
<1>3. /\ handles' = [handles EXCEPT ![k] = e]
      /\ engines' = [engines EXCEPT ![e] = b]
      /\ starts' = [starts EXCEPT ![s] =
           IF Live(k) THEN [pc |-> "syncing", key |-> k, engine |-> e] ELSE Idle]
      /\ starts[s].pc = "building"
      /\ UNCHANGED <<engaged, exits, kills, flatten>>
  BY DEF Built
<1> HIDE DEF b, e
<1>4. /\ engines'[e] = b
      /\ \A d \in Engine \ {e} : engines'[d] = engines[d]
      /\ \A t \in Starts \ {s} : starts'[t] = starts[t]
  BY <1>1, <1>3
<1>5. /\ starts'[s].pc \in {"idle", "syncing"}
      /\ starts'[s].pc = "syncing" =>
           Live(k) /\ starts'[s].key = k /\ starts'[s].engine = e
  BY <1>3, Blanks
<1> QED BY <1>1, <1>2, <1>3, <1>4, <1>5 DEF Opened

\* What the invariants read of an engine.
Kept(e) ==
  /\ engines'[e].key = engines[e].key /\ engines'[e].open = engines[e].open
  /\ engines'[e].wired = engines[e].wired /\ engines'[e].closing = engines[e].closing
  /\ engines'[e].stale = engines[e].stale

\* Controls and exits change neither the tables nor what an engine serves.
Quiet == UNCHANGED <<handles, starts>> /\ \A e \in Engine : Kept(e)

\* Kills, releases, flattens and exits are such steps.
LEMMA QuietSteps ==
  ASSUME TypeOK,
         \/ \E x \in Kills : Kill(x) \/ KillGoesOn(x)
         \/ \E u \in Users : Resume(u)
         \/ \E k \in Key : Flatten(k)
         \/ FlattenGoesOn
         \/ \E e \in Engine : ExitEnds(e)
         \/ UNCHANGED vars
  PROVE  Quiet
<1>1. ASSUME NEW x \in Kills, Kill(x) \/ KillGoesOn(x)
      PROVE  Quiet
  BY <1>1, SweepKeeps DEF Kill, KillGoesOn, Quiet, Kept
<1>2. ASSUME NEW u \in Users, Resume(u)
      PROVE  Quiet
  <2>1. UNCHANGED <<handles, starts>>
    BY <1>2 DEF Resume
  <2> QED BY <1>2, <2>1, ResumeKeeps DEF Quiet, Kept
<1>3. CASE \/ \E k \in Key : Flatten(k)
           \/ FlattenGoesOn
           \/ \E e \in Engine : ExitEnds(e)
           \/ UNCHANGED vars
  BY <1>3 DEF Flatten, FlattenGoesOn, ExitEnds, vars, Quiet, Kept
<1> QED BY <1>1, <1>2, <1>3

\* Starts keep matching: the slot of an engine a start refers to is not given away.
LEMMA StartsMatchKept == TypeOK /\ StartsMatch /\ [Next]_vars => StartsMatch'
<1> SUFFICES ASSUME TypeOK /\ StartsMatch, [Next]_vars
             PROVE  StartsMatch'
  OBVIOUS
<1> USE DEF TypeOK
<1>1. ASSUME NEW s \in Starts, NEW k \in Key, Start(s, k)
      PROVE  StartsMatch'
  BY <1>1 DEF Start, StartsMatch
<1>2. ASSUME NEW s \in Starts, Built(s)
      PROVE  StartsMatch'
  <2>1. PICK e \in Free : Opened(s, e)
    BY <1>2, BuiltDoes
  <2> QED BY <2>1 DEF Opened, StartsMatch, Free
<1>3. ASSUME NEW s \in Starts, BuildFails(s)
      PROVE  StartsMatch'
  BY <1>3, Blanks DEF BuildFails, StartsMatch, Free
<1>4. ASSUME NEW s \in Starts, Synced(s)
      PROVE  StartsMatch'
  BY <1>4, Blanks DEF Synced, StartsMatch
<1>5. ASSUME NEW s \in Starts, SyncFails(s)
      PROVE  StartsMatch'
  BY <1>5 DEF SyncFails, StartsMatch
<1>6. ASSUME NEW s \in Starts, StartFailed(s)
      PROVE  StartsMatch'
  <2>1. Failed(s)
    BY <1>6, FailureDoes
  <2> QED BY <2>1 DEF Failed, StartsMatch
<1>7. ASSUME NEW k \in Key, Stop(k)
      PROVE  StartsMatch'
  BY <1>7 DEF Stop, StartsMatch
<1>8. ASSUME NEW e \in Engine, CloseLoops(e)
      PROVE  StartsMatch'
  BY <1>8 DEF CloseLoops, Unwired, StartsMatch
<1>9. ASSUME NEW e \in Engine, CloseBroker(e)
      PROVE  StartsMatch'
  <2>1. LetGo(e)
    BY <1>9, ClosingDoes
  <2> QED BY <2>1 DEF LetGo, StartsMatch
<1>10. ASSUME NEW k \in Key, Reset(k)
      PROVE  StartsMatch'
  <2>1. \A e \in Engine :
          /\ engines'[e].key = engines[e].key /\ engines'[e].open = engines[e].open
          /\ engines'[e].wired = engines[e].wired /\ engines'[e].closing = engines[e].closing
          /\ engines'[e].stale => engines[e].stale \/ engines[e].key = k
    BY <1>10, ResetMarks
  <2>2. /\ UNCHANGED <<engaged, handles, exits, starts, kills, flatten>>
        /\ handles[k] = NoEngine
    BY <1>10 DEF Reset
  <2> QED BY <2>1, <2>2 DEF StartsMatch
<1>11. ASSUME Restart
      PROVE  StartsMatch'
  BY <1>11, Blanks DEF Restart, StartsMatch
<1>12. CASE Quiet
  BY <1>12 DEF Quiet, Kept, StartsMatch
<1> QED
  BY <1>1, <1>2, <1>3, <1>4, <1>5, <1>6, <1>7, <1>8, <1>9, <1>10, <1>11, <1>12, QuietSteps
  DEF Next, StartGoesOn, StopGoesOn

\* Only the one build under way registers an engine.
LEMMA BuildsAloneKept == TypeOK /\ BuildsAlone /\ [Next]_vars => BuildsAlone'
<1> SUFFICES ASSUME TypeOK /\ BuildsAlone, [Next]_vars
             PROVE  BuildsAlone'
  OBVIOUS
<1> USE DEF TypeOK
<1>1. ASSUME NEW s \in Starts, NEW k \in Key, Start(s, k)
      PROVE  BuildsAlone'
  BY <1>1 DEF Start, BuildsAlone
<1>2. ASSUME NEW s \in Starts, Built(s)
      PROVE  BuildsAlone'
  <2>1. PICK e \in Free : Opened(s, e)
    BY <1>2, BuiltDoes
  <2> QED BY <2>1 DEF Opened, BuildsAlone
<1>3. ASSUME NEW s \in Starts, BuildFails(s)
      PROVE  BuildsAlone'
  BY <1>3, Blanks DEF BuildFails, BuildsAlone
<1>4. ASSUME NEW s \in Starts, Synced(s)
      PROVE  BuildsAlone'
  BY <1>4, Blanks DEF Synced, BuildsAlone
<1>5. ASSUME NEW s \in Starts, SyncFails(s)
      PROVE  BuildsAlone'
  BY <1>5 DEF SyncFails, BuildsAlone
<1>6. ASSUME NEW s \in Starts, StartFailed(s)
      PROVE  BuildsAlone'
  <2>1. Failed(s)
    BY <1>6, FailureDoes
  <2> QED BY <2>1 DEF Failed, BuildsAlone
<1>7. ASSUME NEW k \in Key, Stop(k)
      PROVE  BuildsAlone'
  BY <1>7 DEF Stop, BuildsAlone
<1>8. ASSUME NEW e \in Engine, CloseLoops(e)
      PROVE  BuildsAlone'
  BY <1>8 DEF CloseLoops, Unwired, BuildsAlone
<1>9. ASSUME NEW e \in Engine, CloseBroker(e)
      PROVE  BuildsAlone'
  <2>1. LetGo(e)
    BY <1>9, ClosingDoes
  <2> QED BY <2>1 DEF LetGo, BuildsAlone
<1>10. ASSUME NEW k \in Key, Reset(k)
      PROVE  BuildsAlone'
  <2>1. \A e \in Engine :
          /\ engines'[e].key = engines[e].key /\ engines'[e].open = engines[e].open
          /\ engines'[e].wired = engines[e].wired /\ engines'[e].closing = engines[e].closing
          /\ engines'[e].stale => engines[e].stale \/ engines[e].key = k
    BY <1>10, ResetMarks
  <2>2. /\ UNCHANGED <<engaged, handles, exits, starts, kills, flatten>>
        /\ handles[k] = NoEngine
    BY <1>10 DEF Reset
  <2> QED BY <2>1, <2>2 DEF BuildsAlone
<1>11. ASSUME Restart
      PROVE  BuildsAlone'
  BY <1>11, Blanks DEF Restart, BuildsAlone
<1>12. CASE Quiet
  BY <1>12 DEF Quiet, Kept, BuildsAlone
<1> QED
  BY <1>1, <1>2, <1>3, <1>4, <1>5, <1>6, <1>7, <1>8, <1>9, <1>10, <1>11, <1>12, QuietSteps
  DEF Next, StartGoesOn, StopGoesOn

\* What is registered stays whole: closings touch what has left the table.
LEMMA HandlesServeKept == TypeOK /\ StartsMatch /\ HandlesServe /\ [Next]_vars => HandlesServe'
<1> SUFFICES ASSUME TypeOK /\ StartsMatch /\ HandlesServe, [Next]_vars
             PROVE  HandlesServe'
  OBVIOUS
<1> USE DEF TypeOK
<1>1. ASSUME NEW s \in Starts, NEW k \in Key, Start(s, k)
      PROVE  HandlesServe'
  BY <1>1 DEF Start, HandlesServe
<1>2. ASSUME NEW s \in Starts, Built(s)
      PROVE  HandlesServe'
  <2>1. PICK e \in Free : Opened(s, e)
    BY <1>2, BuiltDoes
  <2> QED BY <2>1 DEF Opened, HandlesServe, Free
<1>3. ASSUME NEW s \in Starts, BuildFails(s)
      PROVE  HandlesServe'
  BY <1>3 DEF BuildFails, HandlesServe, Free
<1>4. ASSUME NEW s \in Starts, Synced(s)
      PROVE  HandlesServe'
  BY <1>4 DEF Synced, HandlesServe
<1>5. ASSUME NEW s \in Starts, SyncFails(s)
      PROVE  HandlesServe'
  BY <1>5 DEF SyncFails, HandlesServe
<1>6. ASSUME NEW s \in Starts, StartFailed(s)
      PROVE  HandlesServe'
  <2>1. Failed(s)
    BY <1>6, FailureDoes
  <2> QED BY <2>1 DEF Failed, HandlesServe, StartsMatch
<1>7. ASSUME NEW k \in Key, Stop(k)
      PROVE  HandlesServe'
  BY <1>7 DEF Stop, HandlesServe, StartsMatch
<1>8. ASSUME NEW e \in Engine, CloseLoops(e)
      PROVE  HandlesServe'
  BY <1>8 DEF CloseLoops, Unwired, HandlesServe
<1>9. ASSUME NEW e \in Engine, CloseBroker(e)
      PROVE  HandlesServe'
  <2>1. LetGo(e)
    BY <1>9, ClosingDoes
  <2> QED BY <2>1 DEF LetGo, HandlesServe
<1>10. ASSUME NEW k \in Key, Reset(k)
      PROVE  HandlesServe'
  <2>1. \A e \in Engine :
          /\ engines'[e].key = engines[e].key /\ engines'[e].open = engines[e].open
          /\ engines'[e].wired = engines[e].wired /\ engines'[e].closing = engines[e].closing
          /\ engines'[e].stale => engines[e].stale \/ engines[e].key = k
    BY <1>10, ResetMarks
  <2>2. /\ UNCHANGED <<engaged, handles, exits, starts, kills, flatten>>
        /\ handles[k] = NoEngine
    BY <1>10 DEF Reset
  <2> QED BY <2>1, <2>2 DEF HandlesServe
<1>11. ASSUME Restart
      PROVE  HandlesServe'
  BY <1>11 DEF Restart, HandlesServe
<1>12. CASE Quiet
  BY <1>12 DEF Quiet, Kept, HandlesServe
<1> QED
  BY <1>1, <1>2, <1>3, <1>4, <1>5, <1>6, <1>7, <1>8, <1>9, <1>10, <1>11, <1>12, QuietSteps
  DEF Next, StartGoesOn, StopGoesOn

\* A paper engine leaves the table by a stop alone: what a failing start removes is live.
LEMMA PaperOwnedKept ==
  TypeOK /\ StartsMatch /\ BuildsAlone /\ HandlesServe /\ PaperOwned /\ [Next]_vars
    => PaperOwned'
<1> SUFFICES ASSUME TypeOK /\ StartsMatch /\ BuildsAlone /\ HandlesServe /\ PaperOwned, [Next]_vars
             PROVE  PaperOwned'
  OBVIOUS
<1> USE DEF TypeOK
<1>1. ASSUME NEW s \in Starts, NEW k \in Key, Start(s, k)
      PROVE  PaperOwned'
  BY <1>1 DEF Start, PaperOwned, AtWork
<1>2. ASSUME NEW s \in Starts, Built(s)
      PROVE  PaperOwned'
  <2>1. PICK e \in Free : Opened(s, e)
    BY <1>2, BuiltDoes
  <2> QED BY <2>1, ManagerAssumption DEF Opened, BuildsAlone, PaperOwned, AtWork
<1>3. ASSUME NEW s \in Starts, BuildFails(s)
      PROVE  PaperOwned'
  BY <1>3 DEF BuildFails, BuildsAlone, PaperOwned, AtWork
<1>4. ASSUME NEW s \in Starts, Synced(s)
      PROVE  PaperOwned'
  BY <1>4 DEF Synced, PaperOwned, AtWork
<1>5. ASSUME NEW s \in Starts, SyncFails(s)
      PROVE  PaperOwned'
  BY <1>5 DEF SyncFails, PaperOwned, AtWork
<1>6. ASSUME NEW s \in Starts, StartFailed(s)
      PROVE  PaperOwned'
  <2>1. Failed(s)
    BY <1>6, FailureDoes
  <2> QED BY <2>1 DEF Failed, StartsMatch, PaperOwned, AtWork
<1>7. ASSUME NEW k \in Key, Stop(k)
      PROVE  PaperOwned'
  BY <1>7 DEF Stop, StartsMatch, PaperOwned, AtWork
<1>8. ASSUME NEW e \in Engine, CloseLoops(e)
      PROVE  PaperOwned'
  BY <1>8 DEF CloseLoops, Unwired, PaperOwned, AtWork
<1>9. ASSUME NEW e \in Engine, CloseBroker(e)
      PROVE  PaperOwned'
  <2>1. LetGo(e)
    BY <1>9, ClosingDoes
  <2> QED BY <2>1 DEF LetGo, PaperOwned, AtWork
<1>10. ASSUME NEW k \in Key, Reset(k)
      PROVE  PaperOwned'
  <2>1. \A e \in Engine :
          /\ engines'[e].key = engines[e].key /\ engines'[e].open = engines[e].open
          /\ engines'[e].wired = engines[e].wired /\ engines'[e].closing = engines[e].closing
          /\ engines'[e].stale => engines[e].stale \/ engines[e].key = k
    BY <1>10, ResetMarks
  <2>2. /\ UNCHANGED <<engaged, handles, exits, starts, kills, flatten>>
        /\ handles[k] = NoEngine
    BY <1>10 DEF Reset
  <2> QED BY <2>1, <2>2 DEF PaperOwned, AtWork
<1>11. ASSUME Restart
      PROVE  PaperOwned'
  BY <1>11, Blanks DEF Restart, PaperOwned, AtWork
<1>12. CASE Quiet
  BY <1>12 DEF Quiet, Kept, PaperOwned, AtWork
<1> QED
  BY <1>1, <1>2, <1>3, <1>4, <1>5, <1>6, <1>7, <1>8, <1>9, <1>10, <1>11, <1>12, QuietSteps
  DEF Next, StartGoesOn, StopGoesOn

\* A reset finds the engine that is registered for the account.
LEMMA BookIsCurrentKept == TypeOK /\ HandlesServe /\ BookIsCurrent /\ [Next]_vars => BookIsCurrent'
<1> SUFFICES ASSUME TypeOK /\ HandlesServe /\ BookIsCurrent, [Next]_vars
             PROVE  BookIsCurrent'
  OBVIOUS
<1> USE DEF TypeOK
<1>1. ASSUME NEW s \in Starts, NEW k \in Key, Start(s, k)
      PROVE  BookIsCurrent'
  BY <1>1 DEF Start, BookIsCurrent
<1>2. ASSUME NEW s \in Starts, Built(s)
      PROVE  BookIsCurrent'
  <2>1. PICK e \in Free : Opened(s, e)
    BY <1>2, BuiltDoes
  <2> QED BY <2>1 DEF Opened, BookIsCurrent
<1>3. ASSUME NEW s \in Starts, BuildFails(s)
      PROVE  BookIsCurrent'
  BY <1>3 DEF BuildFails, BookIsCurrent
<1>4. ASSUME NEW s \in Starts, Synced(s)
      PROVE  BookIsCurrent'
  BY <1>4 DEF Synced, BookIsCurrent
<1>5. ASSUME NEW s \in Starts, SyncFails(s)
      PROVE  BookIsCurrent'
  BY <1>5 DEF SyncFails, BookIsCurrent
<1>6. ASSUME NEW s \in Starts, StartFailed(s)
      PROVE  BookIsCurrent'
  <2>1. Failed(s)
    BY <1>6, FailureDoes
  <2> QED BY <2>1 DEF Failed, BookIsCurrent
<1>7. ASSUME NEW k \in Key, Stop(k)
      PROVE  BookIsCurrent'
  BY <1>7 DEF Stop, BookIsCurrent
<1>8. ASSUME NEW e \in Engine, CloseLoops(e)
      PROVE  BookIsCurrent'
  BY <1>8 DEF CloseLoops, Unwired, BookIsCurrent
<1>9. ASSUME NEW e \in Engine, CloseBroker(e)
      PROVE  BookIsCurrent'
  <2>1. LetGo(e)
    BY <1>9, ClosingDoes
  <2> QED BY <2>1 DEF LetGo, HandlesServe, BookIsCurrent
<1>10. ASSUME NEW k \in Key, Reset(k)
      PROVE  BookIsCurrent'
  <2>1. \A e \in Engine :
          /\ engines'[e].key = engines[e].key /\ engines'[e].open = engines[e].open
          /\ engines'[e].wired = engines[e].wired /\ engines'[e].closing = engines[e].closing
          /\ engines'[e].stale => engines[e].stale \/ engines[e].key = k
    BY <1>10, ResetMarks
  <2>2. /\ UNCHANGED <<engaged, handles, exits, starts, kills, flatten>>
        /\ handles[k] = NoEngine
    BY <1>10 DEF Reset
  <2> QED BY <2>1, <2>2 DEF HandlesServe, BookIsCurrent
<1>11. ASSUME Restart
      PROVE  BookIsCurrent'
  BY <1>11 DEF Restart, HandlesServe, BookIsCurrent
<1>12. CASE Quiet
  BY <1>12 DEF Quiet, Kept, BookIsCurrent
<1> QED
  BY <1>1, <1>2, <1>3, <1>4, <1>5, <1>6, <1>7, <1>8, <1>9, <1>10, <1>11, <1>12, QuietSteps
  DEF Next, StartGoesOn, StopGoesOn

\* A kill that has come by leaves an engine halted, and one that moved on, killed.
LEMMA SweepTells ==
  ASSUME TypeOK, NEW x \in Kills, NEW before, NEW todo \in SUBSET Engine,
         Sweep(x, before, todo), NEW e \in Engine, engines[e].wired
  PROVE  /\ \A y \in Kills \ {x} : kills'[y] = kills[y]
         /\ kills'[x].todo \subseteq todo
         /\ e \in todo \ kills'[x].todo =>
              engines'[e].halted /\ (kills'[x].at # e => engines'[e].killed)
         /\ e = before => engines'[e].killed
         /\ engines[e].halted => engines'[e].halted
         /\ engines[e].killed => engines'[e].killed
         /\ e \notin todo => engines'[e].missed = engines[e].missed
<1>1. PICK done \in SUBSET todo :
        \E next \in {d \in todo \ done : Live(engines[d].key)} \cup {NoEngine} :
          /\ engines' = [d \in Engine |->
               [engines[d] EXCEPT
                  !.halted = @ \/ (d \in done \cup {next} /\ engines[d].wired),
                  !.killed = @ \/ (d \in done \cup {before} /\ engines[d].wired),
                  !.missed = @ /\ d \notin todo]]
          /\ kills' = [kills EXCEPT ![x] = [todo |-> todo \ (done \cup {next}), at |-> next]]
  BY DEF Sweep
<1>2. PICK next :
          /\ engines'[e] =
               [engines[e] EXCEPT
                  !.halted = engines[e].halted \/ (e \in done \cup {next} /\ engines[e].wired),
                  !.killed = engines[e].killed \/ (e \in done \cup {before} /\ engines[e].wired),
                  !.missed = engines[e].missed /\ e \notin todo]
          /\ kills' = [kills EXCEPT ![x] = [todo |-> todo \ (done \cup {next}), at |-> next]]
  BY <1>1
<1>3. /\ engines[e] \in EngineState
      /\ kills \in [Kills -> [todo: SUBSET Engine, at: Engine \cup {NoEngine}]]
  BY DEF TypeOK
<1>4. /\ engines'[e].halted <=> engines[e].halted \/ e \in done \cup {next}
      /\ engines'[e].killed <=> engines[e].killed \/ e \in done \cup {before}
      /\ engines'[e].missed <=> engines[e].missed /\ e \notin todo
      /\ engines'[e].missed \in BOOLEAN
  BY <1>2, <1>3 DEF EngineState
<1>5. /\ kills'[x].todo = todo \ (done \cup {next}) /\ kills'[x].at = next
      /\ \A y \in Kills \ {x} : kills'[y] = kills[y]
  BY <1>2, <1>3
<1>6. engines[e].missed \in BOOLEAN
  BY <1>3 DEF EngineState
<1> QED BY <1>4, <1>5, <1>6

\* Nothing is newly promised of engines that were registered and keep their flags.
LEMMA ToldOfFewer ==
  ASSUME Told, UNCHANGED <<engaged, kills>>,
         \A e \in Engine : Registered(e)' =>
           /\ Registered(e) /\ engines'[e].missed = engines[e].missed
           /\ engines'[e].halted = engines[e].halted /\ engines'[e].killed = engines[e].killed
  PROVE  Told'
  BY DEF Told

\* A kill keeps its promise however it interleaves with other kills, releases, starts
\* and stops.
LEMMA ToldKept ==
  TypeOK /\ HandlesServe /\ HandlesServe' /\ Told /\ [Next]_vars => Told'
<1> SUFFICES ASSUME TypeOK, HandlesServe, HandlesServe', Told, [Next]_vars
             PROVE  Told'
  OBVIOUS
<1>1. ASSUME NEW s \in Starts, Built(s)
      PROVE  Told'
  <2>1. PICK e \in Free : Opened(s, e)
    BY <1>1, BuiltDoes
  <2>2. ASSUME NEW d \in Engine, Registered(d)', d # e
        PROVE  Registered(d) /\ engines'[d] = engines[d]
    BY <2>1, <2>2 DEF Opened, Registered, TypeOK
  <2> QED BY <2>1, <2>2 DEF Told, Opened
<1>2. ASSUME NEW s \in Starts, StartFailed(s)
      PROVE  Told'
  <2>1. Failed(s)
    BY <1>2, FailureDoes
  <2>2. \A e \in Engine : Registered(e)' => Registered(e) /\ engines'[e] = engines[e]
    BY <2>1, ManagerAssumption DEF Failed, Registered, HandlesServe, TypeOK
  <2> QED BY <2>1, <2>2, ToldOfFewer DEF Failed
<1>3. ASSUME NEW k \in Key, Stop(k)
      PROVE  Told'
  <2>1. \A e \in Engine : Registered(e)' => Registered(e) /\ e # handles[k]
    BY <1>3, ManagerAssumption DEF Stop, Registered, HandlesServe, TypeOK
  <2>2. \A e \in Engine \ {handles[k]} : engines'[e] = engines[e]
    BY <1>3 DEF Stop, TypeOK
  <2> QED BY <1>3, <2>1, <2>2, ToldOfFewer DEF Stop
<1>4. ASSUME NEW e \in Engine, StopGoesOn(e)
      PROVE  Told'
  <2>1. UNCHANGED <<engaged, handles, kills>> /\ engines[e].closing # "no"
    BY <1>4 DEF StopGoesOn, CloseLoops, Unwired, CloseBroker
  <2>2. \A d \in Engine \ {e} : engines'[d] = engines[d]
    BY <1>4 DEF StopGoesOn, CloseLoops, Unwired, CloseBroker, TypeOK
  <2> QED BY <2>1, <2>2, ManagerAssumption, ToldOfFewer DEF Registered, HandlesServe
<1>5. ASSUME NEW x \in Kills, Kill(x)
      PROVE  Told'
  <2> DEFINE todo == {e \in Engine : Registered(e)}
  <2>1. Sweep(x, NoEngine, todo) /\ UNCHANGED handles
    BY <1>5 DEF Kill
  <2>2. ASSUME NEW e \in Engine, Registered(e)', \A y \in Kills : e \notin kills'[y].todo
        PROVE  engines'[e].halted /\ (kills'[x].at # e => engines'[e].killed)
    <3>1. e \in todo /\ engines[e].wired
      BY <2>1, <2>2, ManagerAssumption DEF Registered, HandlesServe
    <3> HIDE DEF todo
    <3>2. todo \in SUBSET Engine
      BY DEF todo
    <3> QED BY <2>1, <2>2, <3>1, <3>2, SweepTells
  <2> QED BY <2>2 DEF Told
<1>6. ASSUME NEW x \in Kills, KillGoesOn(x)
      PROVE  Told'
  <2> DEFINE todo == kills[x].todo
             before == kills[x].at
  <2>1. Sweep(x, before, todo) /\ UNCHANGED <<engaged, handles>> /\ todo \in SUBSET Engine
    BY <1>6 DEF KillGoesOn, TypeOK
  <2>2. ASSUME engaged, NEW e \in Engine, Registered(e)', ~engines'[e].missed,
               \A y \in Kills : e \notin kills'[y].todo
        PROVE  /\ engines'[e].halted
               /\ (\A y \in Kills : kills'[y].at # e) => engines'[e].killed
    <3>1. Registered(e) /\ engines[e].wired
      BY <2>1, <2>2, ManagerAssumption DEF Registered, HandlesServe
    <3>2. CASE e \in todo
      BY <2>1, <2>2, <3>1, <3>2, SweepTells
    <3>3. CASE e \notin todo
      <4>1. ~engines[e].missed /\ \A y \in Kills : e \notin kills[y].todo
        BY <2>1, <2>2, <3>1, <3>3, SweepTells
      <4>2. engines[e].halted /\ ((\A y \in Kills : kills[y].at # e) => engines[e].killed)
        BY <2>2, <3>1, <4>1 DEF Told
      <4> QED BY <2>1, <3>1, <4>2, SweepTells
    <3> QED BY <3>2, <3>3
  <2> QED BY <2>1, <2>2 DEF Told
<1>7. ASSUME NEW u \in Users, Resume(u)
      PROVE  Told'
  BY <1>7 DEF Resume, Told
<1>8. ASSUME NEW k \in Key, Reset(k)
      PROVE  Told'
  <2>1. \A e \in Engine : /\ engines'[e].missed = engines[e].missed
                          /\ engines'[e].halted = engines[e].halted
                          /\ engines'[e].killed = engines[e].killed
    BY <1>8, ResetMarks
  <2>2. UNCHANGED <<engaged, handles, kills>>
    BY <1>8 DEF Reset
  <2> QED BY <2>1, <2>2, ToldOfFewer DEF Registered
<1>9. CASE Restart
  <2>1. \A e \in Engine : ~Registered(e)'
    BY <1>9, ManagerAssumption DEF Restart, Registered
  <2> QED BY <2>1 DEF Told
<1>10. ASSUME NEW s \in Starts, Synced(s)
       PROVE  Told'
  <2>1. \A e \in Engine : /\ engines'[e].missed = engines[e].missed
                          /\ engines'[e].halted = engines[e].halted
                          /\ engines'[e].killed = engines[e].killed
    BY <1>10 DEF Synced, TypeOK, EngineState
  <2>2. UNCHANGED <<engaged, handles, kills>>
    BY <1>10 DEF Synced
  <2> QED BY <2>1, <2>2, ToldOfFewer DEF Registered
<1>11. CASE UNCHANGED <<engaged, handles, engines, kills>>
  BY <1>11, ToldOfFewer DEF Registered
<1> QED
  BY <1>1, <1>2, <1>3, <1>4, <1>5, <1>6, <1>7, <1>8, <1>9, <1>10, <1>11
  DEF Next, StartGoesOn, Start, BuildFails, SyncFails, Flatten, FlattenGoesOn, ExitEnds, vars

\* No step but a release or a closing takes the halt from an engine with a broker.
LEMMA HaltStays ==
  ASSUME TypeOK, [Next]_vars, NEW e \in Engine, engines[e].halted, engines[e].open
  PROVE  engines'[e].halted \/ ~engaged' \/ ~engines'[e].open
<1> DEFINE Goal == engines'[e].halted \/ ~engaged' \/ ~engines'[e].open
<1>0. engines[e] \in EngineState
  BY DEF TypeOK
<1>1. ASSUME NEW s \in Starts, Built(s)
      PROVE  Goal
  <2>1. PICK d \in Free : Opened(s, d)
    BY <1>1, BuiltDoes
  <2>2. d # e
    BY <2>1 DEF Free
  <2> QED BY <2>1, <2>2 DEF Opened
<1>2. ASSUME NEW s \in Starts, StartFailed(s)
      PROVE  Goal
  <2>1. Failed(s)
    BY <1>2, FailureDoes
  <2> QED BY <2>1 DEF Failed
<1>3. ASSUME NEW s \in Starts, Synced(s)
      PROVE  Goal
  BY <1>0, <1>3 DEF Synced, TypeOK, EngineState
<1>4. ASSUME NEW k \in Key, Stop(k)
      PROVE  Goal
  BY <1>0, <1>4 DEF Stop, TypeOK, EngineState
<1>5. ASSUME NEW d \in Engine, CloseLoops(d)
      PROVE  Goal
  BY <1>0, <1>5 DEF CloseLoops, Unwired, TypeOK, EngineState
<1>6. ASSUME NEW d \in Engine, CloseBroker(d)
      PROVE  Goal
  <2>1. LetGo(d)
    BY <1>6, ClosingDoes
  <2> QED BY <2>1 DEF LetGo
<1>7. ASSUME NEW x \in Kills, NEW before, NEW todo, Sweep(x, before, todo)
      PROVE  Goal
  <2>1. PICK done, next : engines'[e] =
          [engines[e] EXCEPT
             !.halted = engines[e].halted \/ (e \in done \cup {next} /\ engines[e].wired),
             !.killed = engines[e].killed \/ (e \in done \cup {before} /\ engines[e].wired),
             !.missed = engines[e].missed /\ e \notin todo]
    BY <1>7 DEF Sweep
  <2> QED BY <1>0, <2>1 DEF EngineState
<1>8. ASSUME NEW u \in Users, Resume(u)
      PROVE  Goal
  BY <1>8 DEF Resume
<1>9. ASSUME NEW k \in Key, Reset(k)
      PROVE  Goal
  BY <1>9, ResetMarks
<1>10. CASE Restart
  <2>1. engines'[e] = Blank
    BY <1>10 DEF Restart
  <2> QED BY <2>1, Blanks
<1>11. CASE UNCHANGED engines
  BY <1>11
<1> QED
  BY <1>1, <1>2, <1>3, <1>4, <1>5, <1>6, <1>7, <1>8, <1>9, <1>10, <1>11
  DEF Next, StartGoesOn, StopGoesOn, Start, BuildFails, SyncFails, Kill, KillGoesOn, Flatten,
      FlattenGoesOn, ExitEnds, vars
-----------------------------------------------------------------------------
(* The theorems.                                                           *)

\* A process that comes up has no engine and no request under way.
LEMMA Beginning == Init => Inv
<1> SUFFICES ASSUME Init
             PROVE  Inv
  OBVIOUS
<1>1. \A e \in Engine : engines[e] = Blank
  BY DEF Init
<1>2. \A k \in Key : handles[k] = NoEngine
  BY DEF Init
<1>3. \A s \in Starts : starts[s].pc = "idle"
  BY Blanks DEF Init
<1>4. TypeOK
  BY Blanks DEF Init, TypeOK
<1>5. StartsMatch /\ BuildsAlone
  BY <1>3 DEF StartsMatch, BuildsAlone
<1>6. HandlesServe /\ PaperOwned /\ BookIsCurrent
  BY <1>1, <1>2, Blanks DEF HandlesServe, PaperOwned, BookIsCurrent, AtWork
<1>7. Told
  BY <1>2, ManagerAssumption DEF Told, Registered
<1> QED BY <1>4, <1>5, <1>6, <1>7 DEF Inv

\* The invariant is inductive.
LEMMA InvKept == Inv /\ [Next]_vars => Inv'
  BY Typing, StartsMatchKept, BuildsAloneKept, HandlesServeKept, PaperOwnedKept,
     BookIsCurrentKept, ToldKept
  DEF Inv

\* The invariant holds of every behaviour of the manager.
LEMMA AlwaysInv == Spec => []Inv
  BY Beginning, InvKept, PTL DEF Spec

\* The variables keep their types.
THEOREM ManagerTypes == Spec => []TypeOK
<1>1. Inv => TypeOK
  BY DEF Inv
<1> QED BY <1>1, AlwaysInv, PTL

\* Under a pulled switch, a registered engine no kill is still on its way to has been
\* told to stop, unless it was registered after the kill.
THEOREM KillAlwaysReaches == Spec => []KillReaches
<1>1. Inv => KillReaches
  BY DEF Inv, Told, KillReaches, Reaching
<1> QED BY <1>1, AlwaysInv, PTL

\* No interleaving of starts, stops and failures leaves a paper engine trading where
\* stop and kill do not find it.
THEOREM PaperStaysOwned == Spec => []PaperOwned
<1>1. Inv => PaperOwned
  BY DEF Inv
<1> QED BY <1>1, AlwaysInv, PTL

\* What is registered listens, has its broker, and is not being torn down.
THEOREM HandlesAlwaysServe == Spec => []HandlesServe
<1>1. Inv => HandlesServe
  BY DEF Inv
<1> QED BY <1>1, AlwaysInv, PTL

\* No registered engine works from a wiped account.
THEOREM BooksStayCurrent == Spec => []BookIsCurrent
<1>1. Inv => BookIsCurrent
  BY DEF Inv
<1> QED BY <1>1, AlwaysInv, PTL

\* A flatten let in before the kill gets no exit past an engine the kill has come to.
THEOREM ExitsAlwaysObey == Spec => ExitsObeyKill
<1>1. ASSUME Inv, [Next]_vars
      PROVE  [\A e \in exits' \ exits :
                engaged /\ Registered(e) /\ ~engines[e].missed
                  => \E x \in Kills : e \in kills[x].todo]_vars
  <2> SUFFICES ASSUME NEW e \in exits' \ exits, engaged, Registered(e), ~engines[e].missed
               PROVE  \E x \in Kills : e \in kills[x].todo
    OBVIOUS
  <2>1. e \in Engine
    BY <1>1, Typing, SMTT(30) DEF Inv, TypeOK
  <2>2. ~engines[e].halted
    BY <1>1 DEF Next, Start, StartGoesOn, Built, BuildFails, Synced, SyncFails, StartFailed,
                Stop, Flatten, Reset, StopGoesOn, CloseLoops, Unwired, CloseBroker, ExitEnds, Kill,
                KillGoesOn, Resume, FlattenGoesOn, SendExits, Restart, vars
  <2> QED BY <1>1, <2>1, <2>2 DEF Inv, Told
<1> QED BY <1>1, AlwaysInv, PTL DEF Spec, ExitsObeyKill

\* An engine that was told to stop is let go by nothing but the release of the switch, or
\* the end of its broker: not by another start, stop, kill, flatten or reset.
THEOREM HaltsAlwaysHold == Spec => HaltHolds
<1>1. ASSUME Inv, [Next]_vars
      PROVE  [\A e \in Engine :
                engines[e].halted /\ engines[e].open /\ ~engines'[e].halted
                  => ~engaged' \/ ~engines'[e].open]_vars
  BY <1>1, HaltStays DEF Inv
<1> QED BY <1>1, AlwaysInv, PTL DEF Spec, HaltHolds
-----------------------------------------------------------------------------
(* The bars of a backtest.                                                 *)

\* A bar starts at a mark of its interval.
Bar == [start: Nat, width: Nat \ {0}, open: Nat, close: Nat]
Bars == {b \in Bar : (b.start % Session) % b.width = 0}

\* No two bars of an interval start at one time.
Distinct(bars) == \A b, c \in bars : b.width = c.width /\ b.start = c.start => b = c

\* The end of a bar is after its start, an interval later or earlier, in its session.
LEMMA BarEnds ==
  ASSUME NEW b \in Bars
  PROVE  /\ b.start \in Nat /\ b.width \in Nat \ {0} /\ b.open \in Nat /\ b.close \in Nat
         /\ BarEnd(b) \in Nat /\ b.start < BarEnd(b)
         /\ BarEnd(b) <= b.start + b.width /\ BarEnd(b) <= Close(b.start)
<1>1. b \in Bar /\ Session \in Nat \ {0}
  BY BacktestAssumption DEF Bars
<1>2. b.start \in Nat /\ b.width \in Nat \ {0} /\ b.open \in Nat /\ b.close \in Nat
  BY <1>1 DEF Bar
<1>3. PICK q \in Nat : q = DayOf(b.start) /\ b.start < q * Session + Session
  BY <1>1, <1>2, Quotient, SMTT(30) DEF DayOf
<1>4. PICK c \in Nat : c = Close(b.start) /\ b.start < c
  <2>1. (q + 1) * Session = q * Session + Session /\ (q + 1) * Session \in Nat
    BY <1>1
  <2> QED BY <1>3, <2>1 DEF Close
<1> QED BY <1>2, <1>4 DEF BarEnd, Lower

\* A bar ends before the next one of its interval starts.
LEMMA Apart ==
  ASSUME NEW a \in Bars, NEW b \in Bars, a.width = b.width, a.start < b.start
  PROVE  BarEnd(a) <= b.start
<1> DEFINE S == Session
           w == a.width
<1>1. S \in Nat \ {0} /\ w \in Nat \ {0} /\ a.start \in Nat /\ b.start \in Nat
  BY BarEnds, BacktestAssumption
<1>2. BarEnd(a) \in Nat /\ BarEnd(a) <= a.start + w /\ BarEnd(a) <= Close(a.start)
  BY BarEnds
<1>3. PICK q \in Nat, x \in Nat : q = DayOf(a.start) /\ x = a.start % S /\ a.start = q * S + x
  BY <1>1, Quotient, ZenonT(60) DEF DayOf
<1>4. PICK p \in Nat, y \in Nat : p = DayOf(b.start) /\ y = b.start % S /\ b.start = p * S + y
  BY <1>1, Quotient, ZenonT(60) DEF DayOf
<1>5. x % w = 0 /\ y % w = 0
  BY <1>3, <1>4 DEF Bars
<1>6. PICK i \in Nat : x = i * w
  <2>1. x \div w \in Nat /\ x = (x \div w) * w + (x % w)
    BY <1>1, Quotient
  <2>2. PICK i \in Nat : i = x \div w /\ x = i * w + 0
    BY <1>5, <2>1
  <2>3. i * w \in Nat
    BY <1>1
  <2> QED BY <2>2, <2>3
<1>7. PICK j \in Nat : y = j * w
  <2>1. y \div w \in Nat /\ y = (y \div w) * w + (y % w)
    BY <1>1, Quotient
  <2>2. PICK j \in Nat : j = y \div w /\ y = j * w + 0
    BY <1>5, <2>1
  <2>3. j * w \in Nat
    BY <1>1
  <2> QED BY <2>2, <2>3
<1>8. q <= p
  BY <1>1, <1>3, <1>4, QuotientGrows DEF DayOf
<1> HIDE DEF S, w
<1>9. CASE q < p
  <2>1. (q + 1) * S <= p * S
    BY <1>1, <1>9, TimesGrows
  <2>2. Close(a.start) = (q + 1) * S
    BY <1>3 DEF Close, S
  <2>3. (q + 1) * S \in Nat /\ p * S \in Nat
    BY <1>1
  <2> QED BY <1>2, <1>4, <2>1, <2>2, <2>3
<1>10. CASE q = p
  <2>1. q * S \in Nat /\ i * w \in Nat /\ j * w \in Nat
    BY <1>1
  <2>2. x < y
    BY <1>3, <1>4, <1>10, <2>1
  <2>3. i < j
    <3>1. CASE j <= i
      <4>1. j * w <= i * w
        BY <1>1, <3>1, TimesGrows
      <4> QED BY <1>6, <1>7, <2>1, <2>2, <4>1
    <3> QED BY <3>1
  <2>4. (i + 1) * w <= j * w
    BY <1>1, <2>3, TimesGrows
  <2>5. (i + 1) * w = i * w + w
    BY <1>1
  <2>6. x + w <= y
    BY <1>1, <1>6, <1>7, <2>1, <2>4, <2>5
  <2> QED BY <1>1, <1>2, <1>3, <1>4, <1>10, <2>1, <2>6
<1> QED BY <1>8, <1>9, <1>10

\* Of a set of bars the one replayed next ends first, and before any other of its
\* interval starts.
LEMMA SoonestIs ==
  ASSUME NEW bars \in SUBSET Bars, Distinct(bars), NEW b \in Soonest(bars), NEW c \in bars
  PROVE  /\ BarEnd(b) <= BarEnd(c)
         /\ c # b /\ c.width = b.width => BarEnd(b) <= c.start
<1>1. b \in bars /\ ~Sooner(c, b)
  BY DEF Soonest
<1>2. BarEnd(b) \in Nat /\ BarEnd(c) \in Nat /\ b.start \in Nat /\ c.start \in Nat
  BY <1>1, BarEnds
<1>3. BarEnd(b) <= BarEnd(c)
  BY <1>1, <1>2 DEF Sooner
<1>4. ASSUME c # b, c.width = b.width PROVE BarEnd(b) <= c.start
  <2>1. b.start # c.start
    BY <1>1, <1>4 DEF Distinct
  <2>2. CASE b.start < c.start
    BY <1>1, <1>4, <2>2, Apart
  <2>3. CASE c.start < b.start
    <3>1. BarEnd(c) <= b.start
      BY <1>1, <1>4, <2>3, Apart
    <3>2. b.start < BarEnd(b)
      BY <1>1, BarEnds
    <3> QED BY <1>2, <1>3, <3>1, <3>2
  <2> QED BY <1>2, <2>1, <2>2, <2>3
<1> QED BY <1>3, <1>4

\* The start of a window is at a mark of its interval.
LEMMA BarStartIs ==
  ASSUME NEW t \in Nat, NEW w \in Nat \ {0}
  PROVE  BarStart(t, w) \in Nat /\ (BarStart(t, w) % Session) % w = 0
<1> DEFINE S == Session
<1>1. S \in Nat \ {0}
  BY BacktestAssumption
<1>2. PICK q \in Nat, r \in Nat : r = t % S /\ t = q * S + r /\ r < S
  BY <1>1, Quotient
<1>3. PICK k \in Nat, e \in Nat : e = r % w /\ r = k * w + e /\ e < w
  BY Quotient
<1> DEFINE m == k * w
           u == q * S + m
<1>4. m \in Nat /\ q * S \in Nat /\ r = m + e
  BY <1>1, <1>3
<1>5. BarStart(t, w) = u /\ u \in Nat
  <2>1. BarStart(t, w) = t - e
    BY <1>2, <1>3 DEF BarStart
  <2> HIDE DEF m
  <2> QED BY <1>2, <1>4, <2>1
<1> HIDE DEF S, m
<1>6. q * S <= u /\ u < q * S + S
  BY <1>1, <1>2, <1>4
<1>7. u \div S = q
  BY <1>1, <1>5, <1>6, QuotientIs
<1>8. u % S = m
  <2>1. u = (u \div S) * S + (u % S) /\ u % S \in Nat
    BY <1>1, <1>5, Quotient
  <2> HIDE DEF u
  <2>2. u = q * S + (u % S)
    BY <1>7, <2>1
  <2> QED BY <1>4, <2>1, <2>2 DEF u
<1>9. m % w = 0
  <2>1. k * w <= m /\ m < k * w + w
    BY <1>4 DEF m
  <2>2. m \div w = k
    BY <1>4, <2>1, QuotientIs
  <2>3. m = (m \div w) * w + (m % w) /\ m % w \in Nat
    BY <1>4, Quotient
  <2>4. m = k * w + (m % w)
    BY <2>2, <2>3
  <2> QED BY <1>4, <2>3, <2>4 DEF m
<1> QED BY <1>5, <1>8, <1>9 DEF S

\* Of finitely many bars one starts first, and one last.
LEMMA FirstAndLast ==
  ASSUME NEW S \in SUBSET Bars, IsFiniteSet(S), S # {}
  PROVE  /\ \E m \in S : \A n \in S : m.start <= n.start
         /\ \E m \in S : \A n \in S : m.start >= n.start
<1> DEFINE P == {T \in SUBSET S : T # {} =>
                   /\ \E m \in T : \A n \in T : m.start <= n.start
                   /\ \E m \in T : \A n \in T : m.start >= n.start}
<1>1. \A b \in S : b.start \in Nat
  BY BarEnds
<1>2. ASSUME NEW T \in SUBSET S, \A x \in T : T \ {x} \in P PROVE T \in P
  <2>1. ASSUME NEW x \in T, T \ {x} = {} PROVE T \in P
    <3>1. \A n \in T : x.start <= n.start /\ x.start >= n.start
      BY <1>1, <2>1
    <3> QED BY <3>1
  <2>2. ASSUME NEW x \in T, T \ {x} # {} PROVE T \in P
    <3>1. PICK a \in T \ {x} : \A n \in T \ {x} : a.start <= n.start
      BY <1>2, <2>2
    <3>2. PICK z \in T \ {x} : \A n \in T \ {x} : z.start >= n.start
      BY <1>2, <2>2
    <3>3. \E m \in T : \A n \in T : m.start <= n.start
      <4>1. CASE x.start <= a.start
        <5>1. \A n \in T : x.start <= n.start
          BY <1>1, <3>1, <4>1
        <5> QED BY <5>1
      <4>2. CASE a.start <= x.start
        <5>1. \A n \in T : a.start <= n.start
          BY <1>1, <3>1, <4>2
        <5> QED BY <5>1
      <4> QED BY <1>1, <4>1, <4>2
    <3>4. \E m \in T : \A n \in T : m.start >= n.start
      <4>1. CASE x.start >= z.start
        <5>1. \A n \in T : x.start >= n.start
          BY <1>1, <3>2, <4>1
        <5> QED BY <5>1
      <4>2. CASE z.start >= x.start
        <5>1. \A n \in T : z.start >= n.start
          BY <1>1, <3>2, <4>2
        <5> QED BY <5>1
      <4> QED BY <1>1, <4>1, <4>2
    <3> QED BY <3>3, <3>4
  <2> QED BY <2>1, <2>2
<1>3. \A T \in SUBSET S : T \in P
  <2> HIDE DEF P
  <2> QED BY <1>2, SubsetInduction
<1> QED BY <1>3

\* Minutes made into bars of an interval: bars of it, one for each start.
LEMMA ResampledBars ==
  ASSUME NEW minutes \in SUBSET Bars, IsFiniteSet(minutes), NEW w \in Nat \ {0}
  PROVE  /\ IsFiniteSet(Resampled(minutes, w)) /\ Distinct(Resampled(minutes, w))
         /\ \A b \in Resampled(minutes, w) : b \in Bars /\ b.width = w
<1> DEFINE start == [m \in minutes |-> BarStart(m.start, w)]
           T == {BarStart(m.start, w) : m \in minutes}
           Of(s) == {m \in minutes : BarStart(m.start, w) = s}
           bar == [s \in T |-> Aggregate(Of(s), s, w)]
           R == Resampled(minutes, w)
<1>1. R = {bar[s] : s \in T}
  BY DEF Resampled
<1>2. IsFiniteSet(R)
  <2>1. start \in Surjection(minutes, T)
    BY DEF Surjection
  <2> HIDE DEF start, T
  <2>2. IsFiniteSet(T)
    BY <2>1, FS_Surjection
  <2>3. bar \in Surjection(T, R)
    BY <1>1 DEF Surjection
  <2> HIDE DEF bar, R
  <2> QED BY <2>2, <2>3, FS_Surjection
<1>3. ASSUME NEW s \in T
      PROVE  bar[s] \in Bars /\ bar[s].width = w /\ bar[s].start = s
  <2>1. PICK n \in minutes : s = BarStart(n.start, w)
    OBVIOUS
  <2>2. s \in Nat /\ (s % Session) % w = 0
    BY <2>1, BarStartIs, BarEnds
  <2> DEFINE first == CHOOSE m \in Of(s) : \A x \in Of(s) : m.start <= x.start
             last == CHOOSE m \in Of(s) : \A x \in Of(s) : m.start >= x.start
  <2>3. Of(s) \in SUBSET Bars /\ IsFiniteSet(Of(s)) /\ Of(s) # {}
    BY <2>1, FS_Subset
  <2> HIDE DEF T, bar
  <2>4. first \in Of(s) /\ last \in Of(s)
    <3> HIDE DEF Of
    <3>1. /\ \E m \in Of(s) : \A x \in Of(s) : m.start <= x.start
          /\ \E m \in Of(s) : \A x \in Of(s) : m.start >= x.start
      BY <2>3, FirstAndLast
    <3> QED BY <3>1
  <2>5. first.open \in Nat /\ last.close \in Nat
    BY <2>3, <2>4, BarEnds
  <2>6. Aggregate(Of(s), s, w) = [start |-> s, width |-> w, open |-> first.open, close |-> last.close]
    BY DEF Aggregate
  <2>7. bar[s] = Aggregate(Of(s), s, w)
    BY DEF bar
  <2> HIDE DEF first, last
  <2> QED BY <2>2, <2>5, <2>6, <2>7 DEF Bars, Bar
<1>4. Distinct(R)
  <2> HIDE DEF T, bar, R
  <2> QED BY <1>1, <1>3 DEF Distinct
<1>5. \A b \in R : b \in Bars /\ b.width = w
  <2> HIDE DEF T, bar, R
  <2> QED BY <1>1, <1>3
<1> QED BY <1>2, <1>4, <1>5

\* What is read of an interval: finitely many bars of it, one for each start.
LEMMA ReadBars ==
  ASSUME NEW w \in Nat \ {0}
  PROVE  /\ IsFiniteSet(Read(w)) /\ Distinct(Read(w))
         /\ \A b \in Read(w) : b \in Bars /\ b.width = w
<1>1. /\ IsFiniteSet(Archived) /\ Archived \subseteq Bars /\ Distinct(Archived)
  BY BacktestAssumption DEF Bars, Bar, Distinct
<1>2. ASSUME NEW v PROVE /\ IsFiniteSet(OfWidth(Archived, v)) /\ OfWidth(Archived, v) \in SUBSET Bars
                         /\ Distinct(OfWidth(Archived, v))
                         /\ \A b \in OfWidth(Archived, v) : b.width = v
  BY <1>1, FS_Subset DEF OfWidth, Distinct
<1>3. CASE OfWidth(Archived, w) # {}
  BY <1>2, <1>3 DEF Read
<1>4. CASE OfWidth(Archived, w) = {}
  <2>1. Read(w) = Resampled(OfWidth(Archived, 1), w)
    BY <1>4 DEF Read
  <2> QED BY <1>2, <2>1, ResampledBars
<1> QED BY <1>3, <1>4

\* The bars of a job: finitely many of its intervals, each interval's one after the
\* other, inside the window.
LEMMA WindowBars ==
  ASSUME NEW j \in Job
  PROVE  /\ IsFiniteSet(Window(Request[j])) /\ Window(Request[j]) \in SUBSET Bars
         /\ Distinct(Window(Request[j]))
         /\ \A b \in Window(Request[j]) :
              /\ b.width \in Request[j].widths
              /\ Request[j].first * Session <= b.start
         /\ Request[j].first \in Nat /\ Request[j].widths \subseteq Nat \ {0}
         /\ Request[j].first * Session \in Nat
<1> DEFINE r == Request[j]
           W == Window(r)
           U == UNION {Read(w) : w \in r.widths}
<1>1. /\ r.widths \subseteq Nat \ {0} /\ IsFiniteSet(r.widths) /\ r.first \in Nat
      /\ Session \in Nat \ {0} /\ r.first * Session \in Nat
  BY BacktestAssumption
<1> HIDE DEF r
<1>2. \A w \in r.widths : /\ IsFiniteSet(Read(w)) /\ Distinct(Read(w))
                          /\ \A b \in Read(w) : b \in Bars /\ b.width = w
  BY <1>1, ReadBars
<1>3. IsFiniteSet(U)
  <2> DEFINE R == {Read(w) : w \in r.widths}
             f == [w \in r.widths |-> Read(w)]
  <2>1. f \in Surjection(r.widths, R)
    BY DEF Surjection
  <2>2. \A T \in R : IsFiniteSet(T)
    BY <1>2
  <2> HIDE DEF f, R
  <2>3. IsFiniteSet(R)
    BY <1>1, <2>1, FS_Surjection
  <2>4. IsFiniteSet(UNION R)
    BY <2>2, <2>3, FS_UNION
  <2> QED BY <2>4 DEF R
<1>4. W \subseteq U /\ \A b \in W : DayOf(b.start) \in r.first .. r.last
  BY DEF Window
<1>5. IsFiniteSet(W)
  BY <1>3, <1>4, FS_Subset
<1>6. \A b \in W : b \in Bars /\ b.width \in r.widths
  BY <1>2, <1>4
<1>7. Distinct(W)
  <2>1. ASSUME NEW b \in W, NEW c \in W, b.width = c.width, b.start = c.start PROVE b = c
    <3>1. PICK w \in r.widths : b \in Read(w)
      BY <1>4
    <3>2. PICK v \in r.widths : c \in Read(v)
      BY <1>4
    <3> HIDE DEF W, U
    <3>3. v = w
      BY <1>2, <2>1, <3>1, <3>2
    <3> QED BY <1>2, <2>1, <3>1, <3>2, <3>3 DEF Distinct
  <2> HIDE DEF W
  <2> QED BY <2>1 DEF Distinct
<1>8. ASSUME NEW b \in W PROVE r.first * Session <= b.start
  <2>1. b.start \in Nat
    BY <1>6, BarEnds
  <2>2. DayOf(b.start) \in Nat /\ DayOf(b.start) * Session <= b.start
    <3>1. PICK q \in Nat, y \in Nat : q = DayOf(b.start) /\ b.start = q * Session + y
      BY <1>1, <2>1, Quotient DEF DayOf
    <3>2. q * Session \in Nat
      BY <1>1
    <3> QED BY <3>1, <3>2
  <2>3. r.first <= DayOf(b.start)
    <3>1. DayOf(b.start) \in r.first .. r.last
      BY <1>4
    <3> QED BY <3>1
  <2>4. r.first * Session <= DayOf(b.start) * Session
    BY <1>1, <2>2, <2>3, TimesGrows
  <2>5. DayOf(b.start) * Session \in Nat
    BY <1>1, <2>2
  <2> QED BY <1>1, <2>1, <2>2, <2>4, <2>5
<1> QED BY <1>1, <1>5, <1>6, <1>7, <1>8 DEF r
-----------------------------------------------------------------------------
(* Steps one after the other, and sums of gains.                           *)

\* What holds of the first value and, of each value, if it holds of the one before
\* it, holds of N values.
LEMMA StepsKeep ==
  ASSUME NEW N \in Nat, NEW X, NEW g, g[0] \in X[0],
         \A n \in 1..N : g[n - 1] \in X[n - 1] => g[n] \in X[n]
  PROVE  \A n \in 0..N : g[n] \in X[n]
<1> DEFINE P == {n \in Nat : n <= N => g[n] \in X[n]}
<1>1. 0 \in P
  OBVIOUS
<1>2. ASSUME NEW n \in Nat, n \in P PROVE n + 1 \in P
  <2>1. CASE n + 1 <= N
    <3>1. n + 1 \in 1..N /\ (n + 1) - 1 = n /\ g[n] \in X[n]
      BY <1>2, <2>1
    <3>2. g[n + 1] \in X[n + 1]
      BY <3>1
    <3> QED BY <3>2
  <2>2. CASE ~(n + 1 <= N)
    BY <2>2
  <2> QED BY <2>1, <2>2
<1>3. Nat \subseteq P
  <2> HIDE DEF P
  <2> QED BY <1>1, <1>2, NumberInduction
<1> QED BY <1>3

\* Each step leads from one set of values to the next.
Leads(step, X, N) == \A n \in 1..N : \A x \in X[n - 1] : step[<<n, x>>] \in X[n]

\* The values N steps from a go through.
Course(g, a, step, X, N) ==
  /\ g = [n \in 0..N |-> g[n]] /\ g[0] = a
  /\ \A n \in 1..N : g[n] = step[<<n, g[n - 1]>>] /\ g[n - 1] \in X[n - 1]

\* N steps can be taken from a value, one after the other.
LEMMA StepsExist ==
  ASSUME NEW N \in Nat, NEW X, NEW a \in X[0], NEW step, Leads(step, X, N)
  PROVE  \E g : Course(g, a, step, X, N)
<1> USE DEF Leads
<1> DEFINE Up(g, m) == /\ g = [n \in 0..N |-> g[n]]
                       /\ g[0] = a
                       /\ \A n \in 0..N : n <= m => g[n] \in X[n]
                       /\ \A n \in 1..N : n <= m => g[n] = step[<<n, g[n - 1]>>]
           P == {m \in Nat : \E g : Up(g, m)}
<1>1. 0 \in P
  <2>1. Up([n \in 0..N |-> a], 0)
    OBVIOUS
  <2> HIDE DEF Up
  <2> QED BY <2>1
<1>2. ASSUME NEW m \in Nat, m \in P PROVE m + 1 \in P
  <2>1. PICK g : Up(g, m)
    BY <1>2
  <2>2. CASE m + 1 \notin 1..N
    <3>1. \A n \in 0..N : n <= m
      BY <2>2
    <3>2. Up(g, m + 1)
      BY <2>1, <3>1
    <3> HIDE DEF Up
    <3> QED BY <3>2
  <2>3. CASE m + 1 \in 1..N
    <3> DEFINE v == step[<<m + 1, g[m]>>]
               h == [n \in 0..N |-> IF n = m + 1 THEN v ELSE g[n]]
    <3>1. m \in 0..N /\ m = (m + 1) - 1 /\ g[m] \in X[m]
      BY <2>1, <2>3
    <3>2. v \in X[m + 1]
      BY <2>3, <3>1
    <3>3. h = [n \in 0..N |-> h[n]]
      OBVIOUS
    <3>4. h[m + 1] = v /\ \A n \in 0..N : n <= m => h[n] = g[n]
      BY <2>3
    <3> HIDE DEF h
    <3>5. Up(h, m + 1)
      <4>1. h[0] = a
        BY <2>1, <3>4
      <4>2. ASSUME NEW n \in 1..N, n <= m + 1 PROVE h[n] = step[<<n, h[n - 1]>>]
        <5>1. CASE n = m + 1
          <6>1. h[n - 1] = g[m]
            BY <3>1, <3>4, <5>1
          <6> QED BY <3>4, <5>1, <6>1
        <5>2. CASE n <= m
          <6>1. h[n] = g[n] /\ h[n - 1] = g[n - 1]
            BY <3>4, <5>2
          <6> QED BY <2>1, <5>2, <6>1
        <5> QED BY <4>2, <5>1, <5>2
      <4>3. ASSUME NEW n \in 0..N, n <= m + 1 PROVE h[n] \in X[n]
        <5>1. CASE n = m + 1
          BY <3>2, <3>4, <5>1
        <5>2. CASE n <= m
          BY <2>1, <3>4, <5>2
        <5> QED BY <4>3, <5>1, <5>2
      <4> QED BY <3>3, <4>1, <4>2, <4>3
    <3> HIDE DEF Up
    <3> QED BY <3>5
  <2> QED BY <2>2, <2>3
<1>3. N \in P
  <2> HIDE DEF P
  <2> QED BY <1>1, <1>2, NumberInduction
<1>4. PICK g : Up(g, N)
  BY <1>3
<1>5. g = [n \in 0..N |-> g[n]] /\ g[0] = a
  BY <1>4
<1>6. \A n \in 1..N : g[n] = step[<<n, g[n - 1]>>] /\ g[n - 1] \in X[n - 1]
  <2>1. \A n \in 1..N : n - 1 \in 0..N /\ n - 1 <= N /\ n \in 0..N /\ n <= N
    OBVIOUS
  <2> QED BY <1>4, <2>1
<1> HIDE DEF Up
<1> QED BY <1>5, <1>6 DEF Course

\* A fill of the backtest, and what its quantity has gained when the price is x.
FillRec == [order: Nat, side: {1, -1}, qty: Nat, price: Nat, ts: Nat, width: Nat, togo: Nat]
Gain(f, q, x) == (x - f.price) * f.side * q - FeePerUnit * q
Gains(fills, x) == [i \in DOMAIN fills |-> Gain(fills[i], fills[i].qty, x)]

\* A gain is a number.
LEMMA GainIsInt ==
  ASSUME NEW f, f.price \in Int, f.side \in {1, -1}, NEW q \in Int, NEW x \in Int
  PROVE  Gain(f, q, x) \in Int
  BY BacktestAssumption DEF Gain

\* The gains of fills are a sequence of numbers, one more with every fill.
LEMMA GainsOf ==
  ASSUME NEW fills \in Seq(FillRec), NEW x \in Nat
  PROVE  /\ Gains(fills, x) \in Seq(Int)
         /\ \A f \in FillRec :
              Gains(Append(fills, f), x) = Append(Gains(fills, x), Gain(f, f.qty, x))
<1>1. \A i \in DOMAIN fills : fills[i] \in FillRec
  OBVIOUS
<1>2. ASSUME NEW f \in FillRec PROVE Gain(f, f.qty, x) \in Int
  <2>1. f.price \in Int /\ f.side \in {1, -1} /\ f.qty \in Int /\ x \in Int
    BY DEF FillRec
  <2> QED BY <2>1, GainIsInt
<1>3. Gains(fills, x) \in Seq(Int) /\ Len(Gains(fills, x)) = Len(fills)
  <2>1. \A i \in DOMAIN fills : Gain(fills[i], fills[i].qty, x) \in Int
    BY <1>1, <1>2
  <2> QED BY <2>1 DEF Gains
<1>4. ASSUME NEW f \in FillRec
      PROVE  Gains(Append(fills, f), x) = Append(Gains(fills, x), Gain(f, f.qty, x))
  <2> DEFINE u == Append(fills, f)
             v == Append(Gains(fills, x), Gain(f, f.qty, x))
  <2>1. u \in Seq(FillRec) /\ Len(u) = Len(fills) + 1
    OBVIOUS
  <2>2. v \in Seq(Int) /\ Len(v) = Len(fills) + 1
    BY <1>2, <1>3
  <2>3. DOMAIN Gains(u, x) = 1..(Len(fills) + 1) /\ DOMAIN v = 1..(Len(fills) + 1)
    BY <2>1, <2>2 DEF Gains
  <2>4. ASSUME NEW i \in 1..(Len(fills) + 1) PROVE Gains(u, x)[i] = v[i]
    <3>1. Gains(u, x)[i] = Gain(u[i], u[i].qty, x)
      BY <2>3 DEF Gains
    <3>2. CASE i = Len(fills) + 1
      <4>1. u[i] = f /\ v[i] = Gain(f, f.qty, x)
        BY <1>2, <1>3, <3>2
      <4> QED BY <3>1, <4>1
    <3>3. CASE i \in 1..Len(fills)
      <4>1. u[i] = fills[i] /\ v[i] = Gains(fills, x)[i]
        BY <1>2, <1>3, <3>3
      <4>2. Gains(fills, x)[i] = Gain(fills[i], fills[i].qty, x)
        BY <3>3 DEF Gains
      <4> QED BY <3>1, <4>1, <4>2
    <3>4. i = Len(fills) + 1 \/ i \in 1..Len(fills)
      OBVIOUS
    <3> QED BY <3>2, <3>3, <3>4
  <2>5. Gains(u, x) = [i \in 1..(Len(fills) + 1) |-> Gains(u, x)[i]]
    BY <2>3 DEF Gains
  <2>6. v = [i \in 1..(Len(fills) + 1) |-> v[i]]
    BY <2>2, <2>3
  <2> HIDE DEF u, v
  <2> QED BY <2>4, <2>5, <2>6 DEF u, v
<1> QED BY <1>3, <1>4
-----------------------------------------------------------------------------
(* The simulated account.                                                  *)

\* The account of a replay whose bars have their intervals in W.
OrderOf(W) == [side: {1, -1}, left: Nat, created: Nat, width: {0} \cup W, togo: Nat]
SimOf(W) == [clock: Nat, cash: Int, held: Int, last: Nat,
             orders: Seq(OrderOf(W)), fills: Seq(FillRec)]

\* Its fills have gained, at any price, what its cash and its position have.
Balanced(s) == \A x \in Nat : SumFunction(Gains(s.fills, x)) = s.cash + s.held * x - Cash

\* A bar of some width, with some to go, may fill order o at ts: at once if the broker
\* liquidates, and else after it was placed, at an older price only of another interval.
MayFill(W, o, ts, width, togo) ==
  IF o.width = 0 THEN ts = o.created
  ELSE togo < o.togo /\ width \in W /\ (ts < o.created => width # o.width)

Explained(s, W) ==
  \A i \in DOMAIN s.fills :
    LET f == s.fills[i]
    IN f.order \in DOMAIN s.orders /\ MayFill(W, s.orders[f.order], f.ts, f.width, f.togo)

Sound(s, W) == s \in SimOf(W) /\ Balanced(s) /\ Explained(s, W)

\* Nothing is left of the broker's own orders.
Spent(s) == \A o \in DOMAIN s.orders : s.orders[o].width = 0 => s.orders[o].left = 0

\* The orders are the same but for what is left of them.
SameOrders(s, t) ==
  /\ DOMAIN t.orders = DOMAIN s.orders
  /\ \A o \in DOMAIN s.orders : /\ t.orders[o].created = s.orders[o].created
                                /\ t.orders[o].width = s.orders[o].width
                                /\ t.orders[o].togo = s.orders[o].togo

\* What is explained stays so when orders keep what they are.
LEMMA StayExplained ==
  ASSUME NEW W, NEW s, NEW t, Explained(s, W), SameOrders(s, t), t.fills = s.fills
  PROVE  Explained(t, W)
  BY DEF Explained, SameOrders, MayFill

\* The orders when q is left of one.
Leaving(s, o, q) == [s.orders EXCEPT ![o].left = q]

\* An order with less left is the same order.
LEMMA LessLeft ==
  ASSUME NEW W, NEW s, Sound(s, W), NEW o \in DOMAIN s.orders, NEW q \in Nat,
         NEW u, u = Leaving(s, o, q)
  PROVE  /\ u \in Seq(OrderOf(W)) /\ DOMAIN u = DOMAIN s.orders
         /\ \A p \in DOMAIN s.orders :
              /\ u[p].side = s.orders[p].side
              /\ u[p].created = s.orders[p].created
              /\ u[p].width = s.orders[p].width
              /\ u[p].togo = s.orders[p].togo
              /\ p # o => u[p].left = s.orders[p].left
         /\ u[o].left = q
<1> DEFINE new == [s.orders[o] EXCEPT !.left = q]
<1>1. s.orders \in Seq(OrderOf(W)) /\ s.orders[o] \in OrderOf(W)
  BY DEF Sound, SimOf
<1>2. new \in OrderOf(W)
  BY <1>1 DEF OrderOf
<1>3. u = [s.orders EXCEPT ![o] = new]
  BY DEF Leaving
<1>4. u \in Seq(OrderOf(W)) /\ DOMAIN u = DOMAIN s.orders
  BY <1>1, <1>2, <1>3, ExceptSeq
<1>5. /\ new.side = s.orders[o].side /\ new.created = s.orders[o].created
      /\ new.width = s.orders[o].width /\ new.togo = s.orders[o].togo
      /\ new.left = q
  BY <1>1 DEF OrderOf
<1>6. \A p \in DOMAIN s.orders : u[p] = IF p = o THEN new ELSE s.orders[p]
  BY <1>3
<1> HIDE DEF new
<1>7. \A p \in DOMAIN s.orders :
        /\ u[p].side = s.orders[p].side
        /\ u[p].created = s.orders[p].created
        /\ u[p].width = s.orders[p].width
        /\ u[p].togo = s.orders[p].togo
        /\ p # o => u[p].left = s.orders[p].left
  BY <1>5, <1>6
<1>8. u[o].left = q
  BY <1>5, <1>6
<1> QED BY <1>4, <1>7, <1>8

\* A fill keeps the account sound and changes what is left of its order only.
LEMMA FillIsSound ==
  ASSUME NEW W, NEW s, Sound(s, W), NEW o \in DOMAIN s.orders,
         NEW q \in Nat, q <= s.orders[o].left, NEW price \in Nat, NEW ts \in Nat,
         NEW b, b.width \in Nat, b.togo \in Nat,
         MayFill(W, s.orders[o], ts, b.width, b.togo),
         NEW t, t = Fill(s, o, q, price, b, ts)
  PROVE  /\ Sound(t, W) /\ SameOrders(s, t) /\ t.clock = s.clock
         /\ \A p \in DOMAIN s.orders : p # o => t.orders[p].left = s.orders[p].left
         /\ q = s.orders[o].left => t.orders[o].left = 0
<1> DEFINE side == s.orders[o].side
           f == [order |-> o, side |-> side, qty |-> q, price |-> price,
                 ts |-> ts, width |-> b.width, togo |-> b.togo]
<1>1. /\ s \in SimOf(W) /\ s.orders \in Seq(OrderOf(W)) /\ s.fills \in Seq(FillRec)
      /\ s.cash \in Int /\ s.held \in Int /\ s.clock \in Nat /\ s.last \in Nat
  BY DEF Sound, SimOf
<1>2. side \in {1, -1} /\ s.orders[o].left \in Nat /\ o \in Nat
  <2>1. s.orders[o] \in OrderOf(W) /\ o \in Nat
    BY <1>1
  <2> QED BY <2>1 DEF OrderOf
<1>3. CASE side = 1 /\ q * price > s.cash
  <2> DEFINE u == Leaving(s, o, 0)
  <2>1. t = [s EXCEPT !.orders = u]
    BY <1>3 DEF Fill, Leaving
  <2>2. u = Leaving(s, o, 0) /\ 0 \in Nat
    OBVIOUS
  <2> HIDE DEF u
  <2>7. /\ u \in Seq(OrderOf(W)) /\ DOMAIN u = DOMAIN s.orders
        /\ \A p \in DOMAIN s.orders :
             /\ u[p].side = s.orders[p].side
             /\ u[p].created = s.orders[p].created
             /\ u[p].width = s.orders[p].width
             /\ u[p].togo = s.orders[p].togo
             /\ p # o => u[p].left = s.orders[p].left
        /\ u[o].left = 0
    BY <2>2, LessLeft
  <2>3. /\ t \in SimOf(W) /\ t.orders = u /\ t.fills = s.fills /\ t.cash = s.cash
        /\ t.held = s.held /\ t.clock = s.clock
    BY <1>1, <2>1, <2>7 DEF SimOf
  <2>4. SameOrders(s, t)
    BY <2>3, <2>7 DEF SameOrders
  <2>5. Balanced(t)
    BY <2>3 DEF Balanced, Sound
  <2>6. Explained(t, W)
    BY <2>3, <2>4, StayExplained DEF Sound
  <2> QED BY <2>3, <2>4, <2>5, <2>6, <2>7 DEF Sound
<1>4. CASE ~(side = 1 /\ q * price > s.cash)
  <2> DEFINE left == s.orders[o].left - q
             u == Leaving(s, o, left)
             held == s.held + side * q
             cash == s.cash - side * q * price - FeePerUnit * q
             fills == Append(s.fills, f)
  <2>1. t = [s EXCEPT !.orders = u, !.held = held, !.cash = cash, !.fills = fills]
    <3>1. t = [s EXCEPT !.orders[o].left = @ - q, !.held = @ + side * q,
                        !.cash = @ - side * q * price - FeePerUnit * q,
                        !.fills = Append(@, f)]
      BY <1>4 DEF Fill
    <3> QED BY <1>1, <3>1 DEF SimOf, Leaving
  <2>2. left \in Nat
    BY <1>2
  <2>3. /\ u \in Seq(OrderOf(W)) /\ DOMAIN u = DOMAIN s.orders
        /\ \A p \in DOMAIN s.orders :
             /\ u[p].side = s.orders[p].side
             /\ u[p].created = s.orders[p].created
             /\ u[p].width = s.orders[p].width
             /\ u[p].togo = s.orders[p].togo
             /\ p # o => u[p].left = s.orders[p].left
        /\ u[o].left = left
    <3>1. u = Leaving(s, o, left)
      OBVIOUS
    <3> HIDE DEF left, u
    <3> QED BY <2>2, <3>1, LessLeft
  <2>4. held \in Int /\ cash \in Int
    <3>1. side \in Int /\ s.held \in Int /\ s.cash \in Int /\ FeePerUnit \in Int
      BY <1>1, <1>2, BacktestAssumption
    <3> HIDE DEF side
    <3>2. side * q \in Int /\ side * q * price \in Int /\ FeePerUnit * q \in Int
      BY <3>1
    <3> QED BY <3>1, <3>2
  <2>5. f \in FillRec
    BY <1>2 DEF FillRec
  <2>6. fills \in Seq(FillRec)
    BY <1>1, <2>5
  <2>7. \A x \in Nat : Gain(f, q, x) = (x - price) * side * q - FeePerUnit * q
    BY DEF Gain
  <2>8. f.order = o /\ f.ts = ts /\ f.width = b.width /\ f.togo = b.togo /\ f.qty = q
    OBVIOUS
  <2> HIDE DEF u, f, fills, left
  <2>9. /\ t.orders = u /\ t.fills = fills /\ t.cash = cash
        /\ t.held = held /\ t.clock = s.clock
    BY <1>1, <2>1 DEF SimOf
  <2>10. t \in SimOf(W)
    <3> HIDE DEF held, cash
    <3> QED BY <1>1, <2>1, <2>3, <2>4, <2>6 DEF SimOf
  <2>11. SameOrders(s, t)
    BY <2>3, <2>9 DEF SameOrders
  <2>12. ASSUME NEW x \in Nat
         PROVE  SumFunction(Gains(t.fills, x)) = t.cash + t.held * x - Cash
    <3>1. /\ Gains(s.fills, x) \in Seq(Int)
          /\ Gains(fills, x) = Append(Gains(s.fills, x), Gain(f, q, x))
      BY <1>1, <2>5, <2>8, GainsOf DEF fills
    <3>2. Gain(f, q, x) \in Int
      <4>1. (x - price) * side \in Int /\ FeePerUnit * q \in Int
        BY <1>2, BacktestAssumption
      <4> QED BY <2>7, <4>1
    <3>3. SumFunction(Gains(fills, x)) = SumFunction(Gains(s.fills, x)) + Gain(f, q, x)
      BY <3>1, <3>2, SeqSumAppend
    <3>4. SumFunction(Gains(s.fills, x)) = s.cash + s.held * x - Cash
      BY DEF Sound, Balanced
    <3>5. s.held \in Int /\ s.cash \in Int /\ Cash \in Int /\ FeePerUnit \in Int
      BY <1>1, BacktestAssumption
    <3>6. CASE side = 1
      <4>1. Gain(f, q, x) = x * q - price * q - FeePerUnit * q
        BY <2>7, <3>5, <3>6
      <4>2. held * x = s.held * x + x * q /\ cash = s.cash - price * q - FeePerUnit * q
        BY <3>5, <3>6
      <4>3. x * q \in Int /\ price * q \in Int /\ FeePerUnit * q \in Int /\ s.held * x \in Int
        BY <3>5
      <4> HIDE DEF held, cash
      <4> QED BY <2>9, <3>3, <3>4, <3>5, <4>1, <4>2, <4>3
    <3>7. CASE side = -1
      <4>1. Gain(f, q, x) = price * q - x * q - FeePerUnit * q
        BY <2>7, <3>5, <3>7
      <4>2. held * x = s.held * x - x * q /\ cash = s.cash + price * q - FeePerUnit * q
        BY <3>5, <3>7
      <4>3. x * q \in Int /\ price * q \in Int /\ FeePerUnit * q \in Int /\ s.held * x \in Int
        BY <3>5
      <4> HIDE DEF held, cash
      <4> QED BY <2>9, <3>3, <3>4, <3>5, <4>1, <4>2, <4>3
    <3> QED BY <1>2, <3>6, <3>7
  <2>13. Explained(t, W)
    <3>1. ASSUME NEW i \in DOMAIN fills
          PROVE  /\ fills[i].order \in DOMAIN s.orders
                 /\ MayFill(W, s.orders[fills[i].order], fills[i].ts, fills[i].width, fills[i].togo)
      <4>1. CASE i \in DOMAIN s.fills
        <5>1. fills[i] = s.fills[i]
          BY <1>1, <2>5, <4>1 DEF fills
        <5> QED BY <4>1, <5>1 DEF Sound, Explained
      <4>2. CASE i \notin DOMAIN s.fills
        <5>1. fills[i] = f
          BY <1>1, <2>5, <4>2 DEF fills
        <5> QED BY <2>8, <5>1
      <4> QED BY <4>1, <4>2
    <3> QED BY <2>9, <2>11, <3>1 DEF Explained, SameOrders, MayFill
  <2>14. q = s.orders[o].left => t.orders[o].left = 0
    BY <1>2, <2>3, <2>9 DEF left
  <2>15. Balanced(t)
    BY <2>12 DEF Balanced
  <2>16. \A p \in DOMAIN s.orders : p # o => t.orders[p].left = s.orders[p].left
    BY <2>3, <2>9
  <2> QED BY <2>9, <2>10, <2>11, <2>13, <2>14, <2>15, <2>16 DEF Sound
<1> QED BY <1>3, <1>4
-----------------------------------------------------------------------------
(* What a step of the replay does to the account.                          *)

\* The orders of s wait, or may be filled by, a bar.
MayMeet(s, b) ==
  \A o \in DOMAIN s.orders :
    s.orders[o].width # 0 => /\ b.togo < s.orders[o].togo
                             /\ b.width = s.orders[o].width => s.orders[o].created <= b.start

\* A bar with its place in the replay.
ComingIn(W) == [start: Nat, width: W, open: Nat, close: Nat, togo: Nat]

\* The recursion of OnBar.
Meets(g, s, b, takes) ==
  g = [o \in 0 .. Len(s.orders) |->
         IF o = 0 THEN s
         ELSE IF takes[o] = 0 THEN g[o - 1]
         ELSE Fill(g[o - 1], o, takes[o], b.open, b, b.start)]

\* The account at another last price.
Marked(s, x) == [s EXCEPT !.last = x]

\* An account that differs in the last price or the clock is as sound.
LEMMA MarkIsSound ==
  ASSUME NEW W, NEW s, Sound(s, W), Spent(s), NEW x \in Nat, NEW t, t = Marked(s, x)
  PROVE  Sound(t, W) /\ Spent(t) /\ SameOrders(s, t) /\ t.clock = s.clock
<1>1. /\ t \in SimOf(W) /\ t.orders = s.orders /\ t.fills = s.fills /\ t.cash = s.cash
      /\ t.held = s.held /\ t.clock = s.clock
  BY DEF Sound, SimOf, Marked
<1>2. Balanced(t) /\ SameOrders(s, t) /\ Spent(t)
  BY <1>1 DEF Balanced, Sound, SameOrders, Spent
<1> QED BY <1>1, <1>2, StayExplained DEF Sound

LEMMA AdvanceIsSound ==
  ASSUME NEW W, NEW s, Sound(s, W), Spent(s), NEW x \in Nat, NEW t, t = Advanced(s, x)
  PROVE  Sound(t, W) /\ Spent(t) /\ SameOrders(s, t) /\ t.clock = x
<1>1. /\ t \in SimOf(W) /\ t.orders = s.orders /\ t.fills = s.fills /\ t.cash = s.cash
      /\ t.held = s.held /\ t.clock = x
  BY DEF Sound, SimOf, Advanced
<1>2. Balanced(t) /\ SameOrders(s, t) /\ Spent(t)
  BY <1>1 DEF Balanced, Sound, SameOrders, Spent
<1> QED BY <1>1, <1>2, StayExplained DEF Sound

\* A bar fills the orders one after the other; they are the same orders then.
LEMMA OnBarIsSound ==
  ASSUME NEW W \in SUBSET Nat, NEW s, Sound(s, W), Spent(s), NEW b \in ComingIn(W), MayMeet(s, b),
         NEW takes \in [DOMAIN s.orders -> Nat],
         \A o \in DOMAIN s.orders : takes[o] <= s.orders[o].left
  PROVE  /\ Sound(OnBar(s, b, takes), W) /\ Spent(OnBar(s, b, takes))
         /\ SameOrders(s, OnBar(s, b, takes)) /\ OnBar(s, b, takes).clock = s.clock
<1> DEFINE N == Len(s.orders)
           Good(n, t) == /\ Sound(t, W) /\ Spent(t) /\ SameOrders(s, t) /\ t.clock = s.clock
                         /\ \A p \in DOMAIN s.orders : p > n => t.orders[p].left = s.orders[p].left
           X == [n \in 0..N |-> {t \in SimOf(W) : Good(n, t)}]
           After(n, t) == IF takes[n] = 0 THEN t ELSE Fill(t, n, takes[n], b.open, b, b.start)
           step == [p \in (1..N) \X SimOf(W) |-> After(p[1], p[2])]
<1>1. N \in Nat /\ DOMAIN s.orders = 1..N /\ s \in SimOf(W)
  BY DEF Sound, SimOf
<1>2. s \in X[0]
  BY <1>1 DEF SameOrders
<1>3. b.width \in W /\ b.width \in Nat /\ b.togo \in Nat /\ b.open \in Nat /\ b.start \in Nat /\ b.close \in Nat
  BY DEF ComingIn
<1>4. ASSUME NEW n \in 1..N, NEW t, Good(n - 1, t) PROVE Good(n, After(n, t))
  <2>1. CASE takes[n] = 0
    BY <1>1, <1>4, <2>1
  <2>2. CASE takes[n] # 0
    <3> DEFINE u == After(n, t)
               o == t.orders[n]
    <3>1. u = Fill(t, n, takes[n], b.open, b, b.start)
      BY <2>2
    <3>2. n \in DOMAIN s.orders /\ n \in DOMAIN t.orders /\ takes[n] \in Nat /\ n > n - 1
      BY <1>1, <1>4 DEF SameOrders
    <3>3. o.left = s.orders[n].left /\ takes[n] <= o.left
      BY <1>4, <3>2
    <3>4. /\ o.width = s.orders[n].width /\ o.created = s.orders[n].created
          /\ o.togo = s.orders[n].togo
      BY <1>4, <3>2 DEF SameOrders
    <3>5. o.width # 0
      BY <1>4, <2>2, <3>2, <3>3 DEF Spent
    <3>6. s.orders[n].created \in Nat
      <4>1. s.orders[n] \in OrderOf(W)
        BY <1>1, <3>2 DEF SimOf
      <4> QED BY <4>1 DEF OrderOf
    <3> HIDE DEF o, u
    <3>7. MayFill(W, o, b.start, b.width, b.togo)
      BY <1>3, <3>2, <3>4, <3>5, <3>6 DEF MayFill, MayMeet
    <3>8. /\ Sound(u, W) /\ SameOrders(t, u) /\ u.clock = t.clock
          /\ \A p \in DOMAIN t.orders : p # n => u.orders[p].left = t.orders[p].left
      <4>1. /\ Sound(t, W) /\ n \in DOMAIN t.orders /\ takes[n] \in Nat
            /\ takes[n] <= t.orders[n].left /\ b.open \in Nat /\ b.start \in Nat
            /\ b.width \in Nat /\ b.togo \in Nat
            /\ MayFill(W, t.orders[n], b.start, b.width, b.togo)
        BY <1>3, <1>4, <3>2, <3>3, <3>7 DEF o
      <4> QED BY <3>1, <4>1, FillIsSound, SMTT(30)
    <3>9. SameOrders(s, u)
      BY <1>4, <3>8 DEF SameOrders
    <3>10. Spent(u)
      BY <1>4, <3>5, <3>8 DEF Spent, SameOrders, o
    <3>11. \A p \in DOMAIN s.orders : p > n => u.orders[p].left = s.orders[p].left
      <4>1. \A p \in DOMAIN s.orders : p > n => p > n - 1 /\ p # n
        BY <1>1
      <4>2. DOMAIN t.orders = DOMAIN s.orders
        BY <1>4 DEF SameOrders
      <4> QED BY <1>4, <3>8, <4>1, <4>2
    <3>12. u.clock = s.clock
      BY <1>4, <3>8
    <3> QED BY <3>8, <3>9, <3>10, <3>11, <3>12 DEF u
  <2> QED BY <2>1, <2>2
<1> HIDE DEF After
<1>5. ASSUME NEW n \in 1..N, NEW t \in X[n - 1]
      PROVE  step[<<n, t>>] = After(n, t) /\ After(n, t) \in X[n]
  <2>1. n - 1 \in 0..N /\ n \in 0..N
    BY <1>1
  <2>2. t \in SimOf(W) /\ Good(n - 1, t)
    BY <1>5, <2>1
  <2>3. Good(n, After(n, t))
    BY <1>4, <2>2
  <2>4. After(n, t) \in SimOf(W)
    BY <2>3 DEF Sound
  <2>5. step[<<n, t>>] = After(n, t)
    BY <2>2
  <2> HIDE DEF Good, step
  <2> QED BY <2>1, <2>3, <2>4, <2>5
<1>6. \E g : Meets(g, s, b, takes)
  <2>1. Leads(step, X, N)
    <3> HIDE DEF X, step
    <3> QED BY <1>5 DEF Leads
  <2> HIDE DEF X, step
  <2>2. PICK g : Course(g, s, step, X, N)
    <3>1. N \in Nat
      BY <1>1
    <3> HIDE DEF N
    <3> QED BY <1>2, <2>1, <3>1, StepsExist
  <2>3. \A n \in 1..N : g[n] = After(n, g[n - 1])
    BY <1>5, <2>2 DEF Course
  <2>4. Meets(g, s, b, takes)
    <3>1. \A n \in 0..N : g[n] = IF n = 0 THEN s ELSE After(n, g[n - 1])
      <4>1. \A n \in 0..N : n = 0 \/ n \in 1..N
        BY <1>1
      <4> QED BY <2>2, <2>3, <4>1 DEF Course
    <3> QED BY <2>2, <3>1 DEF Meets, After, Course
  <2> QED BY <2>4
<1>7. PICK g : /\ Meets(g, s, b, takes)
               /\ OnBar(s, b, takes) = [g[N] EXCEPT !.last = b.close]
  BY <1>6, Zenon DEF OnBar, Meets
<1>8. g[0] = s /\ \A n \in 1..N : g[n] = After(n, g[n - 1])
  <2>1. 0 \in 0..N /\ \A n \in 1..N : n \in 0..N /\ n # 0
    BY <1>1
  <2> QED BY <1>7, <2>1 DEF Meets, After
<1>9. g[N] \in X[N]
  <2>1. N \in 0..N /\ g[0] \in X[0]
    BY <1>1, <1>2, <1>8
  <2>2. \A n \in 1..N : g[n - 1] \in X[n - 1] => g[n] \in X[n]
    <3> HIDE DEF X
    <3> QED BY <1>5, <1>8
  <2>3. N \in Nat
    BY <1>1
  <2> HIDE DEF X, N
  <2>4. \A n \in 0..N : g[n] \in X[n]
    BY <2>1, <2>2, <2>3, StepsKeep
  <2> QED BY <2>1, <2>4
<1>10. Sound(g[N], W) /\ Spent(g[N]) /\ SameOrders(s, g[N]) /\ g[N].clock = s.clock
  <2>1. N \in 0..N
    BY <1>1
  <2> QED BY <1>9, <2>1
<1> DEFINE v == g[N]
           t == OnBar(s, b, takes)
<1>11. t = Marked(v, b.close)
  BY <1>7 DEF Marked
<1>12. Sound(v, W) /\ Spent(v) /\ SameOrders(s, v) /\ v.clock = s.clock /\ b.close \in Nat
  BY <1>3, <1>10
<1> HIDE DEF v, t
<1>13. Sound(t, W) /\ Spent(t) /\ SameOrders(v, t) /\ t.clock = v.clock
  BY <1>11, <1>12, MarkIsSound
<1> QED BY <1>12, <1>13 DEF SameOrders, t

\* The orders are the same, and any new one is the broker's own or was decided on b.
Grows(s, t, b) ==
  /\ t.clock = s.clock
  /\ DOMAIN s.orders \subseteq DOMAIN t.orders
  /\ \A o \in DOMAIN s.orders : /\ t.orders[o].created = s.orders[o].created
                                /\ t.orders[o].width = s.orders[o].width
                                /\ t.orders[o].togo = s.orders[o].togo
  /\ \A o \in DOMAIN t.orders \ DOMAIN s.orders :
       t.orders[o].width # 0 => /\ t.orders[o].created = s.clock
                                /\ t.orders[o].width = b.width
                                /\ t.orders[o].togo = b.togo

\* One change of the orders after another.
LEMMA GrowsOn ==
  ASSUME NEW s, NEW t, NEW u, NEW b, Grows(s, t, b), Grows(t, u, b)
  PROVE  Grows(s, u, b)
  BY DEF Grows

LEMMA SameGrows ==
  ASSUME NEW s, NEW t, NEW b, SameOrders(s, t), t.clock = s.clock
  PROVE  Grows(s, t, b)
  BY DEF Grows, SameOrders

\* The account with an order more.
With(s, o) == [s EXCEPT !.orders = Append(@, o)]

LEMMA WithIsSound ==
  ASSUME NEW W, NEW s, Sound(s, W), NEW o \in OrderOf(W), NEW t, t = With(s, o)
  PROVE  /\ Sound(t, W) /\ t.clock = s.clock /\ t.last = s.last
         /\ DOMAIN t.orders = DOMAIN s.orders \cup {Len(s.orders) + 1}
         /\ Len(s.orders) + 1 \notin DOMAIN s.orders /\ Len(t.orders) = Len(s.orders) + 1
         /\ t.orders[Len(s.orders) + 1] = o
         /\ \A p \in DOMAIN s.orders : t.orders[p] = s.orders[p]
<1> DEFINE u == Append(s.orders, o)
<1>1. s \in SimOf(W) /\ s.orders \in Seq(OrderOf(W))
  BY DEF Sound, SimOf
<1>2. /\ u \in Seq(OrderOf(W)) /\ Len(u) = Len(s.orders) + 1
      /\ DOMAIN u = DOMAIN s.orders \cup {Len(s.orders) + 1}
      /\ Len(s.orders) + 1 \notin DOMAIN s.orders
      /\ u[Len(s.orders) + 1] = o
      /\ \A p \in DOMAIN s.orders : u[p] = s.orders[p]
  BY <1>1
<1>3. t = [s EXCEPT !.orders = u]
  BY DEF With
<1> HIDE DEF u
<1>4. /\ t \in SimOf(W) /\ t.orders = u /\ t.fills = s.fills /\ t.cash = s.cash
      /\ t.held = s.held /\ t.clock = s.clock /\ t.last = s.last
  BY <1>1, <1>2, <1>3 DEF SimOf
<1>5. Balanced(t)
  BY <1>4 DEF Balanced, Sound
<1>6. Explained(t, W)
  BY <1>2, <1>4 DEF Explained, Sound
<1> QED BY <1>2, <1>4, <1>5, <1>6 DEF Sound

\* An order that is placed.
LEMMA PlacedIsSound ==
  ASSUME NEW W \in SUBSET (Nat \ {0}), NEW s, Sound(s, W), Spent(s), NEW b \in ComingIn(W),
         NEW side \in {1, -1}, NEW q \in Nat, NEW t, t = Placed(s, b, side, q)
  PROVE  Sound(t, W) /\ Spent(t) /\ Grows(s, t, b)
<1> DEFINE o == [side |-> side, left |-> q, created |-> s.clock, width |-> b.width, togo |-> b.togo]
<1>1. /\ o \in OrderOf(W) /\ o.created = s.clock /\ o.width = b.width /\ o.togo = b.togo
      /\ o.width # 0
  BY DEF OrderOf, ComingIn, Sound, SimOf
<1>2. t = With(s, o)
  BY DEF Placed, With
<1> HIDE DEF o
<1>3. /\ Sound(t, W) /\ t.clock = s.clock
      /\ DOMAIN t.orders = DOMAIN s.orders \cup {Len(s.orders) + 1}
      /\ t.orders[Len(s.orders) + 1] = o
      /\ \A p \in DOMAIN s.orders : t.orders[p] = s.orders[p]
  BY <1>1, <1>2, WithIsSound
<1>4. Spent(t)
  BY <1>1, <1>3 DEF Spent
<1>5. Grows(s, t, b)
  BY <1>1, <1>3 DEF Grows
<1> QED BY <1>3, <1>4, <1>5

\* Orders that are cancelled.
LEMMA CancelledIsSound ==
  ASSUME NEW W, NEW s, Sound(s, W), Spent(s), NEW S, NEW b, NEW t, t = Cancelled(s, S)
  PROVE  Sound(t, W) /\ Spent(t) /\ Grows(s, t, b)
<1> DEFINE N == Len(s.orders)
           u == [o \in DOMAIN s.orders |-> IF o \in S THEN [s.orders[o] EXCEPT !.left = 0] ELSE s.orders[o]]
<1>1. s \in SimOf(W) /\ s.orders \in Seq(OrderOf(W)) /\ N \in Nat /\ DOMAIN s.orders = 1..N
  BY DEF Sound, SimOf
<1>2. ASSUME NEW o \in 1..N
      PROVE  /\ u[o] \in OrderOf(W) /\ u[o].created = s.orders[o].created
             /\ u[o].width = s.orders[o].width /\ u[o].togo = s.orders[o].togo
             /\ u[o].left = 0 \/ u[o].left = s.orders[o].left
  <2>1. s.orders[o] \in OrderOf(W)
    BY <1>1
  <2>2. u[o] = IF o \in S THEN [s.orders[o] EXCEPT !.left = 0] ELSE s.orders[o]
    BY <1>1
  <2> HIDE DEF u
  <2> QED BY <2>1, <2>2 DEF OrderOf
<1>3. DOMAIN u = 1..N /\ u = [o \in 1..N |-> u[o]]
  BY <1>1
<1>4. t = [s EXCEPT !.orders = u]
  BY DEF Cancelled
<1> HIDE DEF u
<1>5. u \in Seq(OrderOf(W))
  <2>1. \A o \in 1..N : u[o] \in OrderOf(W)
    BY <1>2
  <2> HIDE DEF N
  <2> QED BY <1>1, <1>3, <2>1
<1>6. /\ t \in SimOf(W) /\ t.orders = u /\ t.fills = s.fills /\ t.cash = s.cash
      /\ t.held = s.held /\ t.clock = s.clock
  BY <1>1, <1>4, <1>5 DEF SimOf
<1>7. SameOrders(s, t)
  <2>1. DOMAIN t.orders = DOMAIN s.orders
    BY <1>1, <1>3, <1>6
  <2>2. ASSUME NEW o \in DOMAIN s.orders
        PROVE  /\ t.orders[o].created = s.orders[o].created
               /\ t.orders[o].width = s.orders[o].width
               /\ t.orders[o].togo = s.orders[o].togo
    <3>1. o \in 1..N
      BY <1>1
    <3>2. t.orders = u
      BY <1>6
    <3>3. /\ u[o].created = s.orders[o].created /\ u[o].width = s.orders[o].width
          /\ u[o].togo = s.orders[o].togo
      BY <1>2, <3>1
    <3> QED BY <3>2, <3>3
  <2> QED BY <2>1, <2>2 DEF SameOrders
<1>8. Spent(t)
  <2>1. ASSUME NEW o \in DOMAIN t.orders, t.orders[o].width = 0
        PROVE  t.orders[o].left = 0
    <3>1. o \in 1..N /\ o \in DOMAIN s.orders /\ t.orders[o] = u[o]
      BY <1>1, <1>3, <1>6
    <3>2. s.orders[o].width = 0 => s.orders[o].left = 0
      BY <3>1 DEF Spent
    <3>3. /\ u[o].width = s.orders[o].width
          /\ u[o].left = 0 \/ u[o].left = s.orders[o].left
      BY <1>2, <3>1
    <3> QED BY <2>1, <3>1, <3>2, <3>3
  <2> QED BY <2>1 DEF Spent
<1>9. Balanced(t)
  BY <1>6 DEF Balanced, Sound
<1>10. Explained(t, W)
  BY <1>6, <1>7, StayExplained DEF Sound
<1> QED BY <1>6, <1>7, <1>8, <1>9, <1>10, SameGrows DEF Sound

\* The position is closed at the last price: the order is the broker's own.
LEMMA LiquidatedIsSound ==
  ASSUME NEW W, NEW s, Sound(s, W), Spent(s), NEW b, b.width \in Nat, b.togo \in Nat,
         NEW t, t = Liquidated(s, b)
  PROVE  Sound(t, W) /\ Spent(t) /\ Grows(s, t, b)
<1>1. CASE s.held = 0
  BY <1>1 DEF Liquidated, Grows
<1>2. CASE s.held # 0
  <2> DEFINE side == IF s.held > 0 THEN -1 ELSE 1
             q == IF s.held > 0 THEN s.held ELSE -s.held
             o == [side |-> side, left |-> q, created |-> s.clock, width |-> 0, togo |-> b.togo]
             n == Len(s.orders) + 1
             v == With(s, o)
  <2>1. s.held \in Int /\ s.clock \in Nat /\ s.last \in Nat
    BY DEF Sound, SimOf
  <2>2. q \in Nat /\ side \in {1, -1}
    BY <1>2, <2>1
  <2>3. /\ o \in OrderOf(W) /\ o.width = 0 /\ o.created = s.clock /\ o.left = q
    BY <2>1, <2>2 DEF OrderOf
  <2>4. t = Fill(v, Len(v.orders), q, s.last, b, s.clock)
    BY <1>2, Zenon DEF Liquidated, With
  <2>5. v = With(s, o)
    OBVIOUS
  <2> HIDE DEF o, q, side, v
  <2>6. /\ Sound(v, W) /\ v.clock = s.clock /\ DOMAIN v.orders = DOMAIN s.orders \cup {n}
        /\ n \notin DOMAIN s.orders /\ Len(v.orders) = n /\ v.orders[n] = o
        /\ \A p \in DOMAIN s.orders : v.orders[p] = s.orders[p]
    BY <2>3, <2>5, WithIsSound
  <2> HIDE DEF n
  <2>7. /\ t = Fill(v, n, q, s.last, b, s.clock) /\ n \in DOMAIN v.orders
        /\ q \in Nat /\ q <= v.orders[n].left /\ q = v.orders[n].left
        /\ MayFill(W, v.orders[n], s.clock, b.width, b.togo)
    BY <2>2, <2>3, <2>4, <2>6 DEF MayFill
  <2>8. /\ Sound(t, W) /\ SameOrders(v, t) /\ t.clock = v.clock
        /\ \A p \in DOMAIN v.orders : p # n => t.orders[p].left = v.orders[p].left
        /\ t.orders[n].left = 0
    <3>1. /\ Sound(v, W) /\ n \in DOMAIN v.orders /\ q \in Nat /\ q <= v.orders[n].left
          /\ s.last \in Nat /\ s.clock \in Nat /\ b.width \in Nat /\ b.togo \in Nat
          /\ MayFill(W, v.orders[n], s.clock, b.width, b.togo)
          /\ t = Fill(v, n, q, s.last, b, s.clock)
      BY <2>1, <2>6, <2>7
    <3>2. /\ Sound(t, W) /\ SameOrders(v, t) /\ t.clock = v.clock
          /\ \A p \in DOMAIN v.orders : p # n => t.orders[p].left = v.orders[p].left
          /\ q = v.orders[n].left => t.orders[n].left = 0
      BY <3>1, FillIsSound
    <3> QED BY <2>7, <3>2
  <2>9. Spent(t)
    BY <2>6, <2>8 DEF Spent, SameOrders
  <2>10. Grows(s, t, b)
    BY <2>3, <2>6, <2>8 DEF Grows, SameOrders
  <2> QED BY <2>8, <2>9, <2>10
<1> QED BY <1>1, <1>2

\* The square-off of an intraday account.
LEMMA SquaredOffIsSound ==
  ASSUME NEW W, NEW s, Sound(s, W), Spent(s), NEW b, b.width \in Nat, b.togo \in Nat,
         NEW r, NEW t, t = SquaredOff(s, b, r)
  PROVE  Sound(t, W) /\ Spent(t) /\ Grows(s, t, b)
<1> DEFINE u == Cancelled(s, Working(s))
<1>1. Sound(u, W) /\ Spent(u) /\ Grows(s, u, b)
  BY CancelledIsSound
<1>2. CASE t = s
  BY <1>2 DEF Grows
<1>3. CASE t = Liquidated(u, b)
  <2> HIDE DEF u
  <2>1. Sound(t, W) /\ Spent(t) /\ Grows(u, t, b)
    BY <1>1, <1>3, LiquidatedIsSound
  <2> QED BY <1>1, <2>1, GrowsOn
<1> QED BY <1>2, <1>3 DEF SquaredOff
-----------------------------------------------------------------------------
(* The round trips of match_trades.                                        *)

TradeRec == [qty: Int, dir: {1, -1}, entry: Nat, exit: Nat, fees: Int]
LotRec == [qty: Int, dir: {1, -1}, price: Nat]
Book == [trades: Seq(TradeRec), lots: Seq(LotRec), left: Int]

\* What trades made, what lots would at a price, and a book does with both.
PnLs(trades) == [i \in DOMAIN trades |-> NetPnL(trades[i])]
OpenPnL(lot, x) == NetPnL(Open(lot, x))
OpenPnLs(lots, x) == [i \in DOMAIN lots |-> OpenPnL(lots[i], x)]
Worth(m, x) == SumFunction(PnLs(m.trades)) + SumFunction(OpenPnLs(m.lots, x))

\* Closing part of a lot moves what it is worth, and what the rest of the fill gains,
\* into the trade; d is the direction of the lot.
LEMMA Closing ==
  ASSUME NEW d \in {1, -1}, NEW n \in Int, NEW k \in Int, NEW q \in Int,
         NEW e \in Int, NEW p \in Int, NEW x \in Int, NEW F \in Int
  PROVE  ((x - e) * n * d - F * n) + ((x - p) * (-d) * k - F * k)
           = ((p - e) * q * d - 2 * F * q)
             + ((x - e) * (n - q) * d - F * (n - q))
             + ((x - p) * (-d) * (k - q) - F * (k - q))
<1>1. CASE d = 1
  BY <1>1
<1>2. CASE d = -1
  BY <1>2
<1> QED BY <1>1, <1>2

LEMMA OpenPnLIs ==
  ASSUME NEW lot \in LotRec, NEW x \in Nat
  PROVE  /\ OpenPnL(lot, x) = (x - lot.price) * lot.qty * lot.dir - FeePerUnit * lot.qty
         /\ OpenPnL(lot, x) \in Int
<1>1. /\ lot.price \in Int /\ lot.qty \in Int /\ lot.dir \in Int /\ FeePerUnit \in Int
  BY BacktestAssumption DEF LotRec
<1>2. OpenPnL(lot, x) = (x - lot.price) * lot.qty * lot.dir - FeePerUnit * lot.qty
  BY DEF OpenPnL, NetPnL, Open
<1>3. (x - lot.price) * lot.qty * lot.dir \in Int /\ FeePerUnit * lot.qty \in Int
  BY <1>1
<1> QED BY <1>2, <1>3

LEMMA NetPnLIsInt ==
  ASSUME NEW t \in TradeRec
  PROVE  NetPnL(t) \in Int
<1>1. /\ t.exit - t.entry \in Int /\ t.qty \in Int /\ t.dir \in Int /\ t.fees \in Int
  BY DEF TradeRec
<1>2. (t.exit - t.entry) * t.qty * t.dir \in Int
  BY <1>1
<1> QED BY <1>1, <1>2 DEF NetPnL

\* Profits of trades are a sequence of numbers, one more with every trade.
LEMMA PnLsOf ==
  ASSUME NEW s \in Seq(TradeRec)
  PROVE  /\ PnLs(s) \in Seq(Int) /\ SumFunction(PnLs(s)) \in Int
         /\ \A t \in TradeRec :
              SumFunction(PnLs(Append(s, t))) = SumFunction(PnLs(s)) + NetPnL(t)
<1>1. PnLs(s) \in Seq(Int) /\ Len(PnLs(s)) = Len(s)
  <2>1. \A i \in DOMAIN s : s[i] \in TradeRec
    OBVIOUS
  <2>2. \A i \in DOMAIN s : NetPnL(s[i]) \in Int
    BY <2>1, NetPnLIsInt
  <2> QED BY <2>2 DEF PnLs
<1>2. ASSUME NEW t \in TradeRec
      PROVE  SumFunction(PnLs(Append(s, t))) = SumFunction(PnLs(s)) + NetPnL(t)
  <2> DEFINE u == Append(s, t)
             v == Append(PnLs(s), NetPnL(t))
             n == Len(s)
  <2>1. NetPnL(t) \in Int
    BY NetPnLIsInt
  <2>2. DOMAIN u = 1..(n + 1) /\ v \in Seq(Int) /\ DOMAIN v = 1..(n + 1) /\ n \in Nat
    BY <1>1, <2>1
  <2>3. u[n + 1] = t /\ v[n + 1] = NetPnL(t)
    BY <1>1, <2>1
  <2>4. \A i \in 1..n : u[i] = s[i] /\ v[i] = PnLs(s)[i] /\ PnLs(s)[i] = NetPnL(s[i])
    BY <1>1, <2>1 DEF PnLs
  <2> HIDE DEF u, v, n
  <2>5. v = [i \in 1..(n + 1) |-> v[i]]
    BY <2>2
  <2>6. PnLs(u) = v
    <3>1. \A i \in 1..(n + 1) : i = n + 1 \/ i \in 1..n
      BY <2>2
    <3>2. \A i \in 1..(n + 1) : NetPnL(u[i]) = v[i]
      BY <2>3, <2>4, <3>1
    <3> QED BY <2>2, <2>5, <3>2 DEF PnLs
  <2>7. SumFunction(Append(PnLs(s), NetPnL(t))) = SumFunction(PnLs(s)) + NetPnL(t)
    BY <1>1, <2>1, SeqSumAppend
  <2> QED BY <2>6, <2>7 DEF u, v
<1> QED BY <1>1, <1>2, SeqTerms

\* The same of lots.
LEMMA OpenPnLsOf ==
  ASSUME NEW s \in Seq(LotRec), NEW x \in Nat
  PROVE  /\ OpenPnLs(s, x) \in Seq(Int) /\ SumFunction(OpenPnLs(s, x)) \in Int
         /\ Len(OpenPnLs(s, x)) = Len(s)
         /\ \A lot \in LotRec :
              SumFunction(OpenPnLs(Append(s, lot), x))
                = SumFunction(OpenPnLs(s, x)) + OpenPnL(lot, x)
<1>1. OpenPnLs(s, x) \in Seq(Int) /\ Len(OpenPnLs(s, x)) = Len(s)
  <2>1. \A i \in DOMAIN s : s[i] \in LotRec
    OBVIOUS
  <2>2. \A i \in DOMAIN s : OpenPnL(s[i], x) \in Int
    BY <2>1, OpenPnLIs
  <2> QED BY <2>2 DEF OpenPnLs
<1>2. ASSUME NEW t \in LotRec
      PROVE  SumFunction(OpenPnLs(Append(s, t), x)) = SumFunction(OpenPnLs(s, x)) + OpenPnL(t, x)
  <2> DEFINE u == Append(s, t)
             v == Append(OpenPnLs(s, x), OpenPnL(t, x))
             n == Len(s)
  <2>1. OpenPnL(t, x) \in Int
    BY OpenPnLIs
  <2>2. DOMAIN u = 1..(n + 1) /\ v \in Seq(Int) /\ DOMAIN v = 1..(n + 1) /\ n \in Nat
    BY <1>1, <2>1
  <2>3. u[n + 1] = t /\ v[n + 1] = OpenPnL(t, x)
    BY <1>1, <2>1
  <2>4. \A i \in 1..n : u[i] = s[i] /\ v[i] = OpenPnLs(s, x)[i] /\ OpenPnLs(s, x)[i] = OpenPnL(s[i], x)
    BY <1>1, <2>1 DEF OpenPnLs
  <2> HIDE DEF u, v, n
  <2>5. v = [i \in 1..(n + 1) |-> v[i]]
    BY <2>2
  <2>6. OpenPnLs(u, x) = v
    <3>1. \A i \in 1..(n + 1) : i = n + 1 \/ i \in 1..n
      BY <2>2
    <3>2. \A i \in 1..(n + 1) : OpenPnL(u[i], x) = v[i]
      BY <2>3, <2>4, <3>1
    <3> QED BY <2>2, <2>5, <3>2 DEF OpenPnLs
  <2>7. SumFunction(Append(OpenPnLs(s, x), OpenPnL(t, x))) = SumFunction(OpenPnLs(s, x)) + OpenPnL(t, x)
    BY <1>1, <2>1, SeqSumAppend
  <2> QED BY <2>6, <2>7 DEF u, v
<1> QED BY <1>1, <1>2, SeqTerms

\* The first lot goes.
LEMMA OpenPnLsTail ==
  ASSUME NEW s \in Seq(LotRec), s # <<>>, NEW x \in Nat
  PROVE  SumFunction(OpenPnLs(s, x)) = OpenPnL(Head(s), x) + SumFunction(OpenPnLs(Tail(s), x))
<1> DEFINE p == OpenPnLs(s, x)
           n == Len(s)
<1>1. p \in Seq(Int) /\ Len(p) = n /\ DOMAIN p = 1..n
  <2>1. p \in Seq(Int) /\ Len(p) = n
    BY OpenPnLsOf
  <2> QED BY <2>1
<1>2. n \in Nat \ {0} /\ DOMAIN s = 1..n /\ Tail(s) \in Seq(LotRec) /\ Len(Tail(s)) = n - 1
  OBVIOUS
<1>3. p # <<>> /\ Head(p) = OpenPnL(Head(s), x)
  <2>1. 1 \in DOMAIN s /\ Head(s) = s[1] /\ p[1] = OpenPnL(s[1], x)
    BY <1>2 DEF OpenPnLs
  <2> HIDE DEF p, n
  <2>2. p # <<>> /\ Head(p) = p[1]
    BY <1>1, <1>2
  <2> QED BY <2>1, <2>2
<1>4. Tail(p) = OpenPnLs(Tail(s), x)
  <2> DEFINE u == Tail(p)
             v == OpenPnLs(Tail(s), x)
  <2>1. /\ u \in Seq(Int) /\ Len(u) = n - 1 /\ DOMAIN u = 1..(n - 1)
        /\ \A i \in 1..(n - 1) : u[i] = p[i + 1]
    <3> HIDE DEF p, n
    <3> QED BY <1>1, <1>2
  <2>2. v \in Seq(Int) /\ Len(v) = n - 1 /\ DOMAIN v = 1..(n - 1)
    <3>1. v \in Seq(Int) /\ Len(v) = Len(Tail(s))
      BY <1>2, OpenPnLsOf
    <3> HIDE DEF v
    <3>2. Len(v) = n - 1 /\ n - 1 \in Nat
      BY <1>2, <3>1
    <3>3. DOMAIN v = 1..Len(v)
      BY <3>1, LenProperties
    <3> HIDE DEF n
    <3> QED BY <3>1, <3>2, <3>3, ZenonT(30)
  <2>3. \A i \in 1..(n - 1) : v[i] = p[i + 1]
    <3>1. ASSUME NEW i \in 1..(n - 1) PROVE v[i] = p[i + 1]
      <4>1. Tail(s)[i] = s[i + 1] /\ i + 1 \in DOMAIN s /\ i \in DOMAIN Tail(s)
        BY <1>2
      <4> QED BY <4>1 DEF OpenPnLs
    <3> QED BY <3>1
  <2> HIDE DEF p, u, v, n
  <2>4. u = v
    BY <2>1, <2>2, <2>3, SeqEqual
  <2> QED BY <2>4 DEF u, v
<1>5. SumFunction(p) = Head(p) + SumFunction(Tail(p))
  <2> HIDE DEF p
  <2> QED BY <1>1, <1>3, SeqSumTail
<1> QED BY <1>3, <1>4, <1>5

\* The first lot changes.
LEMMA OpenPnLsFirst ==
  ASSUME NEW s \in Seq(LotRec), s # <<>>, NEW lot \in LotRec, NEW x \in Nat,
         NEW u, u = [s EXCEPT ![1] = lot]
  PROVE  /\ u \in Seq(LotRec)
         /\ SumFunction(OpenPnLs(u, x))
              = SumFunction(OpenPnLs(s, x)) + (OpenPnL(lot, x) - OpenPnL(Head(s), x))
<1> DEFINE a == OpenPnLs(s, x)
           b == OpenPnLs(u, x)
           n == Len(s)
<1>1. n \in Nat /\ 1 \in 1..n /\ DOMAIN s = 1..n /\ Head(s) = s[1]
  OBVIOUS
<1>2. u \in Seq(LotRec) /\ Len(u) = n /\ DOMAIN u = 1..n
  BY <1>1, ExceptSeq
<1>3. a \in Seq(Int) /\ b \in Seq(Int) /\ DOMAIN a = 1..n /\ DOMAIN b = 1..n
  <2>1. a \in Seq(Int) /\ b \in Seq(Int) /\ Len(a) = n /\ Len(b) = n
    BY <1>2, OpenPnLsOf
  <2> HIDE DEF a, b, n
  <2> QED BY <2>1
<1>4. /\ a[1] = OpenPnL(Head(s), x) /\ b[1] = OpenPnL(lot, x)
      /\ \A i \in 1..n : i # 1 => a[i] = b[i]
  BY <1>1, <1>2 DEF OpenPnLs
<1> HIDE DEF a, b, n
<1>5. /\ IsFiniteSet(1..n) /\ IntOn(a, 1..n) /\ IntOn(b, 1..n)
      /\ SumFunction(a) = SumFunctionOnSet(a, 1..n) /\ SumFunction(b) = SumFunctionOnSet(b, 1..n)
  BY <1>3, SeqTerms
<1>6. SumFunctionOnSet(b, 1..n) = SumFunctionOnSet(a, 1..n) + (b[1] - a[1])
  BY <1>1, <1>4, <1>5, SumChanges
<1> QED BY <1>2, <1>4, <1>5, <1>6 DEF a, b

\* A turn keeps what the book and the rest of the fill are worth.
LEMMA TurnKeepsWorth ==
  ASSUME NEW m \in Book, NEW f \in FillRec, NEW t, t = Turn(m, f)
  PROVE  /\ t \in Book
         /\ \A x \in Nat : Worth(t, x) + Gain(f, t.left, x) = Worth(m, x) + Gain(f, m.left, x)
<1>1. /\ m.trades \in Seq(TradeRec) /\ m.lots \in Seq(LotRec) /\ m.left \in Int
      /\ f.price \in Nat /\ f.side \in {1, -1} /\ FeePerUnit \in Nat
  BY BacktestAssumption DEF Book, FillRec
<1>2. CASE t = m
  BY <1>2
<1>3. CASE t # m
  <2> DEFINE lot == Head(m.lots)
             q == Lower(lot.qty, m.left)
             rest == [lot EXCEPT !.qty = lot.qty - q]
             trade == [qty |-> q, dir |-> lot.dir, entry |-> lot.price,
                       exit |-> f.price, fees |-> 2 * FeePerUnit * q]
             trades == Append(m.trades, trade)
             lots == IF q = lot.qty THEN Tail(m.lots) ELSE [m.lots EXCEPT ![1] = rest]
             left == m.left - q
  <2>1. m.lots # <<>> /\ lot.dir # f.side
    BY <1>3 DEF Turn
  <2>2. lot \in LotRec /\ lot = m.lots[1]
    BY <1>1, <2>1
  <2>3. /\ lot.qty \in Int /\ lot.dir \in {1, -1} /\ lot.price \in Nat
        /\ lot.dir = -f.side /\ f.side = -lot.dir
    BY <1>1, <2>1, <2>2 DEF LotRec
  <2>4. t = [trades |-> trades, lots |-> lots, left |-> left]
    <3>1. [m.lots EXCEPT ![1].qty = @ - q] = [m.lots EXCEPT ![1] = rest]
      BY <2>2
    <3> HIDE DEF q, rest
    <3>2. t = [trades |-> trades,
               lots |-> IF q = lot.qty THEN Tail(m.lots) ELSE [m.lots EXCEPT ![1].qty = @ - q],
               left |-> left]
      BY <1>3 DEF Turn, q
    <3> QED BY <3>1, <3>2
  <2>5. q \in Int /\ left \in Int
    BY <1>1, <2>3 DEF Lower
  <2> HIDE DEF lot, q
  <2>6. rest \in LotRec /\ rest.qty = lot.qty - q /\ rest.dir = lot.dir /\ rest.price = lot.price
    BY <2>2, <2>3, <2>5 DEF LotRec
  <2>7. trade \in TradeRec
    <3>1. 2 * FeePerUnit * q \in Int
      BY <1>1, <2>5
    <3> QED BY <1>1, <2>3, <2>5, <3>1 DEF TradeRec
  <2>8. NetPnL(trade) = (f.price - lot.price) * q * lot.dir - 2 * FeePerUnit * q /\ NetPnL(trade) \in Int
    <3>1. NetPnL(trade) \in Int
      <4> HIDE DEF trade
      <4> QED BY <2>7, NetPnLIsInt
    <3> QED BY <3>1 DEF NetPnL
  <2> HIDE DEF rest, trade
  <2>9. lots \in Seq(LotRec) /\ trades \in Seq(TradeRec)
    <3>1. Tail(m.lots) \in Seq(LotRec) /\ [m.lots EXCEPT ![1] = rest] \in Seq(LotRec)
      BY <1>1, <2>1, <2>6, OpenPnLsFirst
    <3> QED BY <1>1, <2>7, <3>1
  <2>10. t \in Book
    <3> HIDE DEF lots, trades, left
    <3> QED BY <2>4, <2>5, <2>9 DEF Book
  <2>11. ASSUME NEW x \in Nat
         PROVE  Worth(t, x) + Gain(f, t.left, x) = Worth(m, x) + Gain(f, m.left, x)
    <3> DEFINE was == OpenPnL(lot, x)
               is == IF q = lot.qty THEN 0 ELSE OpenPnL(rest, x)
    <3>1. /\ was = (x - lot.price) * lot.qty * lot.dir - FeePerUnit * lot.qty
          /\ was \in Int
      BY <2>2, OpenPnLIs
    <3>2. /\ is = (x - lot.price) * (lot.qty - q) * lot.dir - FeePerUnit * (lot.qty - q)
          /\ is \in Int
      <4>1. CASE q = lot.qty
        <5>1. lot.qty - q = 0 /\ x - lot.price \in Int /\ lot.dir \in Int /\ FeePerUnit \in Int
          BY <1>1, <2>3, <4>1
        <5>2. (x - lot.price) * 0 * lot.dir = 0 /\ FeePerUnit * 0 = 0
          BY <5>1
        <5> QED BY <4>1, <5>1, <5>2
      <4>2. CASE q # lot.qty
        BY <2>6, <4>2, OpenPnLIs
      <4> QED BY <4>1, <4>2
    <3>3. SumFunction(OpenPnLs(lots, x)) = SumFunction(OpenPnLs(m.lots, x)) + (is - was)
      <4>0. SumFunction(OpenPnLs(m.lots, x)) \in Int
        BY <1>1, OpenPnLsOf
      <4>1. CASE q = lot.qty
        <5>1. SumFunction(OpenPnLs(m.lots, x)) = was + SumFunction(OpenPnLs(Tail(m.lots), x))
          BY <1>1, <2>1, OpenPnLsTail DEF lot
        <5>2. SumFunction(OpenPnLs(Tail(m.lots), x)) \in Int
          <6>1. Tail(m.lots) \in Seq(LotRec)
            BY <1>1, <2>1
          <6> QED BY <6>1, OpenPnLsOf
        <5>3. lots = Tail(m.lots) /\ is = 0
          BY <4>1
        <5> HIDE DEF lots, is, was
        <5> QED BY <3>1, <5>1, <5>2, <5>3
      <4>2. CASE q # lot.qty
        <5> DEFINE u == [m.lots EXCEPT ![1] = rest]
        <5>1. lots = u /\ is = OpenPnL(rest, x)
          BY <4>2
        <5>2. u = [m.lots EXCEPT ![1] = rest]
          OBVIOUS
        <5> HIDE DEF u
        <5>3. SumFunction(OpenPnLs(u, x))
                = SumFunction(OpenPnLs(m.lots, x)) + (OpenPnL(rest, x) - OpenPnL(Head(m.lots), x))
          BY <1>1, <2>1, <2>6, <5>2, OpenPnLsFirst
        <5> QED BY <5>1, <5>3 DEF lot
      <4> QED BY <4>1, <4>2
    <3>4. SumFunction(PnLs(trades)) = SumFunction(PnLs(m.trades)) + NetPnL(trade)
      BY <1>1, <2>7, PnLsOf
    <3>5. /\ Gain(f, left, x) = (x - f.price) * (-lot.dir) * (m.left - q) - FeePerUnit * (m.left - q)
          /\ Gain(f, m.left, x) = (x - f.price) * (-lot.dir) * m.left - FeePerUnit * m.left
      BY <2>3 DEF Gain
    <3>6. was + Gain(f, m.left, x) = NetPnL(trade) + is + Gain(f, left, x)
      <4> HIDE DEF was, is, left
      <4>1. /\ lot.qty \in Int /\ m.left \in Int /\ lot.price \in Int /\ f.price \in Int
            /\ x \in Int /\ FeePerUnit \in Int /\ lot.dir \in {1, -1} /\ q \in Int
        BY <1>1, <2>3, <2>5
      <4>2. ((x - lot.price) * lot.qty * lot.dir - FeePerUnit * lot.qty)
              + ((x - f.price) * (-lot.dir) * m.left - FeePerUnit * m.left)
            = ((f.price - lot.price) * q * lot.dir - 2 * FeePerUnit * q)
              + ((x - lot.price) * (lot.qty - q) * lot.dir - FeePerUnit * (lot.qty - q))
              + ((x - f.price) * (-lot.dir) * (m.left - q) - FeePerUnit * (m.left - q))
        BY <4>1, Closing
      <4> QED BY <2>8, <3>1, <3>2, <3>5, <4>2
    <3>7. Gain(f, left, x) \in Int /\ Gain(f, m.left, x) \in Int
      <4>1. f.price \in Int /\ x \in Int
        BY <1>1
      <4> HIDE DEF left
      <4> QED BY <1>1, <2>5, <4>1, GainIsInt
    <3>8. SumFunction(PnLs(m.trades)) \in Int /\ SumFunction(OpenPnLs(m.lots, x)) \in Int
      BY <1>1, PnLsOf, OpenPnLsOf
    <3>9. t.left = left /\ t.trades = trades /\ t.lots = lots
      BY <2>4
    <3> HIDE DEF was, is, left, trades, lots
    <3>10. Worth(t, x) = SumFunction(PnLs(m.trades)) + NetPnL(trade)
                        + (SumFunction(OpenPnLs(m.lots, x)) + (is - was))
      BY <3>3, <3>4, <3>9 DEF Worth
    <3>11. Worth(m, x) = SumFunction(PnLs(m.trades)) + SumFunction(OpenPnLs(m.lots, x))
      BY DEF Worth
    <3> DEFINE n == NetPnL(trade)
               a == SumFunction(PnLs(m.trades))
               o == SumFunction(OpenPnLs(m.lots, x))
               gl == Gain(f, left, x)
               gm == Gain(f, m.left, x)
    <3>12. n \in Int /\ a \in Int /\ o \in Int /\ gl \in Int /\ gm \in Int /\ was \in Int /\ is \in Int
      BY <2>8, <3>1, <3>2, <3>7, <3>8
    <3>13. /\ Worth(t, x) = a + n + (o + (is - was)) /\ Worth(m, x) = a + o
           /\ was + gm = n + is + gl
      BY <3>6, <3>10, <3>11
    <3> HIDE DEF n, a, o, gl, gm
    <3>14. Worth(t, x) + gl = Worth(m, x) + gm
      BY <3>12, <3>13
    <3> QED BY <3>9, <3>14 DEF gl, gm
  <2> QED BY <2>10, <2>11
<1> QED BY <1>2, <1>3

\* The recursion of Match.
Turns(g, m, f) ==
  g = [n \in 0 .. Len(m.lots) |-> IF n = 0 THEN [m EXCEPT !.left = f.qty] ELSE Turn(g[n - 1], f)]

\* Matching a fill makes the book worth what the fill gains.
LEMMA MatchAddsGain ==
  ASSUME NEW m \in Book, NEW f \in FillRec, NEW u, u = Match(m, f)
  PROVE  /\ u \in Book
         /\ \A x \in Nat : Worth(u, x) = Worth(m, x) + Gain(f, f.qty, x)
<1> DEFINE N == Len(m.lots)
           a == [m EXCEPT !.left = f.qty]
           Good(t) == \A x \in Nat : Worth(t, x) + Gain(f, t.left, x) = Worth(m, x) + Gain(f, f.qty, x)
           G == {t \in Book : Good(t)}
           X == [n \in 0..N |-> G]
           step == [p \in (1..N) \X Book |-> Turn(p[2], f)]
<1>1. /\ N \in Nat /\ m.lots \in Seq(LotRec) /\ f.qty \in Int
      /\ f.price \in Nat /\ f.side \in {1, -1}
  BY DEF Book, FillRec
<1>2. a \in Book /\ a.left = f.qty /\ a.trades = m.trades /\ a.lots = m.lots
  BY <1>1 DEF Book
<1>3. a \in G
  <2>1. \A x \in Nat : Worth(a, x) = Worth(m, x)
    BY <1>2 DEF Worth
  <2> HIDE DEF a
  <2> QED BY <1>2, <2>1
<1>4. ASSUME NEW t \in G PROVE Turn(t, f) \in G
  <2>1. t \in Book
    OBVIOUS
  <2>2. Turn(t, f) \in Book /\ \A x \in Nat : Worth(Turn(t, f), x) + Gain(f, Turn(t, f).left, x)
                                         = Worth(t, x) + Gain(f, t.left, x)
    BY <2>1, TurnKeepsWorth
  <2> QED BY <2>2
<1> HIDE DEF G
<1>5. \E g : Turns(g, m, f)
  <2>1. Leads(step, X, N)
    <3>1. ASSUME NEW n \in 1..N, NEW t \in X[n - 1] PROVE step[<<n, t>>] \in X[n]
      <4>1. n - 1 \in 0..N /\ n \in 0..N
        BY <1>1
      <4>2. t \in G /\ t \in Book
        BY <4>1 DEF G
      <4> QED BY <1>4, <4>1, <4>2
    <3> HIDE DEF X, step
    <3> QED BY <3>1 DEF Leads
  <2>2. a \in X[0]
    BY <1>1, <1>3
  <2>3. PICK g : Course(g, a, step, X, N)
    <3> HIDE DEF X, step, N, a
    <3> QED BY <1>1, <2>1, <2>2, StepsExist
  <2>4. \A n \in 1..N : g[n] = Turn(g[n - 1], f)
    <3>1. ASSUME NEW n \in 1..N PROVE g[n] = Turn(g[n - 1], f)
      <4>1. g[n] = step[<<n, g[n - 1]>>] /\ g[n - 1] \in X[n - 1]
        <5> HIDE DEF X, step
        <5> QED BY <2>3 DEF Course
      <4>2. n - 1 \in 0..N
        BY <1>1
      <4>3. g[n - 1] \in Book
        BY <2>3, <4>1, <4>2 DEF G
      <4> QED BY <4>1, <4>3
    <3> QED BY <3>1
  <2>5. \A n \in 0..N : g[n] = IF n = 0 THEN a ELSE Turn(g[n - 1], f)
    <3>1. \A n \in 0..N : n = 0 \/ n \in 1..N
      BY <1>1
    <3> HIDE DEF a, N, X, step
    <3> QED BY <2>3, <2>4, <3>1 DEF Course
  <2> HIDE DEF X, step
  <2>6. Turns(g, m, f)
    BY <2>3, <2>5 DEF Turns, Course
  <2> QED BY <2>6
<1>6. PICK g : /\ Turns(g, m, f)
               /\ u = [g[N] EXCEPT !.lots = Remainder(g[N], f), !.left = 0]
  BY <1>5, Zenon DEF Match, Turns
<1>7. g[0] = a /\ \A n \in 1..N : g[n] = Turn(g[n - 1], f)
  <2>1. 0 \in 0..N /\ \A n \in 1..N : n \in 0..N /\ n # 0
    BY <1>1
  <2> QED BY <1>6, <2>1 DEF Turns
<1>8. g[N] \in G
  <2>1. N \in 0..N /\ g[0] \in X[0]
    BY <1>1, <1>3, <1>7
  <2>2. \A n \in 1..N : g[n - 1] \in X[n - 1] => g[n] \in X[n]
    <3>1. \A n \in 1..N : n - 1 \in 0..N /\ n \in 0..N
      BY <1>1
    <3> QED BY <1>4, <1>7, <3>1
  <2> HIDE DEF X, N
  <2>3. \A n \in 0..N : g[n] \in X[n]
    BY <1>1, <2>1, <2>2, StepsKeep
  <2>4. g[N] \in X[N]
    BY <2>1, <2>3
  <2> QED BY <2>1, <2>4 DEF X
<1> DEFINE v == g[N]
<1>9. v \in Book /\ Good(v)
  BY <1>8 DEF G
<1>10. u = [v EXCEPT !.lots = Remainder(v, f), !.left = 0]
  BY <1>6
<1> HIDE DEF v
<1>11. /\ v.trades \in Seq(TradeRec) /\ v.lots \in Seq(LotRec) /\ v.left \in Int
  BY <1>9 DEF Book
<1> DEFINE lot == [qty |-> v.left, dir |-> f.side, price |-> f.price]
<1>12. lot \in LotRec /\ lot.qty = v.left /\ lot.dir = f.side /\ lot.price = f.price
  BY <1>1, <1>11 DEF LotRec
<1>13. Remainder(v, f) = IF v.left = 0 THEN v.lots ELSE Append(v.lots, lot)
  BY DEF Remainder
<1> HIDE DEF lot
<1>14. Remainder(v, f) \in Seq(LotRec)
  BY <1>11, <1>12, <1>13
<1>15. u \in Book /\ u.trades = v.trades /\ u.lots = Remainder(v, f)
  <2> DEFINE rest == Remainder(v, f)
  <2>1. rest \in Seq(LotRec) /\ 0 \in Int /\ u = [v EXCEPT !.lots = rest, !.left = 0]
    BY <1>10, <1>14
  <2> HIDE DEF rest
  <2>2. u \in Book /\ u.trades = v.trades /\ u.lots = rest
    BY <1>9, <2>1 DEF Book
  <2> QED BY <2>2 DEF rest
<1>16. ASSUME NEW x \in Nat PROVE Worth(u, x) = Worth(m, x) + Gain(f, f.qty, x)
  <2>1. Worth(v, x) + Gain(f, v.left, x) = Worth(m, x) + Gain(f, f.qty, x)
    BY <1>9
  <2>2. SumFunction(PnLs(v.trades)) \in Int /\ SumFunction(OpenPnLs(v.lots, x)) \in Int
    BY <1>11, PnLsOf, OpenPnLsOf
  <2>3. CASE v.left = 0
    <3>1. Gain(f, v.left, x) = 0
      <4>1. (x - f.price) * f.side \in Int /\ FeePerUnit \in Int
        BY <1>1, BacktestAssumption
      <4>2. (x - f.price) * f.side * 0 = 0 /\ FeePerUnit * 0 = 0
        BY <4>1
      <4> QED BY <2>3, <4>2 DEF Gain
    <3>2. Worth(u, x) = Worth(v, x) /\ Worth(v, x) \in Int
      BY <1>13, <1>15, <2>2, <2>3 DEF Worth
    <3> QED BY <2>1, <3>1, <3>2
  <2>4. CASE v.left # 0
    <3>1. SumFunction(OpenPnLs(u.lots, x)) = SumFunction(OpenPnLs(v.lots, x)) + OpenPnL(lot, x)
      BY <1>11, <1>12, <1>13, <1>15, <2>4, OpenPnLsOf
    <3>2. OpenPnL(lot, x) = Gain(f, v.left, x) /\ OpenPnL(lot, x) \in Int
      <4>1. OpenPnL(lot, x) = (x - f.price) * v.left * f.side - FeePerUnit * v.left /\ OpenPnL(lot, x) \in Int
        BY <1>12, OpenPnLIs
      <4>2. (x - f.price) * v.left * f.side = (x - f.price) * f.side * v.left
        BY <1>1, <1>11
      <4> QED BY <4>1, <4>2 DEF Gain
    <3>3. Worth(u, x) = Worth(v, x) + OpenPnL(lot, x)
      BY <1>15, <2>2, <3>1, <3>2 DEF Worth
    <3> QED BY <2>1, <3>2, <3>3
  <2> QED BY <2>3, <2>4
<1> QED BY <1>15, <1>16

\* The values g goes through when the members of D are taken one at a time: last[S] is
\* the last of S, and step makes the value of S from it and the value of the others.
Takes(g, a, D, last, step, X) ==
  /\ g \in [SUBSET D -> X] /\ g[{}] = a
  /\ \A S \in SUBSET D : S # {} => g[S] = step[<<last[S], g[S \ {last[S]}]>>]

\* The members of a finite set can be taken one at a time.
LEMMA TakesExist ==
  ASSUME NEW D, IsFiniteSet(D), NEW X, NEW a \in X, NEW last, NEW step,
         \A S \in SUBSET D : S # {} => last[S] \in S,
         \A i \in D : \A x \in X : step[<<i, x>>] \in X
  PROVE  \E g : Takes(g, a, D, last, step, X)
<1> DEFINE Value(g, S) == step[<<last[S], g[S \ {last[S]}]>>]
           Up(g, n) == /\ g \in [SUBSET D -> X] /\ g[{}] = a
                       /\ \A S \in SUBSET D : S # {} /\ Cardinality(S) <= n => g[S] = Value(g, S)
           N == {n \in Nat : \E g : Up(g, n)}
<1>1. \A S \in SUBSET D : Cardinality(S) \in Nat /\ (Cardinality(S) = 0 <=> S = {})
  BY FS_Subset, FS_CardinalityType, FS_EmptySet
<1>2. \A S \in SUBSET D : S # {} =>
        /\ last[S] \in D /\ S \ {last[S]} \in SUBSET D
        /\ Cardinality(S \ {last[S]}) = Cardinality(S) - 1
  BY FS_Subset, FS_RemoveElement
<1>3. 0 \in N
  <2> DEFINE g == [S \in SUBSET D |-> a]
  <2>1. g \in [SUBSET D -> X] /\ g[{}] = a
    OBVIOUS
  <2>2. \A S \in SUBSET D : ~(S # {} /\ Cardinality(S) <= 0)
    BY <1>1
  <2> HIDE DEF g, Value
  <2>3. Up(g, 0)
    BY <2>1, <2>2
  <2> HIDE DEF Up
  <2> QED BY <2>3
<1>4. ASSUME NEW n \in Nat, n \in N PROVE n + 1 \in N
  <2>1. PICK g : Up(g, n)
    BY <1>4
  <2> DEFINE h == [S \in SUBSET D |-> IF S = {} THEN a ELSE Value(g, S)]
  <2>2. h \in [SUBSET D -> X] /\ h[{}] = a /\ \A S \in SUBSET D : S # {} => h[S] = Value(g, S)
    <3>1. ASSUME NEW S \in SUBSET D, S # {}
          PROVE  Value(g, S) \in X
      <4>1. g[S \ {last[S]}] \in X /\ last[S] \in D
        BY <1>2, <2>1, <3>1
      <4> QED BY <4>1
    <3> HIDE DEF Value
    <3> QED BY <3>1
  <2> HIDE DEF h
  <2>3. \A S \in SUBSET D : Cardinality(S) <= n => h[S] = g[S]
    <3>1. ASSUME NEW S \in SUBSET D, Cardinality(S) <= n, S # {} PROVE h[S] = g[S]
      <4> HIDE DEF Value
      <4> QED BY <2>1, <2>2, <3>1
    <3>2. h[{}] = g[{}]
      BY <2>1, <2>2
    <3> QED BY <3>1, <3>2
  <2>4. ASSUME NEW S \in SUBSET D, S # {}, Cardinality(S) <= n + 1 PROVE h[S] = Value(h, S)
    <3>1. Cardinality(S \ {last[S]}) <= n
      BY <1>1, <1>2, <2>4
    <3>2. h[S \ {last[S]}] = g[S \ {last[S]}]
      BY <1>2, <2>3, <2>4, <3>1
    <3> QED BY <2>2, <2>4, <3>2
  <2>5. Up(h, n + 1)
    <3> HIDE DEF Value
    <3> QED BY <2>2, <2>4
  <2> HIDE DEF Up
  <2> QED BY <2>5
<1>5. Cardinality(D) \in N
  <2> HIDE DEF N
  <2> QED BY <1>1, <1>3, <1>4, NumberInduction
<1>6. PICK g : Up(g, Cardinality(D))
  BY <1>5
<1>7. \A S \in SUBSET D : Cardinality(S) <= Cardinality(D)
  BY FS_Subset
<1> QED BY <1>6, <1>7 DEF Takes

\* Of the fills in a set one is the latest.
LEMMA LatestIn ==
  ASSUME NEW fills \in Seq(FillRec), NEW S \in SUBSET DOMAIN fills, S # {}
  PROVE  Latest(fills, S) \in S
<1> DEFINE After(i, k) == \/ fills[k].ts < fills[i].ts
                          \/ fills[k].ts = fills[i].ts /\ k <= i
           P == {T \in SUBSET S : T # {} => \E i \in T : \A k \in T : After(i, k)}
<1>1. \A i \in S : i \in Nat /\ fills[i].ts \in Nat
  <2>1. ASSUME NEW i \in S PROVE i \in Nat /\ fills[i] \in FillRec
    OBVIOUS
  <2> QED BY <2>1 DEF FillRec
<1>2. IsFiniteSet(S)
  <2>1. DOMAIN fills = 1..Len(fills) /\ Len(fills) \in Nat
    OBVIOUS
  <2>2. IsFiniteSet(DOMAIN fills)
    BY <2>1, FS_Interval
  <2> QED BY <2>2, FS_Subset
<1>3. ASSUME NEW T \in SUBSET S, \A x \in T : T \ {x} \in P PROVE T \in P
  <2>1. ASSUME NEW x \in T, T \ {x} = {} PROVE T \in P
    <3>1. \A k \in T : k = x
      BY <2>1
    <3>2. \A k \in T : After(x, k)
      BY <1>1, <3>1
    <3> QED BY <3>2
  <2>2. ASSUME NEW x \in T, T \ {x} # {} PROVE T \in P
    <3>1. PICK i \in T \ {x} : \A k \in T \ {x} : After(i, k)
      BY <1>3, <2>2
    <3>2. CASE After(i, x)
      <4>1. \A k \in T : After(i, k)
        BY <3>1, <3>2
      <4> QED BY <4>1
    <3>3. CASE ~After(i, x)
      <4>1. \A k \in T : After(x, k)
        BY <1>1, <3>1, <3>3
      <4> QED BY <4>1
    <3> QED BY <3>2, <3>3
  <2> QED BY <2>1, <2>2
<1>4. \A T \in SUBSET S : T \in P
  <2> HIDE DEF P
  <2> QED BY <1>2, <1>3, SubsetInduction
<1>5. \E i \in S : \A k \in S : After(i, k)
  BY <1>4
<1> QED BY <1>5 DEF Latest

\* The recursion of Matched.
Books(g, fills) ==
  g = [S \in SUBSET DOMAIN fills |->
         IF S = {} THEN Unmatched
         ELSE Match(g[S \ {Latest(fills, S)}], fills[Latest(fills, S)])]

\* The fills matched: a book that is worth, at any price, what they have gained.
LEMMA MatchedIsWorth ==
  ASSUME NEW fills \in Seq(FillRec)
  PROVE  /\ Matched(fills) \in Book
         /\ \A x \in Nat : Worth(Matched(fills), x) = SumFunction(Gains(fills, x))
<1> DEFINE D == DOMAIN fills
           last == [S \in SUBSET D |-> Latest(fills, S)]
           step == [p \in D \X Book |-> Match(p[2], fills[p[1]])]
<1>1. IsFiniteSet(D)
  <2>1. D = 1..Len(fills) /\ Len(fills) \in Nat
    OBVIOUS
  <2> QED BY <2>1, FS_Interval
<1>2. \A i \in D : fills[i] \in FillRec
  OBVIOUS
<1>3. Unmatched \in Book
  BY DEF Unmatched, Book
<1>4. \A S \in SUBSET D : S # {} => Latest(fills, S) \in S
  BY LatestIn
<1>5. ASSUME NEW i \in D, NEW m \in Book
      PROVE  /\ step[<<i, m>>] = Match(m, fills[i]) /\ Match(m, fills[i]) \in Book
             /\ \A x \in Nat : Worth(Match(m, fills[i]), x) = Worth(m, x) + Gain(fills[i], fills[i].qty, x)
  BY <1>2, MatchAddsGain
<1> HIDE DEF D
<1>6. \E g : Books(g, fills)
  <2>1. \A S \in SUBSET D : S # {} => last[S] = Latest(fills, S) /\ last[S] \in S
    BY <1>4
  <2> HIDE DEF last, step
  <2>2. \A i \in D : \A m \in Book : step[<<i, m>>] \in Book
    BY <1>5
  <2>3. \E g : Takes(g, Unmatched, D, last, step, Book)
    BY <1>1, <1>3, <2>1, <2>2, TakesExist
  <2>4. PICK g : Takes(g, Unmatched, D, last, step, Book)
    BY <2>3
  <2>5. ASSUME NEW S \in SUBSET D, S # {}
        PROVE  g[S] = Match(g[S \ {Latest(fills, S)}], fills[Latest(fills, S)])
    <3>1. last[S] = Latest(fills, S) /\ last[S] \in D /\ S \ {last[S]} \in SUBSET D
      BY <2>1, <2>5
    <3>2. g[S] = step[<<last[S], g[S \ {last[S]}]>>] /\ g[S \ {last[S]}] \in Book
      BY <2>4, <2>5, <3>1 DEF Takes
    <3> QED BY <1>5, <3>1, <3>2
  <2>6. \A S \in SUBSET D : g[S] = IF S = {} THEN Unmatched
                                   ELSE Match(g[S \ {Latest(fills, S)}], fills[Latest(fills, S)])
    BY <2>4, <2>5 DEF Takes
  <2>7. g = [S \in SUBSET D |-> g[S]]
    BY <2>4 DEF Takes
  <2>8. Books(g, fills)
    BY <2>6, <2>7 DEF Books, D
  <2> QED BY <2>8
<1>7. PICK g : Books(g, fills) /\ Matched(fills) = g[D]
  BY <1>6, Zenon DEF Matched, Books, D
<1> DEFINE Good(S, m) == /\ m \in Book
                         /\ \A x \in Nat : Worth(m, x) = SumFunctionOnSet(Gains(fills, x), S)
           P == {S \in SUBSET D : Good(S, g[S])}
<1>8. \A x \in Nat : /\ Gains(fills, x) \in Seq(Int) /\ DOMAIN Gains(fills, x) = D
                     /\ \A i \in D : Gains(fills, x)[i] = Gain(fills[i], fills[i].qty, x)
                     /\ SumFunction(Gains(fills, x)) = SumFunctionOnSet(Gains(fills, x), D)
                     /\ IntOn(Gains(fills, x), D)
  <2>1. ASSUME NEW x \in Nat
        PROVE  /\ Gains(fills, x) \in Seq(Int) /\ DOMAIN Gains(fills, x) = D
               /\ \A i \in D : Gains(fills, x)[i] = Gain(fills[i], fills[i].qty, x)
    BY GainsOf DEF Gains, D
  <2>2. ASSUME NEW x \in Nat
        PROVE  /\ SumFunction(Gains(fills, x)) = SumFunctionOnSet(Gains(fills, x), DOMAIN Gains(fills, x))
               /\ IntOn(Gains(fills, x), DOMAIN Gains(fills, x))
    BY <2>1, SeqTerms
  <2>3. ASSUME NEW x \in Nat
        PROVE  /\ SumFunction(Gains(fills, x)) = SumFunctionOnSet(Gains(fills, x), D)
               /\ IntOn(Gains(fills, x), D)
    BY <2>1, <2>2
  <2> QED BY <2>1, <2>3
<1>9. ASSUME NEW S \in SUBSET D, \A i \in S : S \ {i} \in P PROVE Good(S, g[S])
  <2>1. CASE S = {}
    <3>1. g[S] = Unmatched
      BY <1>7, <2>1 DEF Books, D
    <3>2. PnLs(<<>>) = <<>> /\ \A x \in Nat : OpenPnLs(<<>>, x) = <<>>
      BY DEF PnLs, OpenPnLs
    <3>3. Unmatched.trades = <<>> /\ Unmatched.lots = <<>>
      BY DEF Unmatched
    <3>4. \A x \in Nat : Worth(Unmatched, x) = 0
      BY <3>2, <3>3, SeqSumEmpty DEF Worth
    <3>5. \A x \in Nat : SumFunctionOnSet(Gains(fills, x), {}) = 0
      BY SumOfNone
    <3> QED BY <1>3, <2>1, <3>1, <3>4, <3>5
  <2>2. CASE S # {}
    <3> DEFINE i == Latest(fills, S)
               R == S \ {i}
    <3>1. i \in S /\ i \in D /\ R \in SUBSET D
      BY <1>4, <2>2
    <3>2. g[S] = Match(g[R], fills[i])
      BY <1>7, <2>2 DEF Books, D
    <3>3. Good(R, g[R])
      BY <1>9, <3>1
    <3> HIDE DEF R
    <3>4. /\ g[S] \in Book
          /\ \A x \in Nat : Worth(g[S], x) = Worth(g[R], x) + Gain(fills[i], fills[i].qty, x)
      <4> HIDE DEF i
      <4> QED BY <1>5, <3>1, <3>2, <3>3
    <3>5. ASSUME NEW x \in Nat
          PROVE  Worth(g[S], x) = SumFunctionOnSet(Gains(fills, x), S)
      <4> DEFINE G == Gains(fills, x)
      <4>1. IsFiniteSet(S) /\ IntOn(G, S)
        BY <1>1, <1>8, FS_Subset DEF IntOn
      <4>2. G[i] = Gain(fills[i], fills[i].qty, x) /\ G[i] \in Int
        <5> HIDE DEF i
        <5> QED BY <1>8, <3>1 DEF IntOn
      <4>3. Worth(g[S], x) = SumFunctionOnSet(G, R) + G[i]
        BY <3>3, <3>4, <4>2
      <4> HIDE DEF G, i
      <4>4. SumFunctionOnSet(G, S) = G[i] + SumFunctionOnSet(G, S \ {i})
        BY <3>1, <4>1, SumTakes
      <4>5. SumFunctionOnSet(G, R) \in Int
        <5>1. IsFiniteSet(R) /\ IntOn(G, R)
          BY <4>1, FS_Subset DEF IntOn, R
        <5> QED BY <5>1, SumIsInt
      <4> QED BY <4>2, <4>3, <4>4, <4>5 DEF R, G
    <3> QED BY <3>4, <3>5
  <2> QED BY <2>1, <2>2
<1>10. D \in P
  <2>1. \A S \in SUBSET D : S \in P
    <3>1. ASSUME NEW S \in SUBSET D, \A i \in S : S \ {i} \in P PROVE S \in P
      BY <1>9, <3>1
    <3> HIDE DEF P
    <3> QED BY <1>1, <3>1, SubsetInduction
  <2> QED BY <2>1
<1>11. Good(D, g[D])
  BY <1>10
<1> QED BY <1>7, <1>8, <1>11

\* The round trips a sound account reports have made what it has gained.
LEMMA ResultAddsUp ==
  ASSUME NEW W, NEW s, Sound(s, W)
  PROVE  SumFunction(PnLs(MatchTrades(s))) = Equity(s) - Cash
<1> DEFINE m == Matched(s.fills)
           x == s.last
           a == m.trades
           b == [i \in DOMAIN m.lots |-> Open(m.lots[i], x)]
<1>1. s.fills \in Seq(FillRec) /\ x \in Nat
  BY DEF Sound, SimOf
<1>2. m \in Book /\ Worth(m, x) = SumFunction(Gains(s.fills, x))
  BY <1>1, MatchedIsWorth
<1>3. MatchTrades(s) = a \o b
  BY DEF MatchTrades
<1> HIDE DEF m
<1>4. a \in Seq(TradeRec) /\ m.lots \in Seq(LotRec)
  BY <1>2 DEF Book
<1>5. b \in Seq(TradeRec) /\ Len(b) = Len(m.lots)
  <2>1. ASSUME NEW lot \in LotRec PROVE Open(lot, x) \in TradeRec
    <3>1. FeePerUnit * lot.qty \in Int
      BY BacktestAssumption DEF LotRec
    <3> QED BY <1>1, <3>1 DEF Open, LotRec, TradeRec
  <2>2. \A i \in DOMAIN m.lots : m.lots[i] \in LotRec
    BY <1>4
  <2> HIDE DEF x
  <2> QED BY <1>4, <2>1, <2>2
<1>6. PnLs(b) = OpenPnLs(m.lots, x)
  <2>1. DOMAIN b = DOMAIN m.lots /\ \A i \in DOMAIN m.lots : NetPnL(b[i]) = OpenPnL(m.lots[i], x)
    BY DEF OpenPnL
  <2> HIDE DEF b
  <2> QED BY <2>1 DEF PnLs, OpenPnLs
<1> HIDE DEF a, b, x
<1>7. PnLs(a) \in Seq(Int) /\ PnLs(b) \in Seq(Int)
  BY <1>4, <1>5, PnLsOf
<1>8. PnLs(a \o b) = PnLs(a) \o PnLs(b)
  <2> DEFINE u == a \o b
             v == PnLs(a) \o PnLs(b)
             k == Len(a)
             n == Len(a) + Len(b)
  <2>1. /\ u \in Seq(TradeRec) /\ k \in Nat /\ n \in Nat /\ DOMAIN u = 1..n
        /\ \A i \in 1..n : i <= k => i \in DOMAIN a /\ u[i] = a[i]
        /\ \A i \in 1..n : i > k => i - k \in DOMAIN b /\ u[i] = b[i - k]
    BY <1>4, <1>5, SMTT(30)
  <2>2. Len(PnLs(a)) = k /\ Len(PnLs(b)) = Len(b)
    <3>1. DOMAIN PnLs(a) = DOMAIN a /\ DOMAIN PnLs(b) = DOMAIN b
      BY DEF PnLs
    <3> QED BY <1>4, <1>5, <1>7, <3>1
  <2>3. /\ v \in Seq(Int) /\ DOMAIN v = 1..n
        /\ \A i \in 1..n : i <= k => v[i] = PnLs(a)[i]
        /\ \A i \in 1..n : i > k => v[i] = PnLs(b)[i - k]
    <3> DEFINE p == PnLs(a)
               q == PnLs(b)
    <3>1. p \in Seq(Int) /\ q \in Seq(Int) /\ Len(p) = k /\ n = k + Len(q) /\ k \in Nat
      BY <1>4, <1>7, <2>2
    <3> HIDE DEF p, q, k, n
    <3>2. /\ p \o q \in Seq(Int) /\ DOMAIN (p \o q) = 1..n
          /\ \A i \in 1..n : i <= k => (p \o q)[i] = p[i]
          /\ \A i \in 1..n : i > k => (p \o q)[i] = q[i - k]
      BY <3>1
    <3> QED BY <3>2 DEF p, q
  <2> HIDE DEF u, v, n
  <2>4. \A i \in 1..n : NetPnL(u[i]) = v[i]
    <3>1. ASSUME NEW i \in 1..n PROVE NetPnL(u[i]) = v[i]
      <4>1. CASE i <= k
        BY <2>1, <2>3, <4>1 DEF PnLs
      <4>2. CASE i > k
        BY <2>1, <2>3, <4>2 DEF PnLs
      <4> QED BY <2>1, <4>1, <4>2
    <3> QED BY <3>1
  <2>5. v = [i \in 1..n |-> v[i]]
    BY <2>3
  <2> QED BY <2>1, <2>4, <2>5 DEF PnLs, u, v
<1>9. SumFunction(PnLs(a \o b)) = SumFunction(PnLs(a)) + SumFunction(PnLs(b))
  BY <1>7, <1>8, SeqSumConcat
<1>10. Worth(m, x) = SumFunction(PnLs(a)) + SumFunction(PnLs(b))
  BY <1>6 DEF Worth, a
<1>11. SumFunction(Gains(s.fills, x)) = s.cash + s.held * x - Cash
  BY <1>1 DEF Sound, Balanced
<1>12. SumFunction(PnLs(MatchTrades(s))) = Worth(m, x)
  BY <1>3, <1>9, <1>10
<1>13. SumFunction(Gains(s.fills, x)) = Equity(s) - Cash
  <2>1. s.cash \in Int /\ s.held * x \in Int /\ Cash \in Int
    BY BacktestAssumption DEF Sound, SimOf, x
  <2>2. Equity(s) = s.cash + s.held * x
    BY DEF Equity, x
  <2> QED BY <1>11, <2>1, <2>2
<1>14. SumFunction(PnLs(MatchTrades(s))) = SumFunction(Gains(s.fills, x))
  BY <1>2, <1>12
<1> QED BY <1>13, <1>14, Zenon
-----------------------------------------------------------------------------
(* The inductive invariant of the replay.                                  *)

\* The clock has not passed the end of a bar that is to come; an order that a strategy
\* decided waits for one of them, and for none of its interval that began before it.
Waiting(s, bars) ==
  /\ \A b \in bars : s.clock <= BarEnd(b)
  /\ \A o \in DOMAIN s.orders :
       s.orders[o].width # 0 =>
         /\ Cardinality(bars) < s.orders[o].togo
         /\ \A b \in bars : b.width = s.orders[o].width => s.orders[o].created <= b.start

\* What the account of a replay is while some bars are to come.
Replayed(s, bars, r) ==
  /\ Sound(s, r.widths) /\ Spent(s) /\ Waiting(s, bars)
  /\ bars \subseteq Window(r)

\* A new account is worth its cash.
LEMMA FreshReplayed ==
  ASSUME NEW j \in Job
  PROVE  Replayed(Fresh(Request[j]), Window(Request[j]), Request[j])
<1> DEFINE r == Request[j]
           s == Fresh(r)
           W == Window(r)
<1>1. /\ s.clock = r.first * Session /\ s.cash = Cash /\ s.held = 0 /\ s.last = 0
      /\ s.orders = <<>> /\ s.fills = <<>> /\ DOMAIN s.orders = {} /\ DOMAIN s.fills = {}
  BY DEF Fresh
<1>2. r.first * Session \in Nat /\ W \in SUBSET Bars
      /\ \A b \in W : r.first * Session <= b.start
  BY WindowBars
<1>3. s \in SimOf(r.widths)
  <2>1. Cash \in Int
    BY BacktestAssumption
  <2>2. s = [clock |-> r.first * Session, cash |-> Cash, held |-> 0, last |-> 0,
             orders |-> <<>>, fills |-> <<>>]
    BY DEF Fresh
  <2>3. <<>> \in Seq(OrderOf(r.widths)) /\ <<>> \in Seq(FillRec)
    OBVIOUS
  <2> HIDE DEF s, r
  <2> QED BY <1>2, <2>1, <2>2, <2>3 DEF SimOf
<1> HIDE DEF s
<1>4. Balanced(s)
  <2>1. ASSUME NEW x \in Nat PROVE SumFunction(Gains(s.fills, x)) = s.cash + s.held * x - Cash
    <3>1. Gains(s.fills, x) = <<>>
      BY <1>1 DEF Gains
    <3>2. s.cash + s.held * x - Cash = 0
      BY <1>1, BacktestAssumption
    <3> QED BY <3>1, <3>2, SeqSumEmpty
  <2> QED BY <2>1 DEF Balanced
<1>5. Explained(s, r.widths) /\ Spent(s)
  BY <1>1 DEF Explained, Spent
<1>6. Waiting(s, W)
  <2>1. ASSUME NEW b \in W PROVE s.clock <= BarEnd(b)
    <3>1. b.start \in Nat /\ BarEnd(b) \in Nat /\ b.start < BarEnd(b) /\ r.first * Session <= b.start
      BY <1>2, BarEnds
    <3> HIDE DEF r
    <3> QED BY <1>1, <1>2, <3>1
  <2> QED BY <1>1, <2>1 DEF Waiting
<1> QED BY <1>3, <1>4, <1>5, <1>6 DEF Replayed, Sound, s

\* A step of the replay: a bar, orders it fills, an order it may decide, cancellations
\* and the square-off.
LEMMA StepReplayed ==
  ASSUME NEW j \in Job, NEW bars, NEW s, Replayed(s, bars, Request[j]),
         NEW bar \in Soonest(bars), NEW b, b = Coming(bar, Cardinality(bars)),
         NEW u, u = Advanced(s, BarEnd(b)),
         NEW takes \in [DOMAIN u.orders -> Nat],
         \A o \in DOMAIN u.orders : takes[o] <= u.orders[o].left,
         NEW side \in {1, -1}, NEW q \in Nat,
         NEW decided, \/ decided = OnBar(u, b, takes)
                      \/ decided = Placed(OnBar(u, b, takes), b, side, q),
         NEW ends, NEW t, t = SquaredOff(Cancelled(decided, ends), b, Request[j])
  PROVE  Replayed(t, bars \ {bar}, Request[j])
<1> DEFINE W == Request[j].widths
           n == Cardinality(bars)
           met == OnBar(u, b, takes)
           cut == Cancelled(decided, ends)
           end == BarEnd(bar)
<1>1. /\ Sound(s, W) /\ Spent(s) /\ Waiting(s, bars) /\ bars \subseteq Window(Request[j])
  BY DEF Replayed
<1>2. /\ IsFiniteSet(bars) /\ bars \in SUBSET Bars /\ Distinct(bars)
      /\ \A c \in bars : c.width \in W
      /\ W \in SUBSET (Nat \ {0}) /\ W \in SUBSET Nat
  BY <1>1, WindowBars, FS_Subset DEF Distinct
<1>3. /\ bar \in bars /\ bar.start \in Nat /\ bar.width \in W /\ bar.open \in Nat
      /\ bar.close \in Nat /\ end \in Nat
  BY <1>2, BarEnds DEF Soonest
<1>4. n \in Nat /\ Cardinality(bars \ {bar}) = n - 1
  BY <1>2, <1>3, FS_RemoveElement, FS_CardinalityType
<1>5. /\ b \in ComingIn(W) /\ b.start = bar.start /\ b.width = bar.width /\ b.togo = n
      /\ BarEnd(b) = end
  <2>1. /\ b = [start |-> bar.start, width |-> bar.width, open |-> bar.open,
                close |-> bar.close, togo |-> n]
    BY DEF Coming
  <2> HIDE DEF n, end, W
  <2>2. b \in ComingIn(W) /\ b.start = bar.start /\ b.width = bar.width /\ b.togo = n
    BY <1>3, <1>4, <2>1 DEF ComingIn
  <2> QED BY <2>2 DEF BarEnd, end
<1> HIDE DEF n, end, W
<1>6. /\ Sound(u, W) /\ Spent(u) /\ SameOrders(s, u) /\ u.clock = end
  <2>1. u = Advanced(s, end)
    BY <1>5
  <2>2. Sound(s, W) /\ Spent(s) /\ end \in Nat
    BY <1>1, <1>3
  <2> QED BY <2>1, <2>2, AdvanceIsSound
<1>7. MayMeet(u, b)
  BY <1>1, <1>3, <1>5, <1>6 DEF MayMeet, Waiting, SameOrders, n
<1>8. /\ Sound(met, W) /\ Spent(met) /\ SameOrders(u, met) /\ met.clock = end
  BY <1>2, <1>5, <1>6, <1>7, OnBarIsSound
<1> HIDE DEF met
<1>9. b.width \in Nat /\ b.togo \in Nat
  BY <1>2, <1>3, <1>4, <1>5
<1>10. Sound(decided, W) /\ Spent(decided) /\ Grows(met, decided, b)
  <2>1. CASE decided = met
    BY <1>8, <2>1 DEF Grows
  <2>2. CASE decided = Placed(met, b, side, q)
    BY <1>2, <1>5, <1>8, <2>2, PlacedIsSound
  <2> QED BY <2>1, <2>2 DEF met
<1>11. Sound(cut, W) /\ Spent(cut) /\ Grows(decided, cut, b)
  BY <1>10, CancelledIsSound
<1> HIDE DEF cut
<1>12. Sound(t, W) /\ Spent(t) /\ Grows(cut, t, b)
  <2>1. t = SquaredOff(cut, b, Request[j])
    BY DEF cut
  <2> QED BY <1>9, <1>11, <2>1, SquaredOffIsSound
<1>13. Grows(u, t, b)
  <2>1. Grows(u, met, b)
    BY <1>6, <1>8, SameGrows
  <2>2. Grows(u, decided, b)
    BY <1>10, <2>1, GrowsOn
  <2>3. Grows(u, cut, b)
    BY <1>11, <2>2, GrowsOn
  <2> QED BY <1>12, <2>3, GrowsOn
<1>14. ASSUME NEW c \in bars \ {bar}
       PROVE  /\ end <= BarEnd(c)
              /\ c.width = bar.width => end <= c.start
  BY <1>2, SoonestIs DEF end
<1>15. ASSUME NEW o \in DOMAIN t.orders, t.orders[o].width # 0
       PROVE  /\ n - 1 < t.orders[o].togo
              /\ \A c \in bars \ {bar} : c.width = t.orders[o].width => t.orders[o].created <= c.start
  <2>1. CASE o \in DOMAIN s.orders
    <3>1. /\ t.orders[o].created = s.orders[o].created
          /\ t.orders[o].width = s.orders[o].width
          /\ t.orders[o].togo = s.orders[o].togo
      BY <1>6, <1>13, <2>1 DEF Grows, SameOrders
    <3>2. n < s.orders[o].togo
      BY <1>1, <1>15, <2>1, <3>1 DEF Waiting, n
    <3>3. s.orders[o].togo \in Nat
      <4>1. s.orders[o] \in OrderOf(W)
        BY <1>1, <2>1 DEF Sound, SimOf
      <4> QED BY <4>1 DEF OrderOf
    <3>4. \A c \in bars : c.width = s.orders[o].width => s.orders[o].created <= c.start
      BY <1>1, <1>15, <2>1, <3>1 DEF Waiting
    <3> QED BY <1>4, <3>1, <3>2, <3>3, <3>4
  <2>2. CASE o \notin DOMAIN s.orders
    <3>1. o \in DOMAIN t.orders \ DOMAIN u.orders
      BY <1>6, <2>2 DEF SameOrders
    <3>2. t.orders[o].created = end /\ t.orders[o].width = bar.width /\ t.orders[o].togo = n
      BY <1>5, <1>6, <1>13, <1>15, <3>1 DEF Grows
    <3> QED BY <1>4, <1>14, <3>2
  <2> QED BY <2>1, <2>2
<1>16. Waiting(t, bars \ {bar})
  <2>1. t.clock = end
    BY <1>6, <1>13 DEF Grows
  <2> QED BY <1>4, <1>14, <1>15, <2>1 DEF Waiting
<1> QED BY <1>1, <1>12, <1>16 DEF Replayed, W

\* The end of a replay closes what is left of the position.
LEMMA EndReplayed ==
  ASSUME NEW j \in Job, NEW s, Replayed(s, {}, Request[j]),
         NEW b, b = [width |-> 0, togo |-> 0],
         NEW t, t = s \/ t = Liquidated(s, b)
  PROVE  Replayed(t, {}, Request[j])
<1>1. CASE t = s
  BY <1>1
<1>2. CASE t = Liquidated(s, b)
  <2>1. b.width = 0 /\ b.togo = 0 /\ 0 \in Nat
    OBVIOUS
  <2>2. /\ Sound(t, Request[j].widths) /\ Spent(t) /\ Grows(s, t, b)
    BY <1>2, <2>1, LiquidatedIsSound DEF Replayed
  <2>3. Waiting(t, {})
    <3>1. ASSUME NEW o \in DOMAIN t.orders, t.orders[o].width # 0
          PROVE  Cardinality({}) < t.orders[o].togo
      <4>1. o \in DOMAIN s.orders
        BY <2>1, <2>2, <3>1 DEF Grows
      <4> QED BY <2>2, <3>1, <4>1 DEF Replayed, Waiting, Grows
    <3> QED BY <3>1 DEF Waiting
  <2> QED BY <2>2, <2>3 DEF Replayed
<1> QED BY <1>1, <1>2
-----------------------------------------------------------------------------
(* The inductive invariant of the jobs.                                    *)

Status == {"none", "queued", "running", "done", "failed"}

JobsTyped ==
  /\ process \in {"down", "up", "stopping"}
  /\ row \in [Job -> Status] /\ replays \in [Job -> Nat] /\ saved \subseteq Job
  /\ queue \in Seq(Job) /\ IsFiniteSet({j \in Job : row[j] # "none"})

\* The worker has a job whose row runs and, once it waits, the thread that replays it;
\* there is no other thread while the jobs are served.
WorkerOwns ==
  /\ \/ worker = NoJob /\ (process = "up" => thread = NoThread)
     \/ /\ process = "up" /\ worker.job \in Job /\ row[worker.job] = "running"
        /\ \/ /\ worker = [at |-> "loading", job |-> worker.job]
              /\ thread = NoThread /\ replays[worker.job] = 0
           \/ /\ worker = [at |-> "waiting", job |-> worker.job]
              /\ thread # NoThread /\ thread.job = worker.job
  /\ process = "down" => thread = NoThread

\* What waits was never replayed, nothing was twice, and what is done is on disk.
RowsTell ==
  \A j \in Job : /\ row[j] \in {"none", "queued"} => replays[j] = 0
                 /\ replays[j] <= 1
                 /\ row[j] = "done" => j \in saved

\* The thread replays a job's bars; it returns after it saved.
ThreadReplays ==
  thread # NoThread =>
    /\ thread = [at |-> thread.at, job |-> thread.job, bars |-> thread.bars, known |-> thread.known]
    /\ thread.at \in Busy \cup Ended /\ thread.job \in Job
    /\ thread.at = "returned" => thread.job \in saved
    /\ Replayed(sim, thread.bars, Request[thread.job])

BTInv == JobsTyped /\ WorkerOwns /\ RowsTell /\ ThreadReplays

\* What a replayed account depends on did not change.
LEMMA SameReplay ==
  ASSUME ThreadReplays, thread' = thread, sim' = sim, saved \subseteq saved'
  PROVE  ThreadReplays'
  BY DEF ThreadReplays, Replayed, Sound, SimOf, OrderOf, Balanced, Gains, Gain, Explained,
         MayFill, Spent, Waiting, Window, NoThread, Busy, Ended

\* Initially no job was submitted.
LEMMA InitBTInv == BTInit => BTInv
<1> SUFFICES ASSUME BTInit PROVE BTInv
  OBVIOUS
<1> USE DEF BTInit
<1>1. {j \in Job : row[j] # "none"} = {}
  OBVIOUS
<1>2. JobsTyped
  BY <1>1, FS_EmptySet DEF JobsTyped, Status
<1>3. WorkerOwns /\ RowsTell /\ ThreadReplays
  BY DEF WorkerOwns, RowsTell, ThreadReplays
<1> QED BY <1>2, <1>3 DEF BTInv

\* A job is submitted: its row waits, and it is in the queue.
LEMMA SubmitKeeps ==
  ASSUME BTInv, NEW j \in Job, Submit(j)
  PROVE  BTInv'
<1> USE DEF BTInv, Submit
<1>1. JobsTyped'
  <2>1. {i \in Job : row'[i] # "none"} \subseteq {i \in Job : row[i] # "none"} \cup {j}
    BY DEF JobsTyped
  <2>2. IsFiniteSet({i \in Job : row[i] # "none"} \cup {j})
    BY FS_AddElement DEF JobsTyped
  <2>3. IsFiniteSet({i \in Job : row'[i] # "none"})
    BY <2>1, <2>2, FS_Subset
  <2>4. row' \in [Job -> Status] /\ queue' \in Seq(Job)
    BY DEF JobsTyped, Status
  <2> QED BY <2>3, <2>4 DEF JobsTyped
<1>2. WorkerOwns'
  BY DEF WorkerOwns, JobsTyped
<1>3. RowsTell'
  BY DEF RowsTell, JobsTyped
<1>4. ThreadReplays'
  BY SameReplay
<1> QED BY <1>1, <1>2, <1>3, <1>4

\* The process starts again: what ran is failed, what waited is in the queue.
LEMMA BootKeeps ==
  ASSUME BTInv, Boot
  PROVE  BTInv'
<1> USE DEF BTInv, Boot
<1>1. JobsTyped'
  <2>1. {i \in Job : row'[i] # "none"} = {i \in Job : row[i] # "none"}
    BY DEF JobsTyped
  <2>2. row' \in [Job -> Status]
    BY DEF JobsTyped, Status
  <2>3. queue' \in Seq(Job)
    <3> DEFINE S == Requeued
               n == Cardinality(S)
    <3>1. S \subseteq {i \in Job : row[i] # "none"}
      BY DEF Requeued
    <3>2. n \in Nat
      BY <3>1, FS_Subset, FS_CardinalityType DEF JobsTyped
    <3>3. queue' \in [1..n -> S]
      BY DEF SetToSeqs
    <3>4. S \subseteq Job
      BY DEF Requeued
    <3> HIDE DEF S, n
    <3> QED BY <3>2, <3>3, <3>4
  <2> QED BY <2>1, <2>2, <2>3 DEF JobsTyped
<1>2. WorkerOwns'
  BY DEF WorkerOwns
<1>3. RowsTell'
  BY DEF RowsTell, JobsTyped
<1>4. ThreadReplays'
  BY SameReplay
<1> QED BY <1>1, <1>2, <1>3, <1>4

\* The worker takes the next job: one that does not wait is dropped.
LEMMA TakeKeeps ==
  ASSUME BTInv, Take
  PROVE  BTInv'
<1> USE DEF BTInv
<1> DEFINE j == Head(queue)
<1>1. /\ process = "up" /\ worker = NoJob /\ queue # <<>>
      /\ row' = [row EXCEPT ![j] = IF @ = "queued" THEN "running" ELSE @]
      /\ worker' = (IF row[j] = "queued" THEN [at |-> "loading", job |-> j] ELSE NoJob)
      /\ queue' = Tail(queue)
      /\ UNCHANGED <<process, saved, thread, sim, replays, restarts>>
  BY Zenon DEF Take
<1>2. j \in Job /\ queue' \in Seq(Job)
  BY <1>1 DEF JobsTyped
<1>3. thread = NoThread
  BY <1>1 DEF WorkerOwns, NoJob
<1> HIDE DEF j
<1>4. JobsTyped'
  <2>1. {i \in Job : row'[i] # "none"} = {i \in Job : row[i] # "none"}
    BY <1>1, <1>2 DEF JobsTyped
  <2>2. row' \in [Job -> Status]
    BY <1>1, <1>2 DEF JobsTyped, Status
  <2> QED BY <1>1, <1>2, <2>1, <2>2 DEF JobsTyped
<1>5. WorkerOwns'
  <2>1. CASE row[j] = "queued"
    <3>1. worker' = [at |-> "loading", job |-> j] /\ row'[j] = "running" /\ replays'[j] = 0
      BY <1>1, <1>2, <2>1 DEF JobsTyped, RowsTell
    <3> QED BY <1>1, <1>2, <1>3, <3>1 DEF WorkerOwns
  <2>2. CASE row[j] # "queued"
    BY <1>1, <1>3, <2>2 DEF WorkerOwns
  <2> QED BY <2>1, <2>2
<1>6. RowsTell'
  BY <1>1, <1>2 DEF RowsTell, JobsTyped
<1>7. ThreadReplays'
  BY <1>1, SameReplay
<1> QED BY <1>4, <1>5, <1>6, <1>7

\* The thread of a job starts, with all its bars to come.
LEMMA StartReplayKeeps ==
  ASSUME BTInv, StartReplay
  PROVE  BTInv'
<1> USE DEF BTInv
<1> DEFINE j == worker.job
<1>1. /\ j \in Job /\ process = "up" /\ row[j] = "running" /\ replays[j] = 0
      /\ worker = [at |-> "loading", job |-> j]
  BY DEF StartReplay, WorkerOwns, NoJob
<1>2. /\ worker' = [worker EXCEPT !.at = "waiting"] /\ thread' = Replay(j)
      /\ sim' = Fresh(Request[j]) /\ replays' = [replays EXCEPT ![j] = @ + 1]
      /\ UNCHANGED <<process, row, saved, queue, restarts>>
  BY DEF StartReplay
<1>3. worker' = [at |-> "waiting", job |-> j]
  BY <1>1, <1>2
<1>4. /\ thread' = [at |-> "running", job |-> j, bars |-> Window(Request[j]),
                    known |-> Primed(Request[j])]
      /\ thread' # NoThread
  BY <1>2 DEF Replay, NoThread
<1> HIDE DEF j
<1>5. JobsTyped'
  BY <1>1, <1>2 DEF JobsTyped
<1>6. WorkerOwns'
  <2>1. worker'.job = j /\ thread'.job = j
    BY <1>3, <1>4
  <2>2. worker' = [at |-> "waiting", job |-> worker'.job]
    BY <1>3, <2>1
  <2> QED BY <1>1, <1>2, <1>4, <2>1, <2>2 DEF WorkerOwns
<1>7. RowsTell'
  BY <1>1, <1>2 DEF RowsTell, JobsTyped
<1>8. ThreadReplays'
  <2>1. Replayed(sim', Window(Request[j]), Request[j])
    BY <1>1, <1>2, FreshReplayed
  <2>2. /\ thread'.at = "running" /\ thread'.job = j /\ thread'.bars = Window(Request[j])
        /\ thread' = [at |-> thread'.at, job |-> thread'.job, bars |-> thread'.bars,
                      known |-> thread'.known]
    BY <1>4
  <2> QED BY <1>1, <2>1, <2>2 DEF ThreadReplays, Busy
<1> QED BY <1>5, <1>6, <1>7, <1>8

\* The row gets the outcome: done after a thread that returned.
LEMMA RecordKeeps ==
  ASSUME BTInv, Record
  PROVE  BTInv'
<1> USE DEF BTInv
<1> DEFINE j == worker.job
           end == IF thread.at = "returned" THEN "done" ELSE "failed"
<1>1. /\ j \in Job /\ process = "up" /\ row[j] = "running"
      /\ thread.at = "returned" => j \in saved
  <2>1. worker # NoJob
    BY DEF Record, NoJob
  <2>2. NoThread.at # "returned"
    BY DEF NoThread
  <2> QED BY <2>1, <2>2 DEF WorkerOwns, ThreadReplays
<1>2. /\ row' = [row EXCEPT ![j] = end] /\ worker' = NoJob /\ thread' = NoThread
      /\ UNCHANGED <<process, saved, queue, replays, restarts>>
  BY DEF Record
<1>3. end \in Status /\ end \notin {"none", "queued"} /\ (end = "done" => j \in saved)
  BY <1>1 DEF Status
<1> HIDE DEF j, end
<1>4. JobsTyped'
  <2>1. {i \in Job : row'[i] # "none"} = {i \in Job : row[i] # "none"}
    BY <1>1, <1>2, <1>3 DEF JobsTyped
  <2> QED BY <1>1, <1>2, <1>3, <2>1 DEF JobsTyped
<1>5. WorkerOwns'
  BY <1>2 DEF WorkerOwns
<1>6. RowsTell'
  BY <1>1, <1>2, <1>3 DEF RowsTell, JobsTyped
<1>7. ThreadReplays'
  BY <1>2 DEF ThreadReplays
<1> QED BY <1>4, <1>5, <1>6, <1>7

\* The process stops, or is gone.
LEMMA StopKeeps ==
  ASSUME BTInv, StopJobs \/ Exit \/ Crash
  PROVE  BTInv'
<1> USE DEF BTInv
<1>1. CASE StopJobs
  <2> USE <1>1 DEF StopJobs
  <2>1. JobsTyped' /\ RowsTell'
    BY DEF JobsTyped, RowsTell
  <2>2. WorkerOwns'
    BY DEF WorkerOwns
  <2>3. ThreadReplays'
    BY SameReplay
  <2> QED BY <2>1, <2>2, <2>3
<1>2. CASE Exit \/ Crash
  <2>1. Gone
    BY <1>2 DEF Exit, Crash
  <2> USE <2>1 DEF Gone
  <2>2. JobsTyped' /\ RowsTell'
    BY DEF JobsTyped, RowsTell
  <2>3. WorkerOwns' /\ ThreadReplays'
    BY DEF WorkerOwns, ThreadReplays
  <2> QED BY <2>2, <2>3
<1> QED BY <1>1, <1>2

\* The thread goes on with its job: the jobs see its end only.
LEMMA ThreadKeepsJobs ==
  ASSUME BTInv, thread # NoThread, thread' # NoThread, thread'.job = thread.job,
         UNCHANGED <<process, row, queue, worker, replays>>,
         saved \subseteq saved', saved' \subseteq Job
  PROVE  JobsTyped' /\ WorkerOwns' /\ RowsTell'
<1> USE DEF BTInv
<1>1. JobsTyped' /\ RowsTell'
  BY DEF JobsTyped, RowsTell
<1>2. WorkerOwns'
  BY DEF WorkerOwns
<1> QED BY <1>1, <1>2

\* A bar is replayed.
LEMMA StepKeeps ==
  ASSUME BTInv, Step
  PROVE  BTInv'
<1> USE DEF BTInv
<1> DEFINE j == thread.job
           r == Request[j]
<1>1. thread # NoThread /\ thread.at = "running"
  BY DEF Step, NoThread
<1>2. /\ thread = [at |-> thread.at, job |-> j, bars |-> thread.bars, known |-> thread.known]
      /\ j \in Job /\ Replayed(sim, thread.bars, r)
  BY <1>1 DEF ThreadReplays
<1>3. PICK bar \in Soonest(thread.bars) :
        LET b == Coming(bar, Cardinality(thread.bars))
            s == Advanced(sim, BarEnd(b))
        IN /\ thread' = [thread EXCEPT !.bars = @ \ {bar}, !.known[bar.width] = @ + 1]
           /\ \E takes \in [DOMAIN s.orders -> UNION {0 .. q : q \in Sizes}] :
                /\ \A o \in DOMAIN s.orders : takes[o] <= s.orders[o].left
                /\ LET met == OnBar(s, b, takes)
                   IN \E decided \in {met} \cup
                           {Placed(met, b, d[1], d[2]) : d \in
                              {d \in {1, -1} \X Sizes : /\ Len(met.orders) < MaxOrders
                                                        /\ thread'.known[b.width] >= Lookback
                                                        /\ Accepts(met, r, d[1], d[2])}} :
                      \E ends \in SUBSET Working(decided) :
                         sim' = SquaredOff(Cancelled(decided, ends), b, r)
  BY Zenon DEF Step
<1> DEFINE b == Coming(bar, Cardinality(thread.bars))
           s == Advanced(sim, BarEnd(b))
<1>4. PICK takes \in [DOMAIN s.orders -> UNION {0 .. q : q \in Sizes}] :
        /\ \A o \in DOMAIN s.orders : takes[o] <= s.orders[o].left
        /\ LET met == OnBar(s, b, takes)
           IN \E decided \in {met} \cup
                   {Placed(met, b, d[1], d[2]) : d \in
                      {d \in {1, -1} \X Sizes : /\ Len(met.orders) < MaxOrders
                                                /\ thread'.known[b.width] >= Lookback
                                                /\ Accepts(met, r, d[1], d[2])}} :
              \E ends \in SUBSET Working(decided) :
                 sim' = SquaredOff(Cancelled(decided, ends), b, r)
  BY <1>3, Zenon
<1> DEFINE met == OnBar(s, b, takes)
<1>5. PICK decided \in {met} \cup
              {Placed(met, b, d[1], d[2]) : d \in
                 {d \in {1, -1} \X Sizes : /\ Len(met.orders) < MaxOrders
                                           /\ thread'.known[b.width] >= Lookback
                                           /\ Accepts(met, r, d[1], d[2])}} :
        \E ends \in SUBSET Working(decided) :
          sim' = SquaredOff(Cancelled(decided, ends), b, r)
  BY <1>4, Zenon
<1>6. PICK ends : sim' = SquaredOff(Cancelled(decided, ends), b, r)
  BY <1>5
<1>7. takes \in [DOMAIN s.orders -> Nat]
  <2>1. UNION {0 .. q : q \in Sizes} \subseteq Nat
    BY BacktestAssumption
  <2> HIDE DEF s
  <2> QED BY <2>1
<1>8. PICK side \in {1, -1}, q \in Nat : decided = met \/ decided = Placed(met, b, side, q)
  <2> HIDE DEF met, b, r
  <2>1. CASE decided = met
    BY <2>1
  <2>2. CASE decided # met
    <3>1. PICK d \in {1, -1} \X Sizes : decided = Placed(met, b, d[1], d[2])
      BY <1>5, <2>2
    <3>2. d[1] \in {1, -1} /\ d[2] \in Nat
      BY BacktestAssumption
    <3> QED BY <3>1, <3>2
  <2> QED BY <2>1, <2>2
<1>9. Replayed(sim', thread.bars \ {bar}, r)
  <2>1. /\ b = Coming(bar, Cardinality(thread.bars)) /\ s = Advanced(sim, BarEnd(b))
        /\ \A o \in DOMAIN s.orders : takes[o] <= s.orders[o].left
        /\ \/ decided = OnBar(s, b, takes)
           \/ decided = Placed(OnBar(s, b, takes), b, side, q)
    BY <1>4, <1>8
  <2> DEFINE bars == thread.bars
             now == sim
             t == sim'
  <2>2. /\ j \in Job /\ r = Request[j] /\ Replayed(now, bars, Request[j]) /\ bar \in Soonest(bars)
        /\ b = Coming(bar, Cardinality(bars)) /\ s = Advanced(now, BarEnd(b))
        /\ takes \in [DOMAIN s.orders -> Nat]
        /\ t = SquaredOff(Cancelled(decided, ends), b, Request[j])
    BY <1>2, <1>6, <1>7
  <2> HIDE DEF b, s, r, j, met, bars, now, t
  <2>3. Replayed(t, bars \ {bar}, Request[j])
    BY <2>1, <2>2, StepReplayed, ZenonT(60)
  <2> QED BY <2>2, <2>3 DEF t, bars
<1>10. /\ thread'.at = thread.at /\ thread'.job = j /\ thread'.bars = thread.bars \ {bar}
       /\ thread' = [at |-> thread'.at, job |-> thread'.job, bars |-> thread'.bars,
                     known |-> thread'.known]
  <2> DEFINE known == [thread.known EXCEPT ![bar.width] = @ + 1]
             bars == thread.bars \ {bar}
  <2>1. thread' = [thread EXCEPT !.bars = bars, !.known = known]
    BY <1>2, <1>3
  <2> DEFINE at == thread.at
             was == thread.bars
             knew == thread.known
  <2>2. thread = [at |-> at, job |-> j, bars |-> was, known |-> knew]
    BY <1>2
  <2> HIDE DEF known, bars, r, j, at, was, knew
  <2>3. thread' = [at |-> at, job |-> j, bars |-> bars, known |-> known]
    BY <2>1, <2>2
  <2> QED BY <2>3 DEF bars, at
<1>11. thread' # NoThread
  BY <1>1, <1>10 DEF NoThread
<1>12. UNCHANGED <<process, row, saved, queue, worker, replays>> /\ saved \subseteq Job
  BY DEF Step, JobsTyped
<1> HIDE DEF r
<1>13. ThreadReplays'
  BY <1>1, <1>2, <1>9, <1>10 DEF ThreadReplays, Busy, r
<1>14. JobsTyped' /\ WorkerOwns' /\ RowsTell'
  BY <1>1, <1>10, <1>11, <1>12, ThreadKeepsJobs
<1> QED BY <1>13, <1>14

\* The replay ends, is saved, or fails.
LEMMA EndKeeps ==
  ASSUME BTInv, Finish \/ Save \/ Fail
  PROVE  BTInv'
<1> USE DEF BTInv
<1> DEFINE j == thread.job
           r == Request[j]
<1>1. thread # NoThread
  BY DEF Finish, Save, Fail, NoThread, Busy
<1>2. /\ thread = [at |-> thread.at, job |-> j, bars |-> thread.bars, known |-> thread.known]
      /\ j \in Job /\ Replayed(sim, thread.bars, r)
  BY <1>1 DEF ThreadReplays
<1>3. PICK at \in {"saving", "returned", "failed"} :
        /\ thread' = [thread EXCEPT !.at = at]
        /\ at = "returned" => j \in saved'
  BY DEF Finish, Save, Fail
<1>4. saved \subseteq saved' /\ saved' \subseteq Job
  BY <1>2 DEF Finish, Save, Fail, JobsTyped
<1>5. Replayed(sim', thread.bars, r)
  <2>1. CASE sim' = sim
    BY <1>2, <2>1
  <2>2. CASE sim' # sim
    <3>1. /\ thread.bars = {}
          /\ sim' = Liquidated(sim, [width |-> 0, togo |-> 0])
      BY <2>2 DEF Finish, Save, Fail
    <3>2. PICK b : b = [width |-> 0, togo |-> 0]
      OBVIOUS
    <3>3. sim' = Liquidated(sim, b) /\ Replayed(sim, {}, r)
      BY <1>2, <3>1, <3>2
    <3> QED BY <1>2, <3>1, <3>2, <3>3, EndReplayed
  <2> QED BY <2>1, <2>2
<1>6. UNCHANGED <<process, row, queue, worker, replays>>
  BY DEF Finish, Save, Fail
<1> HIDE DEF j, r
<1>7. thread' = [at |-> at, job |-> j, bars |-> thread.bars, known |-> thread.known]
  BY <1>2, <1>3
<1>8. /\ thread'.at = at /\ thread'.job = j /\ thread'.bars = thread.bars
      /\ thread' = [at |-> thread'.at, job |-> thread'.job, bars |-> thread'.bars,
                    known |-> thread'.known]
      /\ thread' # NoThread
  BY <1>7 DEF NoThread
<1>9. ThreadReplays'
  BY <1>2, <1>3, <1>5, <1>8 DEF ThreadReplays, Busy, Ended, r
<1>10. JobsTyped' /\ WorkerOwns' /\ RowsTell'
  BY <1>1, <1>4, <1>6, <1>8, ThreadKeepsJobs DEF j
<1> QED BY <1>9, <1>10

\* Every step keeps the invariant.
LEMMA NextBTInv == BTInv /\ [BTNext]_btvars => BTInv'
<1> SUFFICES ASSUME BTInv, [BTNext]_btvars PROVE BTInv'
  OBVIOUS
<1>1. CASE UNCHANGED btvars
  <2>1. ThreadReplays'
    BY <1>1, SameReplay DEF BTInv, btvars
  <2>2. JobsTyped' /\ WorkerOwns' /\ RowsTell'
    BY <1>1 DEF BTInv, btvars, JobsTyped, WorkerOwns, RowsTell
  <2> QED BY <2>1, <2>2 DEF BTInv
<1>2. ASSUME NEW j \in Job, Submit(j) PROVE BTInv'
  BY <1>2, SubmitKeeps
<1>3. CASE WorkerStep
  BY <1>3, TakeKeeps, StartReplayKeeps, RecordKeeps DEF WorkerStep
<1>4. CASE ThreadStep
  BY <1>4, StepKeeps, EndKeeps DEF ThreadStep
<1>5. CASE Boot \/ StopJobs \/ Exit \/ Crash
  BY <1>5, BootKeeps, StopKeeps
<1> QED BY <1>1, <1>2, <1>3, <1>4, <1>5 DEF BTNext

LEMMA AlwaysBTInv == BTSpec => []BTInv
  BY InitBTInv, NextBTInv, PTL DEF BTSpec

\* Whatever stops and crashes come between, no job is replayed twice, and one that is done
\* has its result on disk (BacktestJobs.start, run_job, BacktestResult.save).
THEOREM JobsRunOnce == BTSpec => []JobsOnce
<1>1. BTInv => JobsOnce
  BY DEF BTInv, RowsTell, JobsOnce
<1> QED BY <1>1, AlwaysBTInv, PTL

\* An order decided on a bar is filled by a later one, and at a price older than itself
\* only by a bar of another interval (BacktestRunner.order_by_completion, SimBroker).
THEOREM PeeksAreExplained == BTSpec => []PeeksExplained
<1>1. BTInv => PeeksExplained
  <2> SUFFICES ASSUME BTInv, NEW f \in Fills
               PROVE  \/ sim.orders[f.order].width = 0
                      \/ /\ f.togo < sim.orders[f.order].togo
                         /\ f.ts < Created(f) => f.width # sim.orders[f.order].width
    BY DEF PeeksExplained
  <2>1. thread # NoThread /\ \E i \in DOMAIN sim.fills : f = sim.fills[i]
    BY DEF Fills
  <2>2. Explained(sim, Request[thread.job].widths)
    BY <2>1 DEF BTInv, ThreadReplays, Replayed, Sound
  <2> QED BY <2>1, <2>2 DEF Explained, MayFill, Created
<1> QED BY <1>1, AlwaysBTInv, PTL

\* Where every job has one interval, nothing is filled at a price older than its order:
\* the look-ahead is one of several intervals only.
THEOREM OneIntervalNeverPeeks ==
  ASSUME \A j \in Job : \A v, w \in Request[j].widths : v = w
  PROVE  BTSpec => []NoLookAhead
<1>1. BTInv => NoLookAhead
  <2> SUFFICES ASSUME BTInv, NEW f \in Fills PROVE f.ts >= Created(f)
    BY DEF NoLookAhead
  <2> DEFINE W == Request[thread.job].widths
             o == sim.orders[f.order]
  <2>1. thread # NoThread /\ \E i \in DOMAIN sim.fills : f = sim.fills[i]
    BY DEF Fills
  <2>2. thread.job \in Job /\ Sound(sim, W)
    BY <2>1 DEF BTInv, ThreadReplays, Replayed
  <2>3. f \in FillRec /\ f.order \in DOMAIN sim.orders /\ MayFill(W, o, f.ts, f.width, f.togo)
    BY <2>1, <2>2 DEF Sound, SimOf, Explained
  <2>4. o \in OrderOf(W)
    BY <2>2, <2>3 DEF Sound, SimOf
  <2>5. f.ts \in Nat /\ o.created \in Nat /\ o.width \in {0} \cup W
    BY <2>3, <2>4 DEF FillRec, OrderOf
  <2>6. o.width # 0 => f.width = o.width
    BY <2>2, <2>3, <2>5 DEF MayFill
  <2> QED BY <2>3, <2>5, <2>6 DEF MayFill, Created
<1> QED BY <1>1, AlwaysBTInv, PTL

\* The clock of a replay never refuses the next bar: no bar that is to come ends before
\* the time the replay has reached (order_by_completion, SimClock.set).
ClockGoesOn == thread # NoThread => \A b \in thread.bars : MayAdvance(sim, BarEnd(b))

THEOREM ClockAlwaysGoesOn == BTSpec => []ClockGoesOn
<1>1. BTInv => ClockGoesOn
  <2> SUFFICES ASSUME BTInv, thread # NoThread, NEW b \in thread.bars
               PROVE  MayAdvance(sim, BarEnd(b))
    BY DEF ClockGoesOn
  <2>1. /\ Sound(sim, Request[thread.job].widths) /\ Waiting(sim, thread.bars)
        /\ thread.bars \subseteq Window(Request[thread.job]) /\ thread.job \in Job
    BY DEF BTInv, ThreadReplays, Replayed
  <2>2. sim.clock <= BarEnd(b) /\ sim.clock \in Nat
    BY <2>1 DEF Waiting, Sound, SimOf
  <2>3. BarEnd(b) \in Nat
    BY <2>1, WindowBars, BarEnds
  <2> QED BY <2>2, <2>3 DEF MayAdvance
<1> QED BY <1>1, AlwaysBTInv, PTL

\* The round trips match_trades makes of a run's fills, open lots at the last price, add
\* up to what the broker's cash and position gained, after every bar.
THEOREM TradesAlwaysAddUp == BTSpec => []TradesAddUp
<1>1. BTInv => TradesAddUp
  <2> SUFFICES ASSUME BTInv, thread # NoThread
               PROVE  SumFunction([i \in DOMAIN Result(sim).trades |-> NetPnL(Result(sim).trades[i])])
                        = Result(sim).equity - Cash
    BY DEF TradesAddUp
  <2>1. Sound(sim, Request[thread.job].widths)
    BY DEF BTInv, ThreadReplays, Replayed
  <2>2. Result(sim).trades = MatchTrades(sim) /\ Result(sim).equity = Equity(sim)
    BY DEF Result
  <2>3. SumFunction(PnLs(MatchTrades(sim))) = Equity(sim) - Cash
    BY <2>1, ResultAddsUp
  <2> QED BY <2>2, <2>3 DEF PnLs
<1> QED BY <1>1, AlwaysBTInv, PTL
=============================================================================
