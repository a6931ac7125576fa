--------------------------- MODULE EngineManager ---------------------------
(***************************************************************************)
(* The engine manager (trading/api/engines.py) with the kill switch        *)
(* (trading/api/events.py): starting, stopping, killing, resuming,         *)
(* flattening and resetting the engines of all users, as requests that     *)
(* interleave wherever the code awaits.                                    *)
(*                                                                         *)
(* The paper broker never suspends, so a paper engine starts, is halted    *)
(* and is flattened without interruption; a Dhan broker suspends its       *)
(* caller.  A start that waits for the lock has done nothing yet and is    *)
(* not followed until it holds it.  The switch is a file: it outlives the  *)
(* process.  shutdown() is a Stop of every engine before a Restart.        *)
(***************************************************************************)
EXTENDS Integers, FiniteSets

CONSTANTS
  Users, Admins,
  Engine,        \* bound: engines that hold a broker at a time
  Starts,        \* bound: calls of start past the lock's acquisition
  Kills,         \* bound: calls of kill under way
  NoEngine,
  Restarts       \* the process may stop and come up again

ASSUME ManagerAssumption ==
  /\ Users # {} /\ Admins \subseteq Users
  /\ NoEngine \notin Engine
  /\ Restarts \in BOOLEAN

Mode == {"paper", "live"}
Key == Users \X Mode
Live(k) == k[2] = "live"

VARIABLES
  engaged,   \* the kill switch file
  handles,   \* _handles: the registered engine of each (user, mode)
  engines,   \* what each engine is doing
  exits,     \* registered engines with an exit order of flatten at work
  starts,    \* calls of start: [pc, key, engine]
  kills,     \* calls of kill: [todo, at], the rest of running() and who is awaited
  flatten    \* the engine a call of flatten is waiting for
vars == <<engaged, handles, engines, exits, starts, kills, flatten>>

Registered(e) == \E k \in Key : handles[k] = e

Idle == [pc |-> "idle", key |-> CHOOSE k \in Key : TRUE, engine |-> NoEngine]
NotKilling == [todo |-> {}, at |-> NoEngine]

\* An engine slot nobody holds.
Blank ==
  [key |-> CHOOSE k \in Key : TRUE,
   open |-> FALSE,       \* its broker session
   wired |-> FALSE,      \* its agents are subscribed
   task |-> FALSE,       \* it has started: handle.task (run_live, which may die) and
                         \* the loops, which go on
   halted |-> FALSE,     \* execution.halted
   killed |-> FALSE,     \* risk.killed
   missed |-> FALSE,     \* it was registered under a pulled switch, by no later kill found
   stale |-> FALSE,      \* its account was wiped after its broker loaded it (not
                         \* recorded of an engine that is being torn down)
   closing |-> "no"]     \* what stop's _teardown is awaiting

\* What is left of an engine when its broker is closed can place no order: nothing
\* of it is followed but a teardown not yet over.
Closed(state) == [Blank EXCEPT !.closing = state.closing]

\* Engines without a broker that no request and no table refers to.
Free ==
  {e \in Engine :
    /\ ~engines[e].open /\ ~Registered(e) /\ engines[e].closing = "no"
    /\ \A s \in Starts : starts[s].engine # e
    /\ \A x \in Kills : e \notin kills[x].todo \cup {kills[x].at}
    /\ flatten # e}
-----------------------------------------------------------------------------
(* start().                                                                *)

StartUnlocked(s, k) ==                                           \* mutated form
  /\ starts[s].pc = "idle"
  /\ ~engaged
  /\ handles[k] = NoEngine
  /\ Live(k) => k[1] \in Admins
  /\ starts' = [starts EXCEPT ![s] = [Idle EXCEPT !.pc = "building", !.key = k]]
  /\ UNCHANGED <<engaged, handles, engines, exits, kills, flatten>>

\* Under the lock: the switch is read once, then the broker is awaited.
Start(s, k) ==
  /\ starts[s].pc = "idle"
  /\ \A t \in Starts : starts[t].pc # "building"
  /\ ~engaged
  /\ handles[k] = NoEngine
  /\ Live(k) => k[1] \in Admins
  /\ starts' = [starts EXCEPT ![s] = [Idle EXCEPT !.pc = "building", !.key = k]]
  /\ UNCHANGED <<engaged, handles, engines, exits, kills, flatten>>

\* The engine is registered and its agents subscribe; a live one then awaits the
\* reconciliation, a paper one is started at once.
Built(s) ==
  /\ starts[s].pc = "building"
  /\ Free # {}
  /\ LET e == CHOOSE x \in Free : TRUE
         k == starts[s].key
     IN /\ handles' = [handles EXCEPT ![k] = e]
        /\ engines' = [engines EXCEPT ![e] =
             [Blank EXCEPT !.key = k, !.open = TRUE, !.wired = TRUE, !.missed = engaged,
                           !.task = ~Live(k)]]
        /\ starts' = [starts EXCEPT ![s] =
             IF Live(k) THEN [pc |-> "syncing", key |-> k, engine |-> e] ELSE Idle]
  /\ UNCHANGED <<engaged, exits, kills, flatten>>

\* No broker, no instrument, no lot size: nothing is registered.
BuildFails(s) ==
  /\ starts[s].pc = "building"
  /\ starts' = [starts EXCEPT ![s] = Idle]
  /\ UNCHANGED <<engaged, handles, engines, exits, kills, flatten>>

\* The task is created, whatever became of the engine meanwhile.
Synced(s) ==
  /\ starts[s].pc = "syncing"
  /\ engines' = [engines EXCEPT ![starts[s].engine].task = TRUE]
  /\ starts' = [starts EXCEPT ![s] = Idle]
  /\ UNCHANGED <<engaged, handles, exits, kills, flatten>>

\* The engine is not started, so _teardown only awaits the closing of its broker.
SyncFails(s) ==
  /\ starts[s].pc = "syncing"
  /\ starts' = [starts EXCEPT ![s].pc = "failing"]
  /\ UNCHANGED <<engaged, handles, engines, exits, kills, flatten>>

StartFailedStays(s) ==                                           \* mutated form
  /\ starts[s].pc = "failing"
  /\ engines' = [engines EXCEPT ![starts[s].engine] = Closed(@)]
  /\ starts' = [starts EXCEPT ![s] = Idle]
  /\ UNCHANGED <<engaged, handles, exits, kills, flatten>>

\* Whichever engine is registered by now is removed.
StartFailed(s) ==
  /\ starts[s].pc = "failing"
  /\ engines' = [engines EXCEPT ![starts[s].engine] = Closed(@)]
  /\ handles' = [handles EXCEPT ![starts[s].key] = NoEngine]
  /\ exits' = exits \ {handles[starts[s].key]}
  /\ starts' = [starts EXCEPT ![s] = Idle]
  /\ UNCHANGED <<engaged, kills, flatten>>
-----------------------------------------------------------------------------
(* stop() and _teardown().                                                 *)

\* The handle goes first.  An engine that has not started has no task to cancel
\* and engine.stop() does nothing.
Stop(k) ==
  LET e == handles[k]
  IN /\ e # NoEngine
     /\ handles' = [handles EXCEPT ![k] = NoEngine]
     /\ engines' = [engines EXCEPT ![e].closing = IF engines[e].task THEN "loops" ELSE "broker"]
     /\ exits' = exits \ {e}
     /\ UNCHANGED <<engaged, starts, kills, flatten>>

\* Agent.stop, of every agent: its tasks end and its subscriptions are cancelled;
\* the broker is closed next.
Unwired(state) == [state EXCEPT !.task = FALSE, !.wired = FALSE, !.closing = "broker"]

\* Until here run_live and then the loops are being cancelled, and go on meanwhile.
CloseLoops(e) ==
  /\ engines[e].closing = "loops"
  /\ engines' = [engines EXCEPT ![e] = Unwired(@)]
  /\ UNCHANGED <<engaged, handles, exits, starts, kills, flatten>>

CloseBroker(e) ==
  /\ engines[e].closing = "broker"
  /\ engines' = [engines EXCEPT ![e] = Closed([@ EXCEPT !.closing = "no"])]
  /\ UNCHANGED <<engaged, handles, exits, starts, kills, flatten>>
-----------------------------------------------------------------------------
(* kill(), resume(), flatten() and reset_paper().                          *)

SweepRiskOnly(x, before, todo) ==                                \* mutated form
  /\ engines' = [e \in Engine |->
       [engines[e] EXCEPT !.killed = @ \/ (e \in todo \cup {before} /\ engines[e].wired),
                          !.missed = @ /\ e \notin todo]]
  /\ kills' = [kills EXCEPT ![x] = NotKilling]

\* The KILL commands call x publishes before it is suspended again: done has been
\* through execution and risk, next is halted and cancels at a live broker.  From
\* before, the engine awaited so far, only risk had not heard.
Sweep(x, before, todo) ==
  \E done \in SUBSET todo :
    \E next \in {e \in todo \ done : Live(engines[e].key)} \cup {NoEngine} :
      /\ next = NoEngine => done = todo
      /\ engines' = [e \in Engine |->
           [engines[e] EXCEPT
              !.halted = @ \/ (e \in done \cup {next} /\ engines[e].wired),
              !.killed = @ \/ (e \in done \cup {before} /\ engines[e].wired),
              !.missed = @ /\ e \notin todo]]
      /\ kills' = [kills EXCEPT ![x] = [todo |-> todo \ (done \cup {next}), at |-> next]]

Kill(x) ==
  /\ kills[x] = NotKilling
  /\ engaged' = TRUE
  /\ Sweep(x, NoEngine, {e \in Engine : Registered(e)})
  /\ UNCHANGED <<handles, exits, starts, flatten>>

KillForgets(x) ==                                                \* mutated form
  /\ kills[x].at # NoEngine
  /\ Sweep(x, kills[x].at, {})
  /\ UNCHANGED <<engaged, handles, exits, starts, flatten>>

KillGoesOn(x) ==
  /\ kills[x].at # NoEngine
  /\ Sweep(x, kills[x].at, kills[x].todo)
  /\ UNCHANGED <<engaged, handles, exits, starts, flatten>>

ResumeUnreleased(u) ==                                           \* mutated form
  /\ u \in Admins
  /\ engines' = [e \in Engine |->
       IF Registered(e)
       THEN [engines[e] EXCEPT !.halted = @ /\ ~engines[e].wired,
                               !.killed = @ /\ ~engines[e].wired, !.missed = FALSE]
       ELSE engines[e]]
  /\ UNCHANGED <<engaged, handles, exits, starts, kills, flatten>>

\* Nothing in it suspends.
Resume(u) ==
  /\ u \in Admins
  /\ engaged' = FALSE
  /\ engines' = [e \in Engine |->
       IF Registered(e)
       THEN [engines[e] EXCEPT !.halted = @ /\ ~engines[e].wired,
                               !.killed = @ /\ ~engines[e].wired, !.missed = FALSE]
       ELSE engines[e]]
  /\ UNCHANGED <<handles, exits, starts, kills, flatten>>

SendExitsPastExecution(e) ==                                     \* mutated form
  exits' = IF Registered(e) /\ engines[e].wired /\ ~engines[e].killed
           THEN exits \cup {e} ELSE exits

\* The exit intents reach risk and execution if they are still subscribed, and
\* are acted on if neither was told to stop.
SendExits(e) ==
  exits' = IF Registered(e) /\ engines[e].wired /\ ~engines[e].killed /\ ~engines[e].halted
           THEN exits \cup {e} ELSE exits

\* A live engine first cancels what is working and asks for its positions.
Flatten(k) ==
  LET e == handles[k]
  IN /\ e # NoEngine
     /\ ~engaged
     /\ IF Live(k) THEN flatten = NoEngine /\ flatten' = e /\ exits' = exits \ {e}
                   ELSE SendExits(e) /\ UNCHANGED flatten
     /\ UNCHANGED <<engaged, handles, engines, starts, kills>>

FlattenGoesOn ==
  /\ flatten # NoEngine
  /\ SendExits(flatten)
  /\ flatten' = NoEngine
  /\ UNCHANGED <<engaged, handles, engines, starts, kills>>

\* The exit is filled, cancelled or refused by the broker.
ExitEnds(e) ==
  /\ e \in exits
  /\ exits' = exits \ {e}
  /\ UNCHANGED <<engaged, handles, engines, starts, kills, flatten>>

ResetUnderEngine(k) ==                                           \* mutated form
  /\ ~Live(k)
  /\ engines' = [e \in Engine |->
       [engines[e] EXCEPT !.stale =
          @ \/ (engines[e].open /\ engines[e].key = k /\ engines[e].closing = "no")]]
  /\ UNCHANGED <<engaged, handles, exits, starts, kills, flatten>>

\* Refused while an engine is registered for the account.
Reset(k) ==
  /\ ~Live(k)
  /\ handles[k] = NoEngine
  /\ engines' = [e \in Engine |->
       [engines[e] EXCEPT !.stale =
          @ \/ (engines[e].open /\ engines[e].key = k /\ engines[e].closing = "no")]]
  /\ UNCHANGED <<engaged, handles, exits, starts, kills, flatten>>

\* The process ends and comes up again.
Restart ==
  /\ Restarts
  /\ handles' = [k \in Key |-> NoEngine]
  /\ engines' = [e \in Engine |-> Blank]
  /\ exits' = {}
  /\ starts' = [s \in Starts |-> Idle]
  /\ kills' = [x \in Kills |-> NotKilling]
  /\ flatten' = NoEngine
  /\ UNCHANGED engaged
-----------------------------------------------------------------------------
Init ==
  /\ engaged \in BOOLEAN
  /\ handles = [k \in Key |-> NoEngine]
  /\ engines = [e \in Engine |-> Blank]
  /\ exits = {}
  /\ starts = [s \in Starts |-> Idle]
  /\ kills = [x \in Kills |-> NotKilling]
  /\ flatten = NoEngine

StartGoesOn(s) ==
  Built(s) \/ BuildFails(s) \/ Synced(s) \/ SyncFails(s) \/ StartFailed(s)
StopGoesOn(e) == CloseLoops(e) \/ CloseBroker(e)

Next ==
  \/ \E s \in Starts : (\E k \in Key : Start(s, k)) \/ StartGoesOn(s)
  \/ \E k \in Key : Stop(k) \/ Flatten(k) \/ Reset(k)
  \/ \E e \in Engine : StopGoesOn(e) \/ ExitEnds(e)
  \/ \E x \in Kills : Kill(x) \/ KillGoesOn(x)
  \/ \E u \in Users : Resume(u)
  \/ FlattenGoesOn
  \/ Restart

\* Every await of a request ends: by an answer, an error or a timeout.
Fairness ==
  /\ \A s \in Starts : WF_vars(StartGoesOn(s))
  /\ \A e \in Engine : WF_vars(StopGoesOn(e))
  /\ \A x \in Kills : WF_vars(KillGoesOn(x))
  /\ WF_vars(FlattenGoesOn)

Spec == Init /\ [][Next]_vars
FairSpec == Spec /\ Fairness
-----------------------------------------------------------------------------
(* Properties.                                                             *)

EngineState ==
  [key: Key, open: BOOLEAN, wired: BOOLEAN, task: BOOLEAN,
   halted: BOOLEAN, killed: BOOLEAN, missed: BOOLEAN, stale: BOOLEAN,
   closing: {"no", "loops", "broker"}]

\* Every variable has its type; a start that waits for its engine has one.
TypeOK ==
  /\ engaged \in BOOLEAN
  /\ handles \in [Key -> Engine \cup {NoEngine}]
  /\ engines \in [Engine -> EngineState]
  /\ exits \subseteq Engine
  /\ starts \in [Starts -> [pc: {"idle", "building"}, key: Key, engine: {NoEngine}]
                           \cup [pc: {"syncing", "failing"}, key: Key, engine: Engine]]
  /\ kills \in [Kills -> [todo: SUBSET Engine, at: Engine \cup {NoEngine}]]
  /\ flatten \in Engine \cup {NoEngine}

\* A kill has not heard back from e, or not called it yet.
Reaching(e) == \E x \in Kills : e \in kills[x].todo \cup {kills[x].at}

\* While the switch is pulled, every registered engine has been told to stop, by
\* execution and by risk, unless a kill is still on its way to it or it was
\* registered after the kill: kill() engages the switch before it looks at
\* running(), and a release undoes both.
KillReaches ==
  engaged => \A e \in Engine :
    Registered(e) /\ ~engines[e].missed /\ ~Reaching(e)
      => engines[e].halted /\ engines[e].killed

\* An engine that can trade: its agents listen and its broker is open.
AtWork(e) == engines[e].wired /\ engines[e].open

\* A paper engine that can trade is registered, where stop and kill find it, or is
\* being torn down, whatever other starts and stops failed or overlapped.
PaperOwned ==
  \A e \in Engine :
    AtWork(e) /\ ~Live(engines[e].key) /\ engines[e].closing = "no"
      => handles[engines[e].key] = e

\* No registered engine works from an account that was wiped behind its back: the
\* broker loads the rows and is registered with no await in between, and
\* reset_paper looks for it.
BookIsCurrent == \A k \in Key : handles[k] # NoEngine => ~engines[handles[k]].stale

\* What is registered is whole: its agents listen, its broker is open, and no
\* teardown is at it, so that status, kill and flatten speak to a live engine,
\* whatever a failing start and a stop did to the same entry.
HandlesServe ==
  \A k \in Key : handles[k] # NoEngine =>
    LET state == engines[handles[k]]
    IN state.key = k /\ state.wired /\ state.open /\ state.closing = "no"

\* An engine that was told to stop is let go by nothing but the release of the
\* switch, or the end of the process.
HaltHolds ==
  [][\A e \in Engine :
       engines[e].halted /\ engines[e].open /\ ~engines'[e].halted
         => ~engaged' \/ ~engines'[e].open]_vars

\* A flatten that was let in before the switch was pulled gets no order past an
\* engine the kill has come to.
ExitsObeyKill ==
  [][\A e \in exits' \ exits :
       engaged /\ Registered(e) /\ ~engines[e].missed
         => \E x \in Kills : e \in kills[x].todo]_vars

\* A kill comes to every engine that stays registered, however long the brokers
\* of the engines before it take.
KillLands ==
  \A e \in Engine :
    engaged /\ Registered(e) /\ ~engines[e].missed
      ~> engines[e].halted \/ ~Registered(e) \/ ~engaged

=============================================================================
