----------------------------- MODULE Lifecycle -----------------------------
(***************************************************************************)
(* Start and teardown of the database system (src/database/main.go):      *)
(* Initialize and Shutdown, called by any number of goroutines.            *)
(*                                                                         *)
(* Initialize claims the `initialized` flag with a compare-and-set, then   *)
(* ensures the databases directory and loads the registry, either of which *)
(* may fail, and finally starts the registry writer goroutine.            *)
(* Shutdown claims `shuttingDown` with a compare-and-set, closes           *)
(* shutdownSignal, and then shuts the live controllers down in map order  *)
(* (Go's map order is unspecified), returning at the first error.          *)
(* A goroutine whose Shutdown returned an error calls it again, as the     *)
(* spec (section 4.3) tells callers needing full cleanup to do.            *)
(***************************************************************************)
EXTENDS Naturals, FiniteSets

CONSTANTS
  Callers,      \* goroutines calling Initialize and Shutdown
  Controllers,  \* the live controllers (each owning one backend)
  MaxFailures   \* bound on failing Controller.Shutdown calls

VARIABLES
  initialized,  \* the abool `initialized`
  writers,      \* registryWriter goroutines started
  ini,          \* [Callers -> {"idle", "setup", "done"}]: Initialize's progress
  iniRes,       \* [Callers -> {"none", "ok", "err"}]: Initialize's last result
  shuttingDown, \* the abool `shuttingDown`
  closes,       \* close(shutdownSignal) calls made
  open,         \* controllers whose backend is not shut down
  failures,     \* Controller.Shutdown calls that failed
  sd,           \* [Callers -> {"idle", "close", "iterate", "done", "skipped"}]
  todo,         \* [Callers -> SUBSET Controllers]: not yet visited by the loop
  res           \* [Callers -> {"none", "nil", "err"}]: Shutdown's last result

vars == <<initialized, writers, ini, iniRes, shuttingDown, closes, open,
          failures, sd, todo, res>>

initVars == <<initialized, writers, ini, iniRes>>
sdVars == <<shuttingDown, closes, open, failures, sd, todo, res>>

Init ==
  /\ initialized = FALSE
  /\ writers = 0
  /\ ini = [p \in Callers |-> "idle"]
  /\ iniRes = [p \in Callers |-> "none"]
  /\ shuttingDown = FALSE
  /\ closes = 0
  /\ open = Controllers
  /\ failures = 0
  /\ sd = [p \in Callers |-> "idle"]
  /\ todo = [p \in Callers |-> {}]
  /\ res = [p \in Callers |-> "none"]

-----------------------------------------------------------------------------
(* Initialize *)

(* initialized.SetToIf(false, true); a caller that loses the race gets    *)
(* "database already initialized".  A caller retries after an error.      *)
InitializeCAS(p) ==
  /\ ini[p] = "idle" /\ iniRes[p] # "ok"
  /\ IF ~initialized
       THEN /\ initialized' = TRUE
            /\ ini' = [ini EXCEPT ![p] = "setup"]
            /\ UNCHANGED <<writers, iniRes>>
       ELSE /\ iniRes' = [iniRes EXCEPT ![p] = "err"]
            /\ UNCHANGED <<initialized, writers, ini>>

(* Ensure the directories and loadRegistry: either fails and returns, or  *)
(* both succeed and registryWriter is started.                            *)
InitializeSetup(p) ==
  /\ ini[p] = "setup"
  /\ \/ /\ writers' = writers + 1
        /\ ini' = [ini EXCEPT ![p] = "done"]
        /\ iniRes' = [iniRes EXCEPT ![p] = "ok"]
     \/ /\ ini' = [ini EXCEPT ![p] = "idle"]
        /\ iniRes' = [iniRes EXCEPT ![p] = "err"]
        /\ UNCHANGED writers
  /\ UNCHANGED initialized

-----------------------------------------------------------------------------
(* Shutdown *)

(* shuttingDown.SetToIf(false, true); a caller that loses returns nil at  *)
(* once.                                                                  *)
ShutdownCAS(p) ==
  /\ sd[p] = "idle" /\ res[p] # "nil"
  /\ IF ~shuttingDown
       THEN /\ shuttingDown' = TRUE
            /\ sd' = [sd EXCEPT ![p] = "close"]
            /\ UNCHANGED res
       ELSE /\ res' = [res EXCEPT ![p] = "nil"]
            /\ sd' = [sd EXCEPT ![p] = "skipped"]
            /\ UNCHANGED shuttingDown
  /\ UNCHANGED <<closes, open, failures, todo>>

(* close(shutdownSignal), then RLock controllers for the loop. *)
CloseSignal(p) ==
  /\ sd[p] = "close"
  /\ closes' = closes + 1
  /\ sd' = [sd EXCEPT ![p] = "iterate"]
  /\ todo' = [todo EXCEPT ![p] = Controllers]
  /\ UNCHANGED <<shuttingDown, open, failures, res>>

\* Mutant: an error of c.Shutdown is overwritten by the next iteration.
ShutdownControllerNoReturn(p, c) ==
  /\ sd[p] = "iterate" /\ c \in todo[p]
  /\ todo' = [todo EXCEPT ![p] = @ \ {c}]
  /\ \/ open' = open \ {c} /\ UNCHANGED failures
     \/ failures < MaxFailures /\ failures' = failures + 1 /\ UNCHANGED open
  /\ UNCHANGED <<shuttingDown, closes, sd, res>>

(* One turn of the loop: c.Shutdown() closes the backend, or fails and    *)
(* Shutdown returns that error.                                           *)
ShutdownController(p, c) ==
  /\ sd[p] = "iterate" /\ c \in todo[p]
  /\ \/ /\ open' = open \ {c}
        /\ todo' = [todo EXCEPT ![p] = @ \ {c}]
        /\ UNCHANGED <<failures, sd, res>>
     \/ /\ failures < MaxFailures
        /\ failures' = failures + 1
        /\ sd' = [sd EXCEPT ![p] = "idle"]
        /\ res' = [res EXCEPT ![p] = "err"]
        /\ todo' = [todo EXCEPT ![p] = {}]
        /\ UNCHANGED open
  /\ UNCHANGED <<shuttingDown, closes>>

(* The loop is over: Shutdown returns the last c.Shutdown's error, nil. *)
ShutdownReturn(p) ==
  /\ sd[p] = "iterate" /\ todo[p] = {}
  /\ sd' = [sd EXCEPT ![p] = "done"]
  /\ res' = [res EXCEPT ![p] = "nil"]
  /\ UNCHANGED <<shuttingDown, closes, open, failures, todo>>

Next ==
  \E p \in Callers :
    \/ (InitializeCAS(p) \/ InitializeSetup(p)) /\ UNCHANGED sdVars
    \/ /\ \/ ShutdownCAS(p) \/ CloseSignal(p) \/ ShutdownReturn(p)
          \/ \E c \in Controllers : ShutdownController(p, c)
       /\ UNCHANGED initVars

Spec == Init /\ [][Next]_vars

-----------------------------------------------------------------------------

(* The Shutdown call that closed the signal returns nil only after every  *)
(* controller's backend has been shut down.                               *)
ClosingShutdownComplete ==
  \A p \in Callers : sd[p] = "done" => open = {}

(* Spec 4.3: a caller that retries Shutdown after an error gets nil only   *)
(* once every controller is shut down.                                     *)
ShutdownNilMeansAllClosed ==
  \A p \in Callers : res[p] = "nil" => open = {}

====
