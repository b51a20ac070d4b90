-------------------------- MODULE BackgroundRuntime --------------------------
(***************************************************************************)
(* The display a background GUI run works on                               *)
(* (guiclaw/backends/background_runtime.py, background.py).  One run at a  *)
(* time has the lease of the process; its backend starts a virtual display *)
(* and points the environment variable DISPLAY, which the whole process    *)
(* shares, to it.                                                          *)
(***************************************************************************)
EXTENDS Naturals

CONSTANTS
    Run,    \* calls of gui_task; also the display each of them starts
    Host,   \* what DISPLAY is before any run
    None

ASSUME RuntimeAssumption == Host \notin Run /\ None \notin Run /\ Host # None

VARIABLES
    at,         \* where each run is
    active,     \* BackgroundRuntimeCoordinator._active_run
    environ,    \* os.environ["DISPLAY"]
    up,         \* _display_info is set
    original,   \* _original_display
    leaked      \* a preflight failed with its display up and DISPLAY on it

runtime == <<at, active, environ, up, original, leaked>>

InitRuntime ==
    /\ at = [r \in Run |-> "off"]
    /\ active = None
    /\ environ = Host
    /\ up = [r \in Run |-> FALSE]
    /\ original = [r \in Run |-> None]
    /\ leaked = FALSE

RuntimeTypeOK ==
    /\ active \in Run \cup {None}
    /\ environ \in Run \cup {Host}
    /\ up \in [Run -> BOOLEAN]
    /\ original \in [Run -> Run \cup {Host, None}]
    /\ leaked \in BOOLEAN

Goes(r, place) == at' = [at EXCEPT ![r] = place]

-----------------------------------------------------------------------------
(* preflight *)

\* A backend whose display is up, from an earlier attempt or subtask, is taken to
\* be ready, and nobody asks whether it has the lease.
PreflightAgain(r) ==
    /\ at[r] = "preflight"
    /\ up[r]
    /\ Goes(r, "look")
    /\ UNCHANGED <<active, environ, up, original, leaked>>

AskLease(r) ==
    /\ at[r] = "preflight"
    /\ ~up[r]
    /\ Goes(r, "lease")
    /\ UNCHANGED <<active, environ, up, original, leaked>>

AcquireAnyway(r) ==
    /\ at[r] = "lease"
    /\ active' = r
    /\ Goes(r, "starting")
    /\ UNCHANGED <<environ, up, original, leaked>>

Acquire(r) ==
    /\ at[r] = "lease"
    /\ active = None
    /\ active' = r
    /\ Goes(r, "starting")
    /\ UNCHANGED <<environ, up, original, leaked>>

DisplayStarts(r) ==
    /\ at[r] = "starting"
    /\ up' = [up EXCEPT ![r] = TRUE]
    /\ original' = [original EXCEPT ![r] = environ]
    /\ environ' = r
    /\ Goes(r, "inner")
    /\ UNCHANGED <<active, leaked>>

InnerReady(r) ==
    /\ at[r] = "inner"
    /\ Goes(r, "look")
    /\ UNCHANGED <<active, environ, up, original, leaked>>

\* An exception of the display or of the inner backend gives the lease back, and
\* nothing else.
PreflightFails(r) ==
    /\ at[r] \in {"starting", "inner"}
    /\ active' = None
    /\ leaked' = (leaked \/ at[r] = "inner")
    /\ UNCHANGED <<environ, up, original>>

-----------------------------------------------------------------------------
(* observe, execute, shutdown *)

\* Each call points DISPLAY to the run's display first.
UsesDisplay(r) ==
    /\ environ' = r
    /\ UNCHANGED <<active, up, original, leaked>>

ShutdownKeeping(r) ==
    /\ at[r] = "stop"
    /\ active' = IF active = r THEN None ELSE active
    /\ Goes(r, "over")
    /\ UNCHANGED <<environ, up, original, leaked>>

ShutdownHolding(r) ==
    /\ at[r] = "stop"
    /\ environ' = IF original[r] = None THEN environ ELSE original[r]
    /\ Goes(r, "over")
    /\ UNCHANGED <<active, up, original, leaked>>

\* The display is stopped, DISPLAY restored, the lease given back.
Shutdown(r) ==
    /\ at[r] = "stop"
    /\ environ' = IF original[r] = None THEN environ ELSE original[r]
    /\ active' = IF active = r THEN None ELSE active
    /\ Goes(r, "over")
    /\ UNCHANGED <<up, original, leaked>>
=============================================================================
