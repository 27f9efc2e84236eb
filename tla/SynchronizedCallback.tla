------------------------- MODULE SynchronizedCallback -------------------------
(***************************************************************************)
(* A callback that threads set, reset and call (rtc/utils.hpp), which      *)
(* connections, channels and the WebSocket are built with.  The one that   *)
(* stores keeps the last call that found no function, for the next one     *)
(* that is set.                                                            *)
(*                                                                         *)
(* The mutex is recursive, but no function of this program sets or calls   *)
(* the callback that runs it, and so neither does the model.  Moving and   *)
(* copying a callback, which the program does not do, are left out.        *)
(***************************************************************************)
EXTENDS Naturals

CONSTANTS
    Threads,
    Functions,     \* what a callback is set to
    Null,          \* nullptr
    Stores,        \* synchronized_stored_callback
    MaxCalls       \* bound: calls

ASSUME CallbackAssumption ==
    /\ Null \notin Functions
    /\ Stores \in BOOLEAN
    /\ MaxCalls \in Nat

VARIABLES
    callback,
    stored,      \* the call kept, 0 for none
    mutex,       \* the threads that hold it
    at,          \* where each thread is
    func,        \* the function it sets or runs
    calls,       \* calls so far: each is known by its number
    handled      \* how often a function was run for it

vars == <<callback, stored, mutex, at, func, calls, handled>>

Numbers == 1..MaxCalls

(* The callback, its mutex and its threads keep their types. *)
TypeOK ==
    /\ callback \in Functions \cup {Null}
    /\ stored \in 0..calls
    /\ mutex \subseteq Threads
    /\ at \in [Threads -> {"idle", "set", "replay", "call", "run"}]
    /\ func \in [Threads -> Functions \cup {Null}]
    /\ calls \in 0..MaxCalls
    /\ handled \in [Numbers -> Nat]

Init ==
    /\ callback = Null
    /\ stored = 0
    /\ mutex = {}
    /\ at = [t \in Threads |-> "idle"]
    /\ func = [t \in Threads |-> Null]
    /\ calls = 0
    /\ handled = [n \in Numbers |-> 0]

Goes(t, from, to) == at[t] = from /\ at' = [at EXCEPT ![t] = to]

Handles(n) == handled' = [handled EXCEPT ![n] = @ + 1]

-----------------------------------------------------------------------------
(* operator= *)

Set(t, f) ==
    /\ Goes(t, "idle", "set")
    /\ func' = [func EXCEPT ![t] = f]
    /\ UNCHANGED <<callback, stored, mutex, calls, handled>>

Assign(t) ==
    /\ mutex = {}
    /\ ~(Stores /\ func[t] # Null /\ stored # 0)
    /\ Goes(t, "set", "idle")
    /\ callback' = func[t]
    /\ UNCHANGED <<stored, mutex, func, calls, handled>>

(* The call that was missed is made up for before anyone else has the lock. *)
Replay(t) ==
    /\ mutex = {}
    /\ Stores /\ func[t] # Null /\ stored # 0
    /\ Goes(t, "set", "replay")
    /\ mutex' = {t}
    /\ callback' = func[t]
    /\ Handles(stored)
    /\ UNCHANGED <<stored, func, calls>>

(* Mutant: what was stored is kept. *)
Replayed_Kept(t) ==
    /\ Goes(t, "replay", "idle")
    /\ mutex' = {}
    /\ UNCHANGED <<callback, stored, func, calls, handled>>

Replayed(t) ==
    /\ Goes(t, "replay", "idle")
    /\ mutex' = {}
    /\ stored' = 0
    /\ UNCHANGED <<callback, func, calls, handled>>

-----------------------------------------------------------------------------
(* operator() *)

Call(t) ==
    /\ Goes(t, "idle", "call")
    /\ UNCHANGED <<callback, stored, mutex, func, calls, handled>>

(* Mutant: the first call missed is kept, not the last. *)
Miss_First(t) ==
    /\ mutex = {}
    /\ callback = Null
    /\ calls < MaxCalls
    /\ Goes(t, "call", "idle")
    /\ calls' = calls + 1
    /\ stored' = IF Stores /\ stored = 0 THEN calls + 1 ELSE stored
    /\ UNCHANGED <<callback, mutex, func, handled>>

Miss(t) ==
    /\ mutex = {}
    /\ callback = Null
    /\ calls < MaxCalls
    /\ Goes(t, "call", "idle")
    /\ calls' = calls + 1
    /\ stored' = IF Stores THEN calls + 1 ELSE stored
    /\ UNCHANGED <<callback, mutex, func, handled>>

(* Mutant: the function is copied and run without the lock. *)
Run_Unlocked(t) ==
    /\ mutex = {}
    /\ callback # Null
    /\ calls < MaxCalls
    /\ Goes(t, "call", "run")
    /\ func' = [func EXCEPT ![t] = callback]
    /\ calls' = calls + 1
    /\ Handles(calls + 1)
    /\ UNCHANGED <<callback, stored, mutex>>

Run(t) ==
    /\ mutex = {}
    /\ callback # Null
    /\ calls < MaxCalls
    /\ Goes(t, "call", "run")
    /\ mutex' = {t}
    /\ func' = [func EXCEPT ![t] = callback]
    /\ calls' = calls + 1
    /\ Handles(calls + 1)
    /\ UNCHANGED <<callback, stored>>

Ran(t) ==
    /\ Goes(t, "run", "idle")
    /\ mutex' = {}
    /\ UNCHANGED <<callback, stored, func, calls, handled>>

-----------------------------------------------------------------------------
Next ==
    \E t \in Threads :
        \/ \E f \in Functions \cup {Null} : Set(t, f)
        \/ Assign(t) \/ Replay(t) \/ Replayed(t)
        \/ Call(t) \/ Miss(t) \/ Run(t) \/ Ran(t)

Spec == Init /\ [][Next]_vars

-----------------------------------------------------------------------------
(* Correctness *)

(* Only the function that is set runs: when a set or a reset has returned, *)
(* the one before is not running any more, on any thread.  It is what the  *)
(* client's teardown relies on.                                            *)
OnlyCurrentRuns ==
    \A t \in Threads : at[t] \in {"run", "replay"} => func[t] = callback

(* A call is never handled twice, whoever sets the function meanwhile. *)
HandledOnce == \A n \in Numbers : handled[n] <= 1

(* While a function is set, the latest call has reached one, whether it    *)
(* came before or after: the opening of a channel is not missed.           *)
LatestHandled ==
    Stores /\ callback # Null /\ calls > 0 => handled[calls] > 0
=============================================================================
