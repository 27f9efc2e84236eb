---------------------- MODULE SynchronizedCallbackProofs ----------------------
(***************************************************************************)
(* Proofs about SynchronizedCallback, for any threads, functions and       *)
(* number of calls, and for both kinds of callback.                        *)
(***************************************************************************)
EXTENDS SynchronizedCallback, TLAPS

(* Whoever runs a function has the mutex. *)
Exclusive == \A t \in Threads : at[t] \in {"run", "replay"} <=> mutex = {t}

(* Calls are handled as they come, but for the one that is stored. *)
Counted ==
    /\ \A n \in Numbers : n > calls => handled[n] = 0
    /\ HandledOnce
    /\ stored # 0 => handled[stored] = 0 \/ \E t \in Threads : at[t] = "replay"

(* The one that is stored is the latest, and kept while no function is set. *)
StoredIsLatest ==
    /\ stored # 0 => Stores /\ stored = calls
    /\ stored # 0 /\ callback # Null => \E t \in Threads : at[t] = "replay"
    /\ Stores /\ stored = 0 /\ calls > 0 => handled[calls] > 0
    /\ \A t \in Threads : at[t] = "replay" /\ calls > 0 => handled[calls] > 0

IInv ==
    /\ TypeOK
    /\ Exclusive
    /\ OnlyCurrentRuns
    /\ Counted
    /\ StoredIsLatest
    /\ LatestHandled

USE CallbackAssumption

LEMMA InitIInv == Init => IInv
BY DEF Init, IInv, TypeOK, Exclusive, OnlyCurrentRuns, Counted, HandledOnce,
       StoredIsLatest, LatestHandled, Numbers

(* While the mutex is free nobody runs a function. *)
LEMMA FreeIsQuiet ==
    ASSUME IInv, mutex = {}
    PROVE  /\ \A t \in Threads : at[t] \notin {"run", "replay"}
           /\ stored # 0 => handled[stored] = 0 /\ callback = Null
<1>1. \A t \in Threads : at[t] \notin {"run", "replay"}
  BY DEF IInv, Exclusive
<1> QED BY <1>1 DEF IInv, Counted, StoredIsLatest

(* A set, a call and their waiting change nothing that the invariant sees. *)
LEMMA WaitsIInv ==
    ASSUME IInv, NEW t \in Threads, (\E f \in Functions \cup {Null} : Set(t, f)) \/ Call(t)
    PROVE  IInv'
<1>1. /\ UNCHANGED <<callback, stored, mutex, calls, handled>>
      /\ at[t] = "idle"
      /\ at' \in {[at EXCEPT ![t] = "set"], [at EXCEPT ![t] = "call"]}
      /\ func' \in [Threads -> Functions \cup {Null}]
      /\ \A u \in Threads : u # t => func'[u] = func[u]
  BY DEF IInv, TypeOK, Set, Call, Goes
<1>2. TypeOK'
  BY <1>1 DEF IInv, TypeOK
<1>3. /\ at' \in [Threads -> {"idle", "set", "replay", "call", "run"}]
      /\ \A u \in Threads : at'[u] \in {"run", "replay"} <=> at[u] \in {"run", "replay"}
      /\ \A u \in Threads : at'[u] = "replay" <=> at[u] = "replay"
      /\ at'[t] \notin {"run", "replay"}
  BY <1>1 DEF IInv, TypeOK
<1>4. Exclusive' /\ OnlyCurrentRuns'
  BY <1>1, <1>3 DEF IInv, Exclusive, OnlyCurrentRuns
<1>5. Counted' /\ StoredIsLatest' /\ LatestHandled'
  BY <1>1, <1>3 DEF IInv, Counted, HandledOnce, StoredIsLatest, LatestHandled
<1> QED BY <1>2, <1>4, <1>5 DEF IInv

LEMMA AssignIInv ==
    ASSUME IInv, NEW t \in Threads, Assign(t)
    PROVE  IInv'
<1>1. /\ at[t] = "set" /\ at' = [at EXCEPT ![t] = "idle"]
      /\ callback' = func[t]
      /\ UNCHANGED <<stored, mutex, func, calls, handled>>
      /\ Stores /\ func[t] # Null => stored = 0
      /\ mutex = {}
  BY DEF Assign, Goes
<1>2. /\ \A u \in Threads : at'[u] \notin {"run", "replay"}
      /\ stored # 0 => handled[stored] = 0
  BY <1>1, FreeIsQuiet DEF IInv, TypeOK
<1>3. TypeOK'
  BY <1>1 DEF IInv, TypeOK
<1>4. Exclusive' /\ OnlyCurrentRuns'
  BY <1>1, <1>2 DEF Exclusive, OnlyCurrentRuns
<1>5. Counted'
  BY <1>1, <1>2 DEF IInv, Counted, HandledOnce
<1>6. StoredIsLatest' /\ LatestHandled'
  BY <1>1, <1>2 DEF IInv, StoredIsLatest, LatestHandled
<1> QED BY <1>3, <1>4, <1>5, <1>6 DEF IInv

LEMMA ReplayIInv ==
    ASSUME IInv, NEW t \in Threads, Replay(t)
    PROVE  IInv'
<1>1. /\ at[t] = "set" /\ at' = [at EXCEPT ![t] = "replay"]
      /\ callback' = func[t] /\ func[t] # Null /\ Stores
      /\ stored # 0
      /\ handled' = [handled EXCEPT ![stored] = @ + 1]
      /\ UNCHANGED <<stored, func, calls>>
      /\ mutex = {} /\ mutex' = {t}
  BY DEF Replay, Goes, Handles
<1>2. /\ \A u \in Threads : u # t => at'[u] \notin {"run", "replay"}
      /\ at'[t] = "replay"
      /\ handled[stored] = 0 /\ stored = calls /\ stored \in Numbers
  BY <1>1, FreeIsQuiet DEF IInv, TypeOK, StoredIsLatest, Numbers
<1>3. TypeOK'
  BY <1>1, <1>2 DEF IInv, TypeOK
<1>4. Exclusive' /\ OnlyCurrentRuns'
  BY <1>1, <1>2 DEF Exclusive, OnlyCurrentRuns
<1>5. /\ handled'[stored] = 1
      /\ \A n \in Numbers : n # stored => handled'[n] = handled[n]
  BY <1>1, <1>2 DEF IInv, TypeOK
<1>6. Counted'
  <2>1. \A n \in Numbers : n > calls' => handled'[n] = 0
    BY <1>1, <1>2, <1>5 DEF IInv, TypeOK, Counted, Numbers
  <2>2. HandledOnce'
    BY <1>1, <1>5 DEF IInv, Counted, HandledOnce
  <2> QED BY <1>2, <2>1, <2>2 DEF Counted
<1>7. StoredIsLatest' /\ LatestHandled'
  BY <1>1, <1>2, <1>5 DEF StoredIsLatest, LatestHandled
<1> QED BY <1>3, <1>4, <1>6, <1>7 DEF IInv

LEMMA ReplayedIInv ==
    ASSUME IInv, NEW t \in Threads, Replayed(t)
    PROVE  IInv'
<1>1. /\ at[t] = "replay" /\ at' = [at EXCEPT ![t] = "idle"]
      /\ mutex' = {} /\ stored' = 0
      /\ UNCHANGED <<callback, func, calls, handled>>
  BY DEF Replayed, Goes
<1>2. mutex = {t} /\ func[t] = callback
  BY <1>1 DEF IInv, Exclusive, OnlyCurrentRuns
<1>3. \A u \in Threads : at'[u] \notin {"run", "replay"}
  BY <1>1, <1>2 DEF IInv, TypeOK, Exclusive
<1>4. TypeOK'
  BY <1>1 DEF IInv, TypeOK
<1>5. Exclusive' /\ OnlyCurrentRuns'
  BY <1>1, <1>3 DEF Exclusive, OnlyCurrentRuns
<1>6. Counted' /\ LatestHandled'
  BY <1>1 DEF IInv, Counted, HandledOnce, LatestHandled
<1>7. Stores /\ calls > 0 => handled[calls] > 0
  BY <1>1 DEF IInv, StoredIsLatest
<1>8. StoredIsLatest'
  BY <1>1, <1>3, <1>7 DEF StoredIsLatest
<1> QED BY <1>4, <1>5, <1>6, <1>8 DEF IInv

LEMMA MissIInv ==
    ASSUME IInv, NEW t \in Threads, Miss(t)
    PROVE  IInv'
<1>1. /\ at[t] = "call" /\ at' = [at EXCEPT ![t] = "idle"]
      /\ mutex = {} /\ callback = Null /\ calls < MaxCalls
      /\ calls' = calls + 1
      /\ stored' = IF Stores THEN calls + 1 ELSE stored
      /\ UNCHANGED <<callback, mutex, func, handled>>
  BY DEF Miss, Goes
<1>2. \A u \in Threads : at'[u] \notin {"run", "replay"}
  BY <1>1, FreeIsQuiet DEF IInv, TypeOK
<1>3. /\ calls \in Nat /\ calls + 1 \in Numbers
      /\ handled[calls + 1] = 0
      /\ ~Stores => stored = 0
  BY <1>1 DEF IInv, TypeOK, Numbers, Counted, StoredIsLatest
<1>4. TypeOK'
  BY <1>1, <1>3 DEF IInv, TypeOK, Numbers
<1>5. Exclusive' /\ OnlyCurrentRuns'
  BY <1>1, <1>2 DEF Exclusive, OnlyCurrentRuns
<1>6. Counted'
  BY <1>1, <1>3 DEF IInv, Counted, HandledOnce, Numbers
<1>7. StoredIsLatest' /\ LatestHandled'
  BY <1>1, <1>2, <1>3 DEF StoredIsLatest, LatestHandled
<1> QED BY <1>4, <1>5, <1>6, <1>7 DEF IInv

LEMMA RunIInv ==
    ASSUME IInv, NEW t \in Threads, Run(t)
    PROVE  IInv'
<1>1. /\ at[t] = "call" /\ at' = [at EXCEPT ![t] = "run"]
      /\ mutex = {} /\ mutex' = {t} /\ callback # Null /\ calls < MaxCalls
      /\ func' = [func EXCEPT ![t] = callback]
      /\ calls' = calls + 1
      /\ handled' = [handled EXCEPT ![calls + 1] = @ + 1]
      /\ UNCHANGED <<callback, stored>>
  BY DEF Run, Goes, Handles
<1>2. /\ \A u \in Threads : u # t => at'[u] \notin {"run", "replay"}
      /\ at'[t] = "run"
      /\ stored = 0
  BY <1>1, FreeIsQuiet DEF IInv, TypeOK
<1>3. /\ calls \in Nat /\ calls + 1 \in Numbers
      /\ handled[calls + 1] = 0
  BY <1>1 DEF IInv, TypeOK, Numbers, Counted
<1>4. /\ handled'[calls + 1] = 1
      /\ \A n \in Numbers : n # calls + 1 => handled'[n] = handled[n]
  BY <1>1, <1>3 DEF IInv, TypeOK
<1>5. TypeOK'
  BY <1>1, <1>3 DEF IInv, TypeOK, Numbers
<1>6. Exclusive' /\ OnlyCurrentRuns'
  BY <1>1, <1>2 DEF IInv, TypeOK, Exclusive, OnlyCurrentRuns
<1>7. Counted'
  <2>1. \A n \in Numbers : n > calls' => handled'[n] = 0
    BY <1>1, <1>3, <1>4 DEF IInv, Counted, Numbers
  <2>2. HandledOnce'
    BY <1>3, <1>4 DEF IInv, Counted, HandledOnce, Numbers
  <2> QED BY <1>1, <1>2, <2>1, <2>2 DEF Counted
<1>8. StoredIsLatest' /\ LatestHandled'
  BY <1>1, <1>2, <1>4 DEF StoredIsLatest, LatestHandled
<1> QED BY <1>5, <1>6, <1>7, <1>8 DEF IInv

LEMMA RanIInv ==
    ASSUME IInv, NEW t \in Threads, Ran(t)
    PROVE  IInv'
<1>1. /\ at[t] = "run" /\ at' = [at EXCEPT ![t] = "idle"]
      /\ mutex' = {}
      /\ UNCHANGED <<callback, stored, func, calls, handled>>
  BY DEF Ran, Goes
<1>2. mutex = {t}
  BY <1>1 DEF IInv, Exclusive
<1>3. /\ \A u \in Threads : at'[u] \notin {"run", "replay"}
      /\ \A u \in Threads : at[u] # "replay"
  BY <1>1, <1>2 DEF IInv, TypeOK, Exclusive
<1>4. TypeOK'
  BY <1>1 DEF IInv, TypeOK
<1>5. Exclusive' /\ OnlyCurrentRuns'
  BY <1>1, <1>3 DEF Exclusive, OnlyCurrentRuns
<1>6. Counted' /\ StoredIsLatest' /\ LatestHandled'
  BY <1>1, <1>3 DEF IInv, Counted, HandledOnce, StoredIsLatest, LatestHandled
<1> QED BY <1>4, <1>5, <1>6 DEF IInv

LEMMA NextIInv == IInv /\ [Next]_vars => IInv'
<1> SUFFICES ASSUME IInv, [Next]_vars PROVE IInv'
  OBVIOUS
<1>1. CASE UNCHANGED vars
  BY <1>1 DEF vars, IInv, TypeOK, Exclusive, OnlyCurrentRuns, Counted, HandledOnce,
             StoredIsLatest, LatestHandled
<1>2. ASSUME NEW t \in Threads,
             \/ \E f \in Functions \cup {Null} : Set(t, f)
             \/ Assign(t) \/ Replay(t) \/ Replayed(t)
             \/ Call(t) \/ Miss(t) \/ Run(t) \/ Ran(t)
      PROVE  IInv'
  BY <1>2, WaitsIInv, AssignIInv, ReplayIInv, ReplayedIInv, MissIInv, RunIInv, RanIInv
<1> QED BY <1>1, <1>2 DEF Next

LEMMA InvariantHolds == Spec => []IInv
BY InitIInv, NextIInv, PTL DEF Spec

(* The callback and its threads keep their types. *)
THEOREM TypeCorrect == Spec => []TypeOK
<1>1. IInv => TypeOK
  BY DEF IInv
<1> QED BY <1>1, InvariantHolds, PTL

(* When a set or a reset has returned, no other function runs. *)
THEOREM OnlyCurrentRunsHolds == Spec => []OnlyCurrentRuns
<1>1. IInv => OnlyCurrentRuns
  BY DEF IInv
<1> QED BY <1>1, InvariantHolds, PTL

(* No call is handled twice, the one that was stored included. *)
THEOREM HandledOnceHolds == Spec => []HandledOnce
<1>1. IInv => HandledOnce
  BY DEF IInv, Counted
<1> QED BY <1>1, InvariantHolds, PTL

(* While a function is set, the latest call has reached one. *)
THEOREM LatestHandledHolds == Spec => []LatestHandled
<1>1. IInv => LatestHandled
  BY DEF IInv
<1> QED BY <1>1, InvariantHolds, PTL
=============================================================================
