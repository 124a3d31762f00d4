-------------------------- MODULE ApiServerProofs ---------------------------
(***************************************************************************)
(* Proofs about ApiServer, for any number of calls of Start and of         *)
(* requests, and for any names.                                            *)
(***************************************************************************)
EXTENDS ApiServer, TLAPS

(* No server without a started manager, which has waited for its cache.     *)
CacheInv ==
    /\ mgr = "cache" => cacheGo # "none"
    /\ mgr \in {"new", "select", "stopped", "failed"} => started
    /\ \A n \in Starts : lis[n] # "none" => started
    /\ \A r \in Requests : req[r] # "none" => started
    /\ started => synced \/ cacheGo \in {"error", "ended"}

(* internalStopper is closed by the first return of Start.                  *)
StopperInv ==
    /\ mgr = "idle" <=> start = 0
    /\ inner => start # 0
    /\ inner /\ start = 1 => mgr \in {"stopped", "failed", "exited"}
    /\ mgr = "panicked" => start > 1

(* What a request has stored, while it is being handled and afterwards.     *)
ObjectInv ==
    \A r \in Requests :
        /\ req[r] \in {"none", "list", "read", "create"} => r \notin made
        /\ req[r] = "write" => r \in made \ unsure
        /\ req[r] \in Status => (req[r] \in {"200", "422"} <=> r \in made \ unsure)

(* The inductive invariant. *)
IInv == TypeOK /\ CacheInv /\ StopperInv /\ ObjectInv
-----------------------------------------------------------------------------
USE ApiServerAssumption
USE DEF vars, mgrVars, srvVars, reqVars, Handling, Status, Starts

(* The steps, by the part of the state they change. *)
MgrStep == \/ Manager \/ Cache \/ StopClosed \/ Exit \/ CacheSyncs
SrvStep == \E n \in Starts : Server(n) \/ ListenAndServe(n) \/ ServeFails(n)
ReqStep == \E r \in Requests : Handle(r) \/ \E n \in Starts : Accept(r, n)

(* Every step is one of them, of a live process. *)
LEMMA StepCases == [Next]_vars => UNCHANGED vars \/ MgrStep \/ SrvStep \/ ReqStep
  BY DEF Next, Process, MgrStep, SrvStep, ReqStep

(* Steps of the manager and of its caller. *)
LEMMA MgrStepInv == IInv /\ Alive /\ MgrStep => IInv'
  <1> SUFFICES ASSUME IInv, Alive, MgrStep PROVE IInv'
    OBVIOUS
  <1> USE DEF IInv
  <1>1. CASE Start
    <2>1. start' \in 0..MaxStarts /\ start' = start + 1 /\ start' # 0
      BY <1>1 DEF Start, TypeOK
    <2>2. TypeOK'
      BY <1>1, <2>1 DEF Start, TypeOK
    <2>3. CacheInv'
      BY <1>1 DEF Start, CacheInv, TypeOK
    <2>4. StopperInv'
      <3>1. mgr' \in {"new", "cache"} /\ inner' = inner
        BY <1>1 DEF Start
      <3>2. inner => start # 0
        BY DEF StopperInv
      <3>3. start \in Nat
        BY DEF TypeOK
      <3> QED
        BY <2>1, <3>1, <3>2, <3>3 DEF StopperInv
    <2>5. ObjectInv'
      BY <1>1 DEF Start, ObjectInv
    <2> QED
      BY <2>2, <2>3, <2>4, <2>5
  <1>2. CASE waitForCache
    <2>1. TypeOK'
      <3>1. started' \in BOOLEAN
        BY <1>2 DEF waitForCache
      <3> QED
        BY <1>2, <3>1 DEF waitForCache, TypeOK
    <2>2. CacheInv'
      BY <1>2 DEF waitForCache, CacheInv, TypeOK
    <2>3. StopperInv'
      BY <1>2 DEF waitForCache, StopperInv
    <2>4. ObjectInv'
      BY <1>2 DEF waitForCache, ObjectInv
    <2> QED
      BY <2>1, <2>2, <2>3, <2>4
  <1>3. CASE newApiServer
    <2>1. TypeOK'
      BY <1>3 DEF newApiServer, TypeOK
    <2>2. CacheInv'
      BY <1>3 DEF newApiServer, CacheInv, TypeOK
    <2>3. StopperInv'
      BY <1>3 DEF newApiServer, StopperInv
    <2>4. ObjectInv'
      BY <1>3 DEF newApiServer, ObjectInv
    <2> QED
      BY <2>1, <2>2, <2>3, <2>4
  <1>4. CASE StartReturns
    <2>1. TypeOK'
      BY <1>4 DEF StartReturns, TypeOK
    <2>2. CacheInv'
      BY <1>4 DEF StartReturns, CacheInv, TypeOK
    <2>3. StopperInv'
      BY <1>4 DEF StartReturns, StopperInv, TypeOK
    <2>4. ObjectInv'
      BY <1>4 DEF StartReturns, ObjectInv
    <2> QED
      BY <2>1, <2>2, <2>3, <2>4
  <1>5. CASE CacheFails
    BY <1>5 DEF CacheFails, TypeOK, CacheInv, StopperInv, ObjectInv
  <1>6. CASE CacheSignals
    BY <1>6 DEF CacheSignals, SignalError, TypeOK, CacheInv, StopperInv, ObjectInv
  <1>7. CASE StopClosed
    BY <1>7 DEF StopClosed, TypeOK, CacheInv, StopperInv, ObjectInv
  <1>8. CASE Exit
    <2>1. TypeOK' /\ ObjectInv'
      BY <1>8 DEF Exit, TypeOK, ObjectInv
    <2>2. CacheInv'
      BY <1>8 DEF Exit, CacheInv
    <2>3. StopperInv'
      BY <1>8 DEF Exit, Returned, StopperInv
    <2> QED
      BY <2>1, <2>2, <2>3
  <1>9. CASE CacheSyncs
    BY <1>9 DEF CacheSyncs, TypeOK, CacheInv, StopperInv, ObjectInv
  <1> QED
    BY <1>1, <1>2, <1>3, <1>4, <1>5, <1>6, <1>7, <1>8, <1>9
       DEF MgrStep, Manager, Cache

(* Steps of a server or its listener: they start no request and, but for an *)
(* error they signal, change nothing else.                                  *)
LEMMA SrvStepInv == IInv /\ SrvStep => IInv'
  <1> SUFFICES ASSUME IInv, NEW n \in Starts,
                      Server(n) \/ ListenAndServe(n) \/ ServeFails(n)
               PROVE  IInv'
    BY DEF SrvStep
  <1> USE DEF IInv
  <1>1. /\ UNCHANGED <<start, mgr, started, cacheGo, synced, stop, inner, reqVars>>
        /\ signalled' \in BOOLEAN
    BY DEF Server, ServerStops, ServerFails, ShutdownReturns, ServerSignals,
           SignalError, ListenAndServe, ServeFails, TypeOK
  <1>2. /\ srv' \in [Starts -> {"none", "select", "shutdown", "error", "ended"}]
        /\ lis' \in [Starts -> {"none", "listen", "serve", "send", "ended"}]
    BY DEF Server, ServerStops, ServerFails, ShutdownReturns, ServerSignals,
           ListenAndServe, ServeFails, TypeOK
  <1>3. \A k \in Starts : lis[k] = "none" => lis'[k] = "none"
    BY DEF Server, ServerStops, ServerFails, ShutdownReturns, ServerSignals,
           ListenAndServe, ServeFails, TypeOK
  <1>4. TypeOK'
    BY <1>1, <1>2 DEF TypeOK
  <1>5. CacheInv'
    BY <1>1, <1>3 DEF CacheInv
  <1>6. StopperInv' /\ ObjectInv'
    BY <1>1 DEF StopperInv, ObjectInv
  <1> QED
    BY <1>4, <1>5, <1>6

(* Steps of a request. *)
LEMMA ReqStepInv == IInv /\ ReqStep => IInv'
  <1> SUFFICES ASSUME IInv, NEW r \in Requests,
                      Handle(r) \/ \E n \in Starts : Accept(r, n)
               PROVE  IInv'
    BY DEF ReqStep
  <1> USE DEF IInv, Goes
  <1>1. UNCHANGED <<mgrVars, srvVars>>
    BY DEF Handle, list, FindSourcePod, CreateObject, WriteAsJson, Accept
  <1>2. StopperInv'
    BY <1>1 DEF StopperInv
  <1>3. ASSUME NEW n \in Starts, Accept(r, n) PROVE TypeOK' /\ CacheInv' /\ ObjectInv'
    <2>1. TypeOK'
      <3>1. n \in 0..MaxStarts
        OBVIOUS
      <3>2. on' \in [Requests -> 0..MaxStarts]
        BY <1>3, <3>1 DEF Accept, TypeOK
      <3>3. req' \in [Requests -> {"none"} \cup Handling \cup Status]
        BY <1>3 DEF Accept, TypeOK
      <3> QED
        BY <1>3, <1>1, <3>2, <3>3 DEF Accept, TypeOK
    <2>2. started
      BY <1>3 DEF Accept, CacheInv
    <2>3. CacheInv'
      BY <1>1, <2>2 DEF CacheInv
    <2>4. ObjectInv'
      BY <1>3 DEF Accept, ObjectInv, TypeOK
    <2> QED
      BY <2>1, <2>3, <2>4
  <1>4. CASE Handle(r)
    <2>1. started
      BY <1>4 DEF Handle, list, FindSourcePod, CreateObject, WriteAsJson, CacheInv
    <2>2. CacheInv'
      BY <1>1, <2>1 DEF CacheInv
    <2>3. CASE list(r)
      <3>1. TypeOK'
        BY <1>1, <2>3 DEF list, TypeOK
      <3>2. ObjectInv'
        BY <2>3 DEF list, TypeOK, ObjectInv
      <3> QED
        BY <2>2, <3>1, <3>2, <1>2
    <2>4. CASE FindSourcePod(r)
      <3>1. TypeOK'
        BY <1>1, <2>4 DEF FindSourcePod, TypeOK
      <3>2. ObjectInv'
        BY <2>4 DEF FindSourcePod, TypeOK, ObjectInv
      <3> QED
        BY <2>2, <3>1, <3>2, <1>2
    <2>5. CASE CreateObject(r)
      <3>1. TypeOK'
        <4>1. req' \in [Requests -> {"none"} \cup Handling \cup Status]
          BY <2>5 DEF CreateObject, TypeOK
        <4>2. /\ made' \subseteq Requests /\ unsure' \subseteq made'
              /\ objects' \subseteq Names
          BY <2>5 DEF CreateObject, TypeOK
        <4> QED
          BY <1>1, <2>5, <4>1, <4>2 DEF CreateObject, TypeOK
      <3>2. ObjectInv'
        BY <2>5 DEF CreateObject, TypeOK, ObjectInv
      <3> QED
        BY <2>2, <3>1, <3>2, <1>2
    <2>6. CASE WriteAsJson(r)
      <3>1. TypeOK'
        BY <1>1, <2>6 DEF WriteAsJson, TypeOK
      <3>2. ObjectInv'
        BY <2>6 DEF WriteAsJson, TypeOK, ObjectInv
      <3> QED
        BY <2>2, <3>1, <3>2, <1>2
    <2> QED
      BY <1>4, <2>3, <2>4, <2>5, <2>6 DEF Handle
  <1> QED
    BY <1>2, <1>3, <1>4

(* The inductive invariant of the API server: what the manager has waited   *)
(* for, how often it has closed its channels, and what its requests have    *)
(* stored.                                                                  *)
THEOREM Safety == Spec => []IInv
  <1>1. Init => IInv
    <2> SUFFICES ASSUME Init PROVE IInv
      OBVIOUS
    <2>1. TypeOK
      <3>1. started \in BOOLEAN /\ synced \in BOOLEAN /\ signalled \in BOOLEAN
        BY DEF Init
      <3>2. stop \in BOOLEAN /\ inner \in BOOLEAN
        BY DEF Init
      <3>3. start \in 0..MaxStarts /\ on \in [Requests -> 0..MaxStarts]
        BY DEF Init
      <3> QED
        BY <3>1, <3>2, <3>3 DEF Init, TypeOK
    <2>2. CacheInv /\ StopperInv /\ ObjectInv
      BY DEF Init, CacheInv, StopperInv, ObjectInv
    <2> QED
      BY <2>1, <2>2 DEF IInv
  <1>2. IInv /\ [Next]_vars => IInv'
    <2> SUFFICES ASSUME IInv, [Next]_vars PROVE IInv'
      OBVIOUS
    <2>1. CASE UNCHANGED vars
      BY <2>1 DEF IInv, TypeOK, CacheInv, StopperInv, ObjectInv
    <2>2. CASE ~UNCHANGED vars
      <3>1. Alive
        BY <2>2 DEF Next
      <3> QED
        BY <2>2, <3>1, StepCases, MgrStepInv, SrvStepInv, ReqStepInv
    <2> QED
      BY <2>1, <2>2
  <1> QED
    BY <1>1, <1>2, PTL DEF Spec

(* Manager, servers and requests keep their types. *)
THEOREM TypeCorrect == Spec => []TypeOK
  <1>1. IInv => TypeOK
    BY DEF IInv
  <1> QED
    BY <1>1, Safety, PTL

(* No request is served before the cache has synced or could not be started. *)
THEOREM CacheIsSynced == Spec => []ServesSyncedCache
  <1>1. IInv => ServesSyncedCache
    BY DEF IInv, CacheInv, ServesSyncedCache
  <1> QED
    BY <1>1, Safety, PTL

(* A POST is answered with success exactly when it has stored its object    *)
(* and was told so, however many POSTs race for a name.                     *)
THEOREM TrueAnswers == Spec => []AnswersAreTrue
  <1>1. IInv => AnswersAreTrue
    BY DEF IInv, ObjectInv, AnswersAreTrue
  <1> QED
    BY <1>1, Safety, PTL

(* The first Start closes each of its channels once. *)
THEOREM FirstStartIsSafe == Spec => []OneStartNeverPanics
  <1>1. IInv => OneStartNeverPanics
    BY DEF IInv, StopperInv, OneStartNeverPanics
  <1> QED
    BY <1>1, Safety, PTL
=============================================================================
