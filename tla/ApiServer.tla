----------------------------- MODULE ApiServer ------------------------------
(***************************************************************************)
(* The API server: manager.Start with its cache and its error signal, the  *)
(* HTTP server it starts with the goroutine that listens, and the two      *)
(* endpoints, whose requests read a cache that lags behind the cluster.    *)
(*                                                                         *)
(* The repository has no constructor of manager; internalStop and          *)
(* internalStopper are taken to be the two ends of one channel, made once. *)
(* Each call of Start has a new errSignal and a stop channel; its server   *)
(* and listener may outlive it and are indexed by the number of the call.  *)
(***************************************************************************)
EXTENDS Naturals, FiniteSets

CONSTANTS Requests,   \* requests to /Livemigrations, GET or POST
          Names,      \* names of LiveMigrations
          NameOf,     \* the name in each POST
          MaxStarts,  \* bound: how often Start is called
          MaxCalls    \* bound: calls of Start and requests together

Starts == 1..MaxStarts

ASSUME ApiServerAssumption ==
    /\ NameOf \in [Requests -> Names]
    /\ MaxStarts \in Nat \ {0} /\ MaxCalls \in Nat

VARIABLES
    start,     \* how often Start has been called
    mgr,       \* where the last call is, or how the process ended
    started,   \* manager.started
    cacheGo,   \* the goroutine in cache.Start
    synced,    \* whether the cache has synced
    signalled, \* whether errSignal of the last call has been closed
    stop,      \* whether its stop channel has been closed
    inner,     \* whether internalStop has been closed
    srv,       \* apiServer.Start, for each call
    lis,       \* its listening goroutine
    req,       \* where each request is, or the status of its answer
    on,        \* the server that accepted it
    made,      \* POSTs whose object the cluster has stored
    unsure,    \* those of them whose Create reported an error all the same
    objects    \* names of the LiveMigrations that exist

mgrVars == <<start, mgr, started, cacheGo, synced, signalled, stop, inner>>
srvVars == <<srv, lis>>
reqVars == <<req, on, made, unsure, objects>>
vars    == <<mgrVars, srvVars, reqVars>>

Handling == {"list", "read", "create", "write"}
Status   == {"listed", "200", "400", "404", "422"}

TypeOK ==
    /\ start \in 0..MaxStarts
    /\ mgr \in {"idle", "cache", "new", "select", "stopped", "failed",
                "panicked", "exited"}
    /\ started \in BOOLEAN /\ synced \in BOOLEAN /\ signalled \in BOOLEAN
    /\ stop \in BOOLEAN /\ inner \in BOOLEAN
    /\ cacheGo \in {"none", "run", "error", "ended"}
    /\ srv \in [Starts -> {"none", "select", "shutdown", "error", "ended"}]
    /\ lis \in [Starts -> {"none", "listen", "serve", "send", "ended"}]
    /\ req \in [Requests -> {"none"} \cup Handling \cup Status]
    /\ on \in [Requests -> 0..MaxStarts]
    /\ made \subseteq Requests /\ unsure \subseteq made
    /\ objects \subseteq Names

Init ==
    /\ start = 0 /\ mgr = "idle" /\ started = FALSE
    /\ cacheGo = "none" /\ synced = FALSE
    /\ signalled = FALSE /\ stop = FALSE /\ inner = FALSE
    /\ srv = [n \in Starts |-> "none"] /\ lis = [n \in Starts |-> "none"]
    /\ req = [r \in Requests |-> "none"] /\ on = [r \in Requests |-> 0]
    /\ made = {} /\ unsure = {} /\ objects = {}

Calls    == start + Cardinality({r \in Requests : on[r] # 0})
Alive    == mgr \notin {"panicked", "exited"}
Returned == mgr \in {"stopped", "failed"}
-----------------------------------------------------------------------------
(* manager.go and signals.go *)

(* Variant: the signaler does not look whether it has an error already. *)
SignalAgain ==
    /\ signalled' = TRUE
    /\ mgr' = IF signalled THEN "panicked" ELSE mgr

(* errSignaler.SignalError: the first error closes errSignal, the others    *)
(* are dropped.  m.errSignal is read here: the signaler of the last call.   *)
SignalError == signalled' = TRUE /\ UNCHANGED mgr

(* A new signaler; only the first call starts the cache. *)
Start ==
    /\ mgr = "idle" \/ Returned
    /\ start < MaxStarts /\ Calls < MaxCalls
    /\ start' = start + 1 /\ signalled' = FALSE /\ stop' = FALSE
    /\ IF started THEN mgr' = "new" /\ UNCHANGED cacheGo
                  ELSE mgr' = "cache" /\ cacheGo' = "run"
    /\ UNCHANGED <<started, synced, inner, srvVars, reqVars>>

(* The goroutine of waitForCache: what cache.Start returns. *)
CacheFails ==
    /\ cacheGo = "run" /\ cacheGo' = "error"
    /\ UNCHANGED <<start, mgr, started, synced, signalled, stop, inner,
                   srvVars, reqVars>>

CacheSignals ==
    /\ cacheGo = "error" /\ cacheGo' = "ended"
    /\ SignalError
    /\ UNCHANGED <<start, started, synced, stop, inner, srvVars, reqVars>>

(* Variant: the cache is started and not waited for. *)
DontWaitForCache ==
    /\ mgr = "cache" /\ mgr' = "new" /\ started' = TRUE
    /\ UNCHANGED <<start, cacheGo, synced, signalled, stop, inner, srvVars,
                   reqVars>>

(* WaitForCacheSync answers TRUE, or FALSE for a cache that could not sync; *)
(* the answer is not looked at.  The stop channel is not, either.           *)
waitForCache ==
    /\ mgr = "cache" /\ (synced \/ cacheGo # "run")
    /\ mgr' = "new" /\ started' = TRUE
    /\ UNCHANGED <<start, cacheGo, synced, signalled, stop, inner, srvVars,
                   reqVars>>

(* newApiServer never fails; apiServer.Start gets a goroutine, which starts *)
(* the one that listens and comes to its select.                            *)
newApiServer ==
    /\ mgr = "new" /\ mgr' = "select"
    /\ srv' = [srv EXCEPT ![start] = "select"]
    /\ lis' = [lis EXCEPT ![start] = "listen"]
    /\ UNCHANGED <<start, started, cacheGo, synced, signalled, stop, inner,
                   reqVars>>

(* Variant: without the deferred close. *)
StartReturnsOnly ==
    /\ mgr = "select"
    /\ (stop /\ mgr' = "stopped") \/ (signalled /\ mgr' = "failed")
    /\ UNCHANGED <<start, started, cacheGo, synced, signalled, stop, inner, srvVars,
                   reqVars>>

(* The select of Start and its deferred close: of a closed channel, the     *)
(* second time, which panics.                                               *)
StartReturns ==
    /\ mgr = "select"
    /\ \/ stop /\ mgr' = IF inner THEN "panicked" ELSE "stopped"
       \/ signalled /\ mgr' = IF inner THEN "panicked" ELSE "failed"
    /\ inner' = TRUE
    /\ UNCHANGED <<start, started, cacheGo, synced, signalled, stop, srvVars,
                   reqVars>>
-----------------------------------------------------------------------------
(* server.go *)

(* ListenAndServe binds the port, which one server may hold, or has an      *)
(* error to send, or finds the server shut down.                            *)
ListenAndServe(n) ==
    /\ \/ /\ lis[n] = "listen" /\ srv[n] = "select"
          /\ \A k \in Starts : lis[k] # "serve"
          /\ lis' = [lis EXCEPT ![n] = "serve"]
       \/ /\ lis[n] = "listen" /\ srv[n] = "select"
          /\ lis' = [lis EXCEPT ![n] = "send"]
       \/ /\ lis[n] \in {"listen", "serve"} /\ srv[n] # "select"
          /\ lis' = [lis EXCEPT ![n] = "ended"]
    /\ UNCHANGED <<mgrVars, srv, reqVars>>

(* A server that has listened for a while may fail, too. *)
ServeFails(n) ==
    /\ lis[n] = "serve" /\ srv[n] = "select"
    /\ lis' = [lis EXCEPT ![n] = "send"]
    /\ UNCHANGED <<mgrVars, srv, reqVars>>

(* The select of apiServer.Start.  Once it has taken the stop nobody        *)
(* receives from errChan, and a listener at "send" stays there.             *)
ServerStops(n) ==
    /\ srv[n] = "select" /\ inner
    /\ srv' = [srv EXCEPT ![n] = "shutdown"]
    /\ UNCHANGED <<mgrVars, lis, reqVars>>

(* Variant: the error is received and not returned. *)
ErrorNotReturned(n) ==
    /\ srv[n] = "select" /\ lis[n] = "send"
    /\ srv' = [srv EXCEPT ![n] = "ended"]
    /\ lis' = [lis EXCEPT ![n] = "ended"]
    /\ UNCHANGED <<mgrVars, reqVars>>

ServerFails(n) ==
    /\ srv[n] = "select" /\ lis[n] = "send"
    /\ srv' = [srv EXCEPT ![n] = "error"]
    /\ lis' = [lis EXCEPT ![n] = "ended"]
    /\ UNCHANGED <<mgrVars, reqVars>>

InFlight(n) == {r \in Requests : on[r] = n /\ req[r] \in Handling}

(* Shutdown(context.Background()) waits for the requests, without timeout.  *)
ShutdownReturns(n) ==
    /\ srv[n] = "shutdown" /\ InFlight(n) = {}
    /\ \E end \in {"ended", "error"} : srv' = [srv EXCEPT ![n] = end]
    /\ UNCHANGED <<mgrVars, lis, reqVars>>

ServerSignals(n) ==
    /\ srv[n] = "error"
    /\ srv' = [srv EXCEPT ![n] = "ended"]
    /\ SignalError
    /\ UNCHANGED <<start, started, cacheGo, synced, stop, inner, lis, reqVars>>
-----------------------------------------------------------------------------
(* endpoints: one request in its handler.  Its answer is final.             *)

Goes(r, next) == req' = [req EXCEPT ![r] = next]

(* A request for list or for create. *)
Accept(r, n) ==
    /\ req[r] = "none" /\ lis[n] = "serve" /\ srv[n] = "select"
    /\ Calls < MaxCalls
    /\ Goes(r, "list") \/ Goes(r, "read")
    /\ on' = [on EXCEPT ![r] = n]
    /\ UNCHANGED <<mgrVars, srvVars, made, unsure, objects>>

(* Variant: another status for a failed List. *)
listAnswers500(r) ==
    /\ req[r] = "list"
    /\ \E status \in {"listed", "500"} : Goes(r, status)
    /\ UNCHANGED <<mgrVars, srvVars, on, made, unsure, objects>>

(* list: 200 with what List found; an error of List, or of the write of its *)
(* result, is a 404.                                                        *)
list(r) ==
    /\ req[r] = "list"
    /\ \E status \in {"listed", "404"} : Goes(r, status)
    /\ UNCHANGED <<mgrVars, srvVars, on, made, unsure, objects>>

(* create, up to its List: the cache has a Running pod of the name          *)
(* SourcePod, or the answer is 400: the entity cannot be read, the name is  *)
(* empty, List fails or has no such pod.  Validate accepts everything.  The *)
(* cache lags, and nothing holds the pod until the object is made.          *)
FindSourcePod(r) ==
    /\ req[r] = "read"
    /\ Goes(r, "create") \/ Goes(r, "400")
    /\ UNCHANGED <<mgrVars, srvVars, on, made, unsure, objects>>

(* Variant: an error of Create is not looked at. *)
CreateUnchecked(r) ==
    /\ req[r] = "create"
    /\ Goes(r, "write")
    /\ \/ UNCHANGED <<made, objects>>
       \/ /\ NameOf[r] \notin objects
          /\ objects' = objects \cup {NameOf[r]} /\ made' = made \cup {r}
    /\ UNCHANGED <<mgrVars, srvVars, on, unsure>>

(* The object is stored; or Create fails, because there is one or for any   *)
(* other reason; or it is stored and the answer of the cluster is lost.     *)
CreateObject(r) ==
    /\ req[r] = "create"
    /\ \/ Goes(r, "400") /\ UNCHANGED <<made, unsure, objects>>
       \/ /\ NameOf[r] \notin objects
          /\ objects' = objects \cup {NameOf[r]} /\ made' = made \cup {r}
          /\ \/ Goes(r, "write") /\ UNCHANGED unsure
             \/ Goes(r, "400") /\ unsure' = unsure \cup {r}
    /\ UNCHANGED <<mgrVars, srvVars, on>>

WriteAsJson(r) ==
    /\ req[r] = "write"
    /\ \E status \in {"200", "422"} : Goes(r, status)
    /\ UNCHANGED <<mgrVars, srvVars, on, made, unsure, objects>>
-----------------------------------------------------------------------------
(* External: the caller of Start and the cache.  The cluster has no steps   *)
(* of its own: CreateObject may fail at any time.                           *)

StopClosed ==
    /\ mgr \in {"cache", "new", "select"} /\ stop' = TRUE
    /\ UNCHANGED <<start, mgr, started, cacheGo, synced, signalled, inner,
                   srvVars, reqVars>>

(* The caller may end the process, in the middle of a Shutdown too. *)
Exit ==
    /\ Returned /\ mgr' = "exited"
    /\ UNCHANGED <<start, started, cacheGo, synced, signalled, stop, inner,
                   srvVars, reqVars>>

CacheSyncs ==
    /\ cacheGo = "run" /\ ~synced
    /\ synced' = TRUE
    /\ UNCHANGED <<start, mgr, started, cacheGo, signalled, stop, inner, srvVars,
                   reqVars>>
-----------------------------------------------------------------------------
Manager   == Start \/ waitForCache \/ newApiServer \/ StartReturns
Cache     == CacheFails \/ CacheSignals
Server(n) == ServerStops(n) \/ ServerFails(n) \/ ShutdownReturns(n) \/ ServerSignals(n)
Handle(r) == list(r) \/ FindSourcePod(r) \/ CreateObject(r) \/ WriteAsJson(r)
Process   == \/ Manager \/ Cache \/ StopClosed \/ Exit \/ CacheSyncs
             \/ \E n \in Starts : Server(n) \/ ListenAndServe(n) \/ ServeFails(n)
             \/ \E r \in Requests : Handle(r) \/ \E n \in Starts : Accept(r, n)

Next == Alive /\ Process

Spec == Init /\ [][Next]_vars

(* Goroutines run while they can and handlers end.  Nothing is assumed of   *)
(* the caller, the cache, the cluster or the clients, and a server that     *)
(* serves need not fail.                                                    *)
FairSpec ==
    /\ Spec
    /\ WF_vars(Alive /\ (waitForCache \/ newApiServer \/ StartReturns))
    /\ \A n \in Starts : WF_vars(Alive /\ Server(n)) /\ WF_vars(Alive /\ ListenAndServe(n))
    /\ \A r \in Requests : WF_vars(Alive /\ Handle(r))
-----------------------------------------------------------------------------
(* Properties. *)

(* No request is served from a cache that has not synced, unless the cache  *)
(* could not be started: waitForCache comes before newApiServer.            *)
ServesSyncedCache ==
    \A r \in Requests : req[r] # "none" => synced \/ cacheGo \in {"error", "ended"}

(* A POST is answered 200 or 422 exactly when it has stored its object,     *)
(* also when several POSTs of one name run at once; only a Create whose     *)
(* answer was lost makes the endpoint say 400 for an object it has made.    *)
AnswersAreTrue ==
    \A r \in Requests : req[r] \in Status =>
        (req[r] \in {"200", "422"} <=> r \in made \ unsure)

(* A manager that is started once never panics: its errSignal is closed     *)
(* once, whichever of cache and server report, and so is internalStopper.   *)
OneStartNeverPanics == mgr = "panicked" => start > 1

(* When a Start is stopped, its server shuts down, with all its requests    *)
(* answered, unless the process is ended under it.                          *)
StopDrains ==
    \A n \in Starts :
        mgr = "select" /\ start = n /\ stop
            ~> ~Alive \/ (srv[n] = "ended" /\ InFlight(n) = {})

(* A server that cannot listen ends its Start: the error goes through       *)
(* errChan and the signaler, or a stop has come first.  Not so in a second  *)
(* Start: its server takes the old stop, and the error stays in errChan.    *)
ListenFailureEndsStart ==
    \A n \in Starts :
        lis[n] = "send" /\ start = n /\ mgr = "select" /\ ~inner ~> mgr # "select"
=============================================================================
