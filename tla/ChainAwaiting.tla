--------------------------- MODULE ChainAwaiting ---------------------------
(***************************************************************************)
(* Clients that wait for a chain (awaitChain of core/src/client.ts), the   *)
(* listener their subscriptions share (core/src/helpers/shared-listener.ts)*)
(* and the connection all channels share on PostgreSQL (postgres/src/      *)
(* notify-provider/notify-provider.pg-pool.ts).                            *)
(*                                                                         *)
(* A step is what the code does between two answers of a server or timers; *)
(* continuations that follow without one are joined.  All calls wait for   *)
(* one chain; the lock of the shared listener (module AsyncRwLock) is its  *)
(* holder.                                                                 *)
(***************************************************************************)
EXTENDS Naturals, Sequences

CONSTANTS
  Waiters,  \* awaitChain calls, listening on the channel of completions
  Others,   \* listeners of another channel, such as ownership lost
  NULL,
  Faults    \* what may fail: "connect", "query", "publish", "disconnect"

ASSUME ListenersDiffer == Waiters \cap Others = {} /\ NULL \notin Waiters \cup Others
ASSUME FaultsType == Faults \subseteq {"connect", "query", "publish", "disconnect"}

Listeners == Waiters \cup Others

Channels == {"completed", "other"}

ChannelOf(l) == IF l \in Waiters THEN "completed" ELSE "other"

VARIABLES
  chain,     \* "open", "completed" or "deleted"
  published, \* the completion's notification: "none", "pending" or "sent"
  mail,      \* whether it is on its way to the connection
  caller,    \* per listener, what it is doing
  shared,    \* per channel, its shared listener
  client,    \* listenClient: "none", "connecting", "attached", "broken" or, for a
             \* connectingPromise that was rejected, "rejected"
  handlers,  \* the channels of the provider's handlers map
  listened,  \* the channels the server sends to the client
  queue,     \* queryQueue
  faulty     \* ghost: whether something failed so far

vars == <<chain, published, mail, caller, shared, client, handlers, listened, queue, faulty>>

provider == <<client, handlers, listened, queue>>

Caller ==
  [pc : {"idle", "subscribe", "connect", "listen", "subscribed", "check", "decide",
         "sleep", "dispose", "unlisten", "done"},
   subscribed : BOOLEAN,   \* it has a function that unsubscribes
   notified : BOOLEAN,     \* notificationPromise is resolved
   aborted : BOOLEAN,      \* combinedSignal.aborted
   seen : {"open", "completed", "deleted"}]   \* what checkChain read

Shared ==
  [lock : Listeners \cup {NULL}, running : BOOLEAN, callbacks : SUBSET Listeners]

Query == [op : {"listen", "unlisten"}, by : Listeners]

Init ==
  /\ chain = "open" /\ published = "none" /\ mail = FALSE
  /\ caller = [l \in Listeners |->
                 [pc |-> "idle", subscribed |-> FALSE, notified |-> FALSE, aborted |-> FALSE,
                  seen |-> "open"]]
  /\ shared = [c \in Channels |-> [lock |-> NULL, running |-> FALSE, callbacks |-> {}]]
  /\ client = "none" /\ handlers = {} /\ listened = {} /\ queue = <<>>
  /\ faulty = FALSE

-----------------------------------------------------------------------------
At(l, pc) == caller[l].pc = pc

Goto(l, pc) == [caller EXCEPT ![l].pc = pc]

Fault(kind) == kind \in Faults /\ faulty' = TRUE

(* Where a listener goes on once it is, or failed to be, subscribed: the   *)
(* error of listenChainCompleted is swallowed.                             *)
AfterSubscribe(l, ok) ==
  [caller EXCEPT ![l].subscribed = ok,
                 ![l].pc = IF l \in Waiters THEN "check" ELSE IF ok THEN "subscribed" ELSE "idle"]

AfterDispose(l) ==
  [caller EXCEPT ![l].subscribed = FALSE, ![l].pc = IF l \in Waiters THEN "done" ELSE "idle"]

-----------------------------------------------------------------------------
(* The chain and the hooks of the transaction that completes it.           *)

Complete ==
  /\ chain = "open"
  /\ chain' = "completed" /\ published' = "pending"
  /\ UNCHANGED <<mail, caller, shared, provider, faulty>>

Delete ==
  /\ chain # "deleted" /\ chain' = "deleted"
  /\ UNCHANGED <<published, mail, caller, shared, provider, faulty>>

NotifyChainCompleted ==
  /\ published = "pending" /\ published' = "sent"
  /\ mail' = (client = "attached" /\ "completed" \in listened)
  /\ UNCHANGED <<chain, caller, shared, provider, faulty>>

LoseNotification ==
  /\ published = "pending" /\ published' = "sent"
  /\ Fault("publish")
  /\ UNCHANGED <<chain, mail, caller, shared, provider>>

(* The client emits "notification"; handler and dispatch call the          *)
(* callbacks of the chain.                                                 *)
Dispatch ==
  /\ mail /\ mail' = FALSE
  /\ LET heard == IF "completed" \in handlers /\ shared["completed"].running
                  THEN shared["completed"].callbacks ELSE {}
     IN  caller' = [l \in Listeners |->
                      IF l \in heard THEN [caller[l] EXCEPT !.notified = TRUE] ELSE caller[l]]
  /\ UNCHANGED <<chain, published, shared, provider, faulty>>

-----------------------------------------------------------------------------
(* subscribe of the shared listener.                                       *)

Start(l) ==
  /\ At(l, "idle")
  /\ caller' = Goto(l, "subscribe")
  /\ UNCHANGED <<chain, published, mail, shared, provider, faulty>>

(* The underlying subscription is open: the callback is added.             *)
Join(l) ==
  LET c == ChannelOf(l) IN
    /\ At(l, "subscribe") /\ shared[c].lock = NULL /\ shared[c].running
    /\ shared' = [shared EXCEPT ![c].callbacks = @ \cup {l}]
    /\ caller' = AfterSubscribe(l, TRUE)
    /\ UNCHANGED <<chain, published, mail, provider, faulty>>

(* handlers.set and enqueueQuery(LISTEN) for the listeners L, in any order.*)
Register(L, q) ==
  /\ handlers' = handlers \cup {ChannelOf(l) : l \in L}
  /\ \E new \in [1 .. 2 -> Listeners] :
       /\ {new[i] : i \in 1 .. 2} = L
       /\ queue' = q \o [i \in 1 .. (IF new[1] = new[2] THEN 1 ELSE 2) |->
                           [op |-> "listen", by |-> new[i]]]

(* It is not: open it, through ensureListenClient.                         *)
Open(l) ==
  LET c == ChannelOf(l) IN
    /\ At(l, "subscribe") /\ shared[c].lock = NULL /\ ~shared[c].running
    /\ \/ /\ client \in {"attached", "broken"}
          /\ Register({l}, queue)
          /\ shared' = [shared EXCEPT ![c].lock = l]
          /\ caller' = Goto(l, "listen")
          /\ UNCHANGED client
       \/ /\ client \in {"none", "connecting"}
          /\ client' = "connecting"
          /\ shared' = [shared EXCEPT ![c].lock = l]
          /\ caller' = Goto(l, "connect")
          /\ UNCHANGED <<handlers, queue>>
       \/ /\ client = "rejected"
          /\ caller' = AfterSubscribe(l, FALSE)
          /\ UNCHANGED <<shared, client, handlers, queue>>
    /\ UNCHANGED <<chain, published, mail, listened, faulty>>

(* pool.connect() answers; all who wait for it go on.                      *)
Connected ==
  /\ client = "connecting" /\ client' = "attached"
  /\ LET L == {l \in Listeners : At(l, "connect")} IN
       /\ Register(L, queue)
       /\ caller' = [l \in Listeners |->
                       IF l \in L THEN [caller[l] EXCEPT !.pc = "listen"] ELSE caller[l]]
  /\ UNCHANGED <<chain, published, mail, shared, listened, faulty>>

ConnectFails ==
  /\ client = "connecting" /\ client' = "rejected"
  /\ Fault("connect")
  /\ LET L == {l \in Listeners : At(l, "connect")} IN
       /\ caller' = [l \in Listeners |-> IF l \in L THEN AfterSubscribe(l, FALSE)[l] ELSE caller[l]]
       /\ shared' = [c \in Channels |->
                       IF shared[c].lock \in L THEN [shared[c] EXCEPT !.lock = NULL] ELSE shared[c]]
  /\ UNCHANGED <<chain, published, mail, handlers, listened, queue>>

(* The server closes the connection; the provider does not notice.         *)
Disconnect ==
  /\ client = "attached" /\ client' = "broken"
  /\ Fault("disconnect")
  /\ listened' = {} /\ mail' = FALSE
  /\ UNCHANGED <<chain, published, caller, shared, handlers, queue>>

-----------------------------------------------------------------------------
(* Answers to the queries, and what follows them.                          *)

HeadIs(op) == queue # <<>> /\ Head(queue).op = op

(* LISTEN is done: the shared listener runs, its lock is released.         *)
Listened ==
  /\ HeadIs("listen") /\ client = "attached"
  /\ LET l == Head(queue).by
         c == ChannelOf(l)
     IN  /\ listened' = listened \cup {c}
         /\ shared' = [shared EXCEPT ![c] = [lock |-> NULL, running |-> TRUE, callbacks |-> {l}]]
         /\ caller' = AfterSubscribe(l, TRUE)
  /\ queue' = Tail(queue)
  /\ UNCHANGED <<chain, published, mail, client, handlers, faulty>>

(* LISTEN fails: the handler stays in the map.                             *)
ListenFails ==
  /\ HeadIs("listen")
  /\ client = "attached" => "query" \in Faults
  /\ faulty' = TRUE
  /\ LET l == Head(queue).by IN
       /\ shared' = [shared EXCEPT ![ChannelOf(l)].lock = NULL]
       /\ caller' = AfterSubscribe(l, FALSE)
  /\ queue' = Tail(queue)
  /\ UNCHANGED <<chain, published, mail, client, handlers, listened>>

ReleasesAlways(H) == TRUE               \* mutation: does not look at the handlers left

(* The connection is released with the last handler.                       *)
Releases(H) == H = {}

(* UNLISTEN is done, or fails; if another channel was faster, it was sent  *)
(* on a connection that is released already.                               *)
Unlistened ==
  /\ HeadIs("unlisten")
  /\ LET l == Head(queue).by
         c == ChannelOf(l)
         release == Releases(handlers) /\ client \in {"attached", "broken"}
     IN  /\ \/ client # "broken" /\ UNCHANGED faulty
            \/ (client = "broken" \/ "query" \in Faults) /\ faulty' = TRUE
         /\ client' = IF release THEN "none" ELSE client
         /\ listened' = IF release THEN {} ELSE IF faulty' THEN listened ELSE listened \ {c}
         /\ mail' = (mail /\ ~release)
         /\ shared' = [shared EXCEPT ![c].lock = NULL]
         /\ caller' = AfterDispose(l)
  /\ queue' = Tail(queue)
  /\ UNCHANGED <<chain, published, handlers>>

-----------------------------------------------------------------------------
(* The loop of awaitChain.                                                 *)

CheckChain(w) ==
  /\ At(w, "check")
  /\ caller' = [caller EXCEPT ![w].pc = "decide", ![w].seen = chain]
  /\ UNCHANGED <<chain, published, mail, shared, provider, faulty>>

DecideAndReset(w) ==                    \* mutation: renews the promise after the check
  /\ At(w, "decide")
  /\ caller' = [caller EXCEPT ![w].seen = "open", ![w].notified = FALSE,
       ![w].pc = IF caller[w].seen # "open" \/ caller[w].aborted THEN "dispose" ELSE "sleep"]
  /\ UNCHANGED <<chain, published, mail, shared, provider, faulty>>

DecideOnChain(w) ==                     \* mutation: looks at the chain only
  /\ At(w, "decide")
  /\ caller' = [caller EXCEPT ![w].seen = "open",
                              ![w].pc = IF caller[w].seen # "open" THEN "dispose" ELSE "sleep"]
  /\ UNCHANGED <<chain, published, mail, shared, provider, faulty>>

(* The call ends with the chain, with an error when there is none, or with *)
(* a timeout, which comes after a last look; else it goes to sleep.        *)
Decide(w) ==
  /\ At(w, "decide")
  /\ caller' = [caller EXCEPT ![w].seen = "open",
       ![w].pc = IF caller[w].seen # "open" \/ caller[w].aborted THEN "dispose" ELSE "sleep"]
  /\ UNCHANGED <<chain, published, mail, shared, provider, faulty>>

(* raceWithSleep returns, and the promise is renewed.  Without a           *)
(* notification it is the poll interval that ended it, or the signal.      *)
Wake(w) ==
  /\ At(w, "sleep")
  /\ caller' = [caller EXCEPT ![w].pc = "check", ![w].notified = FALSE]
  /\ UNCHANGED <<chain, published, mail, shared, provider, faulty>>

Timeout(w) ==
  /\ w \in Waiters /\ ~caller[w].aborted /\ ~At(w, "idle") /\ ~At(w, "done")
  /\ caller' = [caller EXCEPT ![w].aborted = TRUE]
  /\ UNCHANGED <<chain, published, mail, shared, provider, faulty>>

Leave(l) ==
  /\ At(l, "subscribed")
  /\ caller' = Goto(l, "dispose")
  /\ UNCHANGED <<chain, published, mail, shared, provider, faulty>>

IsLastTooEarly(C, l) == C = {}          \* mutation: counts before it deletes

IsLast(C, l) == C \subseteq {l}

(* The function listenChainCompleted returned: the last to leave tears the *)
(* underlying subscription down.                                           *)
Dispose(l) ==
  LET c == ChannelOf(l) IN
    /\ At(l, "dispose")
    /\ \/ /\ ~caller[l].subscribed
          /\ caller' = AfterDispose(l)
          /\ UNCHANGED <<shared, handlers, queue>>
       \/ /\ caller[l].subscribed /\ shared[c].lock = NULL
          /\ ~IsLast(shared[c].callbacks, l)
          /\ shared' = [shared EXCEPT ![c].callbacks = @ \ {l}]
          /\ caller' = AfterDispose(l)
          /\ UNCHANGED <<handlers, queue>>
       \/ /\ caller[l].subscribed /\ shared[c].lock = NULL
          /\ IsLast(shared[c].callbacks, l)
          /\ shared' = [shared EXCEPT ![c] = [lock |-> l, running |-> FALSE, callbacks |-> {}]]
          /\ handlers' = handlers \ {c}
          /\ queue' = Append(queue, [op |-> "unlisten", by |-> l])
          /\ caller' = Goto(l, "unlisten")
    /\ UNCHANGED <<chain, published, mail, client, listened, faulty>>

-----------------------------------------------------------------------------
Answer == Listened \/ ListenFails \/ Unlistened

Subscribing(l) == Join(l) \/ Open(l)

Next ==
  \/ Complete \/ Delete \/ NotifyChainCompleted \/ LoseNotification \/ Dispatch
  \/ Connected \/ ConnectFails \/ Disconnect
  \/ Listened \/ ListenFails \/ Unlistened
  \/ \E l \in Listeners : Start(l) \/ Join(l) \/ Open(l) \/ Leave(l) \/ Dispose(l)
  \/ \E w \in Waiters : CheckChain(w) \/ Decide(w) \/ Wake(w) \/ Timeout(w)

Spec == Init /\ [][Next]_vars

(* Pool and server answer, timers fire, and the lock of the shared         *)
(* listener, first come first served, is had some time.  Nothing is        *)
(* assumed of chains, notifications and other listeners.                   *)
Fairness ==
  /\ WF_vars(Connected \/ ConnectFails) /\ WF_vars(Answer)
  /\ \A w \in Waiters :
       /\ WF_vars(CheckChain(w) \/ Decide(w) \/ Wake(w)) /\ WF_vars(Timeout(w))
       /\ SF_vars(Subscribing(w)) /\ SF_vars(Dispose(w))

FairSpec == Spec /\ Fairness

-----------------------------------------------------------------------------
(* Properties.                                                             *)

(* As long as nothing fails, the completion of a chain is not left to the  *)
(* poll interval: once it is published, a call that sleeps has its         *)
(* notification or will get it.  Subscription, check, renewed promise and  *)
(* shared connection must fit for it.                                      *)
NoCompletionMissed ==
  ~faulty /\ chain = "completed" /\ published = "sent" =>
    \A w \in Waiters : At(w, "sleep") => mail \/ caller[w].notified \/ caller[w].aborted

(* A shared listener that runs is heard: however the listeners of two      *)
(* channels come and go, the connection they share stays and listens.      *)
RunningIsHeard ==
  ~faulty => \A c \in Channels : shared[c].running =>
    c \in handlers /\ c \in listened /\ client = "attached"

(* When nobody listens, the connection is back in the pool.                *)
ConnectionReturned ==
  ~faulty /\ (\A l \in Listeners : At(l, "idle") \/ At(l, "done")) => client = "none"

(* Every awaitChain ends, whatever connections, queries and notifications  *)
(* are lost, with the lock that all calls share in between.                *)
AwaitEnds == \A w \in Waiters : At(w, "subscribe") ~> At(w, "done")
=============================================================================
