----------------------------- MODULE AIRequests -----------------------------
(***************************************************************************)
(* The admission of generation requests by the AI runtime (Manager in      *)
(* internal/ai/runtime.go).  Every request, whether it comes from a chat,  *)
(* a stream or a background task, takes one of a limited number of runtime *)
(* slots, chooses a provider, takes one of that provider's places, and is  *)
(* then sent.  Requests wait on a channel that is closed whenever a slot   *)
(* may have become free; the limits, the privacy mode and the providers    *)
(* may be changed while they wait.                                         *)
(*                                                                         *)
(* Each action is what happens under one acquisition of the manager's      *)
(* mutex, one channel operation or one call of a provider.  Prompts,       *)
(* models, credentials and the providers' answers are left out.            *)
(***************************************************************************)
EXTENDS Naturals, FiniteSets

CONSTANTS
    Request,      \* generation requests, each used once
    Local,        \* providers on this machine
    Remote,       \* providers elsewhere
    Sensitive,    \* the requests marked privacy-sensitive
    Streaming,    \* the requests that are streamed: they have no fallback
    Limits,       \* the values MaxConcurrent may be given
    QueueSizes,   \* the values MaxQueued may be given
    Places,       \* provider -> its own MaxConcurrent
    MaxRebuilds,  \* bound: how often the providers are reconfigured
    None

Provider == Local \cup Remote

ASSUME RequestsAssumption ==
    /\ IsFiniteSet(Request)
    /\ Local \cap Remote = {}
    /\ None \notin Provider
    /\ Limits \subseteq Nat \ {0} /\ Limits # {}
    /\ QueueSizes \subseteq Nat /\ QueueSizes # {}
    /\ Places \in [Provider -> Nat \ {0}]
    /\ MaxRebuilds \in Nat

VARIABLES
    mode,        \* "local_only": no remote inference; or "cloud_allowed"
    limit,       \* Config.MaxConcurrent
    queueSize,   \* Config.MaxQueued
    slots,       \* len(requestSlots)
    waiters,     \* requestWaiters
    phase,       \* request -> where it is
    context,     \* request -> "live", or "dead": cancelled or past the deadline
                 \* of its caller or of an attempt
    snapshot,    \* request -> the mode when it was routed
    primary,     \* request -> the provider selected for it
    target,      \* request -> the provider it is tried with
    tried,       \* request -> the providers it has been tried with
    rebuilds,    \* how many times the semaphores were made anew
    semaphore,   \* request -> the generation of the semaphore it looked up
    tokens,      \* provider, generation -> len of that semaphore's channel
    overtaken    \* history, read by no code: the requests cleared for a remote
                 \* provider before the mode in force forbade it

vars == <<mode, limit, queueSize, slots, waiters, phase, context, snapshot,
          primary, target, tried, rebuilds, semaphore, tokens, overtaken>>

configVars == <<mode, limit, queueSize>>

counters == <<slots, waiters>>

routeVars == <<snapshot, primary, target, tried, semaphore>>

placeVars == <<tokens, overtaken>>

\* "asking": about to lock the manager; "waiting": asleep on the channel;
\* "woken": the channel was closed, about to lock again; from "routing" on the
\* request holds a slot, from "admitted" to "sent" also a place; "cleared": the
\* policy was checked for the last time, the provider not yet called;
\* "answered", "failed": the place was given back, the slot not yet.
Phase == {"new", "asking", "waiting", "woken", "routing", "checking", "capacity",
          "admitted", "cleared", "sent", "answered", "failed", "done"}

WithPlace == {"admitted", "cleared", "sent"}

Holding == {"routing", "checking", "capacity", "answered", "failed"} \cup WithPlace

Generation == 0 .. MaxRebuilds

Holders == {c \in Request : phase[c] \in Holding}

Waiting == {c \in Request : phase[c] \in {"waiting", "woken"}}

PlaceHolders(p, g) ==
    {c \in Request : phase[c] \in WithPlace /\ target[c] = p /\ semaphore[c] = g}

AtRemote == {c \in Request : phase[c] \in {"cleared", "sent"} /\ target[c] \in Remote}

\* checkProviderExecutionPolicy, under the mode of the moment.
Allowed(c, p) == p \in Local \/ (mode = "cloud_allowed" /\ c \notin Sensitive)

Init ==
    /\ mode \in {"local_only", "cloud_allowed"}
    /\ limit \in Limits
    /\ queueSize \in QueueSizes
    /\ slots = 0
    /\ waiters = 0
    /\ phase = [c \in Request |-> "new"]
    /\ context = [c \in Request |-> "live"]
    /\ snapshot = [c \in Request |-> "local_only"]
    /\ primary = [c \in Request |-> None]
    /\ target = [c \in Request |-> None]
    /\ tried = [c \in Request |-> {}]
    /\ rebuilds = 0
    /\ semaphore = [c \in Request |-> 0]
    /\ tokens = [s \in Provider \X Generation |-> 0]
    /\ overtaken = {}

\* notifyRequestWaitersLocked, applied to the phases ph: the channel is closed
\* and everyone asleep on it wakes.
NobodyNotified(ph) == ph

Notified(ph) == [c \in Request |-> IF ph[c] = "waiting" THEN "woken" ELSE ph[c]]

-----------------------------------------------------------------------------
(* acquireRuntimeSlot                                                      *)

Arrive(c) ==
    /\ phase[c] = "new"
    /\ phase' = [phase EXCEPT ![c] = "asking"]
    /\ UNCHANGED <<configVars, counters, context, routeVars, rebuilds, placeVars>>

\* A free slot is taken whether or not the context is still live, by whoever
\* locks the manager first.
FreeSlotOrOne == slots <= limit

FreeSlot == slots < limit

TakeSlot(c) ==
    /\ phase[c] \in {"asking", "woken"}
    /\ FreeSlot
    /\ slots' = slots + 1
    /\ waiters' = IF phase[c] = "woken" THEN waiters - 1 ELSE waiters
    /\ phase' = [phase EXCEPT ![c] = "routing"]
    /\ UNCHANGED <<configVars, context, routeVars, rebuilds, placeVars>>

JoinWaiters(c) ==
    /\ phase[c] = "asking"
    /\ ~FreeSlot
    /\ waiters < queueSize
    /\ waiters' = waiters + 1
    /\ phase' = [phase EXCEPT ![c] = "waiting"]
    /\ UNCHANGED <<configVars, slots, context, routeVars, rebuilds, placeVars>>

QueueFull(c) ==
    /\ phase[c] = "asking"
    /\ ~FreeSlot
    /\ waiters >= queueSize
    /\ phase' = [phase EXCEPT ![c] = "done"]
    /\ UNCHANGED <<configVars, counters, context, routeVars, rebuilds, placeVars>>

\* Somebody else was faster: sleep on the next channel.
SleepAgain(c) ==
    /\ phase[c] = "woken"
    /\ ~FreeSlot
    /\ phase' = [phase EXCEPT ![c] = "waiting"]
    /\ UNCHANGED <<configVars, counters, context, routeVars, rebuilds, placeVars>>

\* The channel and the context may both be ready: either branch is taken.
AbandonWaitUncounted(c) ==
    /\ c \in Waiting
    /\ context[c] = "dead"
    /\ phase' = [phase EXCEPT ![c] = "done"]
    /\ UNCHANGED <<configVars, counters, context, routeVars, rebuilds, placeVars>>

AbandonWait(c) ==
    /\ c \in Waiting
    /\ context[c] = "dead"
    /\ waiters' = waiters - 1
    /\ phase' = [phase EXCEPT ![c] = "done"]
    /\ UNCHANGED <<configVars, slots, context, routeVars, rebuilds, placeVars>>

\* The request returns, with an answer or an error: its slot is given back,
\* which wakes the waiters.
Release(c) ==
    /\ slots' = slots - 1
    /\ phase' = Notified([phase EXCEPT ![c] = "done"])
    /\ UNCHANGED <<configVars, waiters, context, routeVars, rebuilds, placeVars>>

-----------------------------------------------------------------------------
(* Generate, Stream and generateWith                                       *)

\* routingSnapshot and selectProvider: the choice is made on a copy of the
\* configuration.
Route(c, p) ==
    /\ phase[c] = "routing"
    /\ p \in Local \/ mode = "cloud_allowed"
    /\ snapshot' = [snapshot EXCEPT ![c] = mode]
    /\ primary' = [primary EXCEPT ![c] = p]
    /\ target' = [target EXCEPT ![c] = p]
    /\ tried' = [tried EXCEPT ![c] = {p}]
    /\ phase' = [phase EXCEPT ![c] = "checking"]
    /\ UNCHANGED <<configVars, counters, context, semaphore, rebuilds, placeVars>>

\* No provider or model can be selected.
NoRoute(c) == phase[c] = "routing" /\ Release(c)

\* The policy is checked for the first time and the provider's semaphore looked
\* up, each under the lock; the second check makes up for a change in between.
CheckPolicy(c) ==
    /\ phase[c] = "checking"
    /\ Allowed(c, target[c])
    /\ semaphore' = [semaphore EXCEPT ![c] = rebuilds]
    /\ phase' = [phase EXCEPT ![c] = "capacity"]
    /\ UNCHANGED <<configVars, counters, context, snapshot, primary, target, tried, rebuilds, placeVars>>

\* The policy refuses, or the context ends while waiting for a place: the
\* attempt fails and holds no place.
Refused(c) ==
    /\ \/ phase[c] = "checking" /\ ~Allowed(c, target[c])
       \/ phase[c] = "capacity" /\ context[c] = "dead"
    /\ phase' = [phase EXCEPT ![c] = "failed"]
    /\ UNCHANGED <<configVars, counters, context, routeVars, rebuilds, placeVars>>

\* A send on the channel of the semaphore that was looked up, which blocks while
\* that channel is full.
TakePlace(c) ==
    /\ phase[c] = "capacity"
    /\ tokens[<<target[c], semaphore[c]>>] < Places[target[c]]
    /\ tokens' = [tokens EXCEPT ![<<target[c], semaphore[c]>>] = @ + 1]
    /\ phase' = [phase EXCEPT ![c] = "admitted"]
    /\ UNCHANGED <<configVars, counters, context, routeVars, rebuilds, overtaken>>

\* The deferred receive, from the channel that was sent on, which would block on
\* an empty one.
GiveBackToNewest(c) ==
    /\ tokens[<<target[c], rebuilds>>] > 0
    /\ tokens' = [tokens EXCEPT ![<<target[c], rebuilds>>] = @ - 1]

GiveBack(c) ==
    /\ tokens[<<target[c], semaphore[c]>>] > 0
    /\ tokens' = [tokens EXCEPT ![<<target[c], semaphore[c]>>] = @ - 1]

EndAttempt(c, f) ==
    /\ GiveBack(c)
    /\ overtaken' = overtaken \ {c}
    /\ phase' = [phase EXCEPT ![c] = f]
    /\ UNCHANGED <<configVars, counters, context, routeVars, rebuilds>>

\* The policy is checked once more after the wait.
CheckNotAgain(c) ==
    /\ phase[c] = "admitted"
    /\ phase' = [phase EXCEPT ![c] = "cleared"]
    /\ UNCHANGED <<configVars, counters, context, routeVars, rebuilds, placeVars>>

CheckAgain(c) ==
    /\ phase[c] = "admitted"
    /\ Allowed(c, target[c])
    /\ phase' = [phase EXCEPT ![c] = "cleared"]
    /\ UNCHANGED <<configVars, counters, context, routeVars, rebuilds, placeVars>>

RefusedAgain(c) ==
    /\ phase[c] = "admitted"
    /\ ~Allowed(c, target[c])
    /\ EndAttempt(c, "failed")

\* The provider is called after the lock was taken once more, to look up the
\* model, and a stream has reported its start.  Nothing is checked here.
Send(c) ==
    /\ phase[c] = "cleared"
    /\ phase' = [phase EXCEPT ![c] = "sent"]
    /\ UNCHANGED <<configVars, counters, context, routeVars, rebuilds, placeVars>>

\* The start of a stream cannot be delivered.
StartUndelivered(c) == phase[c] = "cleared" /\ c \in Streaming /\ EndAttempt(c, "failed")

CallEnds(c, f) == phase[c] = "sent" /\ EndAttempt(c, f)

\* Providers of the other kind than the one selected, when the mode of the
\* snapshot permits both kinds.
FallbackForAgain(c) ==
    IF snapshot[c] = "local_only" \/ c \in Sensitive \cup Streaming
    THEN {}
    ELSE (IF primary[c] \in Local THEN Remote ELSE Local)

FallbackFor(c) ==
    IF snapshot[c] = "local_only" \/ c \in Sensitive \cup Streaming
    THEN {}
    ELSE (IF primary[c] \in Local THEN Remote ELSE Local) \ tried[c]

Fallback(c, q) ==
    /\ phase[c] = "failed"
    /\ q \in FallbackFor(c)
    /\ target' = [target EXCEPT ![c] = q]
    /\ tried' = [tried EXCEPT ![c] = @ \cup {q}]
    /\ phase' = [phase EXCEPT ![c] = "checking"]
    /\ UNCHANGED <<configVars, counters, context, snapshot, primary, semaphore, rebuilds, placeVars>>

\* Whether fallback is enabled is another setting: the request may also end
\* with the first error.
Return(c) == phase[c] \in {"answered", "failed"} /\ Release(c)

-----------------------------------------------------------------------------
(* What happens around the requests                                        *)

\* The caller leaves or a deadline passes.
Expire(c) ==
    /\ phase[c] \notin {"new", "done"}
    /\ context[c] = "live"
    /\ context' = [context EXCEPT ![c] = "dead"]
    /\ UNCHANGED <<configVars, counters, phase, routeVars, rebuilds, placeVars>>

UpdateRuntimeConfig(m, l, q) ==
    /\ mode' = m
    /\ limit' = l
    /\ queueSize' = q
    /\ phase' = Notified(phase)
    /\ overtaken' = CASE m = "cloud_allowed" -> {}
                      [] m # mode -> AtRemote
                      [] OTHER -> overtaken
    /\ UNCHANGED <<counters, context, routeVars, rebuilds, tokens>>

\* UpsertProvider: rebuildProvidersLocked makes new, empty semaphores for all
\* providers; requests that hold or await a place keep the old ones.
UpsertProvider ==
    /\ rebuilds < MaxRebuilds
    /\ rebuilds' = rebuilds + 1
    /\ UNCHANGED <<configVars, counters, phase, context, routeVars, placeVars>>

Step(c) ==
    \/ TakeSlot(c) \/ JoinWaiters(c) \/ QueueFull(c) \/ SleepAgain(c) \/ AbandonWait(c)
    \/ NoRoute(c) \/ CheckPolicy(c) \/ Refused(c) \/ TakePlace(c)
    \/ CheckAgain(c) \/ RefusedAgain(c) \/ Send(c) \/ StartUndelivered(c)
    \/ Return(c)
    \/ \E p \in Provider : Route(c, p) \/ Fallback(c, p)
    \/ \E f \in {"answered", "failed"} : CallEnds(c, f)

Environment ==
    \/ \E c \in Request : Arrive(c) \/ Expire(c)
    \/ \E m \in {"local_only", "cloud_allowed"}, l \in Limits, q \in QueueSizes :
          UpdateRuntimeConfig(m, l, q)
    \/ UpsertProvider

Next == (\E c \in Request : Step(c)) \/ Environment

\* Every context has a deadline, every call to a provider a time-out, and a
\* select on an ended context does not prefer the other channel for ever.
Fairness ==
    \A c \in Request : WF_vars(Step(c)) /\ WF_vars(AbandonWait(c)) /\ WF_vars(Expire(c))

Spec == Init /\ [][Next]_vars

FairSpec == Spec /\ Fairness

-----------------------------------------------------------------------------
(* Properties                                                              *)

TypeOK ==
    /\ mode \in {"local_only", "cloud_allowed"}
    /\ limit \in Limits
    /\ queueSize \in QueueSizes
    /\ slots \in Nat
    /\ waiters \in Nat
    /\ phase \in [Request -> Phase]
    /\ context \in [Request -> {"live", "dead"}]
    /\ snapshot \in [Request -> {"local_only", "cloud_allowed"}]
    /\ primary \in [Request -> Provider \cup {None}]
    /\ target \in [Request -> Provider \cup {None}]
    /\ tried \in [Request -> SUBSET Provider]
    /\ rebuilds \in Generation
    /\ semaphore \in [Request -> Generation]
    /\ tokens \in [Provider \X Generation -> Nat]
    /\ overtaken \subseteq Request
    /\ \A c \in Request : phase[c] \in Holding \ {"routing"} => target[c] \in Provider

\* No slot and no waiter is ever lost or counted twice, whichever way requests
\* leave: answered, refused, timed out in the queue, woken and too late
\* (acquireRuntimeSlot and the release it returns).
CountersExact ==
    /\ slots = Cardinality(Holders)
    /\ waiters = Cardinality(Waiting)

\* No lost wake-up: while a slot is free nobody is left asleep, whatever freed
\* it: a request that ended or a raised limit (notifyRequestWaitersLocked).
NobodySleepsBesideAFreeSlot == slots < limit => \A c \in Request : phase[c] # "waiting"

\* Requests are admitted only within the limits then in force: a lowered limit
\* lets those beyond it finish and admits nobody until they have
\* (TestRuntimeBoundsDirectGenerationConcurrency, for one limit).
AdmittedWithinLimits ==
    [][/\ Cardinality(Holders') > Cardinality(Holders) => Cardinality(Holders') <= limit'
       /\ Cardinality(Waiting') > Cardinality(Waiting) => Cardinality(Waiting') <= queueSize']_vars

\* Once the mode forbids it nobody new comes to a remote provider, however long
\* it waited for a slot or a place, and whichever copy of the configuration it
\* was routed or falls back with: only who had passed generateWith's second
\* check before the mode changed may still be on the way or there.  A sensitive
\* request never is.
OnlyOvertakenAtRemote ==
    /\ mode = "local_only" => AtRemote \subseteq overtaken
    /\ AtRemote \cap Sensitive = {}

\* No place is lost, given back twice or given back to another semaphore than
\* it was taken from, whichever way attempts end and however often the
\* semaphores are replaced meanwhile: each channel counts those who hold its
\* places, and no more than it has.
PlacesExact ==
    \A p \in Provider, g \in Generation :
       /\ tokens[<<p, g>>] = Cardinality(PlaceHolders(p, g))
       /\ tokens[<<p, g>>] <= Places[p]

\* Nobody waits for ever: a request ends although slots are taken by whoever
\* comes first, holders of a slot wait for a provider's place, a refused or
\* failed attempt starts another, and the mode changes.
EveryRequestEnds ==
    \A c \in Request : phase[c] = "asking" ~> phase[c] = "done"
=============================================================================
