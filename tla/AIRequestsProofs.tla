-------------------------- MODULE AIRequestsProofs --------------------------
(***************************************************************************)
(* The counters of the AI runtime are exact, no wake-up is lost, admission *)
(* respects the limits, the places of the providers are exact and nobody   *)
(* new comes to a forbidden provider, for any finite number of requests    *)
(* and any providers, limits and places; and a request carries no more     *)
(* text than the runtime accepts, the pages it translates are cut and      *)
(* merged without loss, and the answer is shown and checked as it should   *)
(* be, for any texts, answers and limits.                                  *)
(***************************************************************************)
EXTENDS AIRequests, TextPieces, FiniteSetTheorems, SequenceTheorems, WellFoundedInduction, TLAPS

IInv ==
    /\ TypeOK
    /\ CountersExact
    /\ NobodySleepsBesideAFreeSlot
    /\ PlacesExact
    /\ OnlyOvertakenAtRemote

-----------------------------------------------------------------------------
(* The phases that count                                                   *)

LEMMA SetsAreFinite ==
    /\ IsFiniteSet(Holders) /\ Cardinality(Holders) \in Nat
    /\ IsFiniteSet(Waiting) /\ Cardinality(Waiting) \in Nat
<1>1. Holders \subseteq Request /\ Waiting \subseteq Request
  BY DEF Holders, Waiting
<1>2. IsFiniteSet(Request)
  BY RequestsAssumption
<1>3. IsFiniteSet(Holders) /\ IsFiniteSet(Waiting)
  BY <1>1, <1>2, FS_Subset
<1> QED BY <1>3, FS_CardinalityType

\* One request changes phase and the sleepers may be woken with it: the
\* holders and the waiters change by that request only.
LEMMA OnePhaseChanges ==
    ASSUME TypeOK, NEW c \in Request, NEW f,
           \/ phase' = [phase EXCEPT ![c] = f]
           \/ phase' = Notified([phase EXCEPT ![c] = f]) /\ f = "done"
    PROVE  /\ Holders' = IF f \in Holding THEN Holders \cup {c} ELSE Holders \ {c}
           /\ Waiting' = IF f \in {"waiting", "woken"} THEN Waiting \cup {c} ELSE Waiting \ {c}
<1>1. phase'[c] = f
  BY DEF TypeOK, Notified
<1>2. \A d \in Request : d # c =>
         \/ phase'[d] = phase[d]
         \/ phase[d] = "waiting" /\ phase'[d] = "woken"
  BY DEF TypeOK, Notified
<1> QED BY <1>1, <1>2 DEF Holders, Waiting, Holding, WithPlace

LEMMA AddOne ==
    ASSUME NEW S, IsFiniteSet(S), NEW x, x \notin S
    PROVE  Cardinality(S \cup {x}) = Cardinality(S) + 1
BY FS_AddElement

LEMMA TakeOne ==
    ASSUME NEW S, IsFiniteSet(S), NEW x, x \in S
    PROVE  /\ Cardinality(S \ {x}) = Cardinality(S) - 1
           /\ Cardinality(S) > 0
<1>1. Cardinality(S \ {x}) = Cardinality(S) - 1
  BY FS_RemoveElement
<1>2. IsFiniteSet(S \ {x})
  BY FS_RemoveElement
<1>3. Cardinality(S \ {x}) \in Nat /\ Cardinality(S) \in Nat
  BY <1>2, FS_CardinalityType
<1> QED BY <1>1, <1>3

-----------------------------------------------------------------------------
(* The counters                                                            *)

\* What a request in phase f adds to each counter.
HoldsOne(f) == IF f \in Holding THEN 1 ELSE 0

WaitsOne(f) == IF f \in {"waiting", "woken"} THEN 1 ELSE 0

\* A step that moves each counter by the difference of the two phases keeps
\* both exact.
LEMMA Counted ==
    ASSUME IInv, NEW c \in Request, NEW f,
           \/ phase' = [phase EXCEPT ![c] = f]
           \/ phase' = Notified([phase EXCEPT ![c] = f]) /\ f = "done",
           slots' = slots + HoldsOne(f) - HoldsOne(phase[c]),
           waiters' = waiters + WaitsOne(f) - WaitsOne(phase[c])
    PROVE  CountersExact' /\ slots' \in Nat /\ waiters' \in Nat
<1> USE DEF IInv, CountersExact
<1>1. /\ Holders' = IF f \in Holding THEN Holders \cup {c} ELSE Holders \ {c}
      /\ Waiting' = IF f \in {"waiting", "woken"} THEN Waiting \cup {c} ELSE Waiting \ {c}
  BY OnePhaseChanges
<1>2. ASSUME NEW S, IsFiniteSet(S), Cardinality(S) \in Nat, NEW n, n = Cardinality(S),
             NEW B \in BOOLEAN, NEW T, T = IF B THEN S \cup {c} ELSE S \ {c},
             NEW m, m = n + (IF B /\ c \notin S THEN 1 ELSE 0)
                          - (IF ~B /\ c \in S THEN 1 ELSE 0)
      PROVE  m = Cardinality(T) /\ m \in Nat
  <2>1. CASE B /\ c \notin S
    BY <1>2, <2>1, AddOne
  <2>2. CASE ~B /\ c \in S
    BY <1>2, <2>2, TakeOne
  <2>3. CASE (B /\ c \in S) \/ (~B /\ c \notin S)
    <3>1. T = S
      BY <1>2, <2>3
    <3>2. m = n
      BY <1>2, <2>3
    <3> QED BY <1>2, <3>1, <3>2
  <2> QED BY <2>1, <2>2, <2>3
<1>3. slots' = Cardinality(Holders') /\ slots' \in Nat
  <2>0. slots \in Nat /\ waiters \in Nat
    BY DEF TypeOK
  <2> DEFINE B == f \in Holding
  <2>1. B \in BOOLEAN
    OBVIOUS
  <2>2. Holders' = IF B THEN Holders \cup {c} ELSE Holders \ {c}
    BY <1>1
  <2>3. slots = Cardinality(Holders)
    OBVIOUS
  <2>4. slots' = slots + (IF B /\ c \notin Holders THEN 1 ELSE 0)
                       - (IF ~B /\ c \in Holders THEN 1 ELSE 0)
    BY <2>0 DEF HoldsOne, Holders
  <2> HIDE DEF B, IInv, CountersExact
  <2> QED BY <1>2, <2>1, <2>2, <2>3, <2>4, SetsAreFinite
<1>4. waiters' = Cardinality(Waiting') /\ waiters' \in Nat
  <2>0. slots \in Nat /\ waiters \in Nat
    BY DEF TypeOK
  <2> DEFINE B == f \in {"waiting", "woken"}
  <2>1. B \in BOOLEAN
    OBVIOUS
  <2>2. Waiting' = IF B THEN Waiting \cup {c} ELSE Waiting \ {c}
    BY <1>1
  <2>3. waiters = Cardinality(Waiting)
    OBVIOUS
  <2>4. waiters' = waiters + (IF B /\ c \notin Waiting THEN 1 ELSE 0)
                           - (IF ~B /\ c \in Waiting THEN 1 ELSE 0)
    BY <2>0 DEF WaitsOne, Waiting
  <2> HIDE DEF B, IInv, CountersExact
  <2> QED BY <1>2, <2>1, <2>2, <2>3, <2>4, SetsAreFinite
<1> QED BY <1>3, <1>4

-----------------------------------------------------------------------------
(* The invariant                                                           *)

LEMMA IInvInit == Init => IInv
<1> SUFFICES ASSUME Init PROVE IInv
  OBVIOUS
<1>1. TypeOK
  BY RequestsAssumption DEF Init, TypeOK, Phase, Holding, WithPlace, Generation
<1>2. Holders = {} /\ Waiting = {}
  BY DEF Init, Holders, Waiting, Holding, WithPlace
<1>3. CountersExact
  BY <1>2, FS_EmptySet DEF Init, CountersExact
<1>4. NobodySleepsBesideAFreeSlot
  BY DEF Init, NobodySleepsBesideAFreeSlot
<1>5. PlacesExact
  <2> SUFFICES ASSUME NEW p \in Provider, NEW g \in Generation
               PROVE  /\ tokens[<<p, g>>] = Cardinality(PlaceHolders(p, g))
                      /\ tokens[<<p, g>>] <= Places[p]
    BY DEF PlacesExact
  <2>1. PlaceHolders(p, g) = {}
    BY DEF Init, PlaceHolders, WithPlace
  <2>2. tokens[<<p, g>>] = 0 /\ Places[p] \in Nat
    BY RequestsAssumption DEF Init
  <2> QED BY <2>1, <2>2, FS_EmptySet
<1>6. OnlyOvertakenAtRemote
  BY DEF Init, OnlyOvertakenAtRemote, AtRemote
<1> QED BY <1>1, <1>3, <1>4, <1>5, <1>6 DEF IInv

\* What all steps of a request but the counting have in common.
LEMMA PhasesStayTyped ==
    ASSUME TypeOK, NEW c \in Request, NEW f \in Phase,
           \/ phase' = [phase EXCEPT ![c] = f]
           \/ phase' = Notified([phase EXCEPT ![c] = f]) /\ f = "done"
    PROVE  /\ phase' \in [Request -> Phase]
           /\ phase'[c] = f
           /\ \A d \in Request : d # c =>
                 \/ phase'[d] = phase[d]
                 \/ phase[d] = "waiting" /\ phase'[d] = "woken"
BY DEF TypeOK, Notified, Phase

\* The actions that end an attempt which holds a place are one.
LEMMA StepCases ==
    ASSUME NEW c \in Request, Step(c)
    PROVE  \/ TakeSlot(c) \/ JoinWaiters(c) \/ QueueFull(c) \/ SleepAgain(c) \/ AbandonWait(c)
           \/ NoRoute(c) \/ Return(c)
           \/ CheckPolicy(c) \/ Refused(c) \/ TakePlace(c) \/ CheckAgain(c) \/ Send(c)
           \/ \E p \in Provider : Route(c, p)
           \/ \E p \in Provider : Fallback(c, p)
           \/ \E f \in {"answered", "failed"} : EndAttempt(c, f) /\ phase[c] \in WithPlace
<1>1. RefusedAgain(c) => EndAttempt(c, "failed") /\ phase[c] \in WithPlace
  BY DEF RefusedAgain, WithPlace
<1>2. StartUndelivered(c) => EndAttempt(c, "failed") /\ phase[c] \in WithPlace
  BY DEF StartUndelivered, WithPlace
<1>3. ASSUME NEW f \in {"answered", "failed"}, CallEnds(c, f)
      PROVE  EndAttempt(c, f) /\ phase[c] \in WithPlace
  BY <1>3 DEF CallEnds, WithPlace
<1> QED BY <1>1, <1>2, <1>3, Zenon DEF Step

\* Every step of a request moves the counters that way.
LEMMA StepCounted ==
    ASSUME IInv, NEW c \in Request, Step(c)
    PROVE  CountersExact' /\ slots' \in Nat /\ waiters' \in Nat
<1> DEFINE Counts(f) ==
       /\ \/ phase' = [phase EXCEPT ![c] = f]
          \/ phase' = Notified([phase EXCEPT ![c] = f]) /\ f = "done"
       /\ slots' = slots + HoldsOne(f) - HoldsOne(phase[c])
       /\ waiters' = waiters + WaitsOne(f) - WaitsOne(phase[c])
<1>0. slots \in Nat /\ waiters \in Nat
  BY DEF IInv, TypeOK
<1>1. ASSUME NEW f, Counts(f) PROVE CountersExact' /\ slots' \in Nat /\ waiters' \in Nat
  BY <1>1, Counted
<1> USE <1>0 DEF HoldsOne, WaitsOne, Holding, WithPlace, Waiting, counters
<1>2. CASE TakeSlot(c)
  <2>1. Counts("routing")
    BY <1>2 DEF TakeSlot
  <2> HIDE DEF Counts
  <2> QED BY <1>1, <2>1
<1>3. CASE JoinWaiters(c)
  <2>1. Counts("waiting")
    BY <1>3 DEF JoinWaiters
  <2> HIDE DEF Counts
  <2> QED BY <1>1, <2>1
<1>4. CASE QueueFull(c)
  <2>1. Counts("done")
    BY <1>4 DEF QueueFull
  <2> HIDE DEF Counts
  <2> QED BY <1>1, <2>1
<1>5. CASE SleepAgain(c)
  <2>1. Counts("waiting")
    BY <1>5 DEF SleepAgain
  <2> HIDE DEF Counts
  <2> QED BY <1>1, <2>1
<1>6. CASE AbandonWait(c)
  <2>1. Counts("done")
    BY <1>6 DEF AbandonWait
  <2> HIDE DEF Counts
  <2> QED BY <1>1, <2>1
<1>7. CASE NoRoute(c) \/ Return(c)
  <2>1. Release(c) /\ phase[c] \in Holding
    BY <1>7 DEF NoRoute, Return
  <2>2. Counts("done")
    BY <2>1 DEF Release
  <2> HIDE DEF Counts
  <2> QED BY <1>1, <2>2
<1>8. CASE \E p \in Provider : Route(c, p)
  <2>1. Counts("checking")
    BY <1>8 DEF Route
  <2> HIDE DEF Counts
  <2> QED BY <1>1, <2>1
<1>9. CASE \E p \in Provider : Fallback(c, p)
  <2>1. Counts("checking")
    BY <1>9 DEF Fallback
  <2> HIDE DEF Counts
  <2> QED BY <1>1, <2>1
<1>10. CASE CheckPolicy(c)
  <2>1. Counts("capacity")
    BY <1>10 DEF CheckPolicy
  <2> HIDE DEF Counts
  <2> QED BY <1>1, <2>1
<1>11. CASE TakePlace(c)
  <2>1. Counts("admitted")
    BY <1>11 DEF TakePlace
  <2> HIDE DEF Counts
  <2> QED BY <1>1, <2>1
<1>12. CASE CheckAgain(c)
  <2>1. Counts("cleared")
    BY <1>12 DEF CheckAgain
  <2> HIDE DEF Counts
  <2> QED BY <1>1, <2>1
<1>13. CASE Send(c)
  <2>1. Counts("sent")
    BY <1>13 DEF Send
  <2> HIDE DEF Counts
  <2> QED BY <1>1, <2>1
<1>14. CASE Refused(c)
  <2>1. Counts("failed")
    BY <1>14 DEF Refused
  <2> HIDE DEF Counts
  <2> QED BY <1>1, <2>1
<1>15. ASSUME NEW f \in {"answered", "failed"}, EndAttempt(c, f), phase[c] \in WithPlace
       PROVE  CountersExact' /\ slots' \in Nat /\ waiters' \in Nat
  <2>1. Counts(f)
    BY <1>15 DEF EndAttempt
  <2> HIDE DEF Counts
  <2> QED BY <1>1, <2>1
<1> HIDE DEF Counts, HoldsOne, WaitsOne, Holding, WithPlace, Waiting
<1> QED
  BY <1>2, <1>3, <1>4, <1>5, <1>6, <1>7, <1>8, <1>9, <1>10, <1>11, <1>12, <1>13, <1>14, <1>15,
     StepCases, Zenon

LEMMA StepTyped ==
    ASSUME IInv, NEW c \in Request, Step(c)
    PROVE  TypeOK'
<1> USE DEF TypeOK, Holding, WithPlace, configVars, counters, routeVars, placeVars
<1>0. TypeOK /\ slots' \in Nat /\ waiters' \in Nat
  BY StepCounted DEF IInv
<1>1. CASE TakeSlot(c)
  BY <1>0, <1>1 DEF TakeSlot, Phase
<1>2. CASE JoinWaiters(c)
  BY <1>0, <1>2 DEF JoinWaiters, Phase
<1>3. CASE QueueFull(c)
  BY <1>0, <1>3 DEF QueueFull, Phase
<1>4. CASE SleepAgain(c)
  BY <1>0, <1>4 DEF SleepAgain, Phase
<1>5. CASE AbandonWait(c)
  BY <1>0, <1>5 DEF AbandonWait, Phase
<1>6. CASE Release(c)
  BY <1>0, <1>6 DEF Release, Notified, Phase
<1>7. ASSUME NEW p \in Provider, Route(c, p)
      PROVE  TypeOK'
  BY <1>0, <1>7 DEF Route, Phase
<1>8. ASSUME NEW p \in Provider, Fallback(c, p)
      PROVE  TypeOK'
  BY <1>0, <1>8 DEF Fallback, Phase
<1>9. CASE CheckPolicy(c)
  BY <1>0, <1>9 DEF CheckPolicy, Phase
<1>10. CASE TakePlace(c)
  BY <1>0, <1>10 DEF TakePlace, Phase
<1>11. CASE CheckAgain(c) \/ Send(c)
  BY <1>0, <1>11 DEF CheckAgain, Send, Phase
<1>12. CASE Refused(c)
  BY <1>0, <1>12 DEF Refused, Phase
<1>13. ASSUME NEW f \in {"answered", "failed"}, EndAttempt(c, f), phase[c] \in WithPlace
       PROVE  TypeOK'
  <2>1. target[c] \in Provider /\ semaphore[c] \in Generation
    BY <1>0, <1>13
  <2>2. tokens' \in [Provider \X Generation -> Nat]
    BY <1>0, <1>13, <2>1 DEF EndAttempt, GiveBack
  <2> QED BY <1>0, <1>13, <2>2 DEF EndAttempt, Phase
<1> HIDE DEF TypeOK, WithPlace
<1> QED
  BY <1>1, <1>2, <1>3, <1>4, <1>5, <1>6, <1>7, <1>8, <1>9, <1>10, <1>11, <1>12, <1>13,
     StepCases, Zenon
  DEF NoRoute, Return

LEMMA StepWakes ==
    ASSUME IInv, NEW c \in Request, Step(c)
    PROVE  NobodySleepsBesideAFreeSlot'
<1> USE DEF NobodySleepsBesideAFreeSlot, configVars, counters
<1>0. /\ phase \in [Request -> Phase] /\ slots \in Nat /\ limit \in Nat
      /\ NobodySleepsBesideAFreeSlot
  BY RequestsAssumption DEF IInv, TypeOK
<1>1. CASE TakeSlot(c)
  BY <1>0, <1>1 DEF TakeSlot, FreeSlot
<1>2. CASE JoinWaiters(c) \/ QueueFull(c) \/ SleepAgain(c)
  BY <1>0, <1>2 DEF JoinWaiters, QueueFull, SleepAgain, FreeSlot
<1>3. CASE Release(c)
  BY <1>0, <1>3 DEF Release, Notified
<1>4. CASE \/ AbandonWait(c) \/ CheckPolicy(c) \/ Refused(c) \/ TakePlace(c)
           \/ CheckAgain(c) \/ Send(c)
  BY <1>0, <1>4 DEF AbandonWait, CheckPolicy, Refused, TakePlace, CheckAgain, Send
<1>5. ASSUME NEW p \in Provider, Route(c, p) \/ Fallback(c, p)
      PROVE  NobodySleepsBesideAFreeSlot'
  BY <1>0, <1>5 DEF Route, Fallback
<1>6. ASSUME NEW f \in {"answered", "failed"}, EndAttempt(c, f)
      PROVE  NobodySleepsBesideAFreeSlot'
  BY <1>0, <1>6 DEF EndAttempt
<1> HIDE DEF NobodySleepsBesideAFreeSlot
<1> QED
  BY <1>1, <1>2, <1>3, <1>4, <1>5, <1>6, StepCases, Zenon DEF NoRoute, Return

-----------------------------------------------------------------------------
(* The places of the providers                                             *)

\* Nobody comes to a place or leaves one.
LEMMA PlacesStay ==
    ASSUME TypeOK, PlacesExact, tokens' = tokens,
           \A c \in Request :
              /\ phase'[c] \in WithPlace <=> phase[c] \in WithPlace
              /\ phase[c] \in WithPlace => target'[c] = target[c] /\ semaphore'[c] = semaphore[c]
    PROVE  PlacesExact'
<1> SUFFICES ASSUME NEW p \in Provider, NEW g \in Generation
             PROVE  PlaceHolders(p, g)' = PlaceHolders(p, g)
  BY Zenon DEF PlacesExact
<1> QED BY DEF PlaceHolders

\* One request comes to a place and is counted by its channel.
LEMMA PlaceTaken ==
    ASSUME TypeOK, PlacesExact, NEW c \in Request, TakePlace(c)
    PROVE  PlacesExact'
<1> SUFFICES ASSUME NEW p \in Provider, NEW g \in Generation
             PROVE  /\ tokens'[<<p, g>>] = Cardinality(PlaceHolders(p, g)')
                    /\ tokens'[<<p, g>>] <= Places[p]
  BY DEF PlacesExact
<1> DEFINE held == PlaceHolders(p, g)
<1>1. /\ phase[c] = "capacity" /\ phase' = [phase EXCEPT ![c] = "admitted"]
      /\ target' = target /\ semaphore' = semaphore
  BY DEF TakePlace, routeVars
<1>2. c \notin held /\ IsFiniteSet(held)
  BY <1>1, RequestsAssumption, FS_Subset DEF PlaceHolders, WithPlace
<1>3. /\ tokens[<<p, g>>] = Cardinality(held) /\ tokens[<<p, g>>] <= Places[p]
      /\ tokens[<<p, g>>] \in Nat /\ Places[p] \in Nat
  BY RequestsAssumption DEF PlacesExact, TypeOK
<1>4. CASE target[c] = p /\ semaphore[c] = g
  <2>1. PlaceHolders(p, g)' = held \cup {c}
    BY <1>1, <1>4 DEF PlaceHolders, WithPlace, TypeOK
  <2>2. tokens[<<p, g>>] < Places[p] /\ tokens'[<<p, g>>] = tokens[<<p, g>>] + 1
    BY <1>4 DEF TakePlace, TypeOK
  <2>3. Cardinality(held \cup {c}) = Cardinality(held) + 1
    BY <1>2, AddOne
  <2> HIDE DEF held
  <2> QED BY <1>3, <2>1, <2>2, <2>3
<1>5. CASE ~(target[c] = p /\ semaphore[c] = g)
  <2>1. PlaceHolders(p, g)' = held
    BY <1>1, <1>5 DEF PlaceHolders, WithPlace, TypeOK
  <2>2. tokens'[<<p, g>>] = tokens[<<p, g>>]
    BY <1>5 DEF TakePlace, TypeOK
  <2> QED BY <1>3, <2>1, <2>2
<1> QED BY <1>4, <1>5

\* One request leaves its place, and the channel it was counted by counts it
\* no more.
LEMMA PlaceGivenBack ==
    ASSUME TypeOK, PlacesExact, NEW c \in Request, phase[c] \in WithPlace,
           NEW f \in {"answered", "failed"}, EndAttempt(c, f)
    PROVE  PlacesExact'
<1> SUFFICES ASSUME NEW p \in Provider, NEW g \in Generation
             PROVE  /\ tokens'[<<p, g>>] = Cardinality(PlaceHolders(p, g)')
                    /\ tokens'[<<p, g>>] <= Places[p]
  BY DEF PlacesExact
<1> DEFINE held == PlaceHolders(p, g)
<1>1. phase' = [phase EXCEPT ![c] = f] /\ target' = target /\ semaphore' = semaphore
  BY DEF EndAttempt, routeVars
<1>2. IsFiniteSet(held)
  BY RequestsAssumption, FS_Subset DEF PlaceHolders
<1>3. /\ tokens[<<p, g>>] = Cardinality(held) /\ tokens[<<p, g>>] <= Places[p]
      /\ tokens[<<p, g>>] \in Nat /\ Places[p] \in Nat
  BY RequestsAssumption DEF PlacesExact, TypeOK
<1>4. CASE target[c] = p /\ semaphore[c] = g
  <2>1. PlaceHolders(p, g)' = held \ {c} /\ c \in held
    BY <1>1, <1>4 DEF PlaceHolders, WithPlace, TypeOK
  <2>2. tokens'[<<p, g>>] = tokens[<<p, g>>] - 1
    BY <1>4 DEF EndAttempt, GiveBack, TypeOK
  <2>3. Cardinality(held \ {c}) = Cardinality(held) - 1
    BY <1>2, <2>1, TakeOne
  <2> HIDE DEF held
  <2> QED BY <1>3, <2>1, <2>2, <2>3
<1>5. CASE ~(target[c] = p /\ semaphore[c] = g)
  <2>1. PlaceHolders(p, g)' = held
    BY <1>1, <1>5 DEF PlaceHolders, WithPlace, TypeOK
  <2>2. tokens'[<<p, g>>] = tokens[<<p, g>>]
    BY <1>5 DEF EndAttempt, GiveBack, TypeOK
  <2> QED BY <1>3, <2>1, <2>2
<1> QED BY <1>4, <1>5

LEMMA StepPlaces ==
    ASSUME IInv, NEW c \in Request, Step(c)
    PROVE  PlacesExact'
<1> DEFINE Stay ==
       /\ tokens' = tokens
       /\ \A d \in Request :
             /\ phase'[d] \in WithPlace <=> phase[d] \in WithPlace
             /\ phase[d] \in WithPlace => target'[d] = target[d] /\ semaphore'[d] = semaphore[d]
<1>0. TypeOK /\ PlacesExact
  BY DEF IInv
<1>1. Stay => PlacesExact'
  BY <1>0, PlacesStay
<1> USE DEF TypeOK, WithPlace, routeVars, placeVars
<1>2. CASE TakeSlot(c) \/ JoinWaiters(c) \/ QueueFull(c) \/ SleepAgain(c) \/ AbandonWait(c)
  <2>1. Stay
    BY <1>0, <1>2 DEF TakeSlot, JoinWaiters, QueueFull, SleepAgain, AbandonWait, Waiting
  <2> QED BY <1>1, <2>1
<1>3. CASE NoRoute(c) \/ Return(c)
  <2>1. Stay
    BY <1>0, <1>3 DEF NoRoute, Return, Release, Notified
  <2> QED BY <1>1, <2>1
<1>4. CASE CheckPolicy(c) \/ Refused(c) \/ CheckAgain(c) \/ Send(c)
  <2>1. Stay
    BY <1>0, <1>4 DEF CheckPolicy, Refused, CheckAgain, Send
  <2> QED BY <1>1, <2>1
<1>5. ASSUME NEW p \in Provider, Route(c, p) \/ Fallback(c, p)
      PROVE  PlacesExact'
  <2>1. Stay
    BY <1>0, <1>5 DEF Route, Fallback
  <2> QED BY <1>1, <2>1
<1> HIDE DEF TypeOK, WithPlace, Stay
<1>6. CASE TakePlace(c)
  BY <1>0, <1>6, PlaceTaken
<1>7. ASSUME NEW f \in {"answered", "failed"}, EndAttempt(c, f), phase[c] \in WithPlace
      PROVE  PlacesExact'
  BY <1>0, <1>7, PlaceGivenBack
<1> QED BY <1>2, <1>3, <1>4, <1>5, <1>6, <1>7, StepCases, Zenon

-----------------------------------------------------------------------------
(* The privacy mode                                                        *)

\* Who comes to a remote provider has just been cleared for it; everybody else
\* was there before and, when the mode forbids it, overtaken.
LEMMA StepAtRemote ==
    ASSUME IInv, NEW c \in Request, Step(c)
    PROVE  OnlyOvertakenAtRemote'
<1>0. TypeOK /\ OnlyOvertakenAtRemote
  BY DEF IInv
<1>1. ASSUME AtRemote' \subseteq AtRemote, mode' = mode, overtaken' = overtaken
      PROVE  OnlyOvertakenAtRemote'
  BY <1>0, <1>1 DEF OnlyOvertakenAtRemote
<1> USE DEF TypeOK, routeVars, placeVars, configVars
<1>2. CASE TakeSlot(c) \/ JoinWaiters(c) \/ QueueFull(c) \/ SleepAgain(c) \/ AbandonWait(c)
  <2>1. AtRemote' \subseteq AtRemote /\ mode' = mode /\ overtaken' = overtaken
    BY <1>0, <1>2 DEF AtRemote, TakeSlot, JoinWaiters, QueueFull, SleepAgain, AbandonWait
  <2> QED BY <1>1, <2>1
<1>3. CASE Release(c)
  <2>1. AtRemote' \subseteq AtRemote /\ mode' = mode /\ overtaken' = overtaken
    BY <1>0, <1>3 DEF AtRemote, Release, Notified
  <2> QED BY <1>1, <2>1
<1>4. CASE CheckPolicy(c) \/ Refused(c) \/ TakePlace(c) \/ Send(c)
  <2>1. AtRemote' \subseteq AtRemote /\ mode' = mode /\ overtaken' = overtaken
    BY <1>0, <1>4 DEF AtRemote, CheckPolicy, Refused, TakePlace, Send
  <2> QED BY <1>1, <2>1
<1>5. ASSUME NEW p \in Provider, Route(c, p) \/ Fallback(c, p)
      PROVE  OnlyOvertakenAtRemote'
  <2>1. AtRemote' \subseteq AtRemote /\ mode' = mode /\ overtaken' = overtaken
    BY <1>0, <1>5 DEF AtRemote, Route, Fallback
  <2> QED BY <1>1, <2>1
<1>6. CASE CheckAgain(c)
  <2>1. AtRemote' \subseteq AtRemote \cup (IF target[c] \in Remote THEN {c} ELSE {})
    BY <1>0, <1>6 DEF AtRemote, CheckAgain
  <2>2. mode' = mode /\ overtaken' = overtaken
    BY <1>6 DEF CheckAgain
  <2>3. target[c] \in Remote => mode = "cloud_allowed" /\ c \notin Sensitive
    BY <1>6, RequestsAssumption DEF CheckAgain, Allowed
  <2> QED BY <1>0, <2>1, <2>2, <2>3 DEF OnlyOvertakenAtRemote
<1>7. ASSUME NEW f \in {"answered", "failed"}, EndAttempt(c, f)
      PROVE  OnlyOvertakenAtRemote'
  <2>1. AtRemote' \subseteq AtRemote \ {c}
    BY <1>0, <1>7 DEF AtRemote, EndAttempt
  <2>2. mode' = mode /\ overtaken' = overtaken \ {c}
    BY <1>7 DEF EndAttempt
  <2> QED BY <1>0, <2>1, <2>2 DEF OnlyOvertakenAtRemote
<1> HIDE DEF TypeOK
<1> QED
  BY <1>2, <1>3, <1>4, <1>5, <1>6, <1>7, StepCases, Zenon DEF NoRoute, Return

-----------------------------------------------------------------------------
(* The steps of the environment                                            *)

\* Waking everyone moves requests from one waiting phase to the other, and
\* nobody comes to a place or to a provider by it.
LEMMA EnvironmentKeeps ==
    ASSUME IInv, Environment
    PROVE  IInv'
<1> DEFINE Others == TypeOK' /\ CountersExact' /\ NobodySleepsBesideAFreeSlot'
<1>0. TypeOK /\ CountersExact /\ NobodySleepsBesideAFreeSlot /\ PlacesExact /\ OnlyOvertakenAtRemote
  BY DEF IInv
<1> DEFINE Same ==
       /\ tokens' = tokens /\ target' = target /\ semaphore' = semaphore
       /\ \A d \in Request :
             \/ phase'[d] = phase[d]
             \/ phase[d] \in {"new", "waiting"} /\ phase'[d] \in {"asking", "woken"}
<1>1. ASSUME Same PROVE PlacesExact' /\ AtRemote' = AtRemote
  <2>1. \A d \in Request :
           /\ phase'[d] \in WithPlace <=> phase[d] \in WithPlace
           /\ phase[d] \in WithPlace => target'[d] = target[d] /\ semaphore'[d] = semaphore[d]
    BY <1>1 DEF WithPlace
  <2>2. PlacesExact'
    BY <1>0, <1>1, <2>1, PlacesStay
  <2>3. AtRemote' = AtRemote
    BY <1>1 DEF AtRemote
  <2> QED BY <2>2, <2>3
<1> USE DEF TypeOK, CountersExact, NobodySleepsBesideAFreeSlot,
            Holders, Waiting, Holding, WithPlace, configVars, counters, routeVars, placeVars
<1>2. ASSUME NEW c \in Request, Arrive(c) PROVE Others /\ Same /\ OnlyOvertakenAtRemote'
  <2>1. Holders' = Holders /\ Waiting' = Waiting
    BY <1>0, <1>2 DEF Arrive
  <2>2. TypeOK'
    BY <1>0, <1>2 DEF Arrive, Phase
  <2>3. Same
    BY <1>0, <1>2 DEF Arrive
  <2>4. OnlyOvertakenAtRemote'
    BY <1>0, <1>1, <1>2, <2>3 DEF Arrive, OnlyOvertakenAtRemote
  <2> QED BY <1>0, <1>2, <2>1, <2>2, <2>3, <2>4 DEF Arrive
<1>3. ASSUME NEW c \in Request, Expire(c) PROVE Others /\ Same /\ OnlyOvertakenAtRemote'
  BY <1>0, <1>3 DEF Expire, OnlyOvertakenAtRemote, AtRemote
<1>4. ASSUME NEW m \in {"local_only", "cloud_allowed"}, NEW l \in Limits, NEW q \in QueueSizes,
             UpdateRuntimeConfig(m, l, q)
      PROVE  Others /\ Same /\ OnlyOvertakenAtRemote'
  <2>1. Holders' = Holders /\ Waiting' = Waiting
    BY <1>0, <1>4 DEF UpdateRuntimeConfig, Notified
  <2>2. overtaken' \subseteq Request
    BY <1>0, <1>4 DEF UpdateRuntimeConfig, AtRemote
  <2>3. TypeOK'
    BY <1>0, <1>4, <2>2 DEF UpdateRuntimeConfig, Notified, Phase
  <2>4. Same
    BY <1>0, <1>4 DEF UpdateRuntimeConfig, Notified
  <2>5. AtRemote' = AtRemote
    BY <1>1, <2>4
  <2>6. OnlyOvertakenAtRemote'
    BY <1>0, <1>4, <2>5 DEF UpdateRuntimeConfig, OnlyOvertakenAtRemote
  <2> QED BY <1>0, <1>4, <2>1, <2>3, <2>4, <2>6 DEF UpdateRuntimeConfig, Notified
<1>5. ASSUME UpsertProvider PROVE Others /\ Same /\ OnlyOvertakenAtRemote'
  <2>1. TypeOK'
    BY <1>0, <1>5, RequestsAssumption DEF UpsertProvider, Generation
  <2>2. Same /\ CountersExact' /\ NobodySleepsBesideAFreeSlot' /\ OnlyOvertakenAtRemote'
    BY <1>0, <1>5 DEF UpsertProvider, OnlyOvertakenAtRemote, AtRemote
  <2> QED BY <2>1, <2>2
<1> HIDE DEF TypeOK, CountersExact, NobodySleepsBesideAFreeSlot, Others, Same
<1>6. Others /\ Same /\ OnlyOvertakenAtRemote'
  <2>1. CASE \E c \in Request : Arrive(c) \/ Expire(c)
    BY <1>2, <1>3, <2>1, Zenon
  <2>2. CASE \E m \in {"local_only", "cloud_allowed"}, l \in Limits, q \in QueueSizes :
                UpdateRuntimeConfig(m, l, q)
    BY <1>4, <2>2, Zenon
  <2> QED BY <1>5, <2>1, <2>2, Zenon DEF Environment
<1> QED BY <1>1, <1>6 DEF IInv, Others

LEMMA IInvStep == IInv /\ [Next]_vars => IInv'
<1> SUFFICES ASSUME IInv, [Next]_vars PROVE IInv'
  OBVIOUS
<1>1. ASSUME NEW c \in Request, Step(c) PROVE IInv'
  BY <1>1, StepTyped, StepCounted, StepWakes, StepPlaces, StepAtRemote DEF IInv
<1>2. CASE Environment
  BY <1>2, EnvironmentKeeps
<1>3. CASE UNCHANGED vars
  <2> USE <1>3 DEF vars
  <2>1. TypeOK' /\ CountersExact' /\ NobodySleepsBesideAFreeSlot'
    BY DEF IInv, TypeOK, CountersExact, NobodySleepsBesideAFreeSlot, Holders, Waiting
  <2>2. PlacesExact'
    BY PlacesStay DEF IInv
  <2>3. OnlyOvertakenAtRemote'
    BY DEF IInv, OnlyOvertakenAtRemote, AtRemote
  <2> QED BY <2>1, <2>2, <2>3 DEF IInv
<1> QED BY <1>1, <1>2, <1>3, Zenon DEF Next

THEOREM IInvHolds == Spec => []IInv
BY IInvInit, IInvStep, PTL DEF Spec

-----------------------------------------------------------------------------
(* The theorems                                                            *)

\* However requests leave the runtime, no slot and no place in the queue is
\* lost or given back twice.
THEOREM CountersAlwaysExact == Spec => []CountersExact
<1>1. IInv => CountersExact
  BY DEF IInv
<1> QED BY <1>1, IInvHolds, PTL

\* A request never sleeps while a slot is free.
THEOREM NoLostWakeup == Spec => []NobodySleepsBesideAFreeSlot
<1>1. IInv => NobodySleepsBesideAFreeSlot
  BY DEF IInv
<1> QED BY <1>1, IInvHolds, PTL

LEMMA CountersGrowWithinLimits ==
    ASSUME IInv, Next
    PROVE  /\ slots' > slots => slots' <= limit'
           /\ waiters' > waiters => waiters' <= queueSize'
<1>0. slots \in Nat /\ waiters \in Nat /\ limit \in Nat /\ queueSize \in Nat
  BY RequestsAssumption DEF IInv, TypeOK
<1> USE <1>0 DEF configVars, counters
<1>1. ASSUME NEW c \in Request, TakeSlot(c) \/ JoinWaiters(c)
      PROVE  /\ slots' > slots => slots' <= limit'
             /\ waiters' > waiters => waiters' <= queueSize'
  BY <1>1 DEF TakeSlot, JoinWaiters, FreeSlot
<1>2. ASSUME NEW c \in Request, Release(c) \/ AbandonWait(c)
      PROVE  ~(slots' > slots) /\ ~(waiters' > waiters)
  BY <1>2 DEF Release, AbandonWait
<1>3. ASSUME NEW c \in Request,
             \/ QueueFull(c) \/ SleepAgain(c) \/ CheckPolicy(c) \/ Refused(c) \/ TakePlace(c)
             \/ CheckAgain(c) \/ Send(c)
             \/ \E p \in Provider : Route(c, p) \/ Fallback(c, p)
             \/ \E f \in {"answered", "failed"} : EndAttempt(c, f)
      PROVE  ~(slots' > slots) /\ ~(waiters' > waiters)
  <2>1. slots' = slots /\ waiters' = waiters
    BY <1>3 DEF QueueFull, SleepAgain, CheckPolicy, Refused, TakePlace, CheckAgain, Send,
       Route, Fallback, EndAttempt
  <2> QED BY <2>1
<1>4. CASE Environment
  <2>1. slots' = slots /\ waiters' = waiters
    BY <1>4 DEF Environment, Arrive, Expire, UpdateRuntimeConfig, UpsertProvider
  <2> QED BY <2>1
<1>5. CASE \E c \in Request : Step(c)
  BY <1>1, <1>2, <1>3, <1>5, StepCases, Zenon DEF NoRoute, Return
<1> QED BY <1>4, <1>5, Zenon DEF Next

LEMMA AdmissionStep ==
    IInv /\ [Next]_vars =>
      [/\ Cardinality(Holders') > Cardinality(Holders) => Cardinality(Holders') <= limit'
       /\ Cardinality(Waiting') > Cardinality(Waiting) => Cardinality(Waiting') <= queueSize']_vars
BY IInvStep, CountersGrowWithinLimits DEF IInv, CountersExact

\* Nobody is admitted beyond the limits in force at that moment.
THEOREM AdmissionRespectsLimits == Spec => AdmittedWithinLimits
BY IInvHolds, AdmissionStep, PTL DEF Spec, AdmittedWithinLimits

\* Once the mode forbids it nobody new comes to a remote provider, and a
\* sensitive request never does, for any number of requests and any changes of
\* mode, limits and providers while they wait.
THEOREM NobodyNewAtRemote == Spec => []OnlyOvertakenAtRemote
<1>1. IInv => OnlyOvertakenAtRemote
  BY DEF IInv
<1> QED BY <1>1, IInvHolds, PTL

\* Every semaphore counts exactly those who hold its places, and no more than
\* it has, whichever way attempts end and however often the semaphores are made
\* anew meanwhile.
THEOREM PlacesAlwaysExact == Spec => []PlacesExact
<1>1. IInv => PlacesExact
  BY DEF IInv
<1> QED BY <1>1, IInvHolds, PTL

-----------------------------------------------------------------------------
(* The texts of the reader: cut, merged, shown and checked *)

\* A set of numbers has a least one.
LEMMA Least ==
    ASSUME NEW S \in SUBSET Nat, S # {}
    PROVE  \E n \in S : \A i \in S : n <= i
<1> DEFINE T == {1 .. n : n \in S}
           R == StrictSubsetOrdering(Nat)
<1>1. T \subseteq FiniteSubsetsOf(Nat) /\ T # {}
  <2>1. \A n \in S : IsFiniteSet(1 .. n) /\ 1 .. n \subseteq Nat
    BY FS_Interval
  <2> QED BY <2>1 DEF FiniteSubsetsOf
<1>2. PICK x \in T : \A y \in T : <<y, x>> \notin R
  <2>1. IsWellFoundedOn(R, FiniteSubsetsOf(Nat))
    BY FS_StrictSubsetOrderingWellFounded
  <2> HIDE DEF T, R
  <2> QED BY <1>1, <2>1, WFMin
<1>3. PICK n \in S : x = 1 .. n
  OBVIOUS
<1>4. ASSUME NEW i \in S, i < n PROVE FALSE
  <2>1. i \in Nat /\ n \in Nat
    OBVIOUS
  <2>2. 1 .. i \subseteq 1 .. n /\ n \in 1 .. n /\ n \notin 1 .. i
    BY <1>4, <2>1
  <2>3. <<1 .. i, 1 .. n>> \in R
    BY <2>1, <2>2 DEF StrictSubsetOrdering
  <2> QED BY <1>2, <1>3, <2>3
<1>5. \A i \in S : ~(i < n) => n <= i
  OBVIOUS
<1> QED BY <1>4, <1>5

\* The least and the greatest of some numbers.
LEMMA MinIs ==
    ASSUME NEW S \in SUBSET Nat, S # {}
    PROVE  Min(S) \in S /\ \A i \in S : Min(S) <= i
<1>1. \E n \in S : \A i \in S : n <= i
  BY Least
<1> QED BY <1>1 DEF Min

LEMMA MaxIs ==
    ASSUME NEW S \in SUBSET Nat, S # {}, NEW n \in Nat, \A i \in S : i <= n
    PROVE  Max(S) \in S /\ \A i \in S : Max(S) >= i
<1> DEFINE T == {n - i : i \in S}
<1>1. T \in SUBSET Nat /\ T # {}
  <2>1. \A i \in S : n - i \in Nat
    OBVIOUS
  <2>2. PICK i \in S : TRUE
    OBVIOUS
  <2>3. n - i \in T
    OBVIOUS
  <2> QED BY <2>1, <2>3
<1>2. PICK d \in T : \A e \in T : d <= e
  <2> HIDE DEF T
  <2> QED BY <1>1, Least
<1>3. PICK m \in S : d = n - m
  OBVIOUS
<1>4. ASSUME NEW i \in S PROVE m >= i
  <2>1. n - i \in T
    OBVIOUS
  <2>2. n - m <= n - i
    BY <1>2, <1>3, <2>1
  <2> QED BY <2>2
<1>5. \E x \in S : \A i \in S : x >= i
  BY <1>4
<1> QED BY <1>5 DEF Max

-----------------------------------------------------------------------------
(* A text cut for the AI runtime *)

Character == {"a", "w", "n", ".", " "}
Stretch == [from : Nat, to : Nat]

BytesInv ==
    /\ input \in Seq(Character)
    /\ work \in [done : Nat, pieces : Seq(Stretch)]
    /\ RequestsFit

\* The bytes of a stretch and of one that begins like it.
LEMMA BytesOf ==
    ASSUME input \in Seq(Character), NEW i \in Nat, NEW j \in Nat, i <= j
    PROVE  /\ Bytes(i + 1, j) \in Nat
           /\ Bytes(i + 1, i) = 0 /\ Bytes(i + 1, i + 1) <= 2
           /\ \A k \in i .. j : Bytes(i + 1, k) <= Bytes(i + 1, j)
<1> DEFINE W(k) == {l \in i + 1 .. k : input[l] = "w"}
<1>1. ASSUME NEW k \in Nat, i <= k
      PROVE  /\ IsFiniteSet(W(k)) /\ Cardinality(W(k)) \in Nat
             /\ \A l \in i .. k : Cardinality(W(l)) <= Cardinality(W(k))
  <2>1. IsFiniteSet(i + 1 .. k) /\ W(k) \subseteq i + 1 .. k
    BY FS_Interval
  <2>2. IsFiniteSet(W(k))
    BY <2>1, FS_Subset
  <2>3. \A l \in i .. k : W(l) \subseteq W(k)
    OBVIOUS
  <2> HIDE DEF W
  <2> QED BY <2>2, <2>3, FS_Subset, FS_CardinalityType
<1>2. W(i) = {} /\ W(i + 1) \subseteq {i + 1}
  OBVIOUS
<1>3. Cardinality(W(i)) = 0 /\ Cardinality(W(i + 1)) <= 1
  <2>1. IsFiniteSet({i + 1}) /\ Cardinality({i + 1}) = 1
    BY FS_Singleton
  <2> HIDE DEF W
  <2> QED BY <1>2, <2>1, FS_Subset, FS_EmptySet
<1>4. \A k : Bytes(i + 1, k) = (k - (i + 1) + 1) + Cardinality(W(k))
  BY DEF Bytes
<1>5. Cardinality(W(i + 1)) \in Nat
  <2>1. i + 1 \in Nat /\ i <= i + 1
    OBVIOUS
  <2> HIDE DEF W
  <2> QED BY <1>1, <2>1
<1> HIDE DEF W
<1>6. \A k \in i .. j : Cardinality(W(k)) \in Nat /\ Cardinality(W(k)) <= Cardinality(W(j))
  BY <1>1
<1>7. Bytes(i + 1, i) = 0 /\ Bytes(i + 1, i + 1) <= 2
  BY <1>3, <1>4, <1>5
<1>8. Bytes(i + 1, j) \in Nat
  BY <1>4, <1>6
<1>9. ASSUME NEW k \in i .. j PROVE Bytes(i + 1, k) <= Bytes(i + 1, j)
  <2>1. /\ Cardinality(W(k)) \in Nat /\ Cardinality(W(j)) \in Nat
        /\ Cardinality(W(k)) <= Cardinality(W(j))
    BY <1>6
  <2>2. /\ Bytes(i + 1, k) = (k - (i + 1) + 1) + Cardinality(W(k))
        /\ Bytes(i + 1, j) = (j - (i + 1) + 1) + Cardinality(W(j))
    BY <1>4
  <2> QED BY <2>1, <2>2
<1> QED BY <1>7, <1>8, <1>9

LEMMA BytesStep ==
    ASSUME PiecesAssumption, kind = "bytes", BytesInv, SplitUtf8
    PROVE  BytesInv'
<1> DEFINE n == Len(input)
           S == {i \in work.done .. n : Bytes(work.done + 1, i) <= MaxBytes}
           fitting == Max(S)
           lines == {i \in work.done + 1 .. fitting : input[i] = "n"}
           to == IF fitting < n /\ lines # {} /\ 100 * (Max(lines) - 1 - work.done) > 55 * MaxBytes
                 THEN Max(lines) - 1 ELSE fitting
           piece == [from |-> work.done + 1, to |-> to]
<1>0. input \in Seq(Character)
  BY DEF BytesInv
<1>1. /\ n \in Nat /\ work.done \in Nat /\ work.done < n /\ MaxBytes \in Nat /\ MaxBytes > 1
      /\ work.pieces \in Seq(Stretch)
  BY LenProperties DEF BytesInv, SplitUtf8, PiecesAssumption
<1>2. /\ work' = [done |-> to, pieces |-> Append(work.pieces, piece)]
      /\ kind' = kind /\ input' = input
  BY DEF SplitUtf8
<1>3. fitting \in work.done + 1 .. n /\ Bytes(work.done + 1, fitting) <= MaxBytes
  <2>1. Bytes(work.done + 1, work.done + 1) <= 2 /\ Bytes(work.done + 1, work.done + 1) \in Nat
    <3>1. work.done + 1 \in Nat /\ work.done <= work.done + 1
      BY <1>1
    <3> QED BY <1>0, <1>1, <3>1, BytesOf
  <2>2. work.done + 1 \in S
    BY <1>1, <2>1
  <2>3. S \in SUBSET Nat /\ \A i \in S : i <= n
    BY <1>1
  <2>4. fitting \in S /\ fitting >= work.done + 1
    <3> HIDE DEF S, n
    <3> QED BY <1>1, <2>2, <2>3, MaxIs
  <2> QED BY <1>1, <2>4
<1> HIDE DEF fitting
<1>4. to \in work.done + 1 .. fitting
  <2>1. CASE fitting < n /\ lines # {} /\ 100 * (Max(lines) - 1 - work.done) > 55 * MaxBytes
    <3>1. lines \in SUBSET Nat /\ fitting \in Nat /\ \A i \in lines : i <= fitting
      BY <1>1, <1>3
    <3>2. Max(lines) \in lines
      <4> HIDE DEF lines, n
      <4> QED BY <2>1, <3>1, MaxIs
    <3>3. Max(lines) \in Nat /\ Max(lines) <= fitting /\ to = Max(lines) - 1
      BY <2>1, <3>1, <3>2
    <3> HIDE DEF lines, to
    <3>4. Max(lines) - 1 - work.done > 0
      BY <1>1, <2>1, <3>3
    <3> QED BY <1>1, <1>3, <3>3, <3>4
  <2>2. CASE ~(fitting < n /\ lines # {} /\ 100 * (Max(lines) - 1 - work.done) > 55 * MaxBytes)
    <3>1. to = fitting
      BY <2>2
    <3> HIDE DEF to
    <3> QED BY <1>1, <1>3, <3>1
  <2> QED BY <2>1, <2>2
<1> HIDE DEF to
<1>5. Bytes(work.done + 1, to) <= MaxBytes /\ to \in Nat /\ to <= n
  <2>1. to \in work.done .. fitting /\ fitting \in Nat /\ work.done <= fitting
    BY <1>1, <1>3, <1>4
  <2>2. /\ Bytes(work.done + 1, to) <= Bytes(work.done + 1, fitting)
        /\ Bytes(work.done + 1, to) \in Nat /\ Bytes(work.done + 1, fitting) \in Nat
    <3>1. to \in Nat /\ work.done <= to
      BY <1>1, <2>1
    <3> QED BY <1>0, <1>1, <2>1, <3>1, BytesOf
  <2> QED BY <1>1, <1>3, <1>4, <2>2
<1> DEFINE p == work.pieces
           m == Len(p)
<1>6. /\ m \in Nat /\ DOMAIN p = 1 .. m /\ p \in [1 .. m -> Stretch]
      /\ Append(p, piece) \in Seq(Stretch) /\ DOMAIN Append(p, piece) = 1 .. m + 1
      /\ Len(Append(p, piece)) = m + 1
      /\ \A k \in 1 .. m : Append(p, piece)[k] = p[k]
      /\ Append(p, piece)[m + 1] = piece
  <2>1. piece \in Stretch
    BY <1>1, <1>5 DEF Stretch
  <2> HIDE DEF piece
  <2>2. Append(p, piece) \in Seq(Stretch)
    BY <1>1, <2>1, AppendProperties
  <2> QED BY <1>1, <2>1, <2>2, AppendProperties, LenProperties
<1>7. work'.done = to /\ work'.pieces = Append(p, piece) /\ work' \in [done : Nat, pieces : Seq(Stretch)]
  BY <1>2, <1>5, <1>6
<1>8. \A i, j : Bytes(i, j)' = Bytes(i, j)
  BY <1>2 DEF Bytes
<1> DEFINE q == Append(p, piece)
<1> HIDE DEF m, p, q
<1>9. ASSUME NEW k \in 1 .. m + 1
      PROVE  /\ q[k].from = IF k = 1 THEN 1 ELSE q[k - 1].to + 1
             /\ q[k].from <= q[k].to /\ Bytes(q[k].from, q[k].to) <= MaxBytes
  <2>1. CASE k \in 1 .. m
    <3>1. q[k] = p[k] /\ (k # 1 => q[k - 1] = p[k - 1])
      BY <1>6, <2>1 DEF q
    <3>2. k \in DOMAIN p
      BY <1>6, <2>1
    <3> QED BY <3>1, <3>2 DEF BytesInv, RequestsFit, p
  <2>2. CASE k = m + 1
    <3>1. q[k] = piece /\ (m # 0 => q[k - 1] = p[m])
      BY <1>6, <2>2 DEF q
    <3>2. m # 0 => p # <<>> /\ work.done = p[m].to
      BY <1>1 DEF BytesInv, RequestsFit, p, m
    <3>3. m = 0 => p = <<>> /\ work.done = 0
      <4>1. m = 0 => p = <<>>
        BY <1>1, EmptySeq DEF p, m
      <4> QED BY <4>1 DEF BytesInv, RequestsFit, p
    <3>4. (k = 1 <=> m = 0) /\ work.done + 1 <= to
      BY <1>4, <1>6, <2>2
    <3> QED BY <1>1, <1>5, <3>1, <3>2, <3>3, <3>4
  <2> QED BY <1>6, <2>1, <2>2
<1>10. RequestsFit'
  <2>1. q # <<>> /\ q[Len(q)].to = to
    BY <1>6 DEF q
  <2> HIDE DEF n
  <2>2. work'.pieces = q /\ DOMAIN q = 1 .. m + 1
    BY <1>6, <1>7 DEF q, p
  <2>3. to <= Len(input)
    BY <1>5 DEF n
  <2> QED BY <1>2, <1>7, <1>8, <1>9, <2>1, <2>2, <2>3 DEF RequestsFit
<1> QED BY <1>2, <1>7, <1>10 DEF BytesInv

-----------------------------------------------------------------------------
(* The sizes of members together *)

LEMMA AmountIs ==
    ASSUME NEW sizes, NEW M \in SUBSET Nat, IsFiniteSet(M), \A i \in M : sizes[i] \in Nat
    PROVE  /\ IsFiniteSet(UNION {{i} \X (1 .. sizes[i]) : i \in M}) /\ Amount(sizes, M) \in Nat
           /\ Amount(sizes, {}) = 0
           /\ \A j \in Nat \ M : sizes[j] \in Nat =>
                Amount(sizes, M \cup {j}) = Amount(sizes, M) + sizes[j]
<1> DEFINE Part(i) == {i} \X (1 .. sizes[i])
           Parts(S) == UNION {Part(i) : i \in S}
<1>1. ASSUME NEW i, sizes[i] \in Nat
      PROVE  IsFiniteSet(Part(i)) /\ Cardinality(Part(i)) = sizes[i]
  <2>1. IsFiniteSet({i}) /\ Cardinality({i}) = 1
    BY FS_Singleton
  <2>2. IsFiniteSet(1 .. sizes[i]) /\ Cardinality(1 .. sizes[i]) = sizes[i]
    BY <1>1, FS_Interval
  <2>3. IsFiniteSet(Part(i)) /\ Cardinality(Part(i)) = 1 * sizes[i]
    BY <2>1, <2>2, FS_Product
  <2>4. 1 * sizes[i] = sizes[i]
    BY <1>1
  <2> QED BY <2>3, <2>4
<1>2. IsFiniteSet(Parts(M))
  <2>1. IsFiniteSet({Part(i) : i \in M})
    <3> DEFINE part == [i \in M |-> Part(i)]
    <3> HIDE DEF Part
    <3>1. part \in Surjection(M, {Part(i) : i \in M})
      BY DEF Surjection
    <3> QED BY <3>1, FS_Surjection
  <2>2. \A T \in {Part(i) : i \in M} : IsFiniteSet(T)
    BY <1>1
  <2> HIDE DEF Part
  <2> QED BY <2>1, <2>2, FS_UNION
<1>3. \A S : Amount(sizes, S) = Cardinality(Parts(S))
  BY DEF Amount
<1>4. Amount(sizes, {}) = 0
  <2>1. Parts({}) = {}
    OBVIOUS
  <2> QED BY <1>3, <2>1, FS_EmptySet
<1>5. ASSUME NEW j \in Nat \ M, sizes[j] \in Nat
      PROVE  Amount(sizes, M \cup {j}) = Amount(sizes, M) + sizes[j]
  <2>1. Parts(M \cup {j}) = Parts(M) \cup Part(j)
    <3> HIDE DEF Part
    <3> QED OBVIOUS
  <2>2. Parts(M) \cap Part(j) = {}
    <3>1. \A i \in M : Part(i) \cap Part(j) = {}
      BY <1>5
    <3> HIDE DEF Part
    <3> QED BY <3>1
  <2>3. IsFiniteSet(Part(j)) /\ Cardinality(Part(j)) = sizes[j]
    BY <1>1, <1>5
  <2> HIDE DEF Part, Parts
  <2>4. Cardinality(Parts(M) \cup Part(j)) = Cardinality(Parts(M)) + Cardinality(Part(j)) - Cardinality({})
    BY <1>2, <2>2, <2>3, FS_Union
  <2>5. Cardinality({}) = 0 /\ Cardinality(Parts(M)) \in Nat
    BY <1>2, FS_EmptySet, FS_CardinalityType
  <2>6. /\ Amount(sizes, M \cup {j}) = Cardinality(Parts(M) \cup Part(j))
        /\ Amount(sizes, M) = Cardinality(Parts(M))
    BY <1>3, <2>1
  <2> QED BY <1>5, <2>3, <2>4, <2>5, <2>6
<1>6. Amount(sizes, M) \in Nat
  <2> HIDE DEF Parts
  <2> QED BY <1>2, <1>3, FS_CardinalityType
<1> QED BY <1>2, <1>4, <1>5, <1>6

-----------------------------------------------------------------------------
(* The messages that go with a request *)

FitInv ==
    /\ input \in [used : Nat, sizes : Seq(Nat)]
    /\ work \in [index : Nat, used : Nat, kept : Seq(Nat)]
    /\ work.index <= Len(input.sizes)
    /\ Range(work.kept) \subseteq work.index + 1 .. Len(input.sizes)
    /\ work.used = input.used + Amount(input.sizes, Range(work.kept))
    /\ RequestsFit

LEMMA FitStep ==
    ASSUME PiecesAssumption, kind = "fit", FitInv, FitMessage
    PROVE  FitInv'
<1> DEFINE sizes == input.sizes
           n == Len(sizes)
           i == work.index
           kept == work.kept
           K == Range(kept)
           Up(S, f) == {x \in S : x >= f}
           Used(S, f) == input.used + Amount(sizes, Up(S, f))
           fits == ~(sizes[i] = 0 \/ work.used + sizes[i] > Total)
<1>1. /\ kind' = kind /\ input' = input /\ i > 0 /\ Len(kept) < KeptMessages
      /\ ~fits => work' = [work EXCEPT !.index = @ - 1]
      /\ fits => work' = [index |-> i - 1, used |-> work.used + sizes[i], kept |-> <<i>> \o kept]
  BY DEF FitMessage
<1>2. /\ input.used \in Nat /\ sizes \in Seq(Nat) /\ n \in Nat /\ DOMAIN sizes = 1 .. n
      /\ \A j \in 1 .. n : sizes[j] \in Nat
      /\ i \in Nat /\ i <= n /\ work.used \in Nat /\ kept \in Seq(Nat) /\ KeptMessages \in Nat
      /\ Total \in Nat /\ Len(kept) \in Nat /\ DOMAIN kept = 1 .. Len(kept)
      /\ work \in [index : Nat, used : Nat, kept : Seq(Nat)]
  <2>1. input.used \in Nat /\ sizes \in Seq(Nat)
    BY DEF FitInv
  <2>2. i \in Nat /\ work.used \in Nat /\ kept \in Seq(Nat)
    BY DEF FitInv
  <2>3. i <= n /\ work \in [index : Nat, used : Nat, kept : Seq(Nat)]
    BY DEF FitInv
  <2>4. Total \in Nat /\ KeptMessages \in Nat
    BY DEF PiecesAssumption
  <2> HIDE DEF i, kept, sizes
  <2> QED BY <2>1, <2>2, <2>3, <2>4, LenProperties, ElementOfSeq DEF n
<1>3. /\ K \subseteq i + 1 .. n /\ work.used = input.used + Amount(sizes, K)
      /\ Used(K, 1) <= Total /\ Len(kept) <= KeptMessages
      /\ \A j, k \in DOMAIN kept : j < k => kept[j] < kept[k]
      /\ \A j \in i + 1 .. n : j \in K \/ sizes[j] = 0 \/ Used(K, j + 1) + sizes[j] > Total
  BY DEF FitInv, RequestsFit
<1>4. i \in 1 .. n /\ i - 1 \in Nat /\ sizes[i] \in Nat /\ K \in SUBSET Nat /\ IsFiniteSet(K) /\ i \notin K
  <2> HIDE DEF sizes, n, i, kept, K
  <2>1. IsFiniteSet(i + 1 .. n)
    <3>1. i + 1 \in Int /\ n \in Int
      BY <1>2
    <3> QED BY <3>1, FS_Interval
  <2>2. IsFiniteSet(K)
    BY <1>3, <2>1, FS_Subset
  <2>3. i + 1 .. n \subseteq Nat /\ i \notin i + 1 .. n
    BY <1>2
  <2>4. i \in 1 .. n /\ i - 1 \in Nat
    BY <1>1, <1>2
  <2> QED BY <1>2, <1>3, <2>2, <2>3, <2>4
<1>5. (\A j \in i .. n : j \in i + 1 .. n \/ j = i) /\ i - 1 + 1 = i
  BY <1>2
<1> HIDE DEF sizes, n, i, kept, K
<1>6. Up(K, 1) = K /\ Up(K, i + 1) = K
  <2>1. \A x \in i + 1 .. n : x >= 1 /\ x >= i + 1
    BY <1>2
  <2> QED BY <1>3, <2>1
<1>7. CASE ~fits
  <2>1. work' = [work EXCEPT !.index = i - 1]
    BY <1>1, <1>7 DEF i
  <2>2. work'.index = i - 1 /\ work'.used = work.used /\ work'.kept = kept
    BY <1>2, <2>1 DEF kept
  <2>3. work' \in [index : Nat, used : Nat, kept : Seq(Nat)]
    BY <1>2, <1>4, <2>1
  <2>4. sizes[i] = 0 \/ Used(K, i + 1) + sizes[i] > Total
    BY <1>3, <1>6, <1>7
  <2>5. K \subseteq i .. n
    BY <1>2, <1>3
  <2>6. \A j \in i .. n : j \in K \/ sizes[j] = 0 \/ Used(K, j + 1) + sizes[j] > Total
    BY <1>3, <1>5, <2>4
  <2>7. input'.sizes = sizes /\ input'.used = input.used /\ Range(work'.kept) = K
    BY <1>1, <2>2 DEF sizes, K
  <2>8. RequestsFit'
    BY <1>1, <1>3, <1>5, <2>2, <2>6, <2>7 DEF RequestsFit, n
  <2>9. work'.index <= Len(input'.sizes)
    BY <1>2, <2>2, <2>7 DEF n
  <2>10. /\ Range(work'.kept) \subseteq work'.index + 1 .. Len(input'.sizes)
         /\ work'.used = input'.used + Amount(input'.sizes, Range(work'.kept))
    BY <1>3, <1>5, <2>2, <2>5, <2>7 DEF n
  <2>11. input' \in [used : Nat, sizes : Seq(Nat)]
    BY <1>1 DEF FitInv
  <2> QED BY <2>3, <2>8, <2>9, <2>10, <2>11 DEF FitInv
<1>8. CASE fits
  <2> DEFINE more == <<i>> \o kept
             L == K \cup {i}
  <2>1. work'.index = i - 1 /\ work'.used = work.used + sizes[i] /\ work'.kept = more
    BY <1>1, <1>8
  <2>2. /\ more \in Seq(Nat) /\ Len(more) = 1 + Len(kept) /\ DOMAIN more = 1 .. 1 + Len(kept)
        /\ \A k \in 1 .. 1 + Len(kept) : more[k] = IF k = 1 THEN i ELSE kept[k - 1]
    <3>1. <<i>> \in Seq(Nat) /\ Len(<<i>>) = 1 /\ <<i>>[1] = i
      BY <1>2
    <3>2. /\ more \in Seq(Nat) /\ Len(more) = 1 + Len(kept)
          /\ \A k \in 1 .. 1 + Len(kept) : more[k] = IF k <= 1 THEN <<i>>[k] ELSE kept[k - 1]
      BY <1>2, <3>1, ConcatProperties
    <3> HIDE DEF more
    <3>3. \A k \in 1 .. 1 + Len(kept) : k <= 1 <=> k = 1
      BY <1>2
    <3>4. DOMAIN more = 1 .. 1 + Len(kept)
      BY <3>2, LenProperties
    <3> QED BY <3>1, <3>2, <3>3, <3>4
  <2>3. work' \in [index : Nat, used : Nat, kept : Seq(Nat)]
    <3>1. work.used + sizes[i] \in Nat
      BY <1>2, <1>4
    <3>2. work' = [index |-> i - 1, used |-> work.used + sizes[i], kept |-> more]
      BY <1>1, <1>8
    <3> HIDE DEF more
    <3> QED BY <1>4, <2>2, <3>1, <3>2
  <2> HIDE DEF more
  <2>4. Range(more) = L
    <3>1. 1 \in DOMAIN more /\ \A k \in 1 .. Len(kept) : k + 1 \in DOMAIN more /\ more[k + 1] = kept[k]
      <4>1. /\ 1 \in 1 .. 1 + Len(kept)
            /\ \A k \in 1 .. Len(kept) : k + 1 \in 1 .. 1 + Len(kept) /\ k + 1 # 1 /\ k + 1 - 1 = k
        BY <1>2
      <4> QED BY <2>2, <4>1
    <3>2. \A k \in DOMAIN more : k = 1 \/ k - 1 \in DOMAIN kept
      BY <1>2, <2>2
    <3>3. ASSUME NEW x \in L PROVE x \in Range(more)
      <4>1. CASE x = i
        BY <2>2, <3>1, <4>1 DEF Range
      <4>2. CASE x \in K
        <5>1. PICK k \in DOMAIN kept : x = kept[k]
          BY <4>2 DEF K, Range
        <5>2. k + 1 \in DOMAIN more /\ more[k + 1] = x
          BY <1>2, <3>1, <5>1
        <5> QED BY <5>2 DEF Range
      <4> QED BY <4>1, <4>2
    <3>4. ASSUME NEW k \in DOMAIN more PROVE more[k] \in L
      BY <2>2, <3>2 DEF K, Range
    <3> QED BY <3>3, <3>4 DEF Range
  <2>5. Amount(sizes, L) = Amount(sizes, K) + sizes[i] /\ Amount(sizes, K) \in Nat
    <3>1. \A j \in K : sizes[j] \in Nat
      <4>1. i + 1 .. n \subseteq 1 .. n
        BY <1>2
      <4> QED BY <1>2, <1>3, <4>1
    <3>2. i \in Nat \ K
      BY <1>2, <1>4
    <3> QED BY <1>4, <3>1, <3>2, AmountIs
  <2>6. ASSUME NEW f \in Nat, f > i PROVE Up(L, f) = Up(K, f)
    BY <1>2, <2>6
  <2>7. Up(L, 1) = L
    <3>1. i >= 1
      BY <1>1, <1>2
    <3> QED BY <1>6, <3>1
  <2>8. L \subseteq i .. n
    BY <1>2, <1>3
  <2>9. ASSUME NEW j \in i .. n PROVE j \in L \/ sizes[j] = 0 \/ Used(L, j + 1) + sizes[j] > Total
    <3>1. CASE j = i
      BY <3>1
    <3>2. CASE j \in i + 1 .. n
      <4>1. j + 1 \in Nat /\ j + 1 > i
        BY <1>2
      <4>2. Used(L, j + 1) = Used(K, j + 1)
        BY <2>6, <4>1
      <4> QED BY <1>3, <3>2, <4>2
    <3> QED BY <1>5, <3>1, <3>2
  <2>10. Used(L, 1) = work.used + sizes[i] /\ work.used + sizes[i] <= Total
    <3>1. Used(L, 1) = input.used + (Amount(sizes, K) + sizes[i])
      BY <2>5, <2>7
    <3>2. work.used = input.used + Amount(sizes, K)
      BY <1>3
    <3>3. ~(work.used + sizes[i] > Total)
      BY <1>8
    <3> DEFINE a == Amount(sizes, K)
               total == Used(L, 1)
    <3>4. total = input.used + (a + sizes[i]) /\ work.used = input.used + a /\ a \in Nat
      BY <2>5, <3>1, <3>2
    <3> HIDE DEF L, fits, Used, a, total
    <3>5. total = work.used + sizes[i] /\ work.used + sizes[i] <= Total
      <4> DEFINE u == input.used
                 w == work.used
                 z == sizes[i]
      <4>1. u \in Nat /\ w \in Nat /\ z \in Nat /\ Total \in Nat
        BY <1>2, <1>4
      <4>2. total = u + (a + z) /\ w = u + a /\ a \in Nat /\ ~(w + z > Total)
        BY <3>3, <3>4
      <4> HIDE DEF u, w, z
      <4>3. total = w + z /\ w + z <= Total
        BY <4>1, <4>2
      <4> QED BY <4>3 DEF w, z
    <3> QED BY <3>5 DEF total
  <2>11. Len(more) <= KeptMessages
    BY <1>1, <1>2, <2>2
  <2>12. ASSUME NEW j \in DOMAIN more, NEW k \in DOMAIN more, j < k PROVE more[j] < more[k]
    <3> DEFINE m == Len(kept)
    <3>4. m \in Nat /\ j \in 1 .. 1 + m /\ k \in 1 .. 1 + m /\ DOMAIN kept = 1 .. m
      BY <1>2, <2>2
    <3>5. \A l \in 1 .. 1 + m : more[l] = IF l = 1 THEN i ELSE kept[l - 1]
      BY <2>2
    <3> HIDE DEF m
    <3>6. k # 1 /\ k - 1 \in 1 .. m /\ (j # 1 => j - 1 \in 1 .. m /\ j - 1 < k - 1)
      BY <2>12, <3>4
    <3>1. k - 1 \in DOMAIN kept /\ more[k] = kept[k - 1]
      BY <3>4, <3>5, <3>6
    <3>2. CASE j = 1
      <4>1. kept[k - 1] \in K
        BY <3>1 DEF K, Range
      <4>2. kept[k - 1] \in i + 1 .. n
        BY <1>3, <4>1
      <4> QED BY <1>2, <2>2, <3>1, <3>2, <4>2
    <3>3. CASE j # 1
      <4>1. j - 1 \in DOMAIN kept /\ more[j] = kept[j - 1] /\ j - 1 < k - 1
        BY <3>3, <3>4, <3>5, <3>6
      <4> QED BY <1>3, <3>1, <4>1
    <3> QED BY <3>2, <3>3
  <2>13. input'.sizes = sizes /\ input'.used = input.used /\ Range(work'.kept) = L
    BY <1>1, <2>1, <2>4 DEF sizes
  <2>14. RequestsFit'
    BY <1>1, <1>5, <2>1, <2>9, <2>10, <2>11, <2>12, <2>13 DEF RequestsFit, n
  <2>15. work'.index <= Len(input'.sizes)
    BY <1>2, <2>1, <2>13 DEF n
  <2>16. /\ Range(work'.kept) \subseteq work'.index + 1 .. Len(input'.sizes)
         /\ work'.used = input'.used + Amount(input'.sizes, Range(work'.kept))
    BY <1>5, <2>1, <2>7, <2>8, <2>10, <2>13 DEF n
  <2>17. input' \in [used : Nat, sizes : Seq(Nat)]
    BY <1>1 DEF FitInv
  <2> QED BY <2>3, <2>14, <2>15, <2>16, <2>17 DEF FitInv
<1> QED BY <1>7, <1>8

-----------------------------------------------------------------------------
(* The segments of an answer *)

Verdicts == {Nothing, "valid", "duplicate-segment", "segment-order", "source-mismatch", "segment-coverage"}
Place == 1 .. Len(input.source)
Sizes == [i \in DOMAIN input.segments |-> Len(input.segments[i])]

\* the first segments lie in the page, one behind the other
Lies(p, k) ==
    \A i \in 1 .. k : /\ p[i] \in Found(input.segments[i], 1)
                      /\ \A j \in 1 .. i - 1 : p[j] + Len(input.segments[j]) <= p[i]

\* while there is no verdict: the segments before the k-th differ and lie before the place c, and nobody can
\* place them so that the last of them ends before it
Ahead(k, c, covered) ==
    /\ k \in 1 .. Len(input.segments) + 1 /\ c >= 1 /\ covered = Amount(Sizes, 1 .. k - 1)
    /\ \A i, j \in 1 .. k - 1 : input.segments[i] = input.segments[j] => i = j
    /\ \E p \in [1 .. k - 1 -> Place] :
         Lies(p, k - 1) /\ \A i \in 1 .. k - 1 : p[i] + Len(input.segments[i]) <= c
    /\ k = 1 => c = 1
    /\ k > 1 => \A p \in [1 .. k - 1 -> Place] :
         Lies(p, k - 1) => p[k - 1] + Len(input.segments[k - 1]) >= c

JudgeInv ==
    /\ input \in [source : Seq(Character), segments : Seq(Seq(Character) \ {<<>>})]
    /\ work \in [next : Nat, cursor : Nat, covered : Nat, verdict : Verdicts]
    /\ work.verdict = Nothing => Ahead(work.next, work.cursor, work.covered)
    /\ AlignedIsPlaced

\* Where a segment is found.
LEMMA FoundIs ==
    ASSUME NEW n \in Nat, n = Len(input.source), NEW f, Len(f) \in Nat, Len(f) > 0, NEW c \in Nat, c >= 1
    PROVE  /\ Found(f, c) \subseteq 1 .. n
           /\ \A p : p \in Found(f, c) <=> p \in Found(f, 1) /\ p >= c
<1>1. \A p : p \in c .. n - Len(f) + 1 <=> p \in 1 .. n - Len(f) + 1 /\ p >= c
  OBVIOUS
<1>2. \A p : p \in c .. n - Len(f) + 1 => p \in 1 .. n
  OBVIOUS
<1> QED BY <1>1, <1>2 DEF Found

LEMMA JudgeStep ==
    ASSUME PiecesAssumption, kind \in {"raw", "parsed"}, JudgeInv, Judges
    PROVE  JudgeInv'
<1> DEFINE s == input.segments
           n == Len(s)
           m == Len(input.source)
           k == work.next
           c == work.cursor
           f == s[k]
           places == Found(f, c)
<1>1. /\ m \in Nat /\ n \in Nat /\ DOMAIN s = 1 .. n
      /\ \A i \in 1 .. n : s[i] \in Seq(Character) /\ Len(s[i]) \in Nat /\ Len(s[i]) > 0
      /\ work \in [next : Nat, cursor : Nat, covered : Nat, verdict : Verdicts]
      /\ k \in Nat /\ c \in Nat /\ work.covered \in Nat /\ work.verdict = Nothing
  <2>1. input.source \in Seq(Character) /\ s \in Seq(Seq(Character) \ {<<>>})
    BY DEF JudgeInv
  <2>2. /\ work \in [next : Nat, cursor : Nat, covered : Nat, verdict : Verdicts]
        /\ k \in Nat /\ c \in Nat /\ work.covered \in Nat /\ work.verdict = Nothing
    BY DEF JudgeInv, Judges
  <2> HIDE DEF s, k, c
  <2>3. m \in Nat /\ n \in Nat /\ DOMAIN s = 1 .. n /\ \A i \in 1 .. n : s[i] \in Seq(Character) \ {<<>>}
    BY <2>1, LenProperties, ElementOfSeq
  <2>4. \A i \in 1 .. n : Len(s[i]) \in Nat \ {0}
    BY <2>3, EmptySeq
  <2> HIDE DEF n, m
  <2>5. \A x \in Nat \ {0} : x > 0
    OBVIOUS
  <2> QED BY <2>2, <2>3, <2>4, <2>5
<1>2. /\ k \in 1 .. n + 1 /\ c >= 1 /\ work.covered = Amount(Sizes, 1 .. k - 1)
      /\ \A i, j \in 1 .. k - 1 : s[i] = s[j] => i = j
      /\ \E p \in [1 .. k - 1 -> Place] :
           Lies(p, k - 1) /\ \A i \in 1 .. k - 1 : p[i] + Len(s[i]) <= c
      /\ k = 1 => c = 1
      /\ k > 1 => \A p \in [1 .. k - 1 -> Place] : Lies(p, k - 1) => p[k - 1] + Len(s[k - 1]) >= c
  BY <1>1 DEF JudgeInv, Ahead
<1>3. /\ kind' = kind /\ input' = input
      /\ IF k > n THEN work' = [work EXCEPT !.verdict = IF Enough(work.covered) THEN "valid" ELSE "segment-coverage"]
         ELSE IF \E i \in 1 .. k - 1 : s[i] = f
         THEN work' = [work EXCEPT !.verdict = "duplicate-segment"]
         ELSE IF places = {} THEN work' = [work EXCEPT !.verdict = Missing(f)]
         ELSE work' = [work EXCEPT !.next = @ + 1, !.cursor = Min(places) + Len(f), !.covered = @ + Len(f)]
  BY DEF Judges
<1>4. /\ \A p, l : Lies(p, l)' = Lies(p, l)
      /\ Place' = Place /\ Sizes' = Sizes
      /\ \A g, x : Found(g, x)' = Found(g, x)
      /\ \A x : Enough(x)' = Enough(x)
      /\ \A l, x, y : Ahead(l, x, y)' = Ahead(l, x, y)
  <2>1. /\ Place' = Place /\ Sizes' = Sizes
        /\ \A g, x : Found(g, x)' = Found(g, x)
        /\ \A x : Enough(x)' = Enough(x)
    BY <1>3 DEF Place, Sizes, Found, Enough
  <2>2. \A p, l : Lies(p, l)' = Lies(p, l)
    BY <1>3, <2>1 DEF Lies
  <2>3. \A l, x, y : Ahead(l, x, y)' = Ahead(l, x, y)
    BY <1>3, <2>1, <2>2 DEF Ahead
  <2> QED BY <2>1, <2>2, <2>3
<1>5. \A i \in 1 .. n, x \in Nat \ {0} :
         Found(s[i], x) \subseteq Place /\ \A p : p \in Found(s[i], x) <=> p \in Found(s[i], 1) /\ p >= x
  <2> SUFFICES ASSUME NEW i \in 1 .. n, NEW x \in Nat \ {0}
               PROVE  Found(s[i], x) \subseteq Place /\ \A p : p \in Found(s[i], x) <=> p \in Found(s[i], 1) /\ p >= x
    OBVIOUS
  <2>1. Len(s[i]) \in Nat /\ Len(s[i]) > 0 /\ x \in Nat /\ x >= 1
    BY <1>1
  <2> HIDE DEF s
  <2> QED BY <1>1, <2>1, FoundIs DEF Place
<1>6. Place \subseteq Nat /\ k - 1 \in Nat /\ (k <= n => k \in 1 .. n)
  BY <1>1, <1>2 DEF Place
<1>7. AlignedIsPlaced' <=>
        (work'.verdict # Nothing =>
           /\ work'.verdict = "valid" <=> IsInjective(s) /\ Placed(s) /\ Enough(Amount(Sizes, DOMAIN s))
           /\ work'.verdict = "segment-order" => \A i \in 1 .. work'.next : Found(s[i], 1) # {})
  <2>1. Placed(s)' = Placed(s)
    BY <1>3, <1>4 DEF Placed
  <2> QED BY <1>3, <1>4, <2>1 DEF AlignedIsPlaced, Sizes
<1>8. input' \in [source : Seq(Character), segments : Seq(Seq(Character) \ {<<>>})]
  BY <1>3 DEF JudgeInv
<1>9. Placed(s) => \E p \in [1 .. n -> Place] : Lies(p, n)
  BY <1>1 DEF Placed, Lies, Place
<1>10. ASSUME NEW v \in Verdicts, work' = [work EXCEPT !.verdict = v],
              v = "valid" <=> IsInjective(s) /\ Placed(s) /\ Enough(Amount(Sizes, DOMAIN s)),
              v = "segment-order" => \A i \in 1 .. k : Found(s[i], 1) # {}
       PROVE  JudgeInv'
  <2>1. work'.verdict = v /\ work'.next = k /\ work'.cursor = c /\ work'.covered = work.covered
    BY <1>1, <1>10
  <2>2. work' \in [next : Nat, cursor : Nat, covered : Nat, verdict : Verdicts]
    BY <1>1, <1>10
  <2>3. AlignedIsPlaced'
    BY <1>7, <1>10, <2>1
  <2>4. Ahead(work.next, work.cursor, work.covered)'
    BY <1>1, <1>4, <2>1 DEF JudgeInv
  <2>5. Verdicts' = Verdicts
    BY DEF Verdicts
  <2> QED BY <1>8, <2>2, <2>3, <2>4, <2>5 DEF JudgeInv
<1> HIDE DEF s, n, m, k, c, f
<1>11. CASE k > n
  <2> DEFINE v == IF Enough(work.covered) THEN "valid" ELSE "segment-coverage"
  <2>1. work' = [work EXCEPT !.verdict = v] /\ v \in Verdicts /\ v # "segment-order"
    BY <1>3, <1>11 DEF Verdicts
  <2>2. k - 1 = n
    BY <1>1, <1>2, <1>11
  <2>3. IsInjective(s)
    BY <1>1, <1>2, <2>2 DEF IsInjective
  <2>4. Placed(s)
    BY <1>1, <1>2, <2>2 DEF Placed, Lies, Place, s
  <2>5. v = "valid" <=> Enough(Amount(Sizes, DOMAIN s))
    BY <1>1, <1>2, <2>2
  <2> HIDE DEF v
  <2> QED BY <1>10, <2>1, <2>3, <2>4, <2>5
<1>12. CASE k <= n /\ \E i \in 1 .. k - 1 : s[i] = f
  <2>1. work' = [work EXCEPT !.verdict = "duplicate-segment"]
    BY <1>1, <1>3, <1>12
  <2>2. ~IsInjective(s)
    <3>1. PICK i \in 1 .. k - 1 : s[i] = s[k]
      BY <1>12 DEF f
    <3>2. i \in DOMAIN s /\ k \in DOMAIN s /\ i # k
      BY <1>1, <1>2, <1>12
    <3> QED BY <3>1, <3>2 DEF IsInjective
  <2>3. "duplicate-segment" \in Verdicts
    BY DEF Verdicts
  <2> QED BY <1>10, <2>1, <2>2, <2>3
<1>13. CASE k <= n /\ ~(\E i \in 1 .. k - 1 : s[i] = f) /\ places = {}
  <2>1. work' = [work EXCEPT !.verdict = Missing(f)] /\ Missing(f) \in Verdicts /\ Missing(f) # "valid"
    BY <1>1, <1>3, <1>13 DEF Missing, Verdicts
  <2>2. ~Placed(s)
    <3> SUFFICES ASSUME NEW p \in [1 .. n -> Place], Lies(p, n) PROVE FALSE
      BY <1>9
    <3>1. k \in 1 .. n /\ p[k] \in Found(s[k], 1) /\ \A j \in 1 .. k - 1 : p[j] + Len(s[j]) <= p[k]
      BY <1>6, <1>13 DEF Lies, s
    <3>2. p[k] >= c
      <4>1. CASE k = 1
        <5>1. p[k] \in 1 .. Len(input.source)
          BY <3>1 DEF Place
        <5> QED BY <1>2, <4>1, <5>1
      <4>2. CASE k # 1
        <5> DEFINE q == [i \in 1 .. k - 1 |-> p[i]]
        <5>1. 1 .. k - 1 \subseteq 1 .. n /\ k - 1 \in 1 .. k - 1 /\ k > 1
          BY <1>1, <3>1, <4>2
        <5>2. q \in [1 .. k - 1 -> Place] /\ \A i \in 1 .. k - 1 : q[i] = p[i]
          BY <5>1
        <5>3. \A i \in 1 .. k - 1 : \A j \in 1 .. i - 1 : j \in 1 .. k - 1
          BY <1>6
        <5> HIDE DEF q
        <5>4. Lies(q, k - 1)
          BY <5>1, <5>2, <5>3 DEF Lies
        <5>5. q[k - 1] + Len(s[k - 1]) >= c
          BY <1>2, <5>1, <5>2, <5>4
        <5>6. p[k - 1] + Len(s[k - 1]) >= c /\ p[k - 1] + Len(s[k - 1]) <= p[k]
          BY <3>1, <5>1, <5>2, <5>5
        <5>7. p[k - 1] \in Nat /\ p[k] \in Nat /\ Len(s[k - 1]) \in Nat
          BY <1>1, <1>6, <3>1, <5>1
        <5> QED BY <1>1, <5>6, <5>7
      <4> QED BY <4>1, <4>2
    <3>3. c \in Nat \ {0}
      BY <1>1, <1>2
    <3>4. p[k] \in Found(s[k], c)
      BY <1>5, <3>1, <3>2, <3>3
    <3> QED BY <1>13, <3>4 DEF f
  <2>3. ASSUME Missing(f) = "segment-order", NEW i \in 1 .. k PROVE Found(s[i], 1) # {}
    <3>1. CASE i = k
      BY <2>3, <3>1 DEF Missing, f
    <3>2. CASE i # k
      <4>1. i \in 1 .. k - 1
        BY <1>1, <3>2
      <4> QED BY <1>2, <4>1 DEF Lies, s
    <3> QED BY <3>1, <3>2
  <2> QED BY <1>10, <2>1, <2>2, <2>3
<1>14. CASE k <= n /\ ~(\E i \in 1 .. k - 1 : s[i] = f) /\ places # {}
  <2> DEFINE x == Min(places)
             e == x + Len(f)
  <2>1. /\ k \in 1 .. n /\ c \in Nat \ {0} /\ Len(f) \in Nat /\ Len(f) > 0 /\ f = s[k]
        /\ 1 .. k + 1 - 1 = 1 .. k /\ k + 1 - 1 = k /\ k - 1 \in Nat
        /\ \A i \in 1 .. k : i \in 1 .. k - 1 \/ i = k
        /\ 1 .. k - 1 \subseteq 1 .. k /\ k \notin 1 .. k - 1
    BY <1>1, <1>2, <1>6, <1>14 DEF f
  <2>2. x \in places /\ x \in Place /\ x \in Nat /\ x \in Found(f, 1) /\ x >= c /\ \A p \in places : x <= p
    <3>1. places \in SUBSET Nat /\ places # {}
      BY <1>5, <1>6, <1>14, <2>1
    <3>2. x \in places /\ \A p \in places : x <= p
      <4> HIDE DEF places
      <4> QED BY <3>1, MinIs
    <3> HIDE DEF x
    <3> QED BY <1>5, <1>6, <2>1, <3>2
  <2> HIDE DEF x
  <2>3. work' = [work EXCEPT !.next = k + 1, !.cursor = e, !.covered = work.covered + Len(f)]
    <3>1. ~(k > n)
      BY <1>1, <1>14
    <3> QED BY <1>3, <1>14, <3>1 DEF k, x
  <2>4. e \in Nat /\ e >= 1 /\ x <= e /\ c <= e /\ k + 1 \in Nat /\ work.covered + Len(f) \in Nat
    BY <1>1, <2>1, <2>2
  <2>5. /\ work'.next = k + 1 /\ work'.cursor = e /\ work'.covered = work.covered + Len(f)
        /\ work'.verdict = Nothing
        /\ work' \in [next : Nat, cursor : Nat, covered : Nat, verdict : Verdicts]
    <3> HIDE DEF e
    <3> QED BY <1>1, <2>3, <2>4
  <2> HIDE DEF e, places
  <2>6. work.covered + Len(f) = Amount(Sizes, 1 .. k)
    <3>1. 1 .. k - 1 \in SUBSET Nat /\ IsFiniteSet(1 .. k - 1) /\ k \in Nat \ (1 .. k - 1)
      <4>1. 1 \in Int /\ k - 1 \in Int /\ k \in Nat /\ k \notin 1 .. k - 1 /\ 1 .. k - 1 \subseteq Nat
        BY <2>1
      <4> QED BY <4>1, FS_Interval
    <3>2. \A i \in 1 .. k : Sizes[i] = Len(s[i]) /\ Sizes[i] \in Nat
      <4>1. 1 .. k \subseteq 1 .. n
        BY <1>1, <2>1
      <4> QED BY <1>1, <4>1 DEF Sizes, s
    <3>3. Amount(Sizes, (1 .. k - 1) \cup {k}) = Amount(Sizes, 1 .. k - 1) + Sizes[k]
      <4>1. k \in 1 .. k
        BY <2>1
      <4> QED BY <2>1, <3>1, <3>2, <4>1, AmountIs
    <3>4. (1 .. k - 1) \cup {k} = 1 .. k /\ Sizes[k] = Len(f)
      <4>1. k \in 1 .. k
        BY <2>1
      <4> QED BY <2>1, <3>2, <4>1
    <3> QED BY <1>2, <3>3, <3>4
  <2>7. \A i, j \in 1 .. k : s[i] = s[j] => i = j
    BY <1>2, <1>14, <2>1
  <2>8. \E p \in [1 .. k -> Place] : Lies(p, k) /\ \A i \in 1 .. k : p[i] + Len(s[i]) <= e
    <3>1. PICK p \in [1 .. k - 1 -> Place] :
             Lies(p, k - 1) /\ \A i \in 1 .. k - 1 : p[i] + Len(s[i]) <= c
      BY <1>2
    <3> DEFINE q == [i \in 1 .. k |-> IF i = k THEN x ELSE p[i]]
    <3>2. q \in [1 .. k -> Place] /\ q[k] = x /\ \A i \in 1 .. k - 1 : q[i] = p[i]
      BY <2>1, <2>2
    <3> HIDE DEF q
    <3>3. \A i \in 1 .. k - 1 : p[i] + Len(s[i]) \in Nat
      <4>1. 1 .. k - 1 \subseteq 1 .. n
        BY <1>1, <2>1
      <4>2. \A i \in 1 .. k - 1 : p[i] \in Nat /\ Len(s[i]) \in Nat
        BY <1>1, <1>6, <4>1
      <4> QED BY <4>2
    <3>4. ASSUME NEW i \in 1 .. k - 1 PROVE q[i] + Len(s[i]) <= x /\ q[i] + Len(s[i]) <= e
      <4>1. q[i] + Len(s[i]) \in Nat /\ q[i] + Len(s[i]) <= c /\ c \in Nat
        BY <1>1, <3>1, <3>2, <3>3
      <4> DEFINE t == q[i] + Len(s[i])
      <4> HIDE DEF t
      <4>2. t \in Nat /\ t <= c /\ c \in Nat
        BY <4>1 DEF t
      <4>3. t <= x /\ t <= e
        BY <2>2, <2>4, <4>2
      <4> QED BY <4>3 DEF t
    <3>5. \A i \in 1 .. k - 1 : \A j \in 1 .. i - 1 : j \in 1 .. k - 1
      BY <1>6
    <3>6. \A i \in 1 .. k - 1 : /\ q[i] \in Found(s[i], 1)
                                /\ \A j \in 1 .. i - 1 : q[j] + Len(s[j]) <= q[i]
      BY <3>1, <3>2, <3>5 DEF Lies, s
    <3>7. Lies(q, k)
      <4>1. q[k] \in Found(s[k], 1) /\ \A j \in 1 .. k - 1 : q[j] + Len(s[j]) <= q[k]
        BY <2>1, <2>2, <3>2, <3>4
      <4> QED BY <2>1, <3>6, <4>1 DEF Lies, s
    <3>8. \A i \in 1 .. k : q[i] + Len(s[i]) <= e
      <4>1. q[k] + Len(s[k]) <= e
        BY <2>1, <2>4, <3>2 DEF e
      <4> QED BY <2>1, <3>4, <4>1
    <3> QED BY <3>2, <3>7, <3>8
  <2>9. ASSUME NEW p \in [1 .. k -> Place], Lies(p, k) PROVE p[k] + Len(s[k]) >= e
    <3>1. k \in 1 .. k /\ p[k] \in Found(s[k], 1) /\ \A j \in 1 .. k - 1 : p[j] + Len(s[j]) <= p[k]
      BY <2>1, <2>9 DEF Lies, s
    <3>2. p[k] >= c
      <4>1. CASE k = 1
        <5>1. p[k] \in 1 .. Len(input.source)
          BY <3>1 DEF Place
        <5> QED BY <1>2, <4>1, <5>1
      <4>2. CASE k # 1
        <5> DEFINE q == [i \in 1 .. k - 1 |-> p[i]]
        <5>1. 1 .. k - 1 \subseteq 1 .. k /\ k - 1 \in 1 .. k - 1 /\ k > 1 /\ k - 1 \in 1 .. n
          BY <1>1, <2>1, <4>2
        <5>2. q \in [1 .. k - 1 -> Place] /\ \A i \in 1 .. k - 1 : q[i] = p[i]
          BY <5>1
        <5>3. \A i \in 1 .. k - 1 : \A j \in 1 .. i - 1 : j \in 1 .. k - 1
          BY <1>6
        <5> HIDE DEF q
        <5>4. Lies(q, k - 1)
          BY <2>9, <5>1, <5>2, <5>3 DEF Lies
        <5>5. q[k - 1] + Len(s[k - 1]) >= c
          BY <1>2, <5>1, <5>2, <5>4
        <5>6. p[k - 1] + Len(s[k - 1]) >= c /\ p[k - 1] + Len(s[k - 1]) <= p[k]
          BY <3>1, <5>1, <5>2, <5>5
        <5>7. p[k - 1] \in Nat /\ p[k] \in Nat /\ Len(s[k - 1]) \in Nat
          BY <1>1, <1>6, <3>1, <5>1
        <5> QED BY <1>1, <5>6, <5>7
      <4> QED BY <4>1, <4>2
    <3>3. p[k] \in places
      BY <1>5, <2>1, <3>1, <3>2 DEF places
    <3>4. x <= p[k] /\ p[k] \in Nat
      BY <1>6, <2>2, <3>1, <3>3
    <3> QED BY <2>1, <2>2, <3>4 DEF e
  <2>10. k + 1 \in 1 .. n + 1 /\ k + 1 > 1 /\ k + 1 # 1
    BY <1>1, <2>1
  <2>11. Ahead(work.next, work.cursor, work.covered)'
    <3>1. Ahead(k + 1, e, work.covered + Len(f))
      <4> DEFINE K == k + 1
      <4>1. K - 1 = k
        BY <2>1
      <4>2. K \in 1 .. n + 1 /\ K # 1
        BY <2>10
      <4> HIDE DEF K
      <4>3. Ahead(K, e, work.covered + Len(f))
        BY <2>4, <2>6, <2>7, <2>8, <2>9, <4>1, <4>2 DEF Ahead, s, n
      <4> QED BY <4>3 DEF K
    <3> QED BY <1>4, <2>5, <3>1
  <2>12. AlignedIsPlaced' /\ Verdicts' = Verdicts
    BY <1>7, <2>5 DEF Verdicts
  <2> QED BY <1>8, <2>5, <2>11, <2>12 DEF JudgeInv
<1>15. k > n \/ k <= n
  BY <1>1
<1> QED BY <1>11, <1>12, <1>13, <1>14, <1>15

-----------------------------------------------------------------------------
(* A page in pieces *)

Letters == {"a", ".", " ", "n"}
Glyph == [at : Nat, is : Letters]

SplitInv ==
    /\ input \in Seq(Letters) /\ (Len(input) > 0 => input[Len(input)] \notin White)
    /\ work \in [start : Nat, pieces : Seq(Stretch), merged : Seq(Glyph), next : Nat, kept : Seq(Nat)]
    /\ work.start <= Len(input)
    /\ work.start < Len(input) => /\ input[work.start + 1] \notin White
                                  /\ work.next = 1 /\ work.kept = <<>> /\ work.merged = <<>>
    /\ work.next \in 1 .. Len(work.pieces) + 1 /\ Range(work.kept) \subseteq 1 .. work.next - 1
    /\ \A i, j \in DOMAIN work.kept : i < j => work.kept[i] < work.kept[j]
    /\ PagesAreWhole
    /\ MergedInOrder

LEMMA HalfIs ==
    ASSUME PiecesAssumption
    PROVE  Limit \in Nat /\ Half \in Nat /\ Half >= 1 /\ Half <= Limit
<1>1. Limit \in Nat /\ Limit >= 2
  BY DEF PiecesAssumption
<1> QED BY <1>1 DEF Half

\* Where a piece ends before the end of the page: after a word only if the last half has no other end.
LEMMA BoundaryIs ==
    ASSUME PiecesAssumption, NEW n \in Nat, n = Len(input), \A i \in 1 .. n : input[i] \in Letters,
           work.start \in Nat, work.start + Limit <= n
    PROVE  /\ Boundary \in work.start + 1 .. work.start + Limit
           /\ input[Boundary] = "a" =>
                \A i \in Boundary - (Limit - Half) .. Boundary : input[i] = "a"
<1> DEFINE s == work.start
           E == Stops({".", "n"})
           W == Stops(White)
<1>1. /\ Limit \in Nat /\ Half \in Nat /\ Half >= 1 /\ Half <= Limit /\ s \in Nat /\ s + Limit <= n
      /\ Window = s + Half .. s + Limit
  BY HalfIs DEF Window
<1>2. /\ Window \subseteq 1 .. n /\ Window \subseteq s + 1 .. s + Limit /\ s + Limit \in Window
      /\ Window \subseteq Nat /\ (s + Limit) - (Limit - Half) = s + Half /\ s + Limit \in Nat
  <2> HIDE DEF s
  <2> QED BY <1>1
<1>3. E \in SUBSET Window /\ W \in SUBSET Window
  BY DEF Stops
<1>4. ASSUME NEW S \in SUBSET Window, S # {}
      PROVE  Max(S) \in S /\ Max(S) \in s + 1 .. s + Limit
  <2> HIDE DEF s
  <2>1. S \in SUBSET Nat /\ \A i \in S : i <= s + Limit
    BY <1>1, <1>2
  <2> QED BY <1>2, <1>4, <2>1, MaxIs
<1>5. CASE E # {}
  <2>1. Boundary = Max(E)
    BY <1>5 DEF Boundary
  <2>2. Max(E) \in E /\ Max(E) \in s + 1 .. s + Limit
    BY <1>3, <1>4, <1>5
  <2>3. input[Boundary] # "a"
    BY <2>1, <2>2 DEF Stops
  <2> QED BY <2>1, <2>2, <2>3
<1>6. CASE E = {} /\ W # {}
  <2>1. Boundary = Max(W)
    BY <1>6 DEF Boundary
  <2>2. Max(W) \in W /\ Max(W) \in s + 1 .. s + Limit
    BY <1>3, <1>4, <1>6
  <2>3. input[Boundary] # "a"
    BY <2>1, <2>2 DEF Stops, White
  <2> QED BY <2>1, <2>2, <2>3
<1>7. CASE E = {} /\ W = {}
  <2>1. Boundary = s + Limit
    BY <1>7 DEF Boundary
  <2>2. \A i \in Window : input[i] \in Letters /\ input[i] \notin {".", "n"} /\ input[i] \notin White
    BY <1>2, <1>7 DEF Stops
  <2>3. \A i \in Window : input[i] = "a"
    BY <2>2 DEF Letters, White
  <2> HIDE DEF s, E, W
  <2>4. Boundary - (Limit - Half) .. Boundary = Window
    BY <1>1, <1>2, <2>1
  <2> QED BY <1>2, <2>1, <2>3, <2>4 DEF s
<1> QED BY <1>5, <1>6, <1>7

\* The stretch without what is white at its ends.
LEMMA TrimmedIs ==
    ASSUME NEW from \in Nat, NEW to \in Nat, from <= to, input[from] \notin White
    PROVE  /\ Trimmed(from, to) \in Stretch /\ Trimmed(from, to).from = from
           /\ Trimmed(from, to).to \in from .. to
           /\ \A i \in Trimmed(from, to).to + 1 .. to : input[i] \in White
           /\ input[Trimmed(from, to).to] \notin White
<1> DEFINE inner == {i \in from .. to : input[i] \notin White}
<1>1. Trimmed(from, to) = [from |-> Min(inner), to |-> Max(inner)]
  BY DEF Trimmed
<1>2. from \in inner /\ inner \in SUBSET Nat /\ \A i \in inner : from <= i /\ i <= to
  OBVIOUS
<1>3. \A i \in from .. to : i \in inner <=> input[i] \notin White
  OBVIOUS
<1>4. inner \subseteq from .. to
  OBVIOUS
<1> HIDE DEF inner
<1>5. /\ Min(inner) \in inner /\ \A i \in inner : Min(inner) <= i
      /\ Max(inner) \in inner /\ \A i \in inner : Max(inner) >= i
  BY <1>2, MinIs, MaxIs
<1>6. Min(inner) = from
  <2>1. Min(inner) <= from /\ from <= Min(inner) /\ Min(inner) \in Nat
    BY <1>2, <1>5
  <2> QED BY <2>1
<1>7. Max(inner) \in from .. to /\ input[Max(inner)] \notin White /\ Max(inner) \in Nat
  BY <1>2, <1>3, <1>4, <1>5
<1>8. ASSUME NEW i \in Max(inner) + 1 .. to PROVE input[i] \in White
  <2>1. i \in from .. to /\ ~(Max(inner) >= i)
    BY <1>7
  <2> QED BY <1>3, <1>5, <2>1
<1> DEFINE x == Min(inner)
           y == Max(inner)
<1>9. x = from /\ y \in Nat /\ y \in from .. to /\ input[y] \notin White /\ \A i \in y + 1 .. to : input[i] \in White
  BY <1>6, <1>7, <1>8
<1>10. Trimmed(from, to) = [from |-> x, to |-> y]
  BY <1>1
<1> HIDE DEF x, y
<1> QED BY <1>9, <1>10 DEF Stretch

\* What is white behind a place is skipped.
LEMMA BehindIs ==
    ASSUME NEW n \in Nat, n = Len(input), NEW i \in 0 .. n
    PROVE  /\ Behind(i) \in i .. n
           /\ \A j \in i + 1 .. Behind(i) : input[j] \in White
           /\ Behind(i) < n => input[Behind(i) + 1] \notin White
<1> DEFINE T == {j \in i + 1 .. n : input[j] \notin White}
<1>1. CASE T = {}
  <2>1. Behind(i) = n
    BY <1>1 DEF Behind
  <2>2. \A j \in i + 1 .. n : input[j] \in White
    BY <1>1
  <2> QED BY <2>1, <2>2
<1>2. CASE T # {}
  <2>1. Behind(i) = Min(T) - 1
    BY <1>2 DEF Behind
  <2>2. T \in SUBSET Nat
    OBVIOUS
  <2>3. Min(T) \in T /\ \A j \in T : Min(T) <= j
    <3> HIDE DEF T
    <3> QED BY <1>2, <2>2, MinIs
  <2> DEFINE m == Min(T)
  <2>4. m \in i + 1 .. n /\ input[m] \notin White /\ \A j \in T : m <= j
    BY <2>3
  <2> HIDE DEF m
  <2>5. ASSUME NEW j \in i + 1 .. m - 1 PROVE input[j] \in White
    <3>1. j \in i + 1 .. n /\ ~(m <= j)
      BY <2>4
    <3> QED BY <2>4, <3>1
  <2>6. m - 1 \in i .. n /\ m - 1 + 1 = m
    BY <2>4
  <2> QED BY <2>1, <2>4, <2>5, <2>6 DEF m
<1> QED BY <1>1, <1>2

LEMMA SplitStep ==
    ASSUME PiecesAssumption, kind = "split", SplitInv, Split
    PROVE  SplitInv'
<1> DEFINE n == Len(input)
           s == work.start
           last == n - s <= Limit
           to == IF last THEN n ELSE Boundary
           piece == Trimmed(s + 1, to)
           e == piece.to
           next == Behind(to)
           p == work.pieces
           m == Len(p)
           q == Append(p, piece)
<1>1. /\ n \in Nat /\ s \in Nat /\ s < n /\ input[s + 1] \notin White /\ input[n] \notin White
      /\ \A i \in 1 .. n : input[i] \in Letters
      /\ p \in Seq(Stretch) /\ m \in Nat /\ DOMAIN p = 1 .. m
      /\ work \in [start : Nat, pieces : Seq(Stretch), merged : Seq(Glyph), next : Nat, kept : Seq(Nat)]
      /\ work.next = 1 /\ work.kept = <<>> /\ work.merged = <<>>
  <2>1. input \in Seq(Letters) /\ s \in Nat /\ p \in Seq(Stretch) /\ s < n
    BY DEF SplitInv, Split
  <2>2. n \in Nat /\ \A i \in 1 .. n : input[i] \in Letters
    BY <2>1, LenProperties, ElementOfSeq
  <2>3. m \in Nat /\ DOMAIN p = 1 .. m
    BY <2>1, LenProperties
  <2>4. n > 0
    BY <2>1, <2>2
  <2> QED BY <2>1, <2>2, <2>3, <2>4 DEF SplitInv
<1>2. /\ kind' = kind /\ input' = input
      /\ work' = [work EXCEPT !.pieces = q, !.start = next]
  BY DEF Split
<1>3. Limit \in Nat /\ Half \in Nat /\ Half >= 1 /\ Half <= Limit
  BY HalfIs
<1>4. /\ to \in s + 1 .. n /\ to <= s + Limit
      /\ to < n /\ input[to] = "a" => \A i \in to - (Limit - Half) .. to : input[i] = "a"
  <2>1. CASE last
    <3>1. to = n
      BY <2>1
    <3> HIDE DEF to, s, n
    <3>2. n <= s + Limit
      BY <1>1, <1>3, <2>1 DEF last
    <3> QED BY <1>1, <3>1, <3>2
  <2>2. CASE ~last
    <3>1. to = Boundary
      BY <2>2
    <3>2. s + Limit <= n
      BY <1>1, <1>3, <2>2
    <3>3. /\ Boundary \in s + 1 .. s + Limit
          /\ input[Boundary] = "a" => \A i \in Boundary - (Limit - Half) .. Boundary : input[i] = "a"
      BY <1>1, <3>2, BoundaryIs
    <3> HIDE DEF to, s, n
    <3> QED BY <1>1, <1>3, <3>1, <3>2, <3>3
  <2> QED BY <2>1, <2>2
<1> HIDE DEF to
<1>5. /\ piece \in Stretch /\ piece.from = s + 1 /\ e \in s + 1 .. to
      /\ \A i \in e + 1 .. to : input[i] \in White
      /\ input[e] \notin White
  <2>1. s + 1 \in Nat /\ to \in Nat /\ s + 1 <= to
    BY <1>1, <1>4
  <2> QED BY <1>1, <2>1, TrimmedIs
<1>6. /\ next \in to .. n /\ \A j \in to + 1 .. next : input[j] \in White
      /\ next < n => input[next + 1] \notin White
  <2>1. to \in 0 .. n
    BY <1>1, <1>4
  <2> QED BY <1>1, <2>1, BehindIs
<1>7. /\ q \in Seq(Stretch) /\ DOMAIN q = 1 .. m + 1 /\ Len(q) = m + 1
      /\ \A k \in 1 .. m : q[k] = p[k]
      /\ q[m + 1] = piece
  <2> HIDE DEF piece
  <2>1. q \in Seq(Stretch)
    BY <1>1, <1>5, AppendProperties
  <2> QED BY <1>1, <1>5, <2>1, AppendProperties, LenProperties
<1> HIDE DEF n, s, e, next, p, m, q, piece, last
<1>8. /\ s \in Nat /\ n \in Nat /\ to \in Nat /\ next \in Nat /\ e \in Nat /\ m \in Nat
      /\ s < to /\ to <= n /\ to <= next /\ next <= n /\ s + 1 <= e /\ e <= to /\ e <= s + Limit
  BY <1>1, <1>3, <1>4, <1>5, <1>6
<1>9. /\ work'.start = next /\ work'.pieces = q /\ work'.next = 1 /\ work'.kept = <<>> /\ work'.merged = <<>>
      /\ work' \in [start : Nat, pieces : Seq(Stretch), merged : Seq(Glyph), next : Nat, kept : Seq(Nat)]
  BY <1>1, <1>2, <1>7, <1>8
<1>10. /\ \A i \in 1 .. s : input[i] \notin White => \E k \in 1 .. m : i \in p[k].from .. p[k].to
       /\ \A k, l \in 1 .. m : k < l => p[k].to < p[l].from
       /\ \A k \in 1 .. m :
            /\ {p[k].from, p[k].to} \subseteq 1 .. s
            /\ p[k].from <= p[k].to /\ p[k].to - p[k].from < Limit
            /\ p[k].to < n /\ {input[p[k].to], input[p[k].to + 1]} = {"a"} =>
                 \A i \in p[k].to - (Limit - Half) .. p[k].to : input[i] = "a"
  BY <1>1 DEF SplitInv, PagesAreWhole, p, s, n
<1>11. ASSUME NEW i \in 1 .. next, input[i] \notin White
       PROVE  \E k \in 1 .. m + 1 : i \in q[k].from .. q[k].to
  <2>1. CASE i \in 1 .. s
    <3>1. PICK k \in 1 .. m : i \in p[k].from .. p[k].to
      BY <1>10, <1>11, <2>1
    <3>2. k \in 1 .. m + 1
      BY <1>8
    <3> QED BY <1>7, <3>1, <3>2
  <2>2. CASE i \in s + 1 .. e
    <3>1. m + 1 \in 1 .. m + 1
      BY <1>8
    <3> QED BY <1>5, <1>7, <2>2, <3>1 DEF e
  <2>3. i \in 1 .. s \/ i \in s + 1 .. e \/ i \in e + 1 .. to \/ i \in to + 1 .. next
    BY <1>8
  <2> QED BY <1>5, <1>6, <1>11, <2>1, <2>2, <2>3
<1>12. ASSUME NEW k \in 1 .. m + 1, NEW l \in 1 .. m + 1, k < l
       PROVE  q[k].to < q[l].from
  <2>1. k \in 1 .. m
    BY <1>8, <1>12
  <2>2. CASE l \in 1 .. m
    BY <1>7, <1>10, <1>12, <2>1, <2>2
  <2>3. CASE l = m + 1
    <3>1. p[k].to \in 1 .. s
      BY <1>10, <2>1
    <3> QED BY <1>5, <1>7, <1>8, <2>1, <2>3, <3>1
  <2> QED BY <1>8, <2>2, <2>3
<1>13. ASSUME NEW k \in 1 .. m + 1
       PROVE  /\ {q[k].from, q[k].to} \subseteq 1 .. next
              /\ q[k].from <= q[k].to /\ q[k].to - q[k].from < Limit
              /\ q[k].to < n /\ {input[q[k].to], input[q[k].to + 1]} = {"a"} =>
                   \A i \in q[k].to - (Limit - Half) .. q[k].to : input[i] = "a"
  <2>1. CASE k \in 1 .. m
    <3>1. 1 .. s \subseteq 1 .. next
      BY <1>8
    <3> QED BY <1>7, <1>10, <2>1, <3>1
  <2>2. CASE k = m + 1
    <3>1. q[k].from = s + 1 /\ q[k].to = e
      BY <1>5, <1>7, <2>2 DEF e
    <3>2. s + 1 \in 1 .. next /\ e \in 1 .. next /\ s + 1 <= e /\ e - (s + 1) < Limit
      BY <1>3, <1>8
    <3>3. ASSUME e < n, {input[e], input[e + 1]} = {"a"}
          PROVE  \A i \in e - (Limit - Half) .. e : input[i] = "a"
      <4>1. e = to
        <5>1. input[e + 1] \notin White
          BY <3>3 DEF White
        <5>2. ~(e < to)
          <6>1. e < to => e + 1 \in e + 1 .. to
            BY <1>8
          <6> QED BY <1>5, <5>1, <6>1
        <5> QED BY <1>8, <5>2
      <4> QED BY <1>4, <3>3, <4>1
    <3> QED BY <3>1, <3>2, <3>3
  <2>3. k \in 1 .. m \/ k = m + 1
    BY <1>8
  <2> QED BY <2>1, <2>2, <2>3
<1>14. PagesAreWhole'
  <2>1. work'.pieces = q /\ work'.start = next /\ DOMAIN q = 1 .. m + 1
    BY <1>7, <1>9
  <2>2. \A i \in 1 .. work'.start :
           input'[i] \notin White => \E k \in DOMAIN work'.pieces : i \in work'.pieces[k].from .. work'.pieces[k].to
    BY <1>2, <1>11, <2>1
  <2>3. \A k, l \in DOMAIN work'.pieces : k < l => work'.pieces[k].to < work'.pieces[l].from
    BY <1>12, <2>1
  <2>4. ASSUME NEW k \in DOMAIN work'.pieces
        PROVE  /\ {work'.pieces[k].from, work'.pieces[k].to} \subseteq 1 .. work'.start
               /\ work'.pieces[k].from <= work'.pieces[k].to /\ work'.pieces[k].to - work'.pieces[k].from < Limit
               /\ (/\ work'.pieces[k].to < Len(input')
                   /\ {input'[work'.pieces[k].to], input'[work'.pieces[k].to + 1]} = {"a"}) =>
                    \A i \in work'.pieces[k].to - (Limit - Half) .. work'.pieces[k].to : input'[i] = "a"
    <3>1. k \in 1 .. m + 1 /\ work'.pieces[k] = q[k] /\ work'.start = next
      BY <2>1
    <3>2. input' = input /\ Len(input') = n
      BY <1>2 DEF n
    <3>3. /\ {q[k].from, q[k].to} \subseteq 1 .. next
          /\ q[k].from <= q[k].to /\ q[k].to - q[k].from < Limit
          /\ q[k].to < n /\ {input[q[k].to], input[q[k].to + 1]} = {"a"} =>
               \A i \in q[k].to - (Limit - Half) .. q[k].to : input[i] = "a"
      BY <1>13, <3>1
    <3> QED BY <3>1, <3>2, <3>3
  <2>5. White' = White /\ Half' = Half
    BY DEF White, Half
  <2> QED BY <2>2, <2>3, <2>4, <2>5 DEF PagesAreWhole
<1>15. MergedInOrder'
  <2>1. work'.kept = <<>> /\ work'.merged = <<>> /\ Range(<<>>) = {} /\ DOMAIN <<>> = {} /\ Len(<<>>) = 0
    BY <1>9 DEF Range
  <2>2. 1 .. Len(work'.kept) - 1 = {} /\ Range(work'.kept) = {} /\ DOMAIN work'.merged = {}
    BY <2>1
  <2> QED BY <2>2 DEF MergedInOrder
<1>16. /\ work'.next \in 1 .. Len(work'.pieces) + 1 /\ Range(work'.kept) \subseteq 1 .. work'.next - 1
       /\ \A i, j \in DOMAIN work'.kept : i < j => work'.kept[i] < work'.kept[j]
  <2>1. Range(<<>>) = {} /\ DOMAIN <<>> = {}
    BY DEF Range
  <2> QED BY <1>7, <1>8, <1>9, <2>1
<1>17. work'.start <= Len(input') /\ (work'.start < Len(input') => input'[work'.start + 1] \notin White)
  BY <1>2, <1>6, <1>8, <1>9 DEF n
<1>18. input' \in Seq(Letters) /\ (Len(input') > 0 => input'[Len(input')] \notin White)
  BY <1>2 DEF SplitInv
<1> QED BY <1>9, <1>14, <1>15, <1>16, <1>17, <1>18 DEF SplitInv

-----------------------------------------------------------------------------
(* The translations of the pieces *)

LEMMA BreakIs ==
    ASSUME NEW k, work.pieces[k].to \in Nat, work.pieces[k + 1].from \in Nat, EndsParagraph(k)
    PROVE  Break(k) = 2
<1> DEFINE S == {i \in work.pieces[k].to + 1 .. work.pieces[k + 1].from - 1 : input[i] = "n"}
           c == Cardinality(S)
<1>1. PICK i, j \in S : i < j
  BY DEF EndsParagraph
<1>2. IsFiniteSet(S)
  <2> DEFINE a == work.pieces[k].to + 1
             b == work.pieces[k + 1].from - 1
  <2>1. a \in Int /\ b \in Int /\ S \in SUBSET (a .. b)
    OBVIOUS
  <2> HIDE DEF a, b, S
  <2> QED BY <2>1, FS_Interval, FS_Subset
<1>3. i \in Nat /\ j \in Nat /\ i # j /\ {i, j} \subseteq S
  BY <1>1
<1> HIDE DEF S
<1>4. IsFiniteSet({i}) /\ Cardinality({i}) = 1 /\ {i} \cup {j} = {i, j}
  BY FS_Singleton
<1>5. Cardinality({i, j}) = 2
  <2>1. j \notin {i}
    BY <1>3
  <2>2. Cardinality({i} \cup {j}) = 1 + 1
    BY <1>4, <2>1, FS_AddElement
  <2> QED BY <1>4, <2>2
<1>6. c \in Nat /\ 2 <= c
  BY <1>2, <1>3, <1>5, FS_Subset, FS_CardinalityType
<1> HIDE DEF c
<1>7. {2, c} \in SUBSET Nat /\ {2, c} # {}
  BY <1>6
<1>8. Min({2, c}) \in {2, c} /\ Min({2, c}) <= 2
  BY <1>7, MinIs
<1>9. Break(k) = Min({2, c})
  BY DEF Break, c, S
<1> QED BY <1>6, <1>8, <1>9

LEMMA SeparatorIs ==
    ASSUME NEW m \in Nat, m = Len(work.pieces), work.pieces \in Seq(Stretch), work.next \in 1 .. m,
           work.kept = <<>> \/ Last(work.kept) \in 1 .. m
    PROVE  /\ Separator \in Seq(Glyph) /\ \A i \in DOMAIN Separator : Separator[i].at = 0
           /\ (work.kept # <<>> /\ \E k \in Last(work.kept) .. work.next - 1 : EndsParagraph(k)) =>
                /\ Len(Separator) = 2
                /\ Separator[1] = Added("n") /\ Separator[2] = Added("n")
<1>1. /\ Added("n") \in Glyph /\ Added(" ") \in Glyph /\ Added("n").at = 0 /\ Added(" ").at = 0
  BY DEF Added, Glyph, Letters
<1>2. \/ Separator = <<>> \/ Separator = <<Added("n"), Added("n")>>
      \/ Separator = <<Added("n")>> \/ Separator = <<Added(" ")>>
  BY DEF Separator
<1>3. Separator \in Seq(Glyph) /\ \A i \in DOMAIN Separator : Separator[i].at = 0
  <2> DEFINE a == Added("n")
             b == Added(" ")
  <2>1. a \in Glyph /\ b \in Glyph /\ a.at = 0 /\ b.at = 0
    BY <1>1
  <2>2. \/ Separator = <<>> \/ Separator = <<a, a>> \/ Separator = <<a>> \/ Separator = <<b>>
    BY <1>2
  <2> HIDE DEF a, b
  <2>3. CASE Separator = <<>>
    BY <2>3
  <2>4. CASE Separator = <<a, a>>
    BY <2>1, <2>4
  <2>5. CASE Separator = <<a>>
    BY <2>1, <2>5
  <2>6. CASE Separator = <<b>>
    BY <2>1, <2>6
  <2> QED BY <2>2, <2>3, <2>4, <2>5, <2>6
<1>4. ASSUME work.kept # <<>>, NEW k \in Last(work.kept) .. work.next - 1, EndsParagraph(k)
      PROVE  Separator = <<Added("n"), Added("n")>>
  <2>1. k \in 1 .. m /\ k + 1 \in 1 .. m
    BY <1>4
  <2>2. work.pieces[k] \in Stretch /\ work.pieces[k + 1] \in Stretch
    BY <2>1, ElementOfSeq
  <2>3. work.pieces[k].to \in Nat /\ work.pieces[k + 1].from \in Nat
    BY <2>2 DEF Stretch
  <2>4. Break(k) = 2
    BY <1>4, <2>3, BreakIs
  <2>5. 2 \in {Break(l) : l \in Last(work.kept) .. work.next - 1}
    BY <1>4, <2>4
  <2> QED BY <1>4, <2>5 DEF Separator
<1>5. ASSUME Separator = <<Added("n"), Added("n")>>
      PROVE  Len(Separator) = 2 /\ Separator[1] = Added("n") /\ Separator[2] = Added("n")
  BY <1>5
<1> QED BY <1>3, <1>4, <1>5

\* The characters of a piece, with their places.
LEMMA PieceIs ==
    ASSUME NEW k, work.pieces[k].from \in Nat \ {0}, work.pieces[k].to \in Nat,
           work.pieces[k].from <= work.pieces[k].to,
           \A i \in work.pieces[k].from .. work.pieces[k].to : input[i] \in Letters
    PROVE  /\ Piece(k) \in Seq(Glyph) /\ Len(Piece(k)) = work.pieces[k].to - work.pieces[k].from + 1
           /\ \A i \in 1 .. work.pieces[k].to - work.pieces[k].from + 1 :
                /\ Piece(k)[i].at = work.pieces[k].from + i - 1
                /\ Piece(k)[i].is = input[work.pieces[k].from + i - 1]
<1> DEFINE f == work.pieces[k].from
           t == work.pieces[k].to
           l == t - f + 1
<1>0. f \in Nat \ {0} /\ t \in Nat /\ f <= t /\ \A i \in f .. t : input[i] \in Letters
  OBVIOUS
<1>1. l \in Nat /\ \A i \in 1 .. l : f + i - 1 \in f .. t /\ f + i - 1 \in Nat
  <2> HIDE DEF f, t
  <2> QED BY <1>0
<1>2. Piece(k) = [i \in 1 .. l |-> [at |-> f + i - 1, is |-> input[f + i - 1]]]
  BY DEF Piece
<1> HIDE DEF f, t, l
<1>3. \A i \in 1 .. l : [at |-> f + i - 1, is |-> input[f + i - 1]] \in Glyph
  BY <1>0, <1>1 DEF Glyph
<1>4. Piece(k) \in [1 .. l -> Glyph]
  BY <1>2, <1>3
<1>5. Piece(k) \in Seq(Glyph) /\ Len(Piece(k)) = l
  BY <1>1, <1>4
<1>6. \A i \in 1 .. l : Piece(k)[i].at = f + i - 1 /\ Piece(k)[i].is = input[f + i - 1]
  BY <1>2
<1> QED BY <1>5, <1>6 DEF l, f, t

LEMMA PagesStay ==
    ASSUME PagesAreWhole, kind = "split", kind' = kind, input' = input,
           work'.start = work.start, work'.pieces = work.pieces
    PROVE  PagesAreWhole'
<1> DEFINE p == work.pieces
           q == work'.pieces
<1>1. /\ \A i \in 1 .. work.start : input[i] \notin White => \E k \in DOMAIN p : i \in p[k].from .. p[k].to
      /\ \A k, l \in DOMAIN p : k < l => p[k].to < p[l].from
      /\ \A k \in DOMAIN p :
           /\ {p[k].from, p[k].to} \subseteq 1 .. work.start
           /\ p[k].from <= p[k].to /\ p[k].to - p[k].from < Limit
           /\ p[k].to < Len(input) /\ {input[p[k].to], input[p[k].to + 1]} = {"a"} =>
                \A i \in p[k].to - (Limit - Half) .. p[k].to : input[i] = "a"
  BY DEF PagesAreWhole
<1>2. q = p /\ White' = White /\ Half' = Half
  BY DEF White, Half
<1> HIDE DEF p, q
<1>3. \A i \in 1 .. work'.start : input'[i] \notin White' => \E k \in DOMAIN q : i \in q[k].from .. q[k].to
  BY <1>1, <1>2
<1>4. \A k, l \in DOMAIN q : k < l => q[k].to < q[l].from
  BY <1>1, <1>2
<1>5. \A k \in DOMAIN q :
        /\ {q[k].from, q[k].to} \subseteq 1 .. work'.start
        /\ q[k].from <= q[k].to /\ q[k].to - q[k].from < Limit
        /\ q[k].to < Len(input') /\ {input'[q[k].to], input'[q[k].to + 1]} = {"a"} =>
             \A i \in q[k].to - (Limit - Half') .. q[k].to : input'[i] = "a"
  BY <1>1, <1>2
<1> QED BY <1>3, <1>4, <1>5 DEF PagesAreWhole, q

LEMMA MergeStep ==
    ASSUME PiecesAssumption, kind = "split", SplitInv, Merge
    PROVE  SplitInv'
<1> DEFINE p == work.pieces
           m == Len(p)
           k == work.next
           K == work.kept
           c == Len(K)
           M == work.merged
           S == Separator
           P == Piece(k)
           a == Len(M)
           b == Len(S)
           d == Len(P)
           N == (M \o S) \o P
           L == Append(K, k)
           from == p[k].from
           to == p[k].to
           Types == [start : Nat, pieces : Seq(Stretch), merged : Seq(Glyph), next : Nat, kept : Seq(Nat)]
<1>1. /\ work \in Types /\ p \in Seq(Stretch) /\ K \in Seq(Nat) /\ M \in Seq(Glyph) /\ k \in Nat
      /\ input \in Seq(Letters) /\ work.start = Len(input) /\ k <= m
      /\ k \in 1 .. m + 1 /\ Range(K) \subseteq 1 .. k - 1
      /\ \A i, j \in DOMAIN K : i < j => K[i] < K[j]
  BY DEF SplitInv, Merge
<1>2. /\ kind' = kind /\ input' = input
      /\ \/ work' = [work EXCEPT !.next = k + 1]
         \/ work' = [work EXCEPT !.next = k + 1, !.kept = L, !.merged = N]
  BY DEF Merge
<1>3. /\ m \in Nat /\ DOMAIN p = 1 .. m /\ c \in Nat /\ DOMAIN K = 1 .. c /\ a \in Nat /\ DOMAIN M = 1 .. a
      /\ Len(input) \in Nat
      /\ \A i \in 1 .. Len(input) : input[i] \in Letters
  <2> HIDE DEF p, K, M
  <2> QED BY <1>1, LenProperties, ElementOfSeq
<1>4. /\ \A g, h \in 1 .. m : g < h => p[g].to < p[h].from
      /\ \A h \in 1 .. m : /\ p[h].from \in 1 .. Len(input) /\ p[h].to \in 1 .. Len(input)
                           /\ p[h].from <= p[h].to
  BY <1>1, <1>3 DEF SplitInv, PagesAreWhole
<1>5. /\ \A i \in 1 .. a : M[i].at # 0 =>
           /\ M[i].is = input[M[i].at]
           /\ \E h \in Range(K) : M[i].at \in p[h].from .. p[h].to
           /\ \A j \in 1 .. a : i < j => M[j].at = 0 \/ M[i].at < M[j].at
      /\ \A h \in Range(K) : \A x \in p[h].from .. p[h].to : \E i \in 1 .. a : M[i].at = x
      /\ \A h \in 1 .. c - 1 :
           (\E g \in K[h] .. K[h + 1] - 1 : EndsParagraph(g)) =>
             \E i \in 1 .. a - 1 :
               /\ M[i] = Added("n") /\ M[i + 1] = Added("n")
               /\ \A j \in 1 .. a : M[j].at # 0 =>
                    IF j < i THEN M[j].at <= p[K[h]].to ELSE M[j].at >= p[K[h + 1]].from
  BY <1>3 DEF SplitInv, MergedInOrder
<1>6. \A g : EndsParagraph(g)' <=> \E i, j \in work'.pieces[g].to + 1 .. work'.pieces[g + 1].from - 1 :
                                     i < j /\ input'[i] = "n" /\ input'[j] = "n"
  BY DEF EndsParagraph
<1>7. k \in 1 .. m /\ 1 .. k - 1 \subseteq 1 .. m /\ k \notin 1 .. k - 1 /\ k + 1 - 1 = k /\ k + 1 \in 1 .. m + 1
  BY <1>1, <1>3
<1>8. /\ work'.start = work.start /\ work'.pieces = p /\ work'.next = k + 1
  BY <1>1, <1>2
<1>9. PagesAreWhole' /\ \A g : EndsParagraph(g)' <=> EndsParagraph(g)
  <2>1. PagesAreWhole'
    <3>1. PagesAreWhole
      BY DEF SplitInv
    <3> QED BY <1>2, <1>8, <3>1, PagesStay
  <2> QED BY <1>2, <1>6, <1>8, <2>1 DEF EndsParagraph
<1>10. /\ input' \in Seq(Letters) /\ (Len(input') > 0 => input'[Len(input')] \notin White)
       /\ work'.start <= Len(input') /\ ~(work'.start < Len(input'))
       /\ work'.next \in 1 .. Len(work'.pieces) + 1
  <2>1. work'.start = Len(input')
    BY <1>1, <1>2, <1>8
  <2>2. Len(input') \in Nat
    BY <1>2, <1>3
  <2>3. work'.next \in 1 .. Len(work'.pieces) + 1
    BY <1>7, <1>8
  <2> QED BY <1>2, <2>1, <2>2, <2>3 DEF SplitInv
<1> HIDE DEF m, p, k, K, c, M, a
<1>11. CASE work' = [work EXCEPT !.next = k + 1]
  <2>1. work'.kept = K /\ work'.merged = M /\ work' \in Types
    <3>1. k + 1 \in Nat
      BY <1>1
    <3> QED BY <1>1, <1>11, <3>1 DEF K, M
  <2>2. MergedInOrder'
    BY <1>2, <1>3, <1>5, <1>8, <1>9, <2>1 DEF MergedInOrder, c, a
  <2>3. 1 .. k - 1 \subseteq 1 .. work'.next - 1
    BY <1>1, <1>8
  <2> QED BY <1>1, <1>9, <1>10, <2>1, <2>2, <2>3 DEF SplitInv
<1>12. CASE work' = [work EXCEPT !.next = k + 1, !.kept = L, !.merged = N]
  <2>1. work'.kept = L /\ work'.merged = N
    BY <1>1, <1>12
  <2>2. /\ L \in Seq(Nat) /\ Len(L) = c + 1 /\ DOMAIN L = 1 .. c + 1
        /\ \A i \in 1 .. c : L[i] = K[i]
        /\ L[c + 1] = k
    <3>1. L \in Seq(Nat)
      BY <1>1, AppendProperties
    <3> QED BY <1>1, <3>1, AppendProperties, LenProperties DEF c
  <2>3. \A i \in 1 .. c : K[i] \in 1 .. k - 1 /\ K[i] \in Range(K)
    BY <1>1, <1>3 DEF Range
  <2>4. Range(L) = Range(K) \cup {k}
    <3>1. \A i \in 1 .. c + 1 : i \in 1 .. c \/ i = c + 1
      BY <1>3
    <3>2. 1 .. c \subseteq 1 .. c + 1 /\ c + 1 \in 1 .. c + 1
      BY <1>3
    <3>3. \A x \in Range(L) : x \in Range(K) \cup {k}
      BY <1>3, <2>2, <3>1 DEF Range
    <3>4. \A x \in Range(K) : x \in Range(L)
      BY <1>3, <2>2, <3>2 DEF Range
    <3>5. k \in Range(L)
      BY <2>2, <3>2 DEF Range
    <3> QED BY <3>3, <3>4, <3>5
  <2>5. \A i, j \in 1 .. c + 1 : i < j => L[i] < L[j]
    <3> SUFFICES ASSUME NEW i \in 1 .. c + 1, NEW j \in 1 .. c + 1, i < j PROVE L[i] < L[j]
      OBVIOUS
    <3>1. i \in 1 .. c /\ (j \in 1 .. c \/ j = c + 1)
      BY <1>3
    <3>2. K[i] \in 1 .. k - 1
      BY <2>3, <3>1
    <3>3. K[i] < k
      BY <1>1, <3>2
    <3> QED BY <1>1, <1>3, <2>2, <3>1, <3>3
  <2>6. /\ from \in Nat \ {0} /\ to \in Nat /\ from <= to
        /\ P \in Seq(Glyph) /\ d = to - from + 1 /\ d \in Nat
        /\ \A i \in 1 .. d : P[i].at = from + i - 1 /\ P[i].is = input[from + i - 1]
    <3>1. from \in 1 .. Len(input) /\ to \in 1 .. Len(input) /\ from <= to
      BY <1>4, <1>7
    <3>4. from = work.pieces[k].from /\ to = work.pieces[k].to
      BY DEF from, to, p
    <3> HIDE DEF from, to
    <3>2. from \in Nat \ {0} /\ to \in Nat /\ to - from + 1 \in Nat
      BY <1>3, <3>1
    <3>3. \A i \in from .. to : input[i] \in Letters
      <4>1. from .. to \subseteq 1 .. Len(input)
        BY <1>3, <3>1
      <4> QED BY <1>3, <4>1
    <3>5. /\ Piece(k) \in Seq(Glyph) /\ Len(Piece(k)) = to - from + 1
          /\ \A i \in 1 .. to - from + 1 :
               Piece(k)[i].at = from + i - 1 /\ Piece(k)[i].is = input[from + i - 1]
      BY <3>1, <3>2, <3>3, <3>4, PieceIs
    <3> HIDE DEF P
    <3>6. P = Piece(k)
      BY DEF P
    <3> QED BY <3>1, <3>2, <3>5, <3>6
  <2>7. /\ S \in Seq(Glyph) /\ b \in Nat /\ DOMAIN S = 1 .. b /\ \A i \in 1 .. b : S[i].at = 0
        /\ (c # 0 /\ \E g \in K[c] .. k - 1 : EndsParagraph(g)) =>
             b = 2 /\ S[1] = Added("n") /\ S[2] = Added("n")
    <3>1. K = <<>> \/ Last(K) \in 1 .. m
      <4>1. CASE c = 0
        BY <1>1, <4>1, EmptySeq DEF c
      <4>2. CASE c # 0
        <5>1. c \in 1 .. c
          BY <1>3, <4>2
        <5> QED BY <1>7, <2>3, <5>1 DEF Last, c
      <4> QED BY <4>1, <4>2
    <3>2. c # 0 => K # <<>> /\ Last(K) = K[c]
      BY DEF Last, c
    <3>3. /\ S \in Seq(Glyph) /\ \A i \in DOMAIN S : S[i].at = 0
          /\ (K # <<>> /\ \E g \in Last(K) .. k - 1 : EndsParagraph(g)) =>
               Len(S) = 2 /\ S[1] = Added("n") /\ S[2] = Added("n")
      BY <1>1, <1>3, <1>7, <3>1, SeparatorIs DEF K, k, p, m
    <3> HIDE DEF S
    <3>4. b \in Nat /\ DOMAIN S = 1 .. b
      BY <3>3, LenProperties
    <3> QED BY <3>2, <3>3, <3>4
  <2> HIDE DEF S, P, b, d, from, to
  <2>8. /\ N \in Seq(Glyph) /\ Len(N) = a + b + d /\ DOMAIN N = 1 .. a + b + d
        /\ \A i \in 1 .. a : N[i] = M[i]
        /\ \A i \in 1 .. b : N[a + i] = S[i]
        /\ \A i \in 1 .. d : N[a + b + i] = P[i]
    <3> DEFINE O == M \o S
    <3>1. /\ O \in Seq(Glyph) /\ Len(O) = a + b
          /\ \A i \in 1 .. a + b : O[i] = IF i <= a THEN M[i] ELSE S[i - a]
      BY <1>1, <2>7, ConcatProperties DEF a, b
    <3> HIDE DEF O
    <3>2. /\ O \o P \in Seq(Glyph) /\ Len(O \o P) = Len(O) + d
          /\ \A i \in 1 .. Len(O) + d : (O \o P)[i] = IF i <= Len(O) THEN O[i] ELSE P[i - Len(O)]
      BY <2>6, <3>1, ConcatProperties DEF d
    <3>3. N = O \o P
      BY DEF O
    <3> HIDE DEF N
    <3>4. /\ N \in Seq(Glyph) /\ Len(N) = a + b + d
          /\ \A i \in 1 .. a + b + d : N[i] = IF i <= a + b THEN O[i] ELSE P[i - (a + b)]
      BY <3>1, <3>2, <3>3
    <3>5. DOMAIN N = 1 .. a + b + d
      BY <3>4, LenProperties
    <3>6. \A i \in 1 .. a : i \in 1 .. a + b /\ i \in 1 .. a + b + d /\ i <= a /\ i <= a + b
      BY <1>3, <2>6, <2>7
    <3>7. \A i \in 1 .. a : N[i] = M[i]
      BY <3>1, <3>4, <3>6
    <3>8. ASSUME NEW i \in 1 .. b PROVE N[a + i] = S[i]
      <4> DEFINE x == a + i
      <4>1. x \in 1 .. a + b /\ x \in 1 .. a + b + d /\ ~(x <= a) /\ x <= a + b /\ x - a = i
        BY <1>3, <2>6, <2>7
      <4> HIDE DEF x
      <4>2. N[x] = S[i]
        BY <3>1, <3>4, <4>1
      <4> QED BY <4>2 DEF x
    <3>9. ASSUME NEW i \in 1 .. d PROVE N[a + b + i] = P[i]
      <4> DEFINE x == a + b + i
      <4>1. x \in 1 .. a + b + d /\ ~(x <= a + b) /\ x - (a + b) = i
        BY <1>3, <2>6, <2>7
      <4> HIDE DEF x
      <4>2. N[x] = P[i]
        BY <3>4, <4>1
      <4> QED BY <4>2 DEF x
    <3> QED BY <3>4, <3>5, <3>7, <3>8, <3>9
  <2> HIDE DEF N, L
  <2>9. work' \in Types
    <3>1. k + 1 \in Nat
      BY <1>1
    <3> QED BY <1>1, <1>12, <2>2, <2>8, <3>1
  <2>10. \A i \in 1 .. a + b + d :
            \/ i \in 1 .. a
            \/ i \in a + 1 .. a + b /\ i - a \in 1 .. b /\ a + (i - a) = i
            \/ i \in a + b + 1 .. a + b + d /\ i - (a + b) \in 1 .. d /\ a + b + (i - (a + b)) = i
    <3>1. a \in Nat /\ b \in Nat /\ d \in Nat
      BY <1>3, <2>6, <2>7
    <3> HIDE DEF a, b, d
    <3>2. ASSUME NEW i \in 1 .. a + b + d
          PROVE  i \in 1 .. a \/ i \in a + 1 .. a + b \/ i \in a + b + 1 .. a + b + d
      BY <3>1
    <3>3. ASSUME NEW i \in a + 1 .. a + b PROVE i - a \in 1 .. b /\ a + (i - a) = i
      BY <3>1
    <3>4. ASSUME NEW i \in a + b + 1 .. a + b + d
          PROVE  i - (a + b) \in 1 .. d /\ a + b + (i - (a + b)) = i
      BY <3>1
    <3> QED BY <3>2, <3>3, <3>4
  <2>11. /\ \A i \in 1 .. a : N[i] = M[i]
         /\ \A i \in a + 1 .. a + b : N[i].at = 0
         /\ \A i \in a + b + 1 .. a + b + d :
              /\ N[i].at = from + (i - (a + b)) - 1 /\ N[i].at \in from .. to
              /\ N[i].is = input[N[i].at]
    <3>1. ASSUME NEW i \in a + 1 .. a + b PROVE N[i].at = 0
      <4>1. i - a \in 1 .. b /\ a + (i - a) = i
        BY <1>3, <2>7
      <4> QED BY <2>7, <2>8, <4>1
    <3>2. ASSUME NEW i \in a + b + 1 .. a + b + d
          PROVE  /\ N[i].at = from + (i - (a + b)) - 1 /\ N[i].at \in from .. to
                 /\ N[i].is = input[N[i].at]
      <4>1. /\ i - (a + b) \in 1 .. d /\ a + b + (i - (a + b)) = i
            /\ from + (i - (a + b)) - 1 \in from .. to
        BY <1>3, <2>6, <2>7
      <4>2. N[i] = P[i - (a + b)]
        BY <2>8, <4>1
      <4> QED BY <2>6, <4>1, <4>2
    <3> QED BY <2>8, <3>1, <3>2
  <2>12. \A h \in Range(K) : p[h].to < from /\ p[h].to \in Nat
    <3> SUFFICES ASSUME NEW h \in Range(K) PROVE p[h].to < from /\ p[h].to \in Nat
      OBVIOUS
    <3>1. h \in 1 .. k - 1 /\ h \in 1 .. m /\ h < k
      BY <1>1, <1>7
    <3> QED BY <1>3, <1>4, <1>7, <3>1 DEF from
  <2>13. \A i \in 1 .. a : M[i].at \in Nat /\ (M[i].at # 0 => M[i].at < from)
    <3> SUFFICES ASSUME NEW i \in 1 .. a PROVE M[i].at \in Nat /\ (M[i].at # 0 => M[i].at < from)
      OBVIOUS
    <3>1. M[i] \in Glyph
      BY <1>1, ElementOfSeq DEF a
    <3>2. M[i].at \in Nat
      BY <3>1 DEF Glyph
    <3>3. ASSUME M[i].at # 0 PROVE M[i].at < from
      <4>1. PICK h \in Range(K) : M[i].at \in p[h].from .. p[h].to
        BY <1>5, <3>3
      <4>2. p[h].from \in Nat /\ p[h].to \in Nat
        <5>1. h \in 1 .. m
          BY <1>1, <1>7
        <5> QED BY <1>3, <1>4, <5>1
      <4> QED BY <2>6, <2>12, <3>2, <4>1, <4>2
    <3> QED BY <3>2, <3>3
  <2>14. ASSUME NEW i \in 1 .. a + b + d, N[i].at # 0
         PROVE  /\ N[i].is = input[N[i].at]
                /\ \E h \in Range(L) : N[i].at \in p[h].from .. p[h].to
                /\ \A j \in 1 .. a + b + d : i < j => N[j].at = 0 \/ N[i].at < N[j].at
    <3>1. CASE i \in 1 .. a
      <4>1. N[i] = M[i] /\ M[i].at # 0 /\ M[i].at < from /\ M[i].at \in Nat
        BY <2>8, <2>13, <2>14, <3>1
      <4>2. ASSUME NEW j \in 1 .. a + b + d, i < j PROVE N[j].at = 0 \/ N[i].at < N[j].at
        <5>1. CASE j \in 1 .. a
          BY <1>5, <2>8, <3>1, <4>1, <4>2, <5>1
        <5>2. CASE j \in a + 1 .. a + b
          BY <2>11, <5>2
        <5>3. CASE j \in a + b + 1 .. a + b + d
          BY <2>6, <2>11, <4>1, <5>3
        <5> QED BY <2>10, <5>1, <5>2, <5>3
      <4> QED BY <1>5, <2>4, <3>1, <4>1, <4>2
    <3>2. CASE i \in a + b + 1 .. a + b + d
      <4>1. N[i].at = from + (i - (a + b)) - 1 /\ N[i].at \in from .. to /\ N[i].is = input[N[i].at]
        BY <2>11, <3>2
      <4>2. k \in Range(L) /\ N[i].at \in p[k].from .. p[k].to
        BY <2>4, <4>1 DEF from, to
      <4>3. ASSUME NEW j \in 1 .. a + b + d, i < j PROVE N[i].at < N[j].at
        <5>1. j \in a + b + 1 .. a + b + d /\ from + (i - (a + b)) - 1 < from + (j - (a + b)) - 1
          BY <1>3, <2>6, <2>7, <3>2, <4>3
        <5> QED BY <2>11, <4>1, <5>1
      <4> QED BY <4>1, <4>2, <4>3
    <3> QED BY <2>10, <2>11, <2>14, <3>1, <3>2
  <2>15. ASSUME NEW h \in Range(L), NEW x \in p[h].from .. p[h].to
         PROVE  \E i \in 1 .. a + b + d : N[i].at = x
    <3>1. CASE h \in Range(K)
      <4>1. PICK i \in 1 .. a : M[i].at = x
        BY <1>5, <2>15, <3>1
      <4>2. i \in 1 .. a + b + d
        BY <1>3, <2>6, <2>7
      <4> QED BY <2>8, <4>1, <4>2
    <3>2. CASE h = k
      <4> DEFINE i == a + b + (x - from + 1)
      <4>1. x \in from .. to
        BY <2>15, <3>2 DEF from, to
      <4>2. /\ i \in a + b + 1 .. a + b + d /\ i \in 1 .. a + b + d
            /\ from + (i - (a + b)) - 1 = x
        BY <1>3, <2>6, <2>7, <4>1
      <4> HIDE DEF i
      <4>3. N[i].at = x
        BY <2>11, <4>2
      <4> QED BY <4>2, <4>3
    <3> QED BY <2>4, <3>1, <3>2
  <2>16. ASSUME NEW h \in 1 .. c, \E g \in L[h] .. L[h + 1] - 1 : EndsParagraph(g)
         PROVE  \E i \in 1 .. a + b + d - 1 :
                  /\ N[i] = Added("n") /\ N[i + 1] = Added("n")
                  /\ \A j \in 1 .. a + b + d : N[j].at # 0 =>
                       IF j < i THEN N[j].at <= p[L[h]].to ELSE N[j].at >= p[L[h + 1]].from
    <3>1. CASE h \in 1 .. c - 1
      <4>1. L[h] = K[h] /\ L[h + 1] = K[h + 1] /\ h + 1 \in 1 .. c
        BY <1>3, <2>2, <3>1
      <4>2. PICK i \in 1 .. a - 1 :
              /\ M[i] = Added("n") /\ M[i + 1] = Added("n")
              /\ \A j \in 1 .. a : M[j].at # 0 =>
                   IF j < i THEN M[j].at <= p[K[h]].to ELSE M[j].at >= p[K[h + 1]].from
        BY <1>5, <2>16, <3>1, <4>1
      <4>3. /\ i \in 1 .. a /\ i + 1 \in 1 .. a /\ i \in 1 .. a + b + d - 1 /\ i < a
        BY <1>3, <2>6, <2>7
      <4>4. N[i] = Added("n") /\ N[i + 1] = Added("n")
        BY <2>8, <4>2, <4>3
      <4>5. p[K[h + 1]].from \in Nat /\ p[K[h + 1]].from < from
        <5>1. K[h + 1] \in Range(K) /\ K[h + 1] \in 1 .. m
          BY <1>7, <2>3, <4>1
        <5>2. /\ p[K[h + 1]].from \in Nat /\ p[K[h + 1]].from <= p[K[h + 1]].to
              /\ p[K[h + 1]].to < from /\ p[K[h + 1]].to \in Nat
          BY <1>3, <1>4, <2>12, <5>1
        <5> QED BY <2>6, <5>2
      <4>6. ASSUME NEW j \in 1 .. a + b + d, N[j].at # 0
            PROVE  IF j < i THEN N[j].at <= p[K[h]].to ELSE N[j].at >= p[K[h + 1]].from
        <5>1. CASE j \in 1 .. a
          BY <2>8, <4>2, <4>6, <5>1
        <5>2. CASE j \in a + b + 1 .. a + b + d
          <6>1. ~(j < i)
            BY <1>3, <2>7, <4>3, <5>2
          <6>2. N[j].at \in from .. to
            BY <2>11, <5>2
          <6>3. N[j].at >= p[K[h + 1]].from
            BY <2>6, <4>5, <6>2
          <6> QED BY <6>1, <6>3
        <5> QED BY <2>10, <2>11, <4>6, <5>1, <5>2
      <4> QED BY <4>1, <4>3, <4>4, <4>6
    <3>2. CASE h = c
      <4>1. /\ c # 0 /\ c \in 1 .. c /\ L[h] = K[c] /\ L[h + 1] = k
        BY <1>3, <2>2, <3>2
      <4>2. b = 2 /\ S[1] = Added("n") /\ S[2] = Added("n")
        BY <2>7, <2>16, <4>1
      <4> DEFINE i == a + 1
      <4>3. /\ i \in 1 .. a + b + d - 1 /\ i + 1 = a + 2 /\ 1 \in 1 .. b /\ 2 \in 1 .. b
        BY <1>3, <2>6, <4>2
      <4>4. N[i] = Added("n") /\ N[i + 1] = Added("n")
        BY <2>8, <4>2, <4>3
      <4>5. ASSUME NEW j \in 1 .. a + b + d, N[j].at # 0
            PROVE  IF j < i THEN N[j].at <= p[K[c]].to ELSE N[j].at >= p[k].from
        <5>1. CASE j \in 1 .. a
          <6>1. j < i
            BY <1>3, <5>1
          <6>2. N[j] = M[j] /\ M[j].at # 0 /\ M[j].at \in Nat
            BY <2>8, <2>13, <4>5, <5>1
          <6>3. PICK g \in Range(K) : M[j].at \in p[g].from .. p[g].to
            BY <1>5, <5>1, <6>2
          <6>4. PICK x \in 1 .. c : g = K[x]
            BY <1>3 DEF Range
          <6>5. K[c] \in 1 .. m /\ g \in 1 .. m /\ (g = K[c] \/ g < K[c])
            <7>1. x = c \/ x < c
              BY <1>3
            <7> QED BY <1>1, <1>3, <1>7, <2>3, <4>1, <6>4, <7>1
          <6>6. /\ p[g].to \in Nat /\ p[K[c]].to \in Nat /\ p[g].from \in Nat /\ p[K[c]].from \in Nat
                /\ p[K[c]].from <= p[K[c]].to
                /\ (g < K[c] => p[g].to < p[K[c]].from)
            BY <1>3, <1>4, <6>5
          <6>7. p[g].to <= p[K[c]].to
            BY <6>5, <6>6
          <6>8. M[j].at <= p[K[c]].to
            BY <6>2, <6>3, <6>6, <6>7
          <6> QED BY <6>1, <6>2, <6>8
        <5>2. CASE j \in a + b + 1 .. a + b + d
          <6>1. ~(j < i)
            BY <1>3, <2>7, <5>2
          <6>2. N[j].at \in from .. to
            BY <2>11, <5>2
          <6>3. N[j].at >= from
            BY <2>6, <6>2
          <6> QED BY <6>1, <6>3 DEF from
        <5> QED BY <2>10, <2>11, <4>5, <5>1, <5>2
      <4> HIDE DEF i
      <4> QED BY <4>1, <4>3, <4>4, <4>5
    <3>3. h \in 1 .. c - 1 \/ h = c
      BY <1>3
    <3> QED BY <3>1, <3>2, <3>3
  <2>17. MergedInOrder'
    <3>1. work'.merged = N /\ work'.kept = L /\ work'.pieces = p /\ input' = input
      BY <1>2, <1>8, <2>1
    <3>2. DOMAIN N = 1 .. a + b + d /\ Len(N) = a + b + d /\ Len(L) = c + 1 /\ c + 1 - 1 = c
      BY <1>3, <2>2, <2>8
    <3>3. \A i \in DOMAIN work'.merged : work'.merged[i].at # 0 =>
            /\ work'.merged[i].is = input'[work'.merged[i].at]
            /\ \E h \in Range(work'.kept) : work'.merged[i].at \in work'.pieces[h].from .. work'.pieces[h].to
            /\ \A j \in DOMAIN work'.merged :
                 i < j => work'.merged[j].at = 0 \/ work'.merged[i].at < work'.merged[j].at
      BY <2>14, <3>1, <3>2
    <3>4. \A h \in Range(work'.kept) : \A x \in work'.pieces[h].from .. work'.pieces[h].to :
            \E i \in DOMAIN work'.merged : work'.merged[i].at = x
      BY <2>15, <3>1, <3>2
    <3>5. \A h \in 1 .. Len(work'.kept) - 1 :
            (\E g \in work'.kept[h] .. work'.kept[h + 1] - 1 : EndsParagraph(g)') =>
              \E i \in 1 .. Len(work'.merged) - 1 :
                /\ work'.merged[i] = Added("n") /\ work'.merged[i + 1] = Added("n")
                /\ \A j \in DOMAIN work'.merged : work'.merged[j].at # 0 =>
                     IF j < i THEN work'.merged[j].at <= work'.pieces[work'.kept[h]].to
                     ELSE work'.merged[j].at >= work'.pieces[work'.kept[h + 1]].from
      <4>1. ASSUME NEW h \in 1 .. c, NEW g \in L[h] .. L[h + 1] - 1, EndsParagraph(g)'
            PROVE  \E x \in L[h] .. L[h + 1] - 1 : EndsParagraph(x)
        BY <1>9, <4>1
      <4>2. ASSUME NEW h \in 1 .. Len(work'.kept) - 1,
                   \E g \in work'.kept[h] .. work'.kept[h + 1] - 1 : EndsParagraph(g)'
            PROVE  \E i \in 1 .. Len(work'.merged) - 1 :
                     /\ work'.merged[i] = Added("n") /\ work'.merged[i + 1] = Added("n")
                     /\ \A j \in DOMAIN work'.merged : work'.merged[j].at # 0 =>
                          IF j < i THEN work'.merged[j].at <= work'.pieces[work'.kept[h]].to
                          ELSE work'.merged[j].at >= work'.pieces[work'.kept[h + 1]].from
        <5>1. h \in 1 .. c
          BY <1>3, <3>1, <3>2
        <5>2. \E g \in L[h] .. L[h + 1] - 1 : EndsParagraph(g)'
          BY <3>1, <4>2
        <5>3. \E g \in L[h] .. L[h + 1] - 1 : EndsParagraph(g)
          BY <4>1, <5>1, <5>2
        <5>4. PICK i \in 1 .. a + b + d - 1 :
                /\ N[i] = Added("n") /\ N[i + 1] = Added("n")
                /\ \A j \in 1 .. a + b + d : N[j].at # 0 =>
                     IF j < i THEN N[j].at <= p[L[h]].to ELSE N[j].at >= p[L[h + 1]].from
          BY <2>16, <5>1, <5>3
        <5>5. Len(work'.merged) - 1 = a + b + d - 1 /\ DOMAIN work'.merged = 1 .. a + b + d
          <6>1. Len(work'.merged) = a + b + d /\ a + b + d \in Nat
            BY <1>3, <2>6, <2>7, <3>1, <3>2
          <6>2. Len(work'.merged) - 1 = (a + b + d) - 1
            BY <6>1, Zenon
          <6>4. Len(work'.merged) - 1 = a + b + d - 1
            <7>1. (a + b + d) - 1 = a + b + d - 1
              BY <2>6, <2>7, <1>3
            <7> QED BY <6>2, <7>1, Zenon
          <6>3. DOMAIN work'.merged = 1 .. a + b + d
            BY <3>1, <3>2
          <6> QED BY <6>3, <6>4
        <5>6. work'.merged[i] = Added("n") /\ work'.merged[i + 1] = Added("n")
          BY <3>1, <5>4
        <5>7. \A j \in DOMAIN work'.merged : work'.merged[j].at # 0 =>
                IF j < i THEN work'.merged[j].at <= work'.pieces[work'.kept[h]].to
                ELSE work'.merged[j].at >= work'.pieces[work'.kept[h + 1]].from
          BY <3>1, <5>4, <5>5
        <5>8. i \in 1 .. Len(work'.merged) - 1
          BY <5>5
        <5> QED BY <5>6, <5>7, <5>8
      <4> QED BY <4>2
    <3> QED BY <3>3, <3>4, <3>5 DEF MergedInOrder, Added
  <2>18. Range(L) \subseteq 1 .. work'.next - 1
    <3>1. 1 .. k - 1 \subseteq 1 .. k /\ k \in 1 .. k
      BY <1>1, <1>7
    <3> QED BY <1>1, <1>7, <1>8, <2>4, <3>1
  <2> QED BY <1>9, <1>10, <2>1, <2>2, <2>5, <2>9, <2>17, <2>18 DEF SplitInv
<1> QED BY <1>2, <1>11, <1>12

-----------------------------------------------------------------------------
(* What is shown of an answer while it arrives *)

Arrived == Characters \cup Seq(Characters)

Hex(raw, i) ==
    i + HexDigits - 1 <= Len(raw) /\ \A j \in i .. i + HexDigits - 1 : raw[j] \in {"a", "0"}

\* what is shown from a place on, given what is shown from the places behind it
Turn(raw, f, i) ==
    IF i > Len(raw) \/ (i <= Len(raw) /\ raw[i] = "quote") THEN <<>>
    ELSE IF raw[i] # "escape" THEN <<raw[i]>> \o f[i + 1]
    ELSE IF i = Len(raw) THEN <<>>
    ELSE IF raw[i + 1] # "u" THEN <<raw[i + 1]>> \o f[i + 2]
    ELSE IF Hex(raw, i + 2) THEN <<SubSeq(raw, i + 2, i + 1 + HexDigits)>> \o f[i + 2 + HexDigits]
    ELSE <<>>

LEMMA ShownIs ==
    ASSUME NEW raw
    PROVE  Shown(raw) = CHOOSE f : f = [i \in 1 .. Len(raw) + 1 |-> Turn(raw, f, i)]
BY DEF Shown, Turn, Hex

\* The places that what is shown from a place depends on lie behind it.
LEMMA TurnLooksAhead ==
    ASSUME HexDigits \in Nat \ {0}, NEW raw \in Seq(Characters), NEW n \in Nat, n = Len(raw),
           NEW i \in 1 .. n + 1
    PROVE  /\ i <= n => i + 1 \in i + 1 .. n + 1 /\ raw[i] \in Arrived
           /\ i < n => i + 2 \in i + 1 .. n + 1 /\ raw[i + 1] \in Arrived
           /\ Hex(raw, i + 2) => /\ i + 2 + HexDigits \in i + 1 .. n + 1
                                 /\ SubSeq(raw, i + 2, i + 1 + HexDigits) \in Arrived
<1>1. /\ i <= n => i + 1 \in i + 1 .. n + 1 /\ i \in 1 .. n
      /\ i < n => i + 2 \in i + 1 .. n + 1 /\ i + 1 \in 1 .. n
  OBVIOUS
<1>2. \A j \in 1 .. n : raw[j] \in Characters
  BY ElementOfSeq
<1>3. ASSUME Hex(raw, i + 2)
      PROVE  /\ i + 2 + HexDigits \in i + 1 .. n + 1
             /\ SubSeq(raw, i + 2, i + 1 + HexDigits) \in Arrived
  <2>1. i + 2 + HexDigits - 1 <= n
    BY <1>3 DEF Hex
  <2>2. /\ i + 2 + HexDigits \in i + 1 .. n + 1 /\ i + 2 \in Int /\ i + 1 + HexDigits \in Int
        /\ i + 2 .. i + 1 + HexDigits \subseteq 1 .. n
    BY <2>1
  <2>3. SubSeq(raw, i + 2, i + 1 + HexDigits) \in Seq(Characters)
    BY <1>2, <2>2, SubSeqProperties
  <2> QED BY <2>2, <2>3 DEF Arrived
<1> QED BY <1>1, <1>2, <1>3 DEF Arrived

LEMMA TurnFacts ==
    ASSUME HexDigits \in Nat \ {0}, NEW raw \in Seq(Characters), NEW n \in Nat, n = Len(raw),
           NEW i \in 1 .. n + 1, NEW f, \A j \in i + 1 .. n + 1 : f[j] \in Seq(Arrived)
    PROVE  Turn(raw, f, i) \in Seq(Arrived)
<1>1. /\ i <= n => i + 1 \in i + 1 .. n + 1 /\ raw[i] \in Arrived
      /\ i < n => i + 2 \in i + 1 .. n + 1 /\ raw[i + 1] \in Arrived
      /\ Hex(raw, i + 2) => /\ i + 2 + HexDigits \in i + 1 .. n + 1
                            /\ SubSeq(raw, i + 2, i + 1 + HexDigits) \in Arrived
  BY TurnLooksAhead
<1>2. ASSUME NEW x \in Arrived, NEW j \in i + 1 .. n + 1
      PROVE  <<x>> \o f[j] \in Seq(Arrived)
  <2>1. <<x>> \in Seq(Arrived) /\ f[j] \in Seq(Arrived)
    OBVIOUS
  <2> QED BY <2>1, ConcatProperties
<1>3. (i > n \/ i <= n) /\ (i = n \/ i < n \/ i > n) /\ (i < n => i <= n)
  OBVIOUS
<1>4. CASE i > n \/ (i <= n /\ raw[i] = "quote")
  BY <1>4 DEF Turn
<1>5. CASE i <= n /\ raw[i] # "quote" /\ raw[i] # "escape"
  BY <1>1, <1>2, <1>3, <1>5 DEF Turn
<1>6. CASE i <= n /\ raw[i] = "escape" /\ i = n
  BY <1>3, <1>6 DEF Turn
<1>7. CASE i < n /\ raw[i] = "escape" /\ raw[i + 1] # "u"
  BY <1>1, <1>2, <1>3, <1>7 DEF Turn
<1>8. CASE i < n /\ raw[i] = "escape" /\ raw[i + 1] = "u" /\ Hex(raw, i + 2)
  BY <1>1, <1>2, <1>3, <1>8 DEF Turn
<1>9. CASE i < n /\ raw[i] = "escape" /\ raw[i + 1] = "u" /\ ~Hex(raw, i + 2)
  BY <1>3, <1>9 DEF Turn
<1> QED BY <1>3, <1>4, <1>5, <1>6, <1>7, <1>8, <1>9

\* Two tables that agree behind a place agree on what is shown from there.
LEMMA TurnFromBehind ==
    ASSUME HexDigits \in Nat \ {0}, NEW raw \in Seq(Characters), NEW n \in Nat, n = Len(raw),
           NEW i \in 1 .. n + 1, NEW f, NEW g,
           \A j \in i + 1 .. n + 1 : f[j] = g[j]
    PROVE  Turn(raw, f, i) = Turn(raw, g, i)
<1>1. /\ i <= n => i + 1 \in i + 1 .. n + 1
      /\ i < n => i + 2 \in i + 1 .. n + 1
      /\ Hex(raw, i + 2) => i + 2 + HexDigits \in i + 1 .. n + 1
  BY TurnLooksAhead
<1>2. (i > n \/ i <= n) /\ (i = n \/ i < n \/ i > n) /\ (i < n => i <= n)
  OBVIOUS
<1>4. CASE i > n \/ (i <= n /\ raw[i] = "quote")
  BY <1>4 DEF Turn
<1>5. CASE i <= n /\ raw[i] # "quote" /\ raw[i] # "escape"
  BY <1>1, <1>2, <1>5 DEF Turn
<1>6. CASE i <= n /\ raw[i] = "escape" /\ i = n
  BY <1>2, <1>6 DEF Turn
<1>7. CASE i < n /\ raw[i] = "escape" /\ raw[i + 1] # "u"
  BY <1>1, <1>2, <1>7 DEF Turn
<1>8. CASE i < n /\ raw[i] = "escape" /\ raw[i + 1] = "u" /\ Hex(raw, i + 2)
  BY <1>1, <1>2, <1>8 DEF Turn
<1>9. CASE i < n /\ raw[i] = "escape" /\ raw[i + 1] = "u" /\ ~Hex(raw, i + 2)
  BY <1>2, <1>9 DEF Turn
<1> QED BY <1>2, <1>4, <1>5, <1>6, <1>7, <1>8, <1>9

\* There is such a table, from the last place to the first.
LEMMA ShownExists ==
    ASSUME HexDigits \in Nat \ {0}, NEW raw \in Seq(Characters), NEW n \in Nat, n = Len(raw)
    PROVE  \E f : f = [i \in 1 .. n + 1 |-> Turn(raw, f, i)]
<1>0. ASSUME NEW f, NEW g, NEW i \in 1 .. n + 1, \A j \in i + 1 .. n + 1 : f[j] = g[j]
      PROVE  Turn(raw, f, i) = Turn(raw, g, i)
  BY <1>0, TurnFromBehind
<1> DEFINE Table(k, f) == \A i \in k + 1 .. n + 1 : f[i] = Turn(raw, f, i)
           S == {k \in 0 .. n + 1 : \E f \in [k + 1 .. n + 1 -> Seq(Arrived)] : Table(k, f)}
<1>1. n + 1 \in S
  <2>1. n + 1 \in 0 .. n + 1 /\ n + 1 + 1 .. n + 1 = {}
    OBVIOUS
  <2>2. \E f \in [{} -> Seq(Arrived)] : TRUE
    <3>1. [x \in {} |-> <<>>] \in [{} -> Seq(Arrived)]
      OBVIOUS
    <3> QED BY <3>1
  <2> QED BY <2>1, <2>2
<1>2. PICK k \in S : \A l \in S : k <= l
  <2>1. S \in SUBSET Nat
    OBVIOUS
  <2> HIDE DEF S
  <2> QED BY <1>1, <2>1, Least
<1>3. k \in 0 .. n + 1 /\ \E f \in [k + 1 .. n + 1 -> Seq(Arrived)] : Table(k, f)
  OBVIOUS
<1>4. PICK f \in [k + 1 .. n + 1 -> Seq(Arrived)] : Table(k, f)
  BY <1>3
<1>5. ASSUME k # 0 PROVE FALSE
  <2> DEFINE step == [i \in k .. n + 1 |-> IF i = k THEN Turn(raw, f, k) ELSE f[i]]
  <2>1. /\ k \in 1 .. n + 1 /\ k - 1 \in 0 .. n + 1 /\ ~(k <= k - 1) /\ k - 1 + 1 = k
        /\ \A i \in k .. n + 1 : i = k \/ i \in k + 1 .. n + 1
        /\ k \in k .. n + 1 /\ k + 1 .. n + 1 \subseteq k .. n + 1
        /\ \A i \in k + 1 .. n + 1 : i # k
    BY <1>3, <1>5
  <2>2. Turn(raw, f, k) \in Seq(Arrived)
    BY <1>4, <2>1, TurnFacts
  <2>3. PICK g \in [k .. n + 1 -> Seq(Arrived)] :
          g[k] = Turn(raw, f, k) /\ \A i \in k + 1 .. n + 1 : g[i] = f[i]
    <3>1. /\ step \in [k .. n + 1 -> Seq(Arrived)] /\ step[k] = Turn(raw, f, k)
          /\ \A i \in k + 1 .. n + 1 : step[i] = f[i]
      BY <1>4, <2>1, <2>2
    <3> QED BY <3>1
  <2>4. ASSUME NEW i \in k .. n + 1 PROVE g[i] = Turn(raw, g, i)
    <3>1. i \in 1 .. n + 1 /\ \A j \in i + 1 .. n + 1 : j \in k + 1 .. n + 1
      BY <2>1
    <3>2. \A j \in i + 1 .. n + 1 : f[j] \in Seq(Arrived) /\ f[j] = g[j]
      BY <1>4, <2>3, <3>1
    <3>5. \A j \in i + 1 .. n + 1 : f[j] = g[j]
      BY <3>2
    <3>3. Turn(raw, f, i) = Turn(raw, g, i)
      BY <1>0, <3>1, <3>5
    <3>4. g[i] = Turn(raw, f, i)
      BY <1>4, <2>1, <2>3
    <3> QED BY <3>3, <3>4
  <2>5. k - 1 \in S
    BY <2>1, <2>3, <2>4
  <2> QED BY <1>2, <2>1, <2>5
<1>6. f \in [1 .. n + 1 -> Seq(Arrived)] /\ \A i \in 1 .. n + 1 : f[i] = Turn(raw, f, i)
  <2>1. k = 0
    BY <1>5
  <2> QED BY <1>4, <2>1
<1>7. f = [i \in 1 .. n + 1 |-> Turn(raw, f, i)]
  BY <1>6
<1> QED BY <1>7

LEMMA ShownFacts ==
    ASSUME HexDigits \in Nat \ {0}, NEW raw \in Seq(Characters), NEW n \in Nat, n = Len(raw)
    PROVE  /\ \A i \in 1 .. n + 1 : Shown(raw)[i] = Turn(raw, Shown(raw), i)
           /\ \A i \in 1 .. n + 1 : Shown(raw)[i] \in Seq(Arrived)
<1> DEFINE F == Shown(raw)
           Table(f) == f = [i \in 1 .. n + 1 |-> Turn(raw, f, i)]
           Bad == {d \in 0 .. n + 1 : n + 1 - d \in 1 .. n + 1 /\ F[n + 1 - d] \notin Seq(Arrived)}
<1>1. F = CHOOSE f : Table(f)
  BY ShownIs
<1>2. \E f : Table(f)
  BY ShownExists
<1>3. Table(F)
  <2> HIDE DEF F, Table
  <2> QED BY <1>1, <1>2
<1> HIDE DEF F
<1>4. \A i \in 1 .. n + 1 : F[i] = Turn(raw, F, i)
  BY <1>3
<1>5. ASSUME Bad # {} PROVE FALSE
  <2>1. Bad \in SUBSET Nat
    OBVIOUS
  <2>2. PICK d \in Bad : \A e \in Bad : d <= e
    <3> HIDE DEF Bad
    <3> QED BY <1>5, <2>1, Least
  <2> DEFINE i == n + 1 - d
  <2>3. i \in 1 .. n + 1 /\ F[i] \notin Seq(Arrived) /\ d \in 0 .. n + 1
    OBVIOUS
  <2>4. ASSUME NEW j \in i + 1 .. n + 1 PROVE F[j] \in Seq(Arrived)
    <3>1. n + 1 - j \in 0 .. n + 1 /\ n + 1 - (n + 1 - j) = j /\ j \in 1 .. n + 1 /\ ~(d <= n + 1 - j)
      BY <2>3
    <3> QED BY <2>2, <3>1
  <2> HIDE DEF i
  <2>5. Turn(raw, F, i) \in Seq(Arrived)
    BY <2>3, <2>4, TurnFacts
  <2> QED BY <1>4, <2>3, <2>5
<1>6. ASSUME NEW i \in 1 .. n + 1 PROVE F[i] \in Seq(Arrived)
  <2>1. n + 1 - i \in 0 .. n + 1 /\ n + 1 - (n + 1 - i) = i
    OBVIOUS
  <2> QED BY <1>5, <2>1
<1> QED BY <1>4, <1>6 DEF F

\* A beginning of a sequence.
LEMMA PrefixIs ==
    ASSUME NEW S, NEW s \in Seq(S), NEW t \in Seq(S)
    PROVE  IsPrefix(s, t) <=> Len(s) <= Len(t) /\ \A k \in 1 .. Len(s) : s[k] = t[k]
<1> DEFINE m == Len(s)
<1>1. m \in Nat /\ Len(t) \in Nat /\ \A k \in 1 .. m : s[k] \in S /\ \A l \in 1 .. Len(t) : t[l] \in S
  BY LenProperties, ElementOfSeq
<1>2. m <= Len(t) =>
        /\ SubSeq(s, 1, m) \in Seq(S) /\ Len(SubSeq(s, 1, m)) = m
        /\ \A k \in 1 .. m : SubSeq(s, 1, m)[k] = s[k]
        /\ SubSeq(t, 1, m) \in Seq(S) /\ Len(SubSeq(t, 1, m)) = m
        /\ \A k \in 1 .. m : SubSeq(t, 1, m)[k] = t[k]
  OBVIOUS
<1> QED BY <1>1, <1>2, SeqEqual DEF IsPrefix

LEMMA PrefixBehind ==
    ASSUME NEW x \in Arrived, NEW s \in Seq(Arrived), NEW t \in Seq(Arrived), IsPrefix(s, t)
    PROVE  IsPrefix(<<x>> \o s, <<x>> \o t)
<1>1. Len(s) \in Nat /\ Len(t) \in Nat /\ Len(s) <= Len(t) /\ \A k \in 1 .. Len(s) : s[k] = t[k]
  BY PrefixIs, LenProperties
<1> DEFINE a == <<x>> \o s
           b == <<x>> \o t
<1>2. <<x>> \in Seq(Arrived) /\ Len(<<x>>) = 1 /\ <<x>>[1] = x
  OBVIOUS
<1>3. /\ a \in Seq(Arrived) /\ Len(a) = Len(s) + 1 /\ b \in Seq(Arrived) /\ Len(b) = Len(t) + 1
      /\ \A k \in 1 .. Len(s) + 1 : a[k] = IF k <= 1 THEN x ELSE s[k - 1]
      /\ \A k \in 1 .. Len(t) + 1 : b[k] = IF k <= 1 THEN x ELSE t[k - 1]
  <2>1. /\ a \in Seq(Arrived) /\ Len(a) = Len(<<x>>) + Len(s) /\ b \in Seq(Arrived) /\ Len(b) = Len(<<x>>) + Len(t)
        /\ \A k \in 1 .. Len(<<x>>) + Len(s) : a[k] = IF k <= Len(<<x>>) THEN <<x>>[k] ELSE s[k - Len(<<x>>)]
        /\ \A k \in 1 .. Len(<<x>>) + Len(t) : b[k] = IF k <= Len(<<x>>) THEN <<x>>[k] ELSE t[k - Len(<<x>>)]
    BY <1>2, ConcatProperties
  <2>2. /\ Len(<<x>>) + Len(s) = Len(s) + 1 /\ Len(<<x>>) + Len(t) = Len(t) + 1
        /\ \A k \in Nat \ {0} : k <= 1 => k = 1
    BY <1>1, <1>2
  <2> HIDE DEF a, b
  <2> QED BY <1>1, <1>2, <2>1, <2>2
<1> HIDE DEF a, b
<1>4. Len(a) <= Len(b)
  BY <1>1, <1>3
<1>5. ASSUME NEW k \in 1 .. Len(a) PROVE a[k] = b[k]
  <2>1. k \in 1 .. Len(s) + 1 /\ k \in 1 .. Len(t) + 1 /\ (~(k <= 1) => k - 1 \in 1 .. Len(s))
    BY <1>1, <1>3
  <2> QED BY <1>1, <1>3, <2>1
<1>6. IsPrefix(a, b)
  BY <1>3, <1>4, <1>5, PrefixIs
<1> QED BY <1>6 DEF a, b

\* The digits of an escape.
LEMMA DigitsAre ==
    ASSUME NEW raw \in Seq(Characters), NEW i \in Nat, NEW h \in Nat \ {0}, i + 1 + h <= Len(raw)
    PROVE  /\ SubSeq(raw, i + 2, i + 1 + h) \in Seq(Characters)
           /\ Len(SubSeq(raw, i + 2, i + 1 + h)) = h
           /\ \A j \in 1 .. h : SubSeq(raw, i + 2, i + 1 + h)[j] = raw[i + 2 + j - 1]
<1> DEFINE a == i + 2
           b == i + 1 + h
<1>1. a \in Int /\ b \in Int /\ a <= b /\ b - a + 1 = h
  OBVIOUS
<1>2. \A j \in a .. b : raw[j] \in Characters
  <2>1. Len(raw) \in Nat /\ \A j \in 1 .. Len(raw) : raw[j] \in Characters
    BY ElementOfSeq, LenProperties
  <2>2. a .. b \subseteq 1 .. Len(raw)
    BY <2>1
  <2> QED BY <2>1, <2>2
<1> HIDE DEF a, b
<1>3. /\ SubSeq(raw, a, b) \in Seq(Characters)
      /\ Len(SubSeq(raw, a, b)) = b - a + 1
      /\ \A j \in 1 .. b - a + 1 : SubSeq(raw, a, b)[j] = raw[a + j - 1]
  BY <1>1, <1>2, SubSeqProperties
<1>4. /\ SubSeq(raw, a, b) \in Seq(Characters) /\ Len(SubSeq(raw, a, b)) = h
      /\ \A j \in 1 .. h : SubSeq(raw, a, b)[j] = raw[a + j - 1]
  BY <1>1, <1>3
<1> QED BY <1>4 DEF a, b

\* What is shown from a place is only added to when another character arrives.
LEMMA TurnGrows ==
    ASSUME HexDigits \in Nat \ {0}, NEW raw \in Seq(Characters), NEW c \in Characters,
           NEW n \in Nat, n = Len(raw), NEW more, more = Append(raw, c),
           NEW i \in 1 .. n + 1, NEW f, NEW g,
           \A j \in i + 1 .. n + 1 : f[j] \in Seq(Arrived) /\ g[j] \in Seq(Arrived) /\ IsPrefix(f[j], g[j]),
           Turn(more, g, i) \in Seq(Arrived)
    PROVE  IsPrefix(Turn(raw, f, i), Turn(more, g, i))
<1>1. /\ i <= n => i + 1 \in i + 1 .. n + 1 /\ raw[i] \in Arrived
      /\ i < n => i + 2 \in i + 1 .. n + 1 /\ raw[i + 1] \in Arrived
      /\ Hex(raw, i + 2) => /\ i + 2 + HexDigits \in i + 1 .. n + 1
                            /\ SubSeq(raw, i + 2, i + 1 + HexDigits) \in Arrived
  BY TurnLooksAhead
<1>2. (i > n \/ i <= n) /\ (i = n \/ i < n \/ i > n) /\ (i < n => i <= n)
  OBVIOUS
<1>3. more \in Seq(Characters) /\ Len(more) = n + 1 /\ \A j \in 1 .. n : more[j] = raw[j]
  OBVIOUS
<1>4. ASSUME NEW t \in Seq(Arrived) PROVE IsPrefix(<<>>, t)
  <2>1. <<>> \in Seq(Arrived) /\ Len(<<>>) = 0 /\ Len(t) \in Nat
    OBVIOUS
  <2>2. Len(<<>>) <= Len(t) /\ \A k \in 1 .. Len(<<>>) : <<>>[k] = t[k]
    BY <2>1
  <2> QED BY <2>1, <2>2, PrefixIs
<1>5. ASSUME i <= n
      PROVE  /\ ~(i > n + 1) /\ i <= n + 1 /\ i # n + 1 /\ more[i] = raw[i]
             /\ i < n => more[i + 1] = raw[i + 1]
  BY <1>3, <1>5
<1>6. ASSUME NEW x \in Arrived, NEW j \in i + 1 .. n + 1
      PROVE  IsPrefix(<<x>> \o f[j], <<x>> \o g[j])
  BY <1>6, PrefixBehind
<1>7. CASE i > n \/ (i <= n /\ raw[i] = "quote")
  <2>1. Turn(raw, f, i) = <<>>
    BY <1>7 DEF Turn
  <2> QED BY <1>4, <2>1
<1>8. CASE i <= n /\ raw[i] # "quote" /\ raw[i] # "escape"
  <2>1. Turn(raw, f, i) = <<raw[i]>> \o f[i + 1]
    BY <1>2, <1>8 DEF Turn
  <2>2. Turn(more, g, i) = <<raw[i]>> \o g[i + 1]
    BY <1>2, <1>3, <1>5, <1>8 DEF Turn
  <2> QED BY <1>1, <1>6, <1>8, <2>1, <2>2
<1>9. CASE i <= n /\ raw[i] = "escape" /\ i = n
  <2>1. Turn(raw, f, i) = <<>>
    BY <1>2, <1>9 DEF Turn
  <2> QED BY <1>4, <2>1
<1>10. CASE i < n /\ raw[i] = "escape" /\ raw[i + 1] # "u"
  <2>1. Turn(raw, f, i) = <<raw[i + 1]>> \o f[i + 2]
    BY <1>2, <1>10 DEF Turn
  <2>2. Turn(more, g, i) = <<raw[i + 1]>> \o g[i + 2]
    BY <1>2, <1>3, <1>5, <1>10 DEF Turn
  <2> QED BY <1>1, <1>6, <1>10, <2>1, <2>2
<1>11. CASE i < n /\ raw[i] = "escape" /\ raw[i + 1] = "u" /\ Hex(raw, i + 2)
  <2>1. Turn(raw, f, i) = <<SubSeq(raw, i + 2, i + 1 + HexDigits)>> \o f[i + 2 + HexDigits]
    BY <1>2, <1>11 DEF Turn
  <2>2. i + 2 + HexDigits - 1 <= n /\ \A j \in i + 2 .. i + 2 + HexDigits - 1 : raw[j] \in {"a", "0"}
    BY <1>11 DEF Hex
  <2>3. /\ i + 2 + HexDigits - 1 <= n + 1 /\ i + 2 + HexDigits - 1 = i + 1 + HexDigits
        /\ i + 2 .. i + 2 + HexDigits - 1 \subseteq 1 .. n
        /\ i + 2 .. i + 1 + HexDigits \subseteq 1 .. n
        /\ i + 2 .. i + 1 + HexDigits \subseteq 1 .. n + 1
        /\ i + 2 \in Int /\ i + 1 + HexDigits \in Int
    BY <2>2
  <2>4. Hex(more, i + 2)
    BY <1>3, <2>2, <2>3 DEF Hex
  <2>5. SubSeq(more, i + 2, i + 1 + HexDigits) = SubSeq(raw, i + 2, i + 1 + HexDigits)
    <3> DEFINE s == SubSeq(raw, i + 2, i + 1 + HexDigits)
               t == SubSeq(more, i + 2, i + 1 + HexDigits)
    <3>1. i + 1 + HexDigits <= n /\ i + 1 + HexDigits <= n + 1 /\ i \in Nat
      BY <2>2
    <3>2. /\ s \in Seq(Characters) /\ Len(s) = HexDigits
          /\ \A j \in 1 .. HexDigits : s[j] = raw[i + 2 + j - 1]
      BY <3>1, DigitsAre
    <3>3. /\ t \in Seq(Characters) /\ Len(t) = HexDigits
          /\ \A j \in 1 .. HexDigits : t[j] = more[i + 2 + j - 1]
      BY <1>3, <3>1, DigitsAre
    <3>4. \A j \in 1 .. HexDigits : i + 2 + j - 1 \in 1 .. n
      BY <2>2
    <3> HIDE DEF s, t
    <3>5. s = t
      <4>1. \A j \in 1 .. HexDigits : s[j] = t[j]
        BY <1>3, <3>2, <3>3, <3>4
      <4>2. Len(s) = Len(t) /\ \A j \in 1 .. Len(s) : s[j] = t[j]
        BY <3>2, <3>3, <4>1
      <4> QED BY <3>2, <3>3, <4>2, SeqEqual
    <3> QED BY <3>5 DEF s, t
  <2>6. Turn(more, g, i) = <<SubSeq(raw, i + 2, i + 1 + HexDigits)>> \o g[i + 2 + HexDigits]
    BY <1>2, <1>3, <1>5, <1>11, <2>4, <2>5 DEF Turn
  <2> QED BY <1>1, <1>6, <1>11, <2>1, <2>6
<1>12. CASE i < n /\ raw[i] = "escape" /\ raw[i + 1] = "u" /\ ~Hex(raw, i + 2)
  <2>1. Turn(raw, f, i) = <<>>
    BY <1>2, <1>12 DEF Turn
  <2> QED BY <1>4, <2>1
<1> QED BY <1>2, <1>7, <1>8, <1>9, <1>10, <1>11, <1>12

LEMMA ShownGrows ==
    ASSUME HexDigits \in Nat \ {0}, NEW raw \in Seq(Characters), NEW c \in Characters
    PROVE  IsPrefix(Preview(raw), Preview(Append(raw, c)))
<1> DEFINE n == Len(raw)
           more == Append(raw, c)
           F == Shown(raw)
           G == Shown(more)
<1>1. n \in Nat /\ n + 1 \in Nat /\ more \in Seq(Characters) /\ Len(more) = n + 1
  OBVIOUS
<1>2. more = Append(raw, c) /\ n = Len(raw)
  OBVIOUS
<1> HIDE DEF n, more
<1>3. \A i \in 1 .. n + 1 : F[i] = Turn(raw, F, i) /\ F[i] \in Seq(Arrived)
  BY <1>1, <1>2, ShownFacts
<1>4. \A i \in 1 .. n + 1 + 1 : G[i] = Turn(more, G, i) /\ G[i] \in Seq(Arrived)
  BY <1>1, ShownFacts
<1> HIDE DEF F, G
<1>5. \A i \in 1 .. n + 1 : i \in 1 .. n + 1 + 1
  BY <1>1
<1> DEFINE Bad == {d \in 0 .. n + 1 : n + 1 - d \in 1 .. n + 1 /\ ~IsPrefix(F[n + 1 - d], G[n + 1 - d])}
<1>6. ASSUME Bad # {} PROVE FALSE
  <2>1. Bad \in SUBSET Nat
    BY <1>1
  <2>2. PICK d \in Bad : \A e \in Bad : d <= e
    <3> HIDE DEF Bad
    <3> QED BY <1>6, <2>1, Least
  <2> DEFINE i == n + 1 - d
  <2>3. i \in 1 .. n + 1 /\ ~IsPrefix(F[i], G[i]) /\ d \in 0 .. n + 1
    OBVIOUS
  <2>4. ASSUME NEW j \in i + 1 .. n + 1
        PROVE  F[j] \in Seq(Arrived) /\ G[j] \in Seq(Arrived) /\ IsPrefix(F[j], G[j])
    <3>1. n + 1 - j \in 0 .. n + 1 /\ n + 1 - (n + 1 - j) = j /\ j \in 1 .. n + 1 /\ ~(d <= n + 1 - j)
      BY <1>1, <2>3
    <3>2. IsPrefix(F[j], G[j])
      BY <2>2, <3>1
    <3> QED BY <1>3, <1>4, <1>5, <3>1, <3>2
  <2> HIDE DEF i
  <2>5. Turn(more, G, i) \in Seq(Arrived)
    BY <1>4, <1>5, <2>3
  <2>6. IsPrefix(Turn(raw, F, i), Turn(more, G, i))
    BY <1>1, <1>2, <2>3, <2>4, <2>5, TurnGrows
  <2>7. F[i] = Turn(raw, F, i) /\ G[i] = Turn(more, G, i)
    BY <1>3, <1>4, <1>5, <2>3
  <2> QED BY <2>3, <2>6, <2>7
<1>7. 1 \in 1 .. n + 1 /\ n \in 0 .. n + 1 /\ n + 1 - n = 1
  BY <1>1
<1>8. IsPrefix(F[1], G[1])
  BY <1>6, <1>7
<1> QED BY <1>8 DEF Preview, F, G, more

PreviewInv == input \in Seq(Characters) /\ work = Preview(input)

LEMMA ReceiveStep ==
    ASSUME PiecesAssumption, PreviewInv, Receive
    PROVE  PreviewInv' /\ IsPrefix(work, work')
<1>1. HexDigits \in Nat \ {0}
  BY DEF PiecesAssumption
<1>2. PICK c \in Characters : input' = Append(input, c)
  BY DEF Receive
<1>3. input \in Seq(Characters) /\ input' \in Seq(Characters)
  BY <1>2 DEF PreviewInv
<1>4. work = Preview(input) /\ work' = Preview(input')
  BY DEF PreviewInv, Receive
<1>5. IsPrefix(Preview(input), Preview(Append(input, c)))
  BY <1>1, <1>3, ShownGrows
<1>6. PreviewInv'
  BY <1>3, <1>4 DEF PreviewInv
<1> QED BY <1>2, <1>4, <1>5, <1>6

-----------------------------------------------------------------------------
(* Every behaviour *)

LEMMA TextsAre ==
    ASSUME NEW letters, NEW S, letters \subseteq S, NEW n \in Nat
    PROVE  Texts(letters, n) \subseteq Seq(S)
<1>1. ASSUME NEW t \in Texts(letters, n) PROVE t \in Seq(S)
  <2>1. PICK k \in 0 .. n : t \in [1 .. k -> letters]
    BY DEF Texts
  <2>2. k \in Nat /\ t \in [1 .. k -> S]
    BY <2>1
  <2> QED BY <2>2
<1> QED BY <1>1

LEMMA SplitStart ==
    ASSUME PiecesAssumption, PiecesInit, kind = "split"
    PROVE  SplitInv
<1>1. /\ input \in Pages
      /\ work = [start |-> 0, pieces |-> <<>>, merged |-> <<>>, next |-> 1, kept |-> <<>>]
  BY DEF PiecesInit
<1>2. input \in Seq(Letters)
  <2>1. input \in Texts(Letters, MaxText)
    BY <1>1 DEF Pages, Letters
  <2>2. MaxText \in Nat
    BY DEF PiecesAssumption
  <2> QED BY <2>1, <2>2, TextsAre
<1>3. Len(input) \in Nat
  BY <1>2, LenProperties
<1>4. Len(input) > 0 => input[1] \notin White /\ input[Len(input)] \notin White
  <2>1. Len(input) > 0 => input # <<>>
    BY <1>2
  <2>2. input # <<>> => {input[1], input[Len(input)]} \cap White = {}
    BY <1>1 DEF Pages
  <2> QED BY <2>1, <2>2
<1>5. /\ work.start = 0 /\ work.pieces = <<>> /\ work.merged = <<>> /\ work.next = 1 /\ work.kept = <<>>
      /\ 0 + 1 = 1 /\ 1 .. 0 = {}
  BY <1>1
<1>6. /\ <<>> \in Seq(Stretch) /\ <<>> \in Seq(Glyph) /\ <<>> \in Seq(Nat)
      /\ Len(<<>>) = 0 /\ DOMAIN <<>> = {} /\ Range(<<>>) = {}
      /\ 1 .. Len(<<>>) - 1 = {} /\ 1 \in 1 .. Len(<<>>) + 1
  BY DEF Range
<1>7. work \in [start : Nat, pieces : Seq(Stretch), merged : Seq(Glyph), next : Nat, kept : Seq(Nat)]
  BY <1>1, <1>6
<1>8. PagesAreWhole
  BY <1>5, <1>6 DEF PagesAreWhole
<1>9. MergedInOrder
  BY <1>5, <1>6 DEF MergedInOrder
<1>10. /\ work.start <= Len(input) /\ (work.start < Len(input) => input[work.start + 1] \notin White)
  BY <1>3, <1>4, <1>5
<1>11. /\ work.next \in 1 .. Len(work.pieces) + 1 /\ Range(work.kept) \subseteq 1 .. work.next - 1
       /\ \A i, j \in DOMAIN work.kept : i < j => work.kept[i] < work.kept[j]
  BY <1>5, <1>6
<1> QED BY <1>2, <1>4, <1>5, <1>7, <1>8, <1>9, <1>10, <1>11 DEF SplitInv

LEMMA JudgeStart ==
    ASSUME PiecesAssumption, PiecesInit, kind \in {"raw", "parsed"}
    PROVE  JudgeInv
<1>1. /\ input \in [source : Texts({"a", "w"}, MaxText \div 2 + 1) \ {<<>>}, segments : Segments]
      /\ work = [next |-> 1, cursor |-> 1, covered |-> 0, verdict |-> Nothing]
  BY DEF PiecesInit
<1>2. MaxText \in Nat /\ MaxText \div 2 + 1 \in Nat /\ {"a", "w"} \subseteq Character
  BY DEF PiecesAssumption, Character
<1>3. input.source \in Seq(Character)
  BY <1>1, <1>2, TextsAre
<1>4. input.segments \in Seq(Seq(Character) \ {<<>>})
  <2>1. PICK k \in 1 .. MaxSegments : input.segments \in [1 .. k -> Texts({"a", "w"}, 2) \ {<<>>}]
    BY <1>1 DEF Segments
  <2>2. Texts({"a", "w"}, 2) \subseteq Seq(Character)
    BY <1>2, TextsAre
  <2>3. k \in Nat /\ input.segments \in [1 .. k -> Seq(Character) \ {<<>>}]
    BY <2>1, <2>2
  <2> QED BY <2>3
<1>5. /\ work.next = 1 /\ work.cursor = 1 /\ work.covered = 0 /\ work.verdict = Nothing
      /\ work \in [next : Nat, cursor : Nat, covered : Nat, verdict : Verdicts]
  BY <1>1 DEF Verdicts
<1>6. Len(input.segments) \in Nat /\ 1 .. 1 - 1 = {} /\ 1 \in 1 .. Len(input.segments) + 1
  BY <1>4, LenProperties
<1>7. Amount(Sizes, {}) = 0
  <2>1. {} \in SUBSET Nat /\ IsFiniteSet({}) /\ \A i \in {} : Sizes[i] \in Nat
    BY FS_EmptySet
  <2> QED BY <2>1, AmountIs
<1>8. \E p \in [{} -> Place] : TRUE
  <2>1. [x \in {} |-> 1] \in [{} -> Place]
    OBVIOUS
  <2> QED BY <2>1
<1>9. Ahead(1, 1, 0)
  <2>1. \E p \in [1 .. 1 - 1 -> Place] :
          Lies(p, 1 - 1) /\ \A i \in 1 .. 1 - 1 : p[i] + Len(input.segments[i]) <= 1
    BY <1>6, <1>8 DEF Lies
  <2>2. 0 = Amount(Sizes, 1 .. 1 - 1)
    BY <1>6, <1>7
  <2>3. \A i, j \in 1 .. 1 - 1 : input.segments[i] = input.segments[j] => i = j
    BY <1>6
  <2>4. 1 >= 1 /\ ~(1 > 1)
    OBVIOUS
  <2> QED BY <1>6, <2>1, <2>2, <2>3, <2>4, Zenon DEF Ahead
<1>10. AlignedIsPlaced
  BY <1>5 DEF AlignedIsPlaced
<1>11. input \in [source : Seq(Character), segments : Seq(Seq(Character) \ {<<>>})]
  BY <1>1, <1>3, <1>4
<1> QED BY <1>5, <1>9, <1>10, <1>11 DEF JudgeInv

LEMMA BytesStart ==
    ASSUME PiecesAssumption, PiecesInit, kind = "bytes"
    PROVE  BytesInv
<1>1. input \in Texts({"a", "w", "n"}, MaxText) /\ work = [done |-> 0, pieces |-> <<>>]
  BY DEF PiecesInit
<1>2. input \in Seq(Character)
  <2>1. MaxText \in Nat /\ {"a", "w", "n"} \subseteq Character
    BY DEF PiecesAssumption, Character
  <2> QED BY <1>1, <2>1, TextsAre
<1>3. Len(input) \in Nat /\ DOMAIN <<>> = {} /\ <<>> \in Seq(Stretch)
  BY <1>2, LenProperties
<1>4. work.done = 0 /\ work.pieces = <<>>
  BY <1>1
<1>5. RequestsFit
  BY <1>3, <1>4 DEF RequestsFit
<1>6. work \in [done : Nat, pieces : Seq(Stretch)]
  BY <1>1, <1>3
<1> QED BY <1>2, <1>5, <1>6 DEF BytesInv

LEMMA FitStart ==
    ASSUME PiecesAssumption, PiecesInit, kind = "fit"
    PROVE  FitInv
<1>1. /\ input \in [used : 0 .. Total, sizes : Texts(0 .. 3, 4)]
      /\ work = [index |-> Len(input.sizes), used |-> input.used, kept |-> <<>>]
  BY DEF PiecesInit
<1>2. input.sizes \in Seq(Nat) /\ input.used \in Nat /\ input.used <= Total /\ Total \in Nat
  <2>1. Total \in Nat /\ 0 .. 3 \subseteq Nat /\ 4 \in Nat
    BY DEF PiecesAssumption
  <2>2. input.sizes \in Texts(0 .. 3, 4) /\ input.used \in 0 .. Total
    BY <1>1
  <2>3. Texts(0 .. 3, 4) \subseteq Seq(Nat)
    BY <2>1, TextsAre
  <2> QED BY <2>1, <2>2, <2>3
<1>3. /\ Len(input.sizes) \in Nat /\ Len(input.sizes) + 1 .. Len(input.sizes) = {}
      /\ DOMAIN <<>> = {} /\ Range(<<>>) = {} /\ Len(<<>>) = 0 /\ <<>> \in Seq(Nat)
  BY <1>2, LenProperties DEF Range
<1>4. work.index = Len(input.sizes) /\ work.used = input.used /\ work.kept = <<>>
  BY <1>1
<1>5. Amount(input.sizes, {}) = 0
  <2>1. {} \in SUBSET Nat /\ IsFiniteSet({}) /\ \A i \in {} : input.sizes[i] \in Nat
    BY FS_EmptySet
  <2> QED BY <2>1, AmountIs
<1>6. Amount(input.sizes, Range(work.kept)) = 0 /\ input.used + 0 = input.used
  <2>1. Range(work.kept) = {}
    BY <1>3, <1>4
  <2>2. Amount(input.sizes, Range(work.kept)) = 0
    BY <1>5, <2>1, Zenon
  <2> QED BY <1>2, <2>2
<1>7. RequestsFit
  <2>1. {i \in Range(work.kept) : i >= 1} = {}
    BY <1>3, <1>4
  <2>2. input.used + Amount(input.sizes, {i \in Range(work.kept) : i >= 1}) <= Total
    BY <1>2, <1>5, <1>6, <2>1
  <2>3. Len(work.kept) <= KeptMessages
    BY <1>3, <1>4 DEF PiecesAssumption
  <2> QED BY <1>3, <1>4, <2>2, <2>3 DEF RequestsFit
<1>8. work \in [index : Nat, used : Nat, kept : Seq(Nat)]
  BY <1>1, <1>2, <1>3
<1>9. work.index <= Len(input.sizes) /\ Range(work.kept) \subseteq work.index + 1 .. Len(input.sizes)
  BY <1>3, <1>4
<1>10. work.used = input.used + Amount(input.sizes, Range(work.kept))
  BY <1>4, <1>6
<1>11. input \in [used : Nat, sizes : Seq(Nat)]
  BY <1>1, <1>2
<1> QED BY <1>7, <1>8, <1>9, <1>10, <1>11 DEF FitInv

LEMMA PreviewStart ==
    ASSUME PiecesAssumption, PiecesInit, kind = "preview"
    PROVE  PreviewInv
<1>1. input = <<>> /\ work = <<>>
  BY DEF PiecesInit
<1>2. <<>> \in Seq(Characters) /\ Len(<<>>) = 0 /\ 1 \in 1 .. 0 + 1 /\ 0 \in Nat
  OBVIOUS
<1>3. HexDigits \in Nat \ {0}
  BY DEF PiecesAssumption
<1>4. Shown(<<>>)[1] = Turn(<<>>, Shown(<<>>), 1)
  BY <1>2, <1>3, ShownFacts
<1>5. Turn(<<>>, Shown(<<>>), 1) = <<>>
  BY <1>2 DEF Turn
<1> QED BY <1>1, <1>2, <1>4, <1>5 DEF PreviewInv, Preview

PiecesInv ==
    /\ kind \in {"split", "preview", "raw", "parsed", "bytes", "fit"}
    /\ kind = "split" => SplitInv
    /\ kind = "preview" => PreviewInv
    /\ kind \in {"raw", "parsed"} => JudgeInv
    /\ kind = "bytes" => BytesInv
    /\ kind = "fit" => FitInv

LEMMA PiecesStart ==
    ASSUME PiecesAssumption, PiecesInit
    PROVE  PiecesInv
<1>1. kind \in {"split", "preview", "raw", "parsed", "bytes", "fit"}
  BY DEF PiecesInit
<1> QED BY <1>1, SplitStart, PreviewStart, JudgeStart, BytesStart, FitStart DEF PiecesInv

LEMMA PiecesStay ==
    ASSUME PiecesInv, UNCHANGED pieceVars
    PROVE  PiecesInv'
<1>1. kind' = kind /\ input' = input /\ work' = work
  BY DEF pieceVars
<1>2. SplitInv => SplitInv'
  <2>1. PagesAreWhole => PagesAreWhole'
    BY <1>1 DEF PagesAreWhole
  <2>2. \A k : EndsParagraph(k)' <=> EndsParagraph(k)
    BY <1>1 DEF EndsParagraph
  <2>3. MergedInOrder => MergedInOrder'
    BY <1>1, <2>2 DEF MergedInOrder
  <2> QED BY <1>1, <2>1, <2>3 DEF SplitInv
<1>3. PreviewInv => PreviewInv'
  BY <1>1 DEF PreviewInv
<1>4. JudgeInv => JudgeInv'
  <2>1. \A f, c : Found(f, c)' = Found(f, c)
    BY <1>1 DEF Found
  <2>2. (\A p, k : Lies(p, k)' <=> Lies(p, k)) /\ Place' = Place /\ Sizes' = Sizes
    BY <1>1, <2>1 DEF Lies, Place, Sizes
  <2>3. \A k, c, covered : Ahead(k, c, covered) => Ahead(k, c, covered)'
    BY <1>1, <2>2 DEF Ahead
  <2>4. (\A s : Placed(s)' <=> Placed(s)) /\ \A c : Enough(c)' <=> Enough(c)
    BY <1>1, <2>1 DEF Placed, Enough
  <2>5. AlignedIsPlaced => AlignedIsPlaced'
    BY <1>1, <2>1, <2>4 DEF AlignedIsPlaced
  <2>6. work.verdict = Nothing => work'.verdict = Nothing /\ (Ahead(work.next, work.cursor, work.covered)
          => Ahead(work.next, work.cursor, work.covered)')
    BY <1>1, <2>3
  <2> QED BY <1>1, <2>5, <2>6 DEF JudgeInv
<1>5. RequestsFit => RequestsFit'
  BY <1>1 DEF RequestsFit, Bytes
<1>6. (BytesInv => BytesInv') /\ (FitInv => FitInv')
  BY <1>1, <1>5 DEF BytesInv, FitInv
<1> QED BY <1>1, <1>2, <1>3, <1>4, <1>6 DEF PiecesInv

\* Every step keeps what it works on, and what is shown of an answer is only added to.
LEMMA PiecesStep ==
    ASSUME PiecesAssumption, PiecesInv, [PiecesNext]_pieceVars
    PROVE  PiecesInv' /\ (kind = "preview" /\ ~UNCHANGED pieceVars => IsPrefix(work, work'))
<1>1. CASE Split
  <2>1. kind = "split" /\ kind' = "split"
    BY <1>1 DEF Split
  <2> QED BY <1>1, <2>1, SplitStep DEF PiecesInv
<1>2. CASE Merge
  <2>1. kind = "split" /\ kind' = "split"
    BY <1>2 DEF Merge
  <2> QED BY <1>2, <2>1, MergeStep DEF PiecesInv
<1>3. CASE Receive
  <2>1. kind = "preview" /\ kind' = "preview"
    BY <1>3 DEF Receive
  <2> QED BY <1>3, <2>1, ReceiveStep DEF PiecesInv
<1>4. CASE ValidateRaw \/ ValidateParsed
  <2>1. kind \in {"raw", "parsed"} /\ kind' = kind /\ Judges
    BY <1>4 DEF ValidateRaw, ValidateParsed, Judges
  <2> QED BY <2>1, JudgeStep DEF PiecesInv
<1>5. CASE SplitUtf8
  <2>1. kind = "bytes" /\ kind' = "bytes"
    BY <1>5 DEF SplitUtf8
  <2> QED BY <1>5, <2>1, BytesStep DEF PiecesInv
<1>6. CASE FitMessage
  <2>1. kind = "fit" /\ kind' = "fit"
    BY <1>6 DEF FitMessage
  <2> QED BY <1>6, <2>1, FitStep DEF PiecesInv
<1>7. CASE UNCHANGED pieceVars
  BY <1>7, PiecesStay
<1> QED BY <1>1, <1>2, <1>3, <1>4, <1>5, <1>6, <1>7 DEF PiecesNext

LEMMA PiecesAlways ==
    ASSUME PiecesAssumption
    PROVE  PiecesSpec => []PiecesInv
<1>1. PiecesInit => PiecesInv
  BY PiecesStart
<1>2. PiecesInv /\ [PiecesNext]_pieceVars => PiecesInv'
  BY PiecesStep
<1> QED BY <1>1, <1>2, PTL DEF PiecesSpec

(* Splitting a page loses nothing of it and breaks no word that it need    *)
(* not, and the merged translation keeps their order and the paragraphs    *)
(* (splitReaderTranslationText, mergeReaderTranslations); and no request   *)
(* to the runtime is longer than what it accepts, of the earlier messages  *)
(* the newest that fit going along (study-request-budget.ts): for any      *)
(* texts and limits.                                                       *)
THEOREM TextsStayWhole ==
    ASSUME PiecesAssumption
    PROVE  PiecesSpec => [](PagesAreWhole /\ MergedInOrder /\ RequestsFit)
<1>1. PiecesInv => PagesAreWhole /\ MergedInOrder
  BY DEF PiecesInv, SplitInv, PagesAreWhole, MergedInOrder
<1>2. PiecesInv => RequestsFit
  BY DEF PiecesInv, BytesInv, FitInv, RequestsFit
<1> QED BY <1>1, <1>2, PiecesAlways, PTL

(* An answer counts as a translation of a page exactly if its segments can *)
(* be placed in it one behind the other (source-integrity.ts): taking the  *)
(* first place each time misses nothing.  And what is shown of it while it *)
(* arrives is never taken back (extractPartialReaderTranslation), wherever *)
(* the stream is cut.                                                      *)
THEOREM AnswersAreShownAndChecked ==
    ASSUME PiecesAssumption
    PROVE  PiecesSpec => []AlignedIsPlaced /\ [][PreviewStep]_pieceVars
<1>1. PiecesInv => AlignedIsPlaced
  BY DEF PiecesInv, JudgeInv, AlignedIsPlaced
<1>2. PiecesInv /\ [PiecesNext]_pieceVars => [PreviewStep]_pieceVars
  BY PiecesStep DEF PreviewStep
<1> QED BY <1>1, <1>2, PiecesAlways, PTL DEF PiecesSpec

=============================================================================
