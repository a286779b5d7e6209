------------------------ MODULE ChargingPointPageProofs ------------------------
(***************************************************************************)
(* Proofs about ChargingPointPage, for any actors, requests and facts: the *)
(* server's operations first, then what the page shows of them.            *)
(***************************************************************************)
EXTENDS ChargingPointPage, TLAPS

\* Where a request is when it is about an actor.
Holding == {"starting", "failed", "stopping", "stopped", "disposing"}

\* A request is about an actor exactly at those places, and the actor was created.
HeldIsBorn ==
    \A o \in Slots :
        /\ ops[o].actor # None <=> ops[o].at \in Holding
        /\ ops[o].actor # None => actors[ops[o].actor].status # "unborn"

SInv == ServerTypeOK /\ HeldIsBorn /\ OnlyFailedStartsLose /\ RegisteredIsUsable

\* A free slot is one.
LEMMA FreeTyped ==
    /\ Free \in Requests /\ Free.at = "free" /\ Free.actor = None /\ Free.answer = "error"
  BY DEF Free, Requests, Kinds, Places, Statuses

\* An answered request is one, and is about no actor any more; only the page waits
\* for an answer.
LEMMA EndedFacts ==
    ASSUME ops \in [Slots -> Requests], NEW o \in Slots, NEW answer \in Statuses \cup {"error"}
    PROVE  /\ Ended(o, answer) \in Requests
           /\ Ended(o, answer).actor = None
           /\ Ended(o, answer).at \in {"answered", "free"}
           /\ Ended(o, answer).at = "answered" =>
                /\ Ended(o, answer).page /\ ops[o].page /\ Ended(o, answer).late = ops[o].late
                /\ Ended(o, answer).answer = answer /\ answer # "error"
           /\ Ended(o, answer).at = "free" => Ended(o, answer).answer = "error"
  <1>1. ops[o] \in Requests
    OBVIOUS
  <1> QED BY <1>1, FreeTyped DEF Ended, Requests, Places

\* Tells keeps the invariant.
LEMMA TellsKeeps ==
    ASSUME SInv, NEW a \in Actors, NEW fact \in Facts, Tells(a, fact) PROVE SInv'
  <1> USE OperationsAssumption, FreeTyped DEF Tells
  <1>1. ServerTypeOK'
    BY DEF SInv, ServerTypeOK
  <1>2. HeldIsBorn'
    BY DEF SInv, HeldIsBorn
  <1>3. OnlyFailedStartsLose'
    BY DEF SInv, OnlyFailedStartsLose, Live, Holds
  <1>4. RegisteredIsUsable'
    BY DEF SInv, RegisteredIsUsable, Live, Holds
  <1> QED BY <1>1, <1>2, <1>3, <1>4 DEF SInv

\* Retried keeps the invariant.
LEMMA RetriedKeeps ==
    ASSUME SInv, NEW a \in Actors, NEW status \in Statuses, Retried(a, status) PROVE SInv'
  <1> USE OperationsAssumption, FreeTyped DEF Retried, Becomes
  <1>1. ServerTypeOK'
    BY DEF SInv, ServerTypeOK
  <1>2. HeldIsBorn'
    BY DEF SInv, HeldIsBorn
  <1>3. OnlyFailedStartsLose'
    BY DEF SInv, OnlyFailedStartsLose, Live, Holds
  <1>4. RegisteredIsUsable'
    BY DEF SInv, RegisteredIsUsable, Live, Holds
  <1> QED BY <1>1, <1>2, <1>3, <1>4 DEF SInv

\* StartsAgain keeps the invariant.
LEMMA StartsAgainKeeps ==
    ASSUME SInv, NEW o \in Slots, StartsAgain(o) PROVE SInv'
  <1> USE OperationsAssumption, FreeTyped DEF StartsAgain, Answers, StatusOf
  <1>0. /\ StatusOf(registered, actors) \in Statuses \cup {"error"}
        /\ ops' = [ops EXCEPT ![o] = Ended(o, StatusOf(registered, actors))]
    BY DEF SInv, ServerTypeOK, RegisteredIsUsable, Live
  <1>e. /\ Ended(o, StatusOf(registered, actors)) \in Requests
        /\ Ended(o, StatusOf(registered, actors)).actor = None
        /\ Ended(o, StatusOf(registered, actors)).at \in {"answered", "free"}
    BY <1>0, EndedFacts DEF SInv, ServerTypeOK
  <1>t. ops' \in [Slots -> Requests]
    BY <1>0, <1>e DEF SInv, ServerTypeOK
  <1>1. ServerTypeOK'
    BY <1>t DEF SInv, ServerTypeOK
  <1>2. HeldIsBorn'
    BY <1>0, <1>e DEF SInv, HeldIsBorn, Holding
  <1>3. OnlyFailedStartsLose'
    BY <1>0, <1>e DEF SInv, HeldIsBorn, Holding, OnlyFailedStartsLose, Live, Holds
  <1>4. RegisteredIsUsable'
    BY <1>0, <1>e DEF SInv, RegisteredIsUsable, Live, Holds
  <1> QED BY <1>1, <1>2, <1>3, <1>4 DEF SInv

\* Starts keeps the invariant.
LEMMA StartsKeeps ==
    ASSUME SInv, NEW o \in Slots, NEW a \in Actors, Starts(o, a) PROVE SInv'
  <1> USE OperationsAssumption, FreeTyped DEF Starts, Becomes
  <1>1. ServerTypeOK'
    BY DEF SInv, HeldIsBorn, ServerTypeOK, Requests
  <1>2. HeldIsBorn'
    BY DEF SInv, HeldIsBorn, ServerTypeOK, Holding
  <1>3. OnlyFailedStartsLose'
    BY DEF SInv, HeldIsBorn, ServerTypeOK, Holding, OnlyFailedStartsLose, Live, Holds
  <1>4. RegisteredIsUsable'
    BY DEF SInv, HeldIsBorn, ServerTypeOK, Requests
  <1> QED BY <1>1, <1>2, <1>3, <1>4 DEF SInv

\* StartResolves keeps the invariant.
LEMMA StartResolvesKeeps ==
    ASSUME SInv, NEW o \in Slots, NEW status \in Statuses, StartResolves(o, status) PROVE SInv'
  <1> USE OperationsAssumption, FreeTyped DEF StartResolves, Becomes, Answers
  <1>0. /\ status \in Statuses \cup {"error"}
        /\ ops' = [ops EXCEPT ![o] = Ended(o, status)]
    BY DEF Holding
  <1>e. /\ Ended(o, status) \in Requests
        /\ Ended(o, status).actor = None
        /\ Ended(o, status).at \in {"answered", "free"}
    BY <1>0, EndedFacts DEF SInv, ServerTypeOK
  <1>t. ops' \in [Slots -> Requests]
    BY <1>0, <1>e DEF SInv, ServerTypeOK
  <1>1. ServerTypeOK'
    BY <1>t DEF SInv, ServerTypeOK
  <1>2. HeldIsBorn'
    BY <1>0, <1>e DEF SInv, HeldIsBorn, ServerTypeOK, Requests, Holding
  <1>l. \A a \in Actors : Live(a)' <=> Live(a)
    BY DEF SInv, HeldIsBorn, ServerTypeOK, Live
  <1>h. \A a \in Actors : \A p \in Slots :
          Holds(p, a) /\ ops[p].at # "starting" => (Holds(p, a) /\ ops[p].at # "starting")'
    BY <1>0 DEF SInv, ServerTypeOK, Holds
  <1>3. OnlyFailedStartsLose'
    BY <1>l, <1>h DEF SInv, OnlyFailedStartsLose
  <1>4. RegisteredIsUsable'
    BY <1>0, <1>e DEF SInv, ServerTypeOK, RegisteredIsUsable, Live, Holds
  <1> QED BY <1>1, <1>2, <1>3, <1>4 DEF SInv

\* StartRejects keeps the invariant.
LEMMA StartRejectsKeeps ==
    ASSUME SInv, NEW o \in Slots, StartRejects(o) PROVE SInv'
  <1> USE OperationsAssumption, FreeTyped DEF StartRejects, Becomes, Goes
  <1>0. ops[o] \in Requests /\ ops[o].actor \in Actors
    BY DEF SInv, HeldIsBorn, ServerTypeOK, Requests, Holding
  <1>t. [ops[o] EXCEPT !.at = "failed"] \in Requests
    BY <1>0 DEF Requests, Places
  <1>u. ops' \in [Slots -> Requests]
    BY <1>t DEF SInv, ServerTypeOK
  <1>1. ServerTypeOK'
    BY <1>0, <1>u DEF SInv, ServerTypeOK, Statuses
  <1>2. HeldIsBorn'
    BY DEF SInv, HeldIsBorn, Holding
  <1>3. OnlyFailedStartsLose'
    BY DEF SInv, ServerTypeOK, OnlyFailedStartsLose, Live, Holds
  <1>4. RegisteredIsUsable'
    BY DEF SInv, RegisteredIsUsable, Live, Holds
  <1> QED BY <1>1, <1>2, <1>3, <1>4 DEF SInv

\* RollsBack keeps the invariant.
LEMMA RollsBackKeeps ==
    ASSUME SInv, NEW o \in Slots, RollsBack(o) PROVE SInv'
  <1> USE OperationsAssumption, FreeTyped DEF RollsBack, Detaches, Goes
  <1>1. ServerTypeOK'
    BY DEF SInv, HeldIsBorn, ServerTypeOK, Requests, Places, Kinds
  <1>2. HeldIsBorn'
    BY DEF SInv, HeldIsBorn, Holding
  <1>3. OnlyFailedStartsLose'
    BY DEF SInv, OnlyFailedStartsLose, Live, Holds
  <1>4. RegisteredIsUsable'
    BY DEF RegisteredIsUsable
  <1> QED BY <1>1, <1>2, <1>3, <1>4 DEF SInv

\* StopsNothing keeps the invariant.
LEMMA StopsNothingKeeps ==
    ASSUME SInv, NEW o \in Slots, StopsNothing(o) PROVE SInv'
  <1> USE OperationsAssumption, FreeTyped DEF StopsNothing, Answers
  <1>0. /\ "stopped" \in Statuses \cup {"error"}
        /\ ops' = [ops EXCEPT ![o] = Ended(o, "stopped")]
    BY DEF Statuses
  <1>e. /\ Ended(o, "stopped") \in Requests
        /\ Ended(o, "stopped").actor = None
        /\ Ended(o, "stopped").at \in {"answered", "free"}
    BY <1>0, EndedFacts DEF SInv, ServerTypeOK
  <1>t. ops' \in [Slots -> Requests]
    BY <1>0, <1>e DEF SInv, ServerTypeOK
  <1>1. ServerTypeOK'
    BY <1>t DEF SInv, ServerTypeOK
  <1>2. HeldIsBorn'
    BY <1>0, <1>e DEF SInv, HeldIsBorn, Holding
  <1>3. OnlyFailedStartsLose'
    BY <1>0, <1>e DEF SInv, HeldIsBorn, Holding, OnlyFailedStartsLose, Live, Holds
  <1>4. RegisteredIsUsable'
    BY <1>0, <1>e DEF RegisteredIsUsable
  <1> QED BY <1>1, <1>2, <1>3, <1>4 DEF SInv

\* Stops keeps the invariant.
LEMMA StopsKeeps ==
    ASSUME SInv, NEW o \in Slots, Stops(o) PROVE SInv'
  <1> USE OperationsAssumption, FreeTyped DEF Stops
  <1>0. ops[o] \in Requests /\ registered \in Actors
    BY DEF SInv, ServerTypeOK
  <1> DEFINE r == IF actors[registered].status = "stopped"
                  THEN [ops[o] EXCEPT !.at = "stopped", !.actor = registered, !.answer = "stopped"]
                  ELSE [ops[o] EXCEPT !.at = "stopping", !.actor = registered]
  <1>t. r \in Requests /\ r.at \in {"stopped", "stopping"} /\ r.actor = registered
    BY <1>0 DEF Requests, Places, Statuses
  <1>v. ops' = [ops EXCEPT ![o] = r]
    OBVIOUS
  <1> HIDE DEF r
  <1>u. ops' \in [Slots -> Requests]
    BY <1>t, <1>v DEF SInv, ServerTypeOK
  <1>1. ServerTypeOK'
    BY <1>u DEF SInv, ServerTypeOK
  <1>2. HeldIsBorn'
    BY <1>0, <1>t, <1>v DEF SInv, RegisteredIsUsable, Live, HeldIsBorn, Holding
  <1>3. OnlyFailedStartsLose'
    BY <1>0, <1>t, <1>v DEF SInv, HeldIsBorn, ServerTypeOK, Holding, OnlyFailedStartsLose, Live,
       Holds
  <1>4. RegisteredIsUsable'
    BY <1>0, <1>t, <1>v DEF RegisteredIsUsable
  <1> QED BY <1>1, <1>2, <1>3, <1>4 DEF SInv

\* StopResolves keeps the invariant.
LEMMA StopResolvesKeeps ==
    ASSUME SInv, NEW o \in Slots, StopResolves(o) PROVE SInv'
  <1> USE OperationsAssumption, FreeTyped DEF StopResolves, Becomes
  <1>0. ops[o] \in Requests /\ ops[o].actor \in Actors
    BY DEF SInv, ServerTypeOK, HeldIsBorn, Requests, Holding
  <1>t. [ops[o] EXCEPT !.at = "stopped", !.answer = "stopped"] \in Requests
    BY <1>0 DEF Requests, Places, Statuses
  <1>v. ops' = [ops EXCEPT ![o] = [ops[o] EXCEPT !.at = "stopped", !.answer = "stopped"]]
    BY DEF SInv, ServerTypeOK
  <1>u. ops' \in [Slots -> Requests]
    BY <1>t, <1>v DEF SInv, ServerTypeOK
  <1>1. ServerTypeOK'
    BY <1>0, <1>u DEF SInv, ServerTypeOK, Statuses
  <1>2. HeldIsBorn'
    BY DEF SInv, HeldIsBorn, ServerTypeOK, Holding
  <1>3. OnlyFailedStartsLose'
    BY DEF SInv, ServerTypeOK, OnlyFailedStartsLose, Live, Holds
  <1>4. RegisteredIsUsable'
    BY DEF SInv, ServerTypeOK, RegisteredIsUsable, Live, Holds
  <1> QED BY <1>1, <1>2, <1>3, <1>4 DEF SInv

\* StopRejects keeps the invariant.
LEMMA StopRejectsKeeps ==
    ASSUME SInv, NEW o \in Slots, StopRejects(o) PROVE SInv'
  <1> USE OperationsAssumption, FreeTyped DEF StopRejects, Goes
  <1>1. ServerTypeOK'
    BY DEF SInv, ServerTypeOK, Requests, Places
  <1>2. HeldIsBorn'
    BY DEF SInv, HeldIsBorn, Holding
  <1>3. OnlyFailedStartsLose'
    BY DEF SInv, OnlyFailedStartsLose, Live, Holds
  <1>4. RegisteredIsUsable'
    BY DEF SInv, RegisteredIsUsable, Live, Holds
  <1> QED BY <1>1, <1>2, <1>3, <1>4 DEF SInv

\* LetsGo keeps the invariant.
LEMMA LetsGoKeeps ==
    ASSUME SInv, NEW o \in Slots, LetsGo(o) PROVE SInv'
  <1> USE OperationsAssumption, FreeTyped DEF LetsGo, Detaches, Goes
  <1>1. ServerTypeOK'
    BY DEF SInv, HeldIsBorn, ServerTypeOK, Requests, Places, Kinds, Holding
  <1>2. HeldIsBorn'
    BY DEF SInv, HeldIsBorn, Holding
  <1>3. OnlyFailedStartsLose'
    BY DEF SInv, OnlyFailedStartsLose, Live, Holds
  <1>4. RegisteredIsUsable'
    BY DEF SInv, RegisteredIsUsable, Live, Holds
  <1> QED BY <1>1, <1>2, <1>3, <1>4 DEF SInv

\* Disposes keeps the invariant.
LEMMA DisposesKeeps ==
    ASSUME SInv, NEW o \in Slots, NEW status \in Statuses \cup {"unborn"}, Disposes(o, status) PROVE SInv'
  <1> USE OperationsAssumption, FreeTyped DEF Disposes, Answers
  <1>0. /\ ops[o].answer \in Statuses \cup {"error"}
        /\ ops' = [ops EXCEPT ![o] = Ended(o, ops[o].answer)]
    BY DEF SInv, ServerTypeOK, Requests
  <1>e. /\ Ended(o, ops[o].answer) \in Requests
        /\ Ended(o, ops[o].answer).actor = None
        /\ Ended(o, ops[o].answer).at \in {"answered", "free"}
    BY <1>0, EndedFacts DEF SInv, ServerTypeOK
  <1>t. ops' \in [Slots -> Requests]
    BY <1>0, <1>e DEF SInv, ServerTypeOK
  <1>1. ServerTypeOK'
    BY <1>t DEF SInv, HeldIsBorn, ServerTypeOK, Requests, Holding
  <1>2. HeldIsBorn'
    BY <1>0, <1>e DEF SInv, HeldIsBorn, Holding
  <1>3. OnlyFailedStartsLose'
    BY <1>0, <1>e DEF SInv, ServerTypeOK, OnlyFailedStartsLose, Live, Holds
  <1>4. RegisteredIsUsable'
    BY <1>0, <1>e DEF SInv, RegisteredIsUsable, Live, Holds
  <1> QED BY <1>1, <1>2, <1>3, <1>4 DEF SInv

\* TellsStatus keeps the invariant.
LEMMA TellsStatusKeeps ==
    ASSUME SInv, NEW o \in Slots, TellsStatus(o) PROVE SInv'
  <1> USE OperationsAssumption, FreeTyped DEF TellsStatus, Answers, StatusOf
  <1>0. /\ StatusOf(registered, actors) \in Statuses \cup {"error"}
        /\ ops' = [ops EXCEPT ![o] = Ended(o, StatusOf(registered, actors))]
    BY DEF SInv, ServerTypeOK, Statuses, RegisteredIsUsable, Live
  <1>e. /\ Ended(o, StatusOf(registered, actors)) \in Requests
        /\ Ended(o, StatusOf(registered, actors)).actor = None
        /\ Ended(o, StatusOf(registered, actors)).at \in {"answered", "free"}
    BY <1>0, EndedFacts DEF SInv, ServerTypeOK
  <1>t. ops' \in [Slots -> Requests]
    BY <1>0, <1>e DEF SInv, ServerTypeOK
  <1>1. ServerTypeOK'
    BY <1>t DEF SInv, ServerTypeOK
  <1>2. HeldIsBorn'
    BY <1>0, <1>e DEF SInv, HeldIsBorn, Holding
  <1>3. OnlyFailedStartsLose'
    BY <1>0, <1>e DEF SInv, HeldIsBorn, Holding, OnlyFailedStartsLose, Live, Holds
  <1>4. RegisteredIsUsable'
    BY <1>0, <1>e DEF SInv, RegisteredIsUsable, Live, Holds
  <1> QED BY <1>1, <1>2, <1>3, <1>4 DEF SInv

\* Deletes keeps the invariant.
LEMMA DeletesKeeps ==
    ASSUME SInv, NEW o \in Slots, Deletes(o) PROVE SInv'
  <1> USE OperationsAssumption, FreeTyped DEF Deletes, Goes
  <1>0. ops[o] \in Requests
    BY DEF SInv, ServerTypeOK
  <1>t. [ops[o] EXCEPT !.at = "deleted"] \in Requests
    BY <1>0 DEF Requests, Places
  <1>u. ops' \in [Slots -> Requests]
    BY <1>t DEF SInv, ServerTypeOK
  <1>1. ServerTypeOK'
    BY <1>u DEF SInv, ServerTypeOK
  <1>2. HeldIsBorn'
    BY DEF SInv, HeldIsBorn, Holding
  <1>3. OnlyFailedStartsLose'
    BY DEF SInv, OnlyFailedStartsLose, Live, Holds
  <1>4. RegisteredIsUsable'
    BY DEF SInv, RegisteredIsUsable, Live, Holds
  <1> QED BY <1>1, <1>2, <1>3, <1>4 DEF SInv

\* ForgetsStreams keeps the invariant.
LEMMA ForgetsStreamsKeeps ==
    ASSUME SInv, NEW o \in Slots, ForgetsStreams(o) PROVE SInv'
  <1> USE OperationsAssumption, FreeTyped DEF ForgetsStreams, Answers
  <1>0. /\ "error" \in Statuses \cup {"error"}
        /\ ops' = [ops EXCEPT ![o] = Ended(o, "error")]
    BY DEF Holding
  <1>e. /\ Ended(o, "error") \in Requests
        /\ Ended(o, "error").actor = None
        /\ Ended(o, "error").at \in {"answered", "free"}
    BY <1>0, EndedFacts DEF SInv, ServerTypeOK
  <1>t. ops' \in [Slots -> Requests]
    BY <1>0, <1>e DEF SInv, ServerTypeOK
  <1>1. ServerTypeOK'
    BY <1>t DEF SInv, ServerTypeOK
  <1>2. HeldIsBorn'
    BY <1>0, <1>e DEF SInv, HeldIsBorn, Holding
  <1>3. OnlyFailedStartsLose'
    BY <1>0, <1>e DEF SInv, HeldIsBorn, Holding, OnlyFailedStartsLose, Live, Holds
  <1>4. RegisteredIsUsable'
    BY <1>0, <1>e DEF SInv, RegisteredIsUsable, Live, Holds
  <1> QED BY <1>1, <1>2, <1>3, <1>4 DEF SInv


\* A new request is about no actor.
LEMMA AsksKeeps ==
    ASSUME SInv, NEW o \in Slots, NEW kind \in Kinds, NEW asker \in BOOLEAN, Asks(o, kind, asker)
    PROVE SInv'
  <1> DEFINE r == [Free EXCEPT !.kind = kind, !.at = "read", !.page = asker]
  <1>t. r \in Requests /\ r.at = "read" /\ r.actor = None
    BY FreeTyped DEF Requests, Places
  <1>v. ops' = [ops EXCEPT ![o] = r]
    BY DEF Asks
  <1> HIDE DEF r
  <1>1. ServerTypeOK'
    BY <1>t, <1>v DEF Asks, SInv, ServerTypeOK
  <1>2. HeldIsBorn'
    BY <1>t, <1>v DEF Asks, SInv, HeldIsBorn, ServerTypeOK, Holding
  <1>3. OnlyFailedStartsLose'
    BY <1>t, <1>v, OperationsAssumption DEF Asks, SInv, HeldIsBorn, Holding, OnlyFailedStartsLose,
       Live, Holds
  <1>4. RegisteredIsUsable'
    BY <1>t, <1>v DEF Asks, SInv, ServerTypeOK, RegisteredIsUsable, Live, Holds
  <1> QED BY <1>1, <1>2, <1>3, <1>4 DEF SInv

\* Hearing a snapshot marks requests, and changes nothing else of them.
LEMMA HearsKeeps ==
    ASSUME SInv, Hears PROVE SInv'
  <1>0. ASSUME NEW o \in Slots
        PROVE  ops'[o] \in Requests /\ ops'[o].actor = ops[o].actor /\ ops'[o].at = ops[o].at
    <2>1. ops[o] \in Requests
      BY DEF SInv, ServerTypeOK
    <2>2. ops'[o] = [ops[o] EXCEPT !.late = ops[o].page /\ ops[o].answer # "error"]
      BY DEF Hears
    <2>3. (ops[o].page /\ ops[o].answer # "error") \in BOOLEAN
      OBVIOUS
    <2> QED BY <2>1, <2>2, <2>3 DEF Requests
  <1>t. ops' \in [Slots -> Requests]
    BY <1>0 DEF Hears
  <1>1. ServerTypeOK'
    BY <1>t DEF Hears, SInv, ServerTypeOK
  <1>2. HeldIsBorn'
    BY <1>0 DEF Hears, SInv, HeldIsBorn, ServerTypeOK
  <1>3. OnlyFailedStartsLose'
    BY <1>0 DEF Hears, SInv, ServerTypeOK, OnlyFailedStartsLose, Live, Holds
  <1>4. RegisteredIsUsable'
    BY <1>0 DEF Hears, SInv, RegisteredIsUsable, Live, Holds
  <1> QED BY <1>1, <1>2, <1>3, <1>4 DEF SInv

\* The page takes an answer, and the slot is free.
LEMMA TakesAnswerKeeps ==
    ASSUME SInv, NEW o \in Slots, TakesAnswer(o) PROVE SInv'
  <1> USE OperationsAssumption, FreeTyped DEF TakesAnswer
  <1>1. ServerTypeOK'
    BY DEF SInv, ServerTypeOK
  <1>2. HeldIsBorn'
    BY DEF SInv, HeldIsBorn, ServerTypeOK, Holding
  <1>3. OnlyFailedStartsLose'
    BY DEF SInv, HeldIsBorn, Holding, OnlyFailedStartsLose, Live, Holds
  <1>4. RegisteredIsUsable'
    BY DEF SInv, RegisteredIsUsable, Live, Holds
  <1> QED BY <1>1, <1>2, <1>3, <1>4 DEF SInv

\* What leaves the server alone keeps what is true of it.
LEMMA AloneKeeps ==
    ASSUME SInv, UNCHANGED serverVars PROVE SInv'
  BY DEF serverVars, SInv, ServerTypeOK, HeldIsBorn, OnlyFailedStartsLose, RegisteredIsUsable,
     Live, Holds

\* Every step keeps the invariant.
LEMMA StepKeeps ==
    ASSUME SInv, [Next]_vars PROVE SInv'
  <1>1. CASE ActorStep
    BY <1>1, TellsKeeps, RetriedKeeps DEF ActorStep
  <1>2. CASE StartStep
    BY <1>2, StartsAgainKeeps, StartsKeeps, StartResolvesKeeps, StartRejectsKeeps, RollsBackKeeps
       DEF StartStep
  <1>3. CASE StopStep
    BY <1>3, StopsNothingKeeps, StopsKeeps, StopResolvesKeeps, StopRejectsKeeps, LetsGoKeeps,
       DisposesKeeps
       DEF StopStep
  <1>4. CASE DeleteStep
    BY <1>4, DeletesKeeps, ForgetsStreamsKeeps DEF DeleteStep
  <1>5. CASE OtherStep
    BY <1>5, AsksKeeps, TellsStatusKeeps DEF OtherStep
  <1>6. CASE PageStep
    <2>1. CASE Connects \/ TakesSnapshot \/ Subscribes
      BY <2>1, AloneKeeps DEF Connects, TakesSnapshot, Subscribes
    <2>2. ASSUME NEW o \in Slots, Clicks(o) PROVE SInv'
      <3>1. PrimaryAction \in Kinds
        BY DEF PrimaryAction, Kinds
      <3> QED BY <2>2, <3>1, AsksKeeps DEF Clicks
    <2>3. ASSUME NEW o \in Slots, Queries(o) PROVE SInv'
      <3>1. "status" \in Kinds
        BY DEF Kinds
      <3> QED BY <2>3, <3>1, AsksKeeps DEF Queries
    <2> QED BY <1>6, <2>1, <2>2, <2>3, HearsKeeps, TakesAnswerKeeps DEF PageStep
  <1>7. CASE UNCHANGED vars
    BY <1>7, AloneKeeps DEF vars, serverVars
  <1> QED BY <1>1, <1>2, <1>3, <1>4, <1>5, <1>6, <1>7 DEF Next

\* The invariant holds at the start.
LEMMA StartHas ==
    ASSUME Init PROVE SInv
  BY FreeTyped, OperationsAssumption
     DEF Init, ServerInit, SInv, ServerTypeOK, HeldIsBorn, Holding, OnlyFailedStartsLose,
         RegisteredIsUsable, Live, Holds, Statuses

\* The inductive invariant, over every behaviour of the server and its page.
LEMMA ServerInvariant == Spec => []SInv
  BY StartHas, StepKeeps, PTL DEF Spec

\* The variables of the server keep their types.
THEOREM ServerTypeCorrect == Spec => []ServerTypeOK
  <1>1. SInv => ServerTypeOK
    BY DEF SInv
  <1> QED BY <1>1, ServerInvariant, PTL

\* No actor but one that another's failed start took is left without anything
\* that could stop it: start and stop of RuntimeOperationService.
THEOREM ActorsAreReleased == Spec => []OnlyFailedStartsLose
  <1>1. SInv => OnlyFailedStartsLose
    BY DEF SInv
  <1> QED BY <1>1, ServerInvariant, PTL

\* No request disposes of the actor that the registry hands to others.
THEOREM RegistryHandsOutLive == Spec => []RegisteredIsUsable
  <1>1. SInv => RegisteredIsUsable
    BY DEF SInv
  <1> QED BY <1>1, ServerInvariant, PTL

-----------------------------------------------------------------------------
(* What the page follows: the hub and the registry. *)

\* Nothing has come between the registry and the hub.
Current == stored /\ ~overlapped

\* What the hub would publish now.
Hub == SnapshotOf(StatusOf(attached, actors), projection)

\* The hub listens to the registry's actor, or to one that is stopped or that a
\* stop is about to; an actor that it does not listen to is stopped.
LinkedInv ==
    Current =>
        /\ registered # None => attached = registered
        /\ registered = None /\ attached # None =>
             \/ actors[attached].status = "stopped"
             \/ \E o \in Slots : ops[o].at = "stopping" /\ ops[o].actor = attached
        /\ \A a \in Actors : actors[a].status \in {"starting", "running"} => attached = a

\* The hub has let go of an actor before it is disposed of.
AttachedInv ==
    attached # None =>
        /\ actors[attached].status # "unborn" /\ ~actors[attached].disposed
        /\ \A o \in Slots : ops[o].actor = attached => ops[o].at # "disposing"

\* Where requests end.
EndedInv ==
    /\ \A a \in Actors : actors[a].status = "unborn" => ~actors[a].disposed
    /\ \A o \in Slots :
         /\ ops[o].at = "deleted" => ~stored
         /\ ops[o].at # "answered" => ops[o].answer \in {"stopped", "error"}
         /\ ops[o].at = "answered" => ops[o].page /\ ops[o].answer # "error"
         /\ Current /\ ops[o].at \in {"stopped", "failed", "disposing"} =>
              actors[ops[o].actor].status = "stopped"

LInv == SInv /\ LinkedInv /\ AttachedInv /\ EndedInv

\* The answer to the page is certain, and it has heard no snapshot since.
Settled(o) ==
    /\ ops[o].at \in {"disposing", "answered"} /\ ops[o].page
    /\ ops[o].answer # "error" /\ ~ops[o].late

\* What a page that is up to date may have heard.
Known == {Hub, Snapshot}
KnownStatus == {Hub.status, Snapshot.status}

\* A step of the server, published or not: what was known still is, and an
\* answer that becomes certain says what is.
Effect(publishes) ==
    Current' =>
        /\ Current
        /\ ~publishes =>
             /\ Hub \in Known' /\ Snapshot \in Known'
             /\ \A o \in Slots : Settled(o)' =>
                  \/ Settled(o) /\ ops'[o].answer = ops[o].answer
                  \/ ops'[o].answer \in KnownStatus'

\* A snapshot shows its status, and one of a stopped point nothing else.
LEMMA SnapshotIs ==
    /\ \A s, f : SnapshotOf(s, f).status = s
    /\ \A f, g : SnapshotOf("stopped", f) = SnapshotOf("stopped", g)
  BY DEF SnapshotOf

\* An event of the actor is published.
LEMMA TellsLinks ==
    ASSUME LInv, NEW a \in Actors, NEW fact \in Facts, Tells(a, fact), SInv'
    PROVE  LInv' /\ Effect(TRUE)
  <1> USE OperationsAssumption, FreeTyped DEF Tells
  <1>1. LinkedInv'
    BY DEF LInv, LinkedInv, Current
  <1>2. AttachedInv'
    BY DEF LInv, AttachedInv
  <1>3. EndedInv'
    BY DEF LInv, EndedInv, Current
  <1>4. Effect(TRUE)
    BY SnapshotIs DEF Effect, Current
  <1> QED BY <1>1, <1>2, <1>3, <1>4 DEF LInv

\* The end of a boot that was retried is published.
LEMMA RetriedLinks ==
    ASSUME LInv, NEW a \in Actors, NEW status \in Statuses, Retried(a, status), SInv'
    PROVE  LInv' /\ Effect(Heard(a))
  <1> USE OperationsAssumption, FreeTyped DEF Retried, Becomes, Heard
  <1>1. LinkedInv'
    BY DEF LInv, LinkedInv, Current
  <1>2. AttachedInv'
    BY DEF LInv, AttachedInv
  <1>3. EndedInv'
    BY DEF LInv, EndedInv, Current
  <1>4. Effect(Heard(a))
    BY SnapshotIs DEF LInv, Effect, LinkedInv, Current
  <1> QED BY <1>1, <1>2, <1>3, <1>4 DEF LInv

\* A start that finds an actor answers its status.
LEMMA StartsAgainLinks ==
    ASSUME LInv, NEW o \in Slots, StartsAgain(o), SInv'
    PROVE  LInv' /\ Effect(FALSE)
  <1> USE OperationsAssumption, FreeTyped DEF StartsAgain, Answers, StatusOf
  <1> DEFINE r == Ended(o, StatusOf(registered, actors))
  <1>e. /\ ops' = [ops EXCEPT ![o] = r]
        /\ r \in Requests /\ r.actor = None /\ r.at \in {"answered", "free"}
        /\ r.at = "answered" =>
             r.page /\ ops[o].page /\ r.late = ops[o].late /\ r.answer = StatusOf(registered, actors) /\ StatusOf(registered, actors) # "error"
        /\ r.at = "free" => r.answer = "error"
    BY EndedFacts DEF LInv, SInv, ServerTypeOK, RegisteredIsUsable, Live
  <1> HIDE DEF r
  <1>1. LinkedInv'
    BY <1>e DEF LInv, LinkedInv, Current
  <1>2. AttachedInv'
    BY <1>e DEF LInv, AttachedInv
  <1>3. EndedInv'
    BY <1>e DEF LInv, EndedInv, Current
  <1>4. Effect(FALSE)
    BY <1>e, SnapshotIs DEF Effect, Current, Hub, Snapshot, Known, KnownStatus, Settled
  <1> QED BY <1>1, <1>2, <1>3, <1>4 DEF LInv

\* A start that creates an actor is published.
LEMMA StartsLinks ==
    ASSUME LInv, NEW o \in Slots, NEW a \in Actors, Starts(o, a), SInv'
    PROVE  LInv' /\ Effect(Heard(a))
  <1> USE OperationsAssumption, FreeTyped DEF Starts, Becomes, Heard
  <1>1. LinkedInv'
    BY DEF LInv, SInv, HeldIsBorn, ServerTypeOK, Requests
  <1>2. AttachedInv'
    BY DEF LInv, SInv, HeldIsBorn, ServerTypeOK, AttachedInv, EndedInv
  <1>3. EndedInv'
    BY DEF LInv, SInv, ServerTypeOK, EndedInv, Current
  <1>4. Effect(Heard(a))
    BY SnapshotIs DEF LInv, SInv, HeldIsBorn, ServerTypeOK, Requests
  <1> QED BY <1>1, <1>2, <1>3, <1>4 DEF LInv

\* The end of a start is published when it changes the status.
LEMMA StartResolvesLinks ==
    ASSUME LInv, NEW o \in Slots, NEW status \in Statuses, StartResolves(o, status), SInv'
    PROVE  LInv' /\ Effect(Heard(ops[o].actor) /\ actors[ops[o].actor].status # status)
  <1> USE OperationsAssumption, FreeTyped DEF StartResolves, Becomes, Answers, Heard
  <1> DEFINE r == Ended(o, status)
  <1>e. /\ ops' = [ops EXCEPT ![o] = r]
        /\ r \in Requests /\ r.actor = None /\ r.at \in {"answered", "free"}
        /\ r.at = "answered" =>
             r.page /\ ops[o].page /\ r.late = ops[o].late /\ r.answer = status /\ status # "error"
        /\ r.at = "free" => r.answer = "error"
    BY EndedFacts DEF LInv, SInv, ServerTypeOK
  <1> HIDE DEF r
  <1>a. /\ ops[o].actor \in Actors /\ attached' = attached /\ registered' = registered
        /\ actors' \in [Actors -> [status : Statuses \cup {"unborn"}, disposed : BOOLEAN]]
        /\ \A b \in Actors : /\ actors'[b].disposed = actors[b].disposed
                             /\ b # ops[o].actor => actors'[b].status = actors[b].status
        /\ actors'[ops[o].actor].status = status
    BY DEF LInv, SInv, HeldIsBorn, ServerTypeOK, Requests, Holding
  <1>b. Current' => Current /\ actors[ops[o].actor].status # "stopped"
    BY DEF Current
  <1>c. actors[ops[o].actor].status \in {"starting", "running", "stopped"}
    BY <1>a DEF LInv, SInv, HeldIsBorn, ServerTypeOK, Statuses
  <1>s. Current' =>
          /\ Current /\ actors[ops[o].actor].status \in {"starting", "running"}
          /\ attached = ops[o].actor
    BY <1>a, <1>b, <1>c DEF LInv, LinkedInv
  <1>1. LinkedInv'
    BY <1>e, <1>a, <1>s DEF LInv, LinkedInv
  <1>2. AttachedInv'
    BY <1>e DEF LInv, SInv, HeldIsBorn, ServerTypeOK, Statuses, AttachedInv
  <1>3. EndedInv'
    BY <1>e, <1>a, <1>s DEF LInv, SInv, HeldIsBorn, ServerTypeOK, Requests, Statuses, Holding,
       EndedInv, Current
  <1>4. Effect(Heard(ops[o].actor) /\ actors[ops[o].actor].status # status)
    BY <1>e, <1>a, <1>s, SnapshotIs DEF LInv, Effect, AttachedInv, Hub, Snapshot, StatusOf, Known,
       KnownStatus, Settled
  <1> QED BY <1>1, <1>2, <1>3, <1>4 DEF LInv

\* The failure of a start is published.
LEMMA StartRejectsLinks ==
    ASSUME LInv, NEW o \in Slots, StartRejects(o), SInv'
    PROVE  LInv' /\ Effect(Heard(ops[o].actor))
  <1> USE OperationsAssumption, FreeTyped DEF StartRejects, Becomes, Goes, Heard
  <1>1. LinkedInv'
    BY DEF LInv, LinkedInv, Current
  <1>2. AttachedInv'
    BY DEF LInv, AttachedInv
  <1>3. EndedInv'
    BY DEF LInv, SInv, ServerTypeOK, EndedInv, Current
  <1>4. Effect(Heard(ops[o].actor))
    BY SnapshotIs DEF LInv, Effect, LinkedInv, AttachedInv, Current, Hub, Snapshot, StatusOf, Known,
       Settled
  <1> QED BY <1>1, <1>2, <1>3, <1>4 DEF LInv

\* A failed start lets go of a stopped actor.
LEMMA RollsBackLinks ==
    ASSUME LInv, NEW o \in Slots, RollsBack(o), SInv'
    PROVE  LInv' /\ Effect(FALSE)
  <1> USE OperationsAssumption, FreeTyped DEF RollsBack, Detaches, Goes
  <1>a. ops[o].actor \in Actors /\ actors' = actors /\ attached' = None
    BY DEF SInv, HeldIsBorn, ServerTypeOK, Requests, Holding
  <1>s. Current' =>
          /\ Current /\ actors[ops[o].actor].status = "stopped" /\ attached \in {ops[o].actor, None}
          /\ \A a \in Actors : actors[a].status \notin {"starting", "running"}
          /\ registered' = None /\ registered \in {ops[o].actor, None}
    BY <1>a DEF LInv, LinkedInv, EndedInv, Current, SInv, RegisteredIsUsable, Holds, ServerTypeOK
  <1>h. Current' =>
          Hub = SnapshotOf("stopped", projection) /\ Snapshot = SnapshotOf("stopped", projection)
          /\ Hub' = SnapshotOf("stopped", projection') /\ Snapshot' = SnapshotOf("stopped", projection')
    BY <1>a, <1>s DEF Hub, Snapshot, StatusOf
  <1>1. LinkedInv'
    BY <1>a, <1>s DEF LinkedInv
  <1>2. AttachedInv'
    BY DEF AttachedInv
  <1>3. EndedInv'
    BY DEF LInv, SInv, ServerTypeOK, EndedInv, Current
  <1>4. Effect(FALSE)
    BY <1>a, <1>s, <1>h, SnapshotIs DEF LInv, Effect, EndedInv, Known, KnownStatus, Settled
  <1> QED BY <1>1, <1>2, <1>3, <1>4 DEF LInv

\* A stop of nothing answers so.
LEMMA StopsNothingLinks ==
    ASSUME LInv, NEW o \in Slots, StopsNothing(o), SInv'
    PROVE  LInv' /\ Effect(FALSE)
  <1> USE OperationsAssumption, FreeTyped DEF StopsNothing, Answers
  <1> DEFINE r == Ended(o, "stopped")
  <1>e. /\ ops' = [ops EXCEPT ![o] = r]
        /\ r \in Requests /\ r.actor = None /\ r.at \in {"answered", "free"}
        /\ r.at = "answered" =>
             r.page /\ ops[o].page /\ r.late = ops[o].late /\ r.answer = "stopped" /\ "stopped" # "error"
        /\ r.at = "free" => r.answer = "error"
    BY EndedFacts DEF LInv, SInv, ServerTypeOK, Statuses
  <1> HIDE DEF r
  <1>1. LinkedInv'
    BY <1>e DEF LInv, LinkedInv, Current
  <1>2. AttachedInv'
    BY <1>e DEF LInv, AttachedInv
  <1>3. EndedInv'
    BY <1>e DEF LInv, EndedInv, Current
  <1>4. Effect(FALSE)
    BY <1>e, SnapshotIs DEF Effect, Current, Hub, Snapshot, StatusOf, Known, KnownStatus, Settled
  <1> QED BY <1>1, <1>2, <1>3, <1>4 DEF LInv

\* A stop takes the actor out of the registry; the hub still listens.
LEMMA StopsLinks ==
    ASSUME LInv, NEW o \in Slots, Stops(o), SInv'
    PROVE  LInv' /\ Effect(FALSE)
  <1> USE OperationsAssumption, FreeTyped DEF Stops
  <1>0. ops[o] \in Requests /\ registered \in Actors
    BY DEF LInv, SInv, ServerTypeOK
  <1> DEFINE r == IF actors[registered].status = "stopped"
                  THEN [ops[o] EXCEPT !.at = "stopped", !.actor = registered, !.answer = "stopped"]
                  ELSE [ops[o] EXCEPT !.at = "stopping", !.actor = registered]
  <1>t. /\ r.at \in {"stopped", "stopping"} /\ r.actor = registered
        /\ r.at = "stopped" => actors[registered].status = "stopped" /\ r.answer = "stopped"
        /\ r.at = "stopping" => r.answer = ops[o].answer
    BY <1>0 DEF Requests, Places, Statuses
  <1>v. ops' = [ops EXCEPT ![o] = r]
    OBVIOUS
  <1> HIDE DEF r
  <1>1. LinkedInv'
    BY <1>0, <1>t, <1>v DEF LInv, SInv, ServerTypeOK, LinkedInv, Current
  <1>2. AttachedInv'
    BY <1>0, <1>t, <1>v DEF LInv, AttachedInv
  <1>3. EndedInv'
    BY <1>0, <1>t, <1>v DEF LInv, EndedInv, Current
  <1>4. Effect(FALSE)
    BY <1>0, <1>t, <1>v, SnapshotIs DEF LInv, Effect, LinkedInv, Current, Hub, Snapshot, Known,
       Settled
  <1> QED BY <1>1, <1>2, <1>3, <1>4 DEF LInv

\* The end of a stop is published.
LEMMA StopResolvesLinks ==
    ASSUME LInv, NEW o \in Slots, StopResolves(o), SInv'
    PROVE  LInv' /\ Effect(Heard(ops[o].actor))
  <1> USE OperationsAssumption, FreeTyped DEF StopResolves, Becomes, Heard
  <1>1. LinkedInv'
    BY DEF LInv, SInv, HeldIsBorn, ServerTypeOK, LinkedInv, Current
  <1>2. AttachedInv'
    BY DEF LInv, SInv, ServerTypeOK, AttachedInv
  <1>3. EndedInv'
    BY DEF LInv, SInv, ServerTypeOK, EndedInv, Current
  <1>4. Effect(Heard(ops[o].actor))
    BY SnapshotIs DEF LInv, SInv, ServerTypeOK, Effect, AttachedInv, RegisteredIsUsable, Holds,
       Current, Hub, Snapshot, StatusOf, Known, Settled
  <1> QED BY <1>1, <1>2, <1>3, <1>4 DEF LInv

\* A failed stop is remembered.
LEMMA StopRejectsLinks ==
    ASSUME LInv, NEW o \in Slots, StopRejects(o), SInv'
    PROVE  LInv' /\ Effect(FALSE)
  <1> USE OperationsAssumption, FreeTyped DEF StopRejects, Goes
  <1>1. LinkedInv'
    BY DEF LinkedInv, Current
  <1>2. AttachedInv'
    BY DEF LInv, AttachedInv
  <1>3. EndedInv'
    BY DEF LInv, EndedInv, Current
  <1>4. Effect(FALSE)
    BY SnapshotIs DEF Effect, Current
  <1> QED BY <1>1, <1>2, <1>3, <1>4 DEF LInv

\* A stop lets go of a stopped actor.
LEMMA LetsGoLinks ==
    ASSUME LInv, NEW o \in Slots, LetsGo(o), SInv'
    PROVE  LInv' /\ Effect(FALSE)
  <1> USE OperationsAssumption, FreeTyped DEF LetsGo, Detaches, Goes
  <1>a. ops[o].actor \in Actors /\ actors' = actors /\ attached' = None
    BY DEF SInv, HeldIsBorn, ServerTypeOK, Requests, Holding
  <1>s. Current' =>
          /\ Current /\ actors[ops[o].actor].status = "stopped" /\ attached \in {ops[o].actor, None}
          /\ \A a \in Actors : actors[a].status \notin {"starting", "running"}
          /\ registered' = None /\ registered \in {ops[o].actor, None}
    BY <1>a DEF LInv, LinkedInv, EndedInv, Current, SInv, RegisteredIsUsable, Holds, ServerTypeOK
  <1>h. Current' =>
          Hub = SnapshotOf("stopped", projection) /\ Snapshot = SnapshotOf("stopped", projection)
          /\ Hub' = SnapshotOf("stopped", projection') /\ Snapshot' = SnapshotOf("stopped", projection')
    BY <1>a, <1>s DEF Hub, Snapshot, StatusOf
  <1>1. LinkedInv'
    BY <1>a, <1>s DEF LinkedInv
  <1>2. AttachedInv'
    BY DEF AttachedInv
  <1>3. EndedInv'
    BY DEF LInv, SInv, ServerTypeOK, EndedInv, Current
  <1>4. Effect(FALSE)
    BY <1>a, <1>s, <1>h, SnapshotIs DEF LInv, Effect, EndedInv, Known, KnownStatus, Settled
  <1> QED BY <1>1, <1>2, <1>3, <1>4 DEF LInv

\* Nobody listens to an actor that is disposed of.
LEMMA DisposesLinks ==
    ASSUME LInv, NEW o \in Slots, NEW status \in Statuses \cup {"unborn"}, Disposes(o, status), SInv'
    PROVE  LInv' /\ Effect(FALSE)
  <1> USE OperationsAssumption, FreeTyped DEF Disposes, Answers
  <1> DEFINE r == Ended(o, ops[o].answer)
  <1>e. /\ ops' = [ops EXCEPT ![o] = r]
        /\ r \in Requests /\ r.actor = None /\ r.at \in {"answered", "free"}
        /\ r.at = "answered" =>
             r.page /\ ops[o].page /\ r.late = ops[o].late /\ r.answer = ops[o].answer /\ ops[o].answer # "error"
        /\ r.at = "free" => r.answer = "error"
    BY EndedFacts DEF LInv, SInv, ServerTypeOK, Requests
  <1> HIDE DEF r
  <1>1. LinkedInv'
    BY <1>e DEF LInv, LinkedInv, Current
  <1>2. AttachedInv'
    BY <1>e DEF LInv, AttachedInv
  <1>3. EndedInv'
    BY <1>e DEF LInv, SInv, HeldIsBorn, EndedInv, Current
  <1>4. Effect(FALSE)
    BY <1>e, SnapshotIs DEF LInv, Effect, EndedInv, Current, Hub, Snapshot, StatusOf, Known,
       Settled
  <1> QED BY <1>1, <1>2, <1>3, <1>4 DEF LInv

\* The status is that of the registry.
LEMMA TellsStatusLinks ==
    ASSUME LInv, NEW o \in Slots, TellsStatus(o), SInv'
    PROVE  LInv' /\ Effect(FALSE)
  <1> USE OperationsAssumption, FreeTyped DEF TellsStatus, Answers, StatusOf
  <1> DEFINE r == Ended(o, StatusOf(registered, actors))
  <1>e. /\ ops' = [ops EXCEPT ![o] = r]
        /\ r \in Requests /\ r.actor = None /\ r.at \in {"answered", "free"}
        /\ r.at = "answered" =>
             r.page /\ ops[o].page /\ r.late = ops[o].late /\ r.answer = StatusOf(registered, actors) /\ StatusOf(registered, actors) # "error"
        /\ r.at = "free" => r.answer = "error"
    BY EndedFacts DEF LInv, SInv, ServerTypeOK, Statuses, RegisteredIsUsable, Live
  <1> HIDE DEF r
  <1>1. LinkedInv'
    BY <1>e DEF LInv, LinkedInv, Current
  <1>2. AttachedInv'
    BY <1>e DEF LInv, AttachedInv
  <1>3. EndedInv'
    BY <1>e DEF LInv, EndedInv, Current
  <1>4. Effect(FALSE)
    BY <1>e, SnapshotIs DEF Effect, Current, Hub, Snapshot, Known, KnownStatus, Settled
  <1> QED BY <1>1, <1>2, <1>3, <1>4 DEF LInv

\* A deleted point is not followed.
LEMMA DeletesLinks ==
    ASSUME LInv, NEW o \in Slots, Deletes(o), SInv'
    PROVE  LInv' /\ Effect(FALSE)
  <1> USE OperationsAssumption, FreeTyped DEF Deletes, Goes
  <1>1. LinkedInv'
    BY DEF LinkedInv, Current
  <1>2. AttachedInv'
    BY DEF LInv, AttachedInv
  <1>3. EndedInv'
    BY DEF LInv, EndedInv, Current
  <1>4. Effect(FALSE)
    BY SnapshotIs DEF Effect, Current
  <1> QED BY <1>1, <1>2, <1>3, <1>4 DEF LInv

\* Nor is one whose streams are closed.
LEMMA ForgetsStreamsLinks ==
    ASSUME LInv, NEW o \in Slots, ForgetsStreams(o), SInv'
    PROVE  LInv' /\ Effect(FALSE)
  <1> USE OperationsAssumption, FreeTyped DEF ForgetsStreams, Answers
  <1> DEFINE r == Ended(o, "error")
  <1>e. /\ ops' = [ops EXCEPT ![o] = r]
        /\ r \in Requests /\ r.actor = None /\ r.at \in {"answered", "free"}
        /\ r.at = "answered" =>
             r.page /\ ops[o].page /\ r.late = ops[o].late /\ r.answer = "error" /\ "error" # "error"
        /\ r.at = "free" => r.answer = "error"
    BY EndedFacts DEF LInv, SInv, ServerTypeOK
  <1> HIDE DEF r
  <1>1. LinkedInv'
    BY <1>e DEF LInv, LinkedInv, EndedInv, Current
  <1>2. AttachedInv'
    BY <1>e DEF AttachedInv
  <1>3. EndedInv'
    BY <1>e DEF LInv, EndedInv, Current
  <1>4. Effect(FALSE)
    BY <1>e, SnapshotIs DEF LInv, Effect, EndedInv, Current
  <1> QED BY <1>1, <1>2, <1>3, <1>4 DEF LInv

\* A new request changes nothing that the page follows.
LEMMA AsksLinks ==
    ASSUME LInv, NEW o \in Slots, NEW kind \in Kinds, NEW asker \in BOOLEAN, Asks(o, kind, asker), SInv'
    PROVE  LInv' /\ Effect(FALSE)
  <1> DEFINE r == [Free EXCEPT !.kind = kind, !.at = "read", !.page = asker]
  <1>t. r \in Requests /\ r.at = "read" /\ r.actor = None /\ r.answer = "error"
    BY FreeTyped DEF Requests, Places
  <1>v. ops' = [ops EXCEPT ![o] = r] /\ ops[o].at = "free"
    BY DEF Asks
  <1> HIDE DEF r
  <1> USE OperationsAssumption DEF Asks
  <1>1. LinkedInv'
    BY <1>t, <1>v DEF LInv, SInv, ServerTypeOK, LinkedInv, Current
  <1>2. AttachedInv'
    BY <1>t, <1>v DEF LInv, SInv, ServerTypeOK, AttachedInv
  <1>3. EndedInv'
    <2>1. ASSUME NEW p \in Slots
          PROVE  ops'[p] = ops[p] \/ ops'[p] = r
      BY <1>v DEF LInv, SInv, ServerTypeOK
    <2> QED BY <1>t, <2>1 DEF LInv, EndedInv, Current
  <1>4. Effect(FALSE)
    BY <1>t, <1>v DEF Effect, Current, Hub, Snapshot, Known, Settled
  <1> QED BY <1>1, <1>2, <1>3, <1>4 DEF LInv

-----------------------------------------------------------------------------
(* What the page follows: the page. *)

\* The page is subscribed or about to be, and knows all that was published.
Fresh == page.stream \in {"taken", "open"} /\ ~page.missed /\ Current

\* The last snapshot on its way, or the last heard.
Latest == IF page.inbox = <<>> THEN page.heard ELSE page.inbox[Len(page.inbox)]

FollowInv ==
    /\ page.stream = "taken" => page.inbox # <<>>
    /\ Fresh => Latest \in Known
    /\ Fresh /\ page.inbox = <<>> =>
         /\ \A o \in Slots : Settled(o) => ops[o].answer \in KnownStatus
         /\ ~page.late => page.cache \in KnownStatus

\* The inductive invariant of the server and its page.
PInv == LInv /\ PageTypeOK /\ FollowInv

\* What is shown of an actor that was created, or of none, is a snapshot.
LEMMA SnapshotTyped ==
    ASSUME NEW a, NEW known, NEW facts \in Facts \cup {None},
           a = None \/ known[a].status \in Statuses
    PROVE  SnapshotOf(StatusOf(a, known), facts) \in Snapshots
  <1>1. StatusOf(a, known) \in Statuses
    BY DEF StatusOf, Statuses
  <1> QED BY <1>1 DEF SnapshotOf, Snapshots

\* The status of an actor that was created.
LEMMA BornStatus ==
    ASSUME ServerTypeOK, NEW a \in Actors, actors[a].status # "unborn"
    PROVE  actors[a].status \in Statuses
  BY DEF ServerTypeOK

\* A step of the server, and what it publishes.
LEMMA PublishKeeps ==
    ASSUME PInv, LInv', NEW publishes \in BOOLEAN, Effect(publishes), Publishes(publishes)
    PROVE  PInv'
  <1>1. Published = Hub' /\ Hub' \in Snapshots
    <2>1. Published = Hub'
      BY DEF Published, Hub
    <2>2. attached' \in Actors \cup {None} /\ projection' \in Facts \cup {None} /\ ServerTypeOK'
      BY DEF LInv, SInv, ServerTypeOK
    <2>3. attached' = None \/ actors'[attached'].status \in Statuses
      BY <2>2 DEF LInv, AttachedInv, ServerTypeOK
    <2>4. Hub' \in Snapshots
      BY <2>2, <2>3, SnapshotTyped DEF Hub
    <2> QED BY <2>1, <2>4
  <1>2. CASE publishes /\ page.stream = "open"
    <2>1. page' = [page EXCEPT !.inbox = Append(page.inbox, Hub'), !.missed = FALSE]
      BY <1>1, <1>2 DEF Publishes
    <2>2. /\ page.inbox \in Seq(Snapshots)
          /\ page'.inbox = Append(page.inbox, Hub') /\ page'.stream = "open"
      BY <1>2, <2>1 DEF PInv, PageTypeOK
    <2>3. page'.inbox # <<>> /\ page'.inbox[Len(page'.inbox)] = Hub' /\ page'.inbox \in Seq(Snapshots)
      BY <1>1, <2>2
    <2>4. PageTypeOK'
      BY <2>1, <2>3 DEF PInv, PageTypeOK
    <2>5. FollowInv'
      BY <2>2, <2>3 DEF FollowInv, Latest, Known
    <2> QED BY <2>4, <2>5 DEF PInv
  <1>3. CASE publishes /\ page.stream = "taken"
    <2>1. page' = [page EXCEPT !.missed = TRUE]
      BY <1>3 DEF Publishes
    <2>2. PageTypeOK' /\ page'.missed /\ page'.inbox = page.inbox /\ page'.stream = page.stream
      BY <2>1 DEF PInv, PageTypeOK
    <2> QED BY <2>2 DEF PInv, FollowInv, Fresh
  <1>4. CASE ~publishes \/ page.stream \notin {"open", "taken"}
    <2>1. page' = page
      BY <1>4 DEF Publishes
    <2>2. Fresh' => Fresh /\ ~publishes
      BY <1>4, <2>1 DEF Fresh, Effect
    <2>3. Latest' = Latest /\ (Fresh' => Latest \in Known')
      BY <2>1, <2>2 DEF PInv, FollowInv, Latest, Effect, Known, Fresh
    <2>4. Fresh' /\ page.inbox = <<>> =>
            /\ \A o \in Slots : Settled(o)' => ops'[o].answer \in KnownStatus'
            /\ ~page.late => page.cache \in KnownStatus'
      <3> SUFFICES ASSUME Fresh', page.inbox = <<>>
                   PROVE  /\ \A o \in Slots : Settled(o)' => ops'[o].answer \in KnownStatus'
                          /\ ~page.late => page.cache \in KnownStatus'
        OBVIOUS
      <3>1. /\ Hub \in Known' /\ Snapshot \in Known'
            /\ \A o \in Slots : Settled(o)' =>
                 \/ Settled(o) /\ ops'[o].answer = ops[o].answer
                 \/ ops'[o].answer \in KnownStatus'
        BY <2>2 DEF Effect, Fresh
      <3>2. KnownStatus \subseteq KnownStatus'
        BY <3>1 DEF Known, KnownStatus
      <3> QED BY <2>2, <3>1, <3>2 DEF PInv, FollowInv
    <2> QED BY <2>1, <2>3, <2>4 DEF PInv, PageTypeOK, FollowInv
  <1> QED BY <1>2, <1>3, <1>4

\* What leaves the server alone keeps what it knows.
LEMMA AloneLinks ==
    ASSUME LInv, UNCHANGED serverVars
    PROVE  /\ LInv' /\ Hub' = Hub /\ Snapshot' = Snapshot /\ (Current' <=> Current)
           /\ \A o \in Slots : (Settled(o)' <=> Settled(o)) /\ ops'[o] = ops[o]
  <1>1. SInv'
    BY AloneKeeps DEF LInv
  <1> QED BY <1>1 DEF serverVars, LInv, LinkedInv, AttachedInv, EndedInv, Hub, Snapshot, Current,
     Settled

\* The steps of the page.
LEMMA PageKeeps ==
    ASSUME PInv, SInv', PageStep
    PROVE  PInv'
  <1>0. /\ page \in [stream : {"closed", "read", "taken", "open"}, inbox : Seq(Snapshots),
              missed : BOOLEAN, heard : Snapshots \cup {None}, cache : Statuses \cup {None},
              late : BOOLEAN]
        /\ page.inbox \in Seq(Snapshots)
    BY DEF PInv, PageTypeOK
  <1>1. CASE Connects
    <2>1. /\ page' = [page EXCEPT !.stream = "read", !.inbox = <<>>, !.heard = None, !.missed = FALSE]
          /\ UNCHANGED serverVars
      BY <1>1 DEF Connects
    <2>2. PageTypeOK'
      <3>1. <<>> \in Seq(Snapshots)
        OBVIOUS
      <3> QED BY <1>0, <2>1, <3>1 DEF PageTypeOK
    <2>3. page'.stream = "read"
      BY <1>0, <2>1
    <2>4. FollowInv'
      BY <2>3 DEF FollowInv, Fresh
    <2> QED BY <2>1, <2>2, <2>4, AloneLinks DEF PInv
  <1>2. CASE TakesSnapshot
    <2>1. /\ page' = [page EXCEPT !.stream = "taken", !.inbox = <<Snapshot>>]
          /\ UNCHANGED serverVars
      BY <1>2 DEF TakesSnapshot
    <2>2. Snapshot \in Snapshots
      <3>1. registered \in Actors \cup {None} /\ projection \in Facts \cup {None} /\ ServerTypeOK
        BY DEF PInv, LInv, SInv, ServerTypeOK
      <3>2. registered = None \/ actors[registered].status \in Statuses
        BY <3>1, BornStatus DEF PInv, LInv, SInv, RegisteredIsUsable, Live
      <3> QED BY <3>1, <3>2, SnapshotTyped DEF Snapshot
    <2>3. page'.inbox = <<Snapshot>>
      BY <1>0, <2>1
    <2>4. page'.inbox # <<>> /\ Len(page'.inbox) = 1 /\ page'.inbox[1] = Snapshot
          /\ page'.inbox \in Seq(Snapshots)
      BY <2>2, <2>3
    <2>5. PageTypeOK'
      BY <1>0, <2>1, <2>4 DEF PageTypeOK
    <2>6. LInv' /\ Snapshot' = Snapshot
      BY <2>1, AloneLinks DEF PInv
    <2>7. Latest' = Snapshot'
      BY <2>4, <2>6 DEF Latest
    <2>8. FollowInv'
      BY <2>4, <2>7 DEF FollowInv, Known
    <2> QED BY <2>5, <2>6, <2>8 DEF PInv
  <1>3. CASE Subscribes
    <2>1. /\ page.stream = "taken" /\ page' = [page EXCEPT !.stream = "open"]
          /\ UNCHANGED serverVars
      BY <1>3 DEF Subscribes
    <2>2. PageTypeOK' /\ page'.inbox = page.inbox /\ page'.missed = page.missed
          /\ page'.heard = page.heard
      BY <1>0, <2>1 DEF PageTypeOK
    <2>3. /\ LInv' /\ Hub' = Hub /\ Snapshot' = Snapshot /\ (Current' <=> Current)
      BY <2>1, AloneLinks DEF PInv
    <2>4. (Fresh' => Fresh) /\ Latest' = Latest /\ page'.inbox # <<>>
      BY <2>1, <2>2, <2>3 DEF Fresh, Latest, PInv, FollowInv
    <2>5. FollowInv'
      BY <2>3, <2>4 DEF PInv, FollowInv, Known
    <2> QED BY <2>2, <2>3, <2>5 DEF PInv
  <1>4. CASE Hears
    <2>1. /\ page.stream \in {"open", "closed"} /\ page.inbox # <<>>
          /\ page' = [page EXCEPT !.inbox = Tail(page.inbox), !.heard = Head(page.inbox),
                                  !.cache = Head(page.inbox).status, !.late = FALSE]
          /\ UNCHANGED <<stored, actors, registered, attached, projection, robbed, overlapped>>
      BY <1>4 DEF Hears
    <2>2. ASSUME NEW o \in Slots
          PROVE  /\ ops'[o].actor = ops[o].actor /\ ops'[o].at = ops[o].at
                 /\ ops'[o].page = ops[o].page /\ ops'[o].answer = ops[o].answer
                 /\ ops'[o].late = (ops[o].page /\ ops[o].answer # "error")
      <3>1. ops[o] \in Requests
        BY DEF PInv, LInv, SInv, ServerTypeOK
      <3>2. ops'[o] = [ops[o] EXCEPT !.late = ops[o].page /\ ops[o].answer # "error"]
        BY <1>4 DEF Hears
      <3> QED BY <3>1, <3>2 DEF Requests
    <2>3. \A o \in Slots : ~Settled(o)'
      BY <2>2 DEF Settled
    <2>4. LInv' /\ Hub' = Hub /\ Snapshot' = Snapshot /\ (Current' <=> Current)
      <3>1. LinkedInv'
        BY <2>1, <2>2 DEF PInv, LInv, LinkedInv, Current
      <3>2. AttachedInv'
        BY <2>1, <2>2 DEF PInv, LInv, AttachedInv
      <3>3. EndedInv'
        BY <2>1, <2>2 DEF PInv, LInv, EndedInv, Current
      <3> QED BY <2>1, <3>1, <3>2, <3>3 DEF LInv, Hub, Snapshot, StatusOf, Current
    <2>5. /\ Head(page.inbox) \in Snapshots /\ Tail(page.inbox) \in Seq(Snapshots)
          /\ Tail(page.inbox) = <<>> => Head(page.inbox) = page.inbox[Len(page.inbox)]
          /\ Tail(page.inbox) # <<>> =>
               Tail(page.inbox)[Len(Tail(page.inbox))] = page.inbox[Len(page.inbox)]
      <3> DEFINE s == page.inbox
                 n == Len(page.inbox)
      <3>1. s \in Seq(Snapshots) /\ s # <<>> /\ n \in Nat /\ n >= 1
        BY <1>0, <2>1
      <3>2. Head(s) \in Snapshots /\ Head(s) = s[1]
        BY <3>1
      <3>3. Tail(s) \in Seq(Snapshots) /\ Len(Tail(s)) = n - 1
        BY <3>1
      <3>4. \A i \in 1 .. n - 1 : Tail(s)[i] = s[i + 1]
        BY <3>1
      <3> HIDE DEF s, n
      <3>5. Tail(s) = <<>> => n = 1
        <4>1. Len(<<>>) = 0
          OBVIOUS
        <4>2. Tail(s) = <<>> => Len(Tail(s)) = 0
          BY <4>1
        <4> QED BY <3>1, <3>3, <4>2
      <3>6. Tail(s) # <<>> => n - 1 \in 1 .. n - 1 /\ (n - 1) + 1 = n
        BY <3>1, <3>3
      <3>7. Tail(s) # <<>> => Tail(s)[Len(Tail(s))] = s[n]
        BY <3>3, <3>4, <3>6
      <3> QED BY <3>2, <3>3, <3>5, <3>7 DEF s, n
    <2>6. Head(page.inbox).status \in Statuses
      BY <2>5 DEF Snapshots
    <2>7. PageTypeOK'
      BY <1>0, <2>1, <2>5, <2>6 DEF PageTypeOK
    <2>8. /\ page'.inbox = Tail(page.inbox) /\ page'.heard = Head(page.inbox)
          /\ page'.cache = Head(page.inbox).status /\ page'.stream = page.stream
          /\ page'.missed = page.missed
      BY <1>0, <2>1
    <2>9. Latest' = Latest
      BY <2>1, <2>5, <2>8 DEF Latest
    <2>10. Fresh' => Fresh
      BY <2>4, <2>8 DEF Fresh
    <2>11. ASSUME Fresh', page'.inbox = <<>>
           PROVE  page'.cache \in KnownStatus'
      <3>1. page'.heard \in {Hub, Snapshot}
        BY <2>9, <2>10, <2>11 DEF PInv, FollowInv, Latest, Known
      <3>2. page'.cache \in {Hub.status, Snapshot.status}
        BY <2>8, <3>1
      <3> QED BY <2>4, <3>2 DEF KnownStatus
    <2>12. FollowInv'
      BY <2>1, <2>3, <2>4, <2>8, <2>9, <2>10, <2>11 DEF PInv, FollowInv, Known
    <2> QED BY <2>4, <2>7, <2>12 DEF PInv
  <1>5. ASSUME NEW o \in Slots, Clicks(o)
        PROVE  PInv'
    <2>1. PrimaryAction \in Kinds /\ TRUE \in BOOLEAN
      BY DEF PrimaryAction, Kinds
    <2>2. Asks(o, PrimaryAction, TRUE) /\ Publishes(FALSE)
      BY <1>5 DEF Clicks, Publishes
    <2>3. LInv' /\ Effect(FALSE)
      BY <2>1, <2>2, AsksLinks DEF PInv
    <2> QED BY <2>2, <2>3, PublishKeeps
  <1>6. ASSUME NEW o \in Slots, Queries(o)
        PROVE  PInv'
    <2>1. "status" \in Kinds /\ TRUE \in BOOLEAN
      BY DEF Kinds
    <2>2. Asks(o, "status", TRUE) /\ Publishes(FALSE)
      BY <1>6 DEF Queries, Publishes
    <2>3. LInv' /\ Effect(FALSE)
      BY <2>1, <2>2, AsksLinks DEF PInv
    <2> QED BY <2>2, <2>3, PublishKeeps
  <1>7. ASSUME NEW o \in Slots, TakesAnswer(o)
        PROVE  PInv'
    <2>1. /\ ops[o].at = "answered"
          /\ page' = [page EXCEPT !.cache = ops[o].answer, !.late = ops[o].late]
          /\ ops' = [ops EXCEPT ![o] = Free]
          /\ UNCHANGED <<stored, actors, registered, attached, projection, robbed, overlapped>>
      BY <1>7 DEF TakesAnswer
    <2>2. ops \in [Slots -> Requests] /\ ops[o] \in Requests
      BY DEF PInv, LInv, SInv, ServerTypeOK
    <2>3. ops[o].page /\ ops[o].answer # "error"
      BY <2>1 DEF PInv, LInv, EndedInv
    <2>4. ops[o].answer \in Statuses /\ ops[o].late \in BOOLEAN
      BY <2>2, <2>3 DEF Requests
    <2>5. PageTypeOK'
      BY <1>0, <2>1, <2>4 DEF PageTypeOK
    <2>6. /\ page'.cache = ops[o].answer /\ page'.late = ops[o].late /\ page'.inbox = page.inbox
          /\ page'.stream = page.stream /\ page'.missed = page.missed /\ page'.heard = page.heard
      BY <1>0, <2>1
    <2>7. LInv' /\ Hub' = Hub /\ Snapshot' = Snapshot /\ (Current' <=> Current)
      <3>1. LinkedInv'
        BY <2>1, <2>2, FreeTyped DEF PInv, LInv, LinkedInv, Current
      <3>2. AttachedInv'
        BY <2>1, <2>2, FreeTyped DEF PInv, LInv, AttachedInv
      <3>3. EndedInv'
        BY <2>1, <2>2, FreeTyped DEF PInv, LInv, EndedInv, Current
      <3> QED BY <2>1, <3>1, <3>2, <3>3 DEF LInv, Hub, Snapshot, StatusOf, Current
    <2>8. \A p \in Slots : Settled(p)' => Settled(p) /\ ops'[p].answer = ops[p].answer
      BY <2>1, <2>2, FreeTyped DEF Settled
    <2>9. (Fresh' <=> Fresh) /\ Latest' = Latest
      BY <2>6, <2>7 DEF Fresh, Latest
    <2>10. Fresh /\ page.inbox = <<>> /\ ~ops[o].late => ops[o].answer \in KnownStatus
      BY <2>1, <2>3 DEF PInv, FollowInv, Settled
    <2>11. FollowInv'
      BY <2>6, <2>7, <2>8, <2>9, <2>10 DEF PInv, FollowInv, Known, KnownStatus
    <2> QED BY <2>5, <2>7, <2>11 DEF PInv
  <1> QED BY <1>1, <1>2, <1>3, <1>4, <1>5, <1>6, <1>7 DEF PageStep

\* The steps of the server, with what they publish.
LEMMA ServerKeeps ==
    ASSUME PInv, SInv', ActorStep \/ StartStep \/ StopStep \/ DeleteStep \/ OtherStep
    PROVE  PInv'
  <1> USE DEF PInv
  <1>0. UNCHANGED page => Publishes(FALSE)
    BY DEF Publishes
  <1>1. CASE ActorStep
    <2>1. ASSUME NEW a \in Actors, NEW fact \in Facts, Tells(a, fact), Publishes(TRUE)
          PROVE  PInv'
      BY <2>1, TellsLinks, PublishKeeps
    <2>2. ASSUME NEW a \in Actors, NEW status \in Statuses, Retried(a, status), Publishes(Heard(a))
          PROVE  PInv'
      <3>1. Heard(a) \in BOOLEAN
        BY DEF Heard
      <3> QED BY <2>2, <3>1, RetriedLinks, PublishKeeps
    <2> QED BY <1>1, <2>1, <2>2 DEF ActorStep
  <1>2. CASE StartStep
    <2>1. ASSUME NEW o \in Slots, StartsAgain(o) \/ RollsBack(o), UNCHANGED page
          PROVE  PInv'
      BY <1>0, <2>1, StartsAgainLinks, RollsBackLinks, PublishKeeps
    <2>2. ASSUME NEW o \in Slots, NEW a \in Actors, Starts(o, a), Publishes(Heard(a))
          PROVE  PInv'
      <3>1. Heard(a) \in BOOLEAN
        BY DEF Heard
      <3> QED BY <2>2, <3>1, StartsLinks, PublishKeeps
    <2>3. ASSUME NEW o \in Slots, NEW status \in Statuses, StartResolves(o, status),
                 Publishes(Heard(ops[o].actor) /\ actors[ops[o].actor].status # status)
          PROVE  PInv'
      <3>1. (Heard(ops[o].actor) /\ actors[ops[o].actor].status # status) \in BOOLEAN
        OBVIOUS
      <3> QED BY <2>3, <3>1, StartResolvesLinks, PublishKeeps
    <2>4. ASSUME NEW o \in Slots, StartRejects(o), Publishes(Heard(ops[o].actor))
          PROVE  PInv'
      <3>1. Heard(ops[o].actor) \in BOOLEAN
        BY DEF Heard
      <3> QED BY <2>4, <3>1, StartRejectsLinks, PublishKeeps
    <2> QED BY <1>2, <2>1, <2>2, <2>3, <2>4 DEF StartStep
  <1>3. CASE StopStep
    <2>1. ASSUME NEW o \in Slots, StopsNothing(o) \/ Stops(o) \/ StopRejects(o) \/ LetsGo(o),
                 UNCHANGED page
          PROVE  PInv'
      BY <1>0, <2>1, StopsNothingLinks, StopsLinks, StopRejectsLinks, LetsGoLinks, PublishKeeps
    <2>2. ASSUME NEW o \in Slots, StopResolves(o), Publishes(Heard(ops[o].actor))
          PROVE  PInv'
      <3>1. Heard(ops[o].actor) \in BOOLEAN
        BY DEF Heard
      <3> QED BY <2>2, <3>1, StopResolvesLinks, PublishKeeps
    <2>3. ASSUME NEW o \in Slots, NEW status \in Statuses \cup {"unborn"}, Disposes(o, status),
                 UNCHANGED page
          PROVE  PInv'
      BY <1>0, <2>3, DisposesLinks, PublishKeeps
    <2> QED BY <1>3, <2>1, <2>2, <2>3 DEF StopStep
  <1>4. CASE DeleteStep
    <2>1. ASSUME NEW o \in Slots, Deletes(o), UNCHANGED page
          PROVE  PInv'
      BY <1>0, <2>1, DeletesLinks, PublishKeeps
    <2>2. ASSUME NEW o \in Slots, ForgetsStreams(o),
                 page' = CASE page.stream = "open" -> [page EXCEPT !.stream = "closed"]
                           [] page.stream = "taken" -> [page EXCEPT !.missed = TRUE]
                           [] OTHER -> page
          PROVE  PInv'
      <3>1. LInv' /\ ~Current'
        <4>1. ~stored /\ stored' = stored
          BY <2>2 DEF ForgetsStreams, LInv, EndedInv
        <4> QED BY <2>2, <4>1, ForgetsStreamsLinks DEF Current
      <3>2. page' \in {[page EXCEPT !.stream = "closed"], [page EXCEPT !.missed = TRUE], page}
        BY <2>2
      <3>3. PageTypeOK' /\ page'.inbox = page.inbox /\ page'.stream \in {page.stream, "closed"}
        BY <3>2 DEF PageTypeOK
      <3>4. FollowInv'
        BY <3>1, <3>3 DEF FollowInv, Fresh
      <3> QED BY <3>1, <3>3, <3>4
    <2> QED BY <1>4, <2>1, <2>2 DEF DeleteStep
  <1>5. CASE OtherStep
    <2>1. ASSUME NEW o \in Slots, NEW kind \in Kinds \ {"status"}, Asks(o, kind, FALSE), UNCHANGED page
          PROVE  PInv'
      BY <1>0, <2>1, AsksLinks, PublishKeeps
    <2>2. ASSUME NEW o \in Slots, TellsStatus(o), UNCHANGED page
          PROVE  PInv'
      BY <1>0, <2>2, TellsStatusLinks, PublishKeeps
    <2> QED BY <1>5, <2>1, <2>2 DEF OtherStep
  <1> QED BY <1>1, <1>2, <1>3, <1>4, <1>5

\* The inductive invariant holds at the start.
LEMMA PageStartHas ==
    ASSUME Init PROVE PInv
  <1>1. SInv
    BY StartHas
  <1>2. /\ registered = None /\ attached = None /\ \A o \in Slots : ops[o] = Free
        /\ \A a \in Actors : actors[a].status = "unborn" /\ ~actors[a].disposed
    BY DEF Init, ServerInit
  <1>3. LInv
    BY <1>1, <1>2, FreeTyped DEF LInv, LinkedInv, AttachedInv, EndedInv
  <1>4. <<>> \in Seq(Snapshots)
    OBVIOUS
  <1>5. PageTypeOK /\ page.stream = "closed"
    BY <1>4 DEF Init, PageTypeOK
  <1> QED BY <1>3, <1>5 DEF PInv, FollowInv, Fresh

\* The server and its page keep the inductive invariant.
LEMMA PageInvariant == Spec => []PInv
  <1>1. ASSUME PInv, [Next]_vars PROVE PInv'
    <2>1. SInv'
      BY <1>1, StepKeeps DEF PInv, LInv
    <2>2. CASE UNCHANGED vars
      <3>1. UNCHANGED serverVars /\ page' = page
        BY <2>2 DEF vars
      <3>2. /\ LInv' /\ Hub' = Hub /\ Snapshot' = Snapshot /\ (Current' <=> Current)
            /\ \A o \in Slots : (Settled(o)' <=> Settled(o)) /\ ops'[o] = ops[o]
        BY <1>1, <3>1, AloneLinks DEF PInv
      <3> QED BY <1>1, <3>1, <3>2 DEF PInv, PageTypeOK, FollowInv, Fresh, Latest, Known,
         KnownStatus
    <2> QED BY <1>1, <2>1, <2>2, PageKeeps, ServerKeeps DEF Next
  <1> QED BY <1>1, PageStartHas, PTL DEF Spec

\* The variables of the server and of the page keep their types, for a stream of
\* any bound.
THEOREM PageTypeCorrect == Spec => []TypeOK
  <1>1. PInv => TypeOK
    BY DEF PInv, LInv, SInv, TypeOK
  <1> QED BY <1>1, PageInvariant, PTL

\* A page that is up to date knows what there is.
LEMMA UpToDateKnows ==
    ASSUME PInv, UpToDate
    PROVE  page.heard = Snapshot /\ (~page.late => page.cache = Snapshot.status)
  <1>1. Fresh /\ page.inbox = <<>> /\ Current /\ ~Stopping
    BY DEF UpToDate, Fresh, Current
  <1>2. Hub = Snapshot
    <2>1. CASE registered # None
      BY <1>1, <2>1 DEF PInv, LInv, LinkedInv, Hub, Snapshot
    <2>2. CASE registered = None /\ attached # None
      <3>1. actors[attached].status = "stopped"
        BY <1>1, <2>2 DEF PInv, LInv, LinkedInv, Stopping
      <3> QED BY <2>2, <3>1, SnapshotIs DEF Hub, Snapshot, StatusOf
    <2>3. CASE registered = None /\ attached = None
      BY <2>3 DEF Hub, Snapshot
    <2> QED BY <2>1, <2>2, <2>3
  <1> QED BY <1>1, <1>2 DEF PInv, FollowInv, Latest, Known, KnownStatus

\* A page that has heard all that was published shows the snapshot that a request
\* would be answered: what the hub publishes and what the registry answers agree
\* (RuntimeEventHub, getRuntimeSnapshot, and what the page makes of the stream).
THEOREM PageShowsTheServer == Spec => []PageFollows
  <1>1. PInv => PageFollows
    BY UpToDateKnows DEF PageFollows
  <1> QED BY <1>1, PageInvariant, PTL

\* And its button acts on the status there is, unless the answer that the cache has
\* was made before the last snapshot that the page heard (primaryAction).
THEOREM ButtonActsOnWhatIs == Spec => []ButtonFollows
  <1>1. PInv => ButtonFollows
    BY UpToDateKnows DEF ButtonFollows
  <1> QED BY <1>1, PageInvariant, PTL
=============================================================================
