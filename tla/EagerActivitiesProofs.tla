------------------------ MODULE EagerActivitiesProofs ------------------------
(***************************************************************************)
(* Proofs about EagerActivities, for any number of concurrent completions    *)
(* and slots: the count of the closable dealer is exact and never wraps, no  *)
(* slot is lost or handed out twice, the close lets no new reservation in,   *)
(* and the eager stream ends with an empty channel.                          *)
(***************************************************************************)
EXTENDS EagerActivities, TLAPS, FiniteSetTheorems

\* The members of A whose label is in T.
At(p, A, T) == {a \in A : p[a] \in T}

\* From p to q the label of c may have changed: how many have one in T.
CountMoves(p, q, A, T, c) ==
    /\ Cardinality(At(p, A, T)) \in Nat
    /\ Cardinality(At(q, A, T)) \in Nat
    /\ (q[c] \in T <=> p[c] \in T) => Cardinality(At(q, A, T)) = Cardinality(At(p, A, T))
    /\ q[c] \in T /\ p[c] \notin T => Cardinality(At(q, A, T)) = Cardinality(At(p, A, T)) + 1
    /\ q[c] \notin T /\ p[c] \in T => Cardinality(At(q, A, T)) = Cardinality(At(p, A, T)) - 1

\* One member gets another label.
LEMMA LabelMoves ==
    ASSUME NEW A, IsFiniteSet(A), NEW p, NEW q, NEW T, NEW c \in A,
           \A a \in A \ {c} : q[a] = p[a]
    PROVE  CountMoves(p, q, A, T, c)
<1> DEFINE P == At(p, A, T)
           Q == At(q, A, T)
<1>1. IsFiniteSet(P) /\ IsFiniteSet(Q)
  <2>1. P \subseteq A /\ Q \subseteq A
    BY DEF At
  <2>2. QED
    BY <2>1, FS_Subset
<1>2. Cardinality(P) \in Nat /\ Cardinality(Q) \in Nat
  BY <1>1, FS_CardinalityType
<1>3. (q[c] \in T <=> p[c] \in T) => Q = P
  BY DEF At
<1>4. q[c] \in T /\ p[c] \notin T => Q = P \cup {c} /\ c \notin P
  BY DEF At
<1>5. q[c] \notin T /\ p[c] \in T => Q = P \ {c} /\ c \in P
  BY DEF At
<1>6. c \notin P => Cardinality(P \cup {c}) = Cardinality(P) + 1
  BY <1>1, FS_AddElement, Zenon
<1>7. c \in P => Cardinality(P \ {c}) = Cardinality(P) - 1
  BY <1>1, FS_RemoveElement, Zenon
<1> HIDE DEF P, Q
<1>8. QED
  BY <1>2, <1>3, <1>4, <1>5, <1>6, <1>7 DEF P, Q, CountMoves

Labels == {"idle", "checked", "counted", "refused", "holding", "dropping", "dropped",
           "closing", "ended"}

\* Where an actor's permit is counted, and where a completion has a slot of the
\* inner dealer for itself.
Counting == {"counted", "holding", "dropping"}
Holding == {"holding", "dropping", "dropped", "closing"}

Holders == At(pc, Completions, Holding)

\* Every slot is free, reserved, queued with its task or used by an activity.
SlotsExact == available + queue + running + Cardinality(Holders) = Slots

\* The stream reserves nothing, and only it ends.
Shape(p) ==
    /\ p \in [Actors -> Labels]
    /\ p[Stream] \in {"idle", "dropping", "dropped", "closing", "ended"}
    /\ \A c \in Completions : p[c] # "ended"

EagerInv ==
    /\ Shape(pc)
    /\ {close_requested, close_complete, rx_closed, send_failed} \subseteq BOOLEAN
    /\ closer \in {"idle", "requested", "done"}
    /\ outstanding_permits \in Nat /\ available \in Nat /\ queue \in Nat /\ running \in Nat
    /\ CountExact
    /\ SlotsExact
    /\ rx_closed => queue = 0
    /\ pc[Stream] = "ended" => rx_closed

\* The actors are the completions and the stream, and finitely many.
LEMMA ActorFacts ==
    /\ IsFiniteSet(Actors) /\ IsFiniteSet(Completions)
    /\ Completions \subseteq Actors /\ Stream \in Actors /\ Stream \notin Completions
    /\ Actors = Completions \cup {Stream}
<1>1. IsFiniteSet(Completions) /\ Stream \notin Completions
  BY CompletionsAssumption
<1>2. IsFiniteSet(Completions \cup {Stream})
  BY <1>1, FS_AddElement
<1>3. QED
  BY <1>1, <1>2 DEF Actors

\* Initially nothing is reserved.
LEMMA EagerInit == Init => EagerInv
<1> SUFFICES ASSUME Init
             PROVE  EagerInv
  OBVIOUS
<1>1. Counted = {} /\ Holders = {}
  BY DEF Init, Counted, Holders, Holding, At, Actors
<1>2. CountExact /\ SlotsExact
  BY <1>1, FS_EmptySet, EagerSlotsAssumption DEF Init, CountExact, SlotsExact
<1>3. QED
  BY <1>2, ActorFacts, EagerSlotsAssumption, Zenon DEF Init, EagerInv, Shape, Labels

\* An actor moves on: what the two counts do.
LEMMA ActorMoves ==
    ASSUME pc \in [Actors -> Labels], NEW c \in Actors, NEW v \in Labels,
           pc' = [pc EXCEPT ![c] = v]
    PROVE  /\ CountMoves(pc, pc', Actors, Counting, c)
           /\ c \in Completions => CountMoves(pc, pc', Completions, Holding, c)
           /\ c = Stream => Holders' = Holders
           /\ Cardinality(Holders) \in Nat
           /\ pc'[c] = v
<1>1. /\ pc' \in [Actors -> Labels] /\ pc'[c] = v
      /\ \A a \in Actors \ {c} : pc'[a] = pc[a]
  OBVIOUS
<1>2. CountMoves(pc, pc', Actors, Counting, c)
  BY <1>1, ActorFacts, LabelMoves, Zenon
<1>3. ASSUME c \in Completions
      PROVE  CountMoves(pc, pc', Completions, Holding, c)
  <2>1. \A a \in Completions \ {c} : pc'[a] = pc[a]
    BY <1>1, ActorFacts
  <2>2. QED
    BY <1>3, <2>1, ActorFacts, LabelMoves, Zenon
<1>4. c = Stream => Holders' = Holders
  BY <1>1, ActorFacts DEF Holders, At
<1>5. Cardinality(Holders) \in Nat
  <2>1. Holders \subseteq Completions
    BY DEF Holders, At
  <2>2. QED
    BY <2>1, ActorFacts, FS_Subset, FS_CardinalityType
<1>6. QED
  BY <1>1, <1>2, <1>3, <1>4, <1>5

\* The two counts are counts of labels.
LEMMA CountsOfLabels ==
    /\ Counted = At(pc, Actors, Counting)
    /\ Counted' = At(pc', Actors, Counting)
    /\ Holders = At(pc, Completions, Holding)
    /\ Holders' = At(pc', Completions, Holding)
BY DEF Counted, Holders, At, Counting, Holding

\* A completion's steps: what it counts and holds moves with its label.
LEMMA CompletionStep ==
    ASSUME EagerInv, NEW c \in Completions, Acquire(c) \/ Respond(c)
    PROVE  EagerInv'
<1>1. c \in Actors /\ c # Stream /\ c \in Completions
  BY ActorFacts
<1>2. Slots \in Nat
  BY EagerSlotsAssumption
<1>3. CASE CheckOpen(c)
  <2>1. pc[c] = "idle" /\ pc' = [pc EXCEPT ![c] = "checked"]
    BY <1>3 DEF CheckOpen
  <2>2. /\ Cardinality(Counted') = Cardinality(Counted)
        /\ Cardinality(Holders') = Cardinality(Holders)
        /\ {Cardinality(Counted), Cardinality(Counted'), Cardinality(Holders),
            Cardinality(Holders')} \subseteq Nat
    <3>1. pc \in [Actors -> Labels] /\ "checked" \in Labels
      BY DEF EagerInv, Shape, Labels
    <3>2. /\ CountMoves(pc, pc', Actors, Counting, c) /\ pc'[c] = "checked"
          /\ CountMoves(pc, pc', Completions, Holding, c)
      BY <2>1, <3>1, <1>1, ActorMoves, Zenon
    <3>3. QED
      BY <2>1, <1>1, <3>2, CountsOfLabels DEF CountMoves, Counting, Holding
  <2>3. Shape(pc')
    BY <2>1, <1>1, ActorFacts DEF EagerInv, Shape, Labels
  <2>4. pc'[Stream] = pc[Stream]
    BY <2>1, <1>1, ActorFacts DEF EagerInv, Shape
  <2>5. QED
    BY <1>3, <1>2, <2>1, <2>2, <2>3, <2>4
       DEF CheckOpen, EagerInv, CountExact, SlotsExact, dealer, channel
<1>4. CASE CountPermit(c)
  <2>1. pc[c] = "checked" /\ pc' = [pc EXCEPT ![c] = "counted"]
    BY <1>4 DEF CountPermit
  <2>2. /\ Cardinality(Counted') = Cardinality(Counted) + 1
        /\ Cardinality(Holders') = Cardinality(Holders)
        /\ {Cardinality(Counted), Cardinality(Counted'), Cardinality(Holders),
            Cardinality(Holders')} \subseteq Nat
    <3>1. pc \in [Actors -> Labels] /\ "counted" \in Labels
      BY DEF EagerInv, Shape, Labels
    <3>2. /\ CountMoves(pc, pc', Actors, Counting, c) /\ pc'[c] = "counted"
          /\ CountMoves(pc, pc', Completions, Holding, c)
      BY <2>1, <3>1, <1>1, ActorMoves, Zenon
    <3>3. QED
      BY <2>1, <1>1, <3>2, CountsOfLabels DEF CountMoves, Counting, Holding
  <2>3. Shape(pc')
    BY <2>1, <1>1, ActorFacts DEF EagerInv, Shape, Labels
  <2>4. pc'[Stream] = pc[Stream]
    BY <2>1, <1>1, ActorFacts DEF EagerInv, Shape
  <2>5. QED
    BY <1>4, <1>2, <2>1, <2>2, <2>3, <2>4
       DEF CountPermit, EagerInv, CountExact, SlotsExact, dealer, channel
<1>5. CASE InnerGrants(c)
  <2>1. pc[c] = "counted" /\ pc' = [pc EXCEPT ![c] = "holding"]
    BY <1>5 DEF InnerGrants
  <2>2. /\ Cardinality(Counted') = Cardinality(Counted)
        /\ Cardinality(Holders') = Cardinality(Holders) + 1
        /\ {Cardinality(Counted), Cardinality(Counted'), Cardinality(Holders),
            Cardinality(Holders')} \subseteq Nat
    <3>1. pc \in [Actors -> Labels] /\ "holding" \in Labels
      BY DEF EagerInv, Shape, Labels
    <3>2. /\ CountMoves(pc, pc', Actors, Counting, c) /\ pc'[c] = "holding"
          /\ CountMoves(pc, pc', Completions, Holding, c)
      BY <2>1, <3>1, <1>1, ActorMoves, Zenon
    <3>3. QED
      BY <2>1, <1>1, <3>2, CountsOfLabels DEF CountMoves, Counting, Holding
  <2>3. Shape(pc')
    BY <2>1, <1>1, ActorFacts DEF EagerInv, Shape, Labels
  <2>4. pc'[Stream] = pc[Stream]
    BY <2>1, <1>1, ActorFacts DEF EagerInv, Shape
  <2>5. QED
    BY <1>5, <1>2, <2>1, <2>2, <2>3, <2>4
       DEF InnerGrants, EagerInv, CountExact, SlotsExact, dealer, channel
<1>6. CASE InnerRefuses(c)
  <2>1. pc[c] = "counted" /\ pc' = [pc EXCEPT ![c] = "refused"]
    BY <1>6 DEF InnerRefuses
  <2>2. /\ Cardinality(Counted') = Cardinality(Counted) - 1
        /\ Cardinality(Holders') = Cardinality(Holders)
        /\ {Cardinality(Counted), Cardinality(Counted'), Cardinality(Holders),
            Cardinality(Holders')} \subseteq Nat
    <3>1. pc \in [Actors -> Labels] /\ "refused" \in Labels
      BY DEF EagerInv, Shape, Labels
    <3>2. /\ CountMoves(pc, pc', Actors, Counting, c) /\ pc'[c] = "refused"
          /\ CountMoves(pc, pc', Completions, Holding, c)
      BY <2>1, <3>1, <1>1, ActorMoves, Zenon
    <3>3. QED
      BY <2>1, <1>1, <3>2, CountsOfLabels DEF CountMoves, Counting, Holding
  <2>3. Shape(pc')
    BY <2>1, <1>1, ActorFacts DEF EagerInv, Shape, Labels
  <2>4. pc'[Stream] = pc[Stream]
    BY <2>1, <1>1, ActorFacts DEF EagerInv, Shape
  <2>5. QED
    BY <1>6, <1>2, <2>1, <2>2, <2>3, <2>4
       DEF InnerRefuses, EagerInv, CountExact, SlotsExact, dealer, channel
<1>7. CASE ReturnErr(c)
  <2>1. pc[c] = "refused" /\ pc' = [pc EXCEPT ![c] = "idle"]
    BY <1>7 DEF ReturnErr
  <2>2. /\ Cardinality(Counted') = Cardinality(Counted)
        /\ Cardinality(Holders') = Cardinality(Holders)
        /\ {Cardinality(Counted), Cardinality(Counted'), Cardinality(Holders),
            Cardinality(Holders')} \subseteq Nat
    <3>1. pc \in [Actors -> Labels] /\ "idle" \in Labels
      BY DEF EagerInv, Shape, Labels
    <3>2. /\ CountMoves(pc, pc', Actors, Counting, c) /\ pc'[c] = "idle"
          /\ CountMoves(pc, pc', Completions, Holding, c)
      BY <2>1, <3>1, <1>1, ActorMoves, Zenon
    <3>3. QED
      BY <2>1, <1>1, <3>2, CountsOfLabels DEF CountMoves, Counting, Holding
  <2>3. Shape(pc')
    BY <2>1, <1>1, ActorFacts DEF EagerInv, Shape, Labels
  <2>4. pc'[Stream] = pc[Stream]
    BY <2>1, <1>1, ActorFacts DEF EagerInv, Shape
  <2>5. QED
    BY <1>7, <1>2, <2>1, <2>2, <2>3, <2>4
       DEF ReturnErr, EagerInv, CountExact, SlotsExact, dealer, channel
<1>8. CASE AddTask(c)
  <2>1. CASE rx_closed
    <3>1. pc[c] = "holding" /\ pc' = [pc EXCEPT ![c] = "dropping"]
      BY <1>8, <2>1 DEF AddTask
    <3>2. /\ Cardinality(Counted') = Cardinality(Counted)
          /\ Cardinality(Holders') = Cardinality(Holders)
          /\ {Cardinality(Counted), Cardinality(Counted'), Cardinality(Holders),
              Cardinality(Holders')} \subseteq Nat
      <4>1. pc \in [Actors -> Labels] /\ "dropping" \in Labels
        BY DEF EagerInv, Shape, Labels
      <4>2. /\ CountMoves(pc, pc', Actors, Counting, c) /\ pc'[c] = "dropping"
            /\ CountMoves(pc, pc', Completions, Holding, c)
        BY <3>1, <4>1, <1>1, ActorMoves, Zenon
      <4>3. QED
        BY <3>1, <1>1, <4>2, CountsOfLabels DEF CountMoves, Counting, Holding
    <3>3. Shape(pc')
      BY <3>1, <1>1, ActorFacts DEF EagerInv, Shape, Labels
    <3>4. pc'[Stream] = pc[Stream]
      BY <3>1, <1>1, ActorFacts DEF EagerInv, Shape
    <3>5. QED
      BY <1>8, <2>1, <1>2, <3>1, <3>2, <3>3, <3>4
         DEF AddTask, EagerInv, CountExact, SlotsExact, dealer, channel
  <2>2. CASE ~rx_closed
    <3>1. pc[c] = "holding" /\ pc' = [pc EXCEPT ![c] = "idle"]
      BY <1>8, <2>2 DEF AddTask
    <3>2. /\ Cardinality(Counted') = Cardinality(Counted) - 1
          /\ Cardinality(Holders') = Cardinality(Holders) - 1
          /\ {Cardinality(Counted), Cardinality(Counted'), Cardinality(Holders),
              Cardinality(Holders')} \subseteq Nat
      <4>1. pc \in [Actors -> Labels] /\ "idle" \in Labels
        BY DEF EagerInv, Shape, Labels
      <4>2. /\ CountMoves(pc, pc', Actors, Counting, c) /\ pc'[c] = "idle"
            /\ CountMoves(pc, pc', Completions, Holding, c)
        BY <3>1, <4>1, <1>1, ActorMoves, Zenon
      <4>3. QED
        BY <3>1, <1>1, <4>2, CountsOfLabels DEF CountMoves, Counting, Holding
    <3>3. Shape(pc')
      BY <3>1, <1>1, ActorFacts DEF EagerInv, Shape, Labels
    <3>4. pc'[Stream] = pc[Stream]
      BY <3>1, <1>1, ActorFacts DEF EagerInv, Shape
    <3>5. QED
      BY <1>8, <2>2, <1>2, <3>1, <3>2, <3>3, <3>4
         DEF AddTask, EagerInv, CountExact, SlotsExact, dealer, channel
  <2>3. QED
    BY <2>1, <2>2
<1>9. CASE DropReservation(c)
  <2>1. pc[c] = "holding" /\ pc' = [pc EXCEPT ![c] = "dropping"]
    BY <1>9 DEF DropReservation
  <2>2. /\ Cardinality(Counted') = Cardinality(Counted)
        /\ Cardinality(Holders') = Cardinality(Holders)
        /\ {Cardinality(Counted), Cardinality(Counted'), Cardinality(Holders),
            Cardinality(Holders')} \subseteq Nat
    <3>1. pc \in [Actors -> Labels] /\ "dropping" \in Labels
      BY DEF EagerInv, Shape, Labels
    <3>2. /\ CountMoves(pc, pc', Actors, Counting, c) /\ pc'[c] = "dropping"
          /\ CountMoves(pc, pc', Completions, Holding, c)
      BY <2>1, <3>1, <1>1, ActorMoves, Zenon
    <3>3. QED
      BY <2>1, <1>1, <3>2, CountsOfLabels DEF CountMoves, Counting, Holding
  <2>3. Shape(pc')
    BY <2>1, <1>1, ActorFacts DEF EagerInv, Shape, Labels
  <2>4. pc'[Stream] = pc[Stream]
    BY <2>1, <1>1, ActorFacts DEF EagerInv, Shape
  <2>5. QED
    BY <1>9, <1>2, <2>1, <2>2, <2>3, <2>4
       DEF DropReservation, EagerInv, CountExact, SlotsExact, dealer, channel
<1>10. QED
  BY <1>3, <1>4, <1>5, <1>6, <1>7, <1>8, <1>9 DEF Acquire, Respond

\* A dropped permit is taken off the count once, and its slot goes back once: the
\* stream's permit has none.
LEMMA DropStep ==
    ASSUME EagerInv, NEW c \in Actors, Drop(c)
    PROVE  EagerInv'
<1>1. c \in Actors /\ (c \in Completions \/ c = Stream)
  BY ActorFacts
<1>2. /\ Slots \in Nat /\ (c \in Completions \/ c = Stream)
      /\ c \in Completions => Freed(c) = 1
      /\ c = Stream => Freed(c) = 0
  BY <1>1, ActorFacts, EagerSlotsAssumption DEF Freed
<1>3. CASE DropTracked(c)
  <2>1. pc[c] = "dropping" /\ pc' = [pc EXCEPT ![c] = "dropped"]
    BY <1>3 DEF DropTracked
  <2>2. /\ Cardinality(Counted') = Cardinality(Counted) - 1
        /\ Cardinality(Holders') = Cardinality(Holders)
        /\ {Cardinality(Counted), Cardinality(Counted'), Cardinality(Holders),
            Cardinality(Holders')} \subseteq Nat
    <3>1. pc \in [Actors -> Labels] /\ "dropped" \in Labels
      BY DEF EagerInv, Shape, Labels
    <3>2. /\ CountMoves(pc, pc', Actors, Counting, c) /\ pc'[c] = "dropped"
          /\ c \in Completions => CountMoves(pc, pc', Completions, Holding, c)
          /\ c = Stream => Holders' = Holders
          /\ Cardinality(Holders) \in Nat
      BY <2>1, <3>1, <1>1, ActorMoves, Zenon
    <3>3. QED
      BY <2>1, <1>1, <3>2, CountsOfLabels DEF CountMoves, Counting, Holding
  <2>3. Shape(pc')
    BY <2>1, <1>1, ActorFacts DEF EagerInv, Shape, Labels
  <2>4. pc'[Stream] # "ended" \/ pc[Stream] = "ended"
    BY <2>1, <1>1, ActorFacts DEF EagerInv, Shape
  <2>5. QED
    BY <1>3, <1>2, <2>1, <2>2, <2>3, <2>4
       DEF DropTracked, EagerInv, CountExact, SlotsExact, dealer, channel
<1>4. CASE DropReadsFlag(c)
  <2>1. CASE close_requested
    <3>1. pc[c] = "dropped" /\ pc' = [pc EXCEPT ![c] = "closing"]
      BY <1>4, <2>1 DEF DropReadsFlag
    <3>2. /\ Cardinality(Counted') = Cardinality(Counted)
          /\ Cardinality(Holders') = Cardinality(Holders)
          /\ {Cardinality(Counted), Cardinality(Counted'), Cardinality(Holders),
              Cardinality(Holders')} \subseteq Nat
      <4>1. pc \in [Actors -> Labels] /\ "closing" \in Labels
        BY DEF EagerInv, Shape, Labels
      <4>2. /\ CountMoves(pc, pc', Actors, Counting, c) /\ pc'[c] = "closing"
            /\ c \in Completions => CountMoves(pc, pc', Completions, Holding, c)
            /\ c = Stream => Holders' = Holders
            /\ Cardinality(Holders) \in Nat
        BY <3>1, <4>1, <1>1, ActorMoves, Zenon
      <4>3. QED
        BY <3>1, <1>1, <4>2, CountsOfLabels DEF CountMoves, Counting, Holding
    <3>3. Shape(pc')
      BY <3>1, <1>1, ActorFacts DEF EagerInv, Shape, Labels
    <3>4. pc'[Stream] # "ended" \/ pc[Stream] = "ended"
      BY <3>1, <1>1, ActorFacts DEF EagerInv, Shape
    <3>5. QED
      BY <1>4, <2>1, <1>2, <3>1, <3>2, <3>3, <3>4
         DEF DropReadsFlag, EagerInv, CountExact, SlotsExact, dealer, channel
  <2>2. CASE ~close_requested
    <3>1. pc[c] = "dropped" /\ pc' = [pc EXCEPT ![c] = "idle"]
      BY <1>4, <2>2 DEF DropReadsFlag
    <3>2. /\ Cardinality(Counted') = Cardinality(Counted)
          /\ c \in Completions => Cardinality(Holders') = Cardinality(Holders) - 1
          /\ c = Stream => Cardinality(Holders') = Cardinality(Holders)
          /\ {Cardinality(Counted), Cardinality(Counted'), Cardinality(Holders),
              Cardinality(Holders')} \subseteq Nat
      <4>1. pc \in [Actors -> Labels] /\ "idle" \in Labels
        BY DEF EagerInv, Shape, Labels
      <4>2. /\ CountMoves(pc, pc', Actors, Counting, c) /\ pc'[c] = "idle"
            /\ c \in Completions => CountMoves(pc, pc', Completions, Holding, c)
            /\ c = Stream => Holders' = Holders
            /\ Cardinality(Holders) \in Nat
        BY <3>1, <4>1, <1>1, ActorMoves, Zenon
      <4>3. QED
        BY <3>1, <1>1, <4>2, CountsOfLabels DEF CountMoves, Counting, Holding
    <3>3. Shape(pc')
      BY <3>1, <1>1, ActorFacts DEF EagerInv, Shape, Labels
    <3>4. pc'[Stream] # "ended" \/ pc[Stream] = "ended"
      BY <3>1, <1>1, ActorFacts DEF EagerInv, Shape
    <3>5. QED
      BY <1>4, <2>2, <1>2, <3>1, <3>2, <3>3, <3>4
         DEF DropReadsFlag, EagerInv, CountExact, SlotsExact, dealer, channel
  <2>3. QED
    BY <2>1, <2>2
<1>5. CASE DropReadsCount(c)
  <2>1. pc[c] = "closing" /\ pc' = [pc EXCEPT ![c] = "idle"]
    BY <1>5 DEF DropReadsCount
  <2>2. /\ Cardinality(Counted') = Cardinality(Counted)
        /\ c \in Completions => Cardinality(Holders') = Cardinality(Holders) - 1
        /\ c = Stream => Cardinality(Holders') = Cardinality(Holders)
        /\ {Cardinality(Counted), Cardinality(Counted'), Cardinality(Holders),
            Cardinality(Holders')} \subseteq Nat
    <3>1. pc \in [Actors -> Labels] /\ "idle" \in Labels
      BY DEF EagerInv, Shape, Labels
    <3>2. /\ CountMoves(pc, pc', Actors, Counting, c) /\ pc'[c] = "idle"
          /\ c \in Completions => CountMoves(pc, pc', Completions, Holding, c)
          /\ c = Stream => Holders' = Holders
          /\ Cardinality(Holders) \in Nat
      BY <2>1, <3>1, <1>1, ActorMoves, Zenon
    <3>3. QED
      BY <2>1, <1>1, <3>2, CountsOfLabels DEF CountMoves, Counting, Holding
  <2>3. Shape(pc')
    BY <2>1, <1>1, ActorFacts DEF EagerInv, Shape, Labels
  <2>4. pc'[Stream] # "ended" \/ pc[Stream] = "ended"
    BY <2>1, <1>1, ActorFacts DEF EagerInv, Shape
  <2>5. QED
    BY <1>5, <1>2, <2>1, <2>2, <2>3, <2>4
       DEF DropReadsCount, EagerInv, CountExact, SlotsExact, dealer, channel
<1>6. QED
  BY <1>3, <1>4, <1>5 DEF Drop

\* The other steps, those of the closer, the stream and the activities.
LEMMA EagerStep == EagerInv /\ [Next]_vars => EagerInv'
<1> SUFFICES ASSUME EagerInv, [Next]_vars
             PROVE  EagerInv'
  OBVIOUS
<1>1. Stream \in Actors
  BY ActorFacts
<1>2. Slots \in Nat
  BY EagerSlotsAssumption
<1>3. ASSUME pc' = pc
      PROVE  Counted' = Counted /\ Holders' = Holders
  BY <1>3 DEF Counted, Holders, At
<1>4. Cardinality(Holders) \in Nat
  <2>1. Holders \subseteq Completions
    BY DEF Holders, At
  <2>2. QED
    BY <2>1, ActorFacts, FS_Subset, FS_CardinalityType
<1>5. CASE CloseRequest
  BY <1>3, <1>5 DEF CloseRequest, EagerInv, CountExact, SlotsExact, dealer, channel
<1>6. CASE CloseReadsCount
  BY <1>3, <1>6 DEF CloseReadsCount, EagerInv, CountExact, SlotsExact, dealer, channel
<1>7. CASE Receive
  <2>1. pc[Stream] = "idle" /\ pc' = [pc EXCEPT ![Stream] = "dropping"]
    BY <1>7 DEF Receive
  <2>2. /\ Cardinality(Counted') = Cardinality(Counted) + 1
        /\ Cardinality(Holders') = Cardinality(Holders)
        /\ {Cardinality(Counted), Cardinality(Counted'), Cardinality(Holders),
            Cardinality(Holders')} \subseteq Nat
    <3>1. pc \in [Actors -> Labels] /\ "dropping" \in Labels
      BY DEF EagerInv, Shape, Labels
    <3>2. /\ CountMoves(pc, pc', Actors, Counting, Stream) /\ pc'[Stream] = "dropping"
          /\ Holders' = Holders /\ Cardinality(Holders) \in Nat
      BY <2>1, <3>1, <1>1, ActorMoves, Zenon
    <3>3. QED
      BY <2>1, <1>1, <3>2, CountsOfLabels DEF CountMoves, Counting, Holding
  <2>3. Shape(pc')
    BY <2>1, <1>1, ActorFacts DEF EagerInv, Shape, Labels
  <2>4. pc'[Stream] = "dropping"
    BY <2>1, <1>1, ActorFacts DEF EagerInv, Shape
  <2>5. QED
    BY <1>7, <1>2, <2>1, <2>2, <2>3, <2>4
       DEF Receive, EagerInv, CountExact, SlotsExact, dealer, channel
<1>8. CASE StopAccepting
  BY <1>3, <1>8 DEF StopAccepting, EagerInv, CountExact, SlotsExact, dealer, channel
<1>9. CASE StreamEnds
  <2>1. pc[Stream] = "idle" /\ pc' = [pc EXCEPT ![Stream] = "ended"]
    BY <1>9 DEF StreamEnds
  <2>2. /\ Cardinality(Counted') = Cardinality(Counted)
        /\ Cardinality(Holders') = Cardinality(Holders)
        /\ {Cardinality(Counted), Cardinality(Counted'), Cardinality(Holders),
            Cardinality(Holders')} \subseteq Nat
    <3>1. pc \in [Actors -> Labels] /\ "ended" \in Labels
      BY DEF EagerInv, Shape, Labels
    <3>2. /\ CountMoves(pc, pc', Actors, Counting, Stream) /\ pc'[Stream] = "ended"
          /\ Holders' = Holders /\ Cardinality(Holders) \in Nat
      BY <2>1, <3>1, <1>1, ActorMoves, Zenon
    <3>3. QED
      BY <2>1, <1>1, <3>2, CountsOfLabels DEF CountMoves, Counting, Holding
  <2>3. Shape(pc')
    BY <2>1, <1>1, ActorFacts DEF EagerInv, Shape, Labels
  <2>4. pc'[Stream] = "ended"
    BY <2>1, <1>1, ActorFacts DEF EagerInv, Shape
  <2>5. QED
    BY <1>9, <1>2, <2>1, <2>2, <2>3, <2>4
       DEF StreamEnds, EagerInv, CountExact, SlotsExact, dealer, channel
<1>10. CASE ActivityDone
  BY <1>3, <1>4, <1>10 DEF ActivityDone, EagerInv, CountExact, SlotsExact, dealer, channel
<1>11. CASE UNCHANGED vars
  BY <1>3, <1>11 DEF vars, EagerInv, CountExact, SlotsExact, dealer, channel
<1>12. QED
  BY <1>5, <1>6, <1>7, <1>8, <1>9, <1>10, <1>11, CompletionStep, DropStep DEF Next

\* The invariant holds throughout.
LEMMA EagerAlways == Spec => []EagerInv
BY EagerInit, EagerStep, PTL DEF Spec

\* However the loads and stores of completions, drops and the close interleave:
\* outstanding_permits is the number of permits not yet dropped.
THEOREM PermitsCountedExactly == Spec => []CountExact
<1>1. EagerInv => CountExact
  BY DEF EagerInv
<1>2. QED
  BY <1>1, EagerAlways, PTL

\* Type correctness: the count never wraps, and slots, queued tasks and running
\* activities never exceed the slots there are.
THEOREM SlotsBounded == Spec => []TypeOK
<1>1. EagerInv => TypeOK
  <2> SUFFICES ASSUME EagerInv
               PROVE  TypeOK
    OBVIOUS
  <2>1. Holders \subseteq Completions
    BY DEF Holders, At
  <2>2. Cardinality(Holders) \in Nat
    BY <2>1, ActorFacts, FS_Subset, FS_CardinalityType
  <2>3. {available, queue, running} \subseteq 0..Slots
    BY <2>2, EagerSlotsAssumption DEF EagerInv, SlotsExact
  <2>4. QED
    BY <2>3 DEF TypeOK, EagerInv, Shape, Labels
<1>2. QED
  BY <1>1, EagerAlways, PTL

\* The eager stream ends with nothing left in the channel: it closes the channel
\* only when it is empty, and nothing is queued behind a closed receiver.
THEOREM NothingLeft == Spec => []NothingLeftInChannel
<1>1. EagerInv => NothingLeftInChannel
  BY DEF EagerInv, NothingLeftInChannel
<1>2. QED
  BY <1>1, EagerAlways, PTL

\* A completion that has not passed its check when the close is requested never
\* counts a permit.
THEOREM ClosedToNewReservations == Spec => NoNewReservation
<1>1. EagerInv /\ [Next]_vars =>
         [\A c \in Completions : close_requested /\ pc[c] = "idle" => pc'[c] = "idle"]_vars
  <2> SUFFICES ASSUME EagerInv, Next, NEW c \in Completions, close_requested, pc[c] = "idle"
               PROVE  pc'[c] = "idle"
    OBVIOUS
  <2>1. c \in Actors /\ c # Stream
    BY ActorFacts
  <2>2. pc \in [Actors -> Labels]
    BY DEF EagerInv, Shape
  <2>3. ASSUME NEW d \in Completions, Acquire(d) \/ Respond(d)
        PROVE  pc'[c] = "idle"
    BY <2>1, <2>2, <2>3, ActorFacts, Zenon DEF Acquire, Respond, CheckOpen, CountPermit, InnerGrants,
       InnerRefuses, ReturnErr, AddTask, DropReservation
  <2>4. ASSUME NEW d \in Actors, Drop(d)
        PROVE  pc'[c] = "idle"
    BY <2>1, <2>2, <2>4, Zenon DEF Drop, DropTracked, DropReadsFlag, DropReadsCount
  <2>5. CASE CloseRequest \/ CloseReadsCount \/ StopAccepting \/ ActivityDone
    BY <2>5, Zenon DEF CloseRequest, CloseReadsCount, StopAccepting, ActivityDone
  <2>6. CASE Receive \/ StreamEnds
    BY <2>1, <2>2, <2>6 DEF Receive, StreamEnds
  <2>7. QED
    BY <2>3, <2>4, <2>5, <2>6 DEF Next
<1>2. QED
  BY <1>1, EagerAlways, PTL DEF Spec, NoNewReservation
=============================================================================
