----------------------------- MODULE DeliveryProofs -----------------------------
(*****************************************************************************)
(* What Delivery promises a receiver, proved for every number of hosts and   *)
(* conditions, every subscription and every capacity.                        *)
(*                                                                           *)
(* The events under way about one condition, in the order of their numbers,  *)
(* tell how the state of the receiver becomes the state of the store: that   *)
(* story is what each step has to preserve.                                  *)
(*****************************************************************************)
EXTENDS Delivery, SequenceTheorems, FiniteSetTheorems, TLAPS

\* what is under way from apply to the receiver
Line == current \cup ToSet(queue) \cup ToSet(pending)

\* the events about c that will be offered to the endpoint
Told(c) == {e \in Line : e.cond = c /\ e.state \in events}

\* The three parts of the line follow each other in the order of the numbers;
\* the worker holds only what its endpoint subscribed to.
Ordered ==
  /\ \A e, f \in current : e = f
  /\ \A i, j \in DOMAIN queue : i < j => queue[i].n < queue[j].n
  /\ \A i, j \in DOMAIN pending : i < j => pending[i].n < pending[j].n
  /\ \A i \in DOMAIN queue, j \in DOMAIN pending : queue[i].n < pending[j].n
  /\ \A e \in current : \A i \in DOMAIN queue : e.n < queue[i].n
  /\ \A e \in current : \A j \in DOMAIN pending : e.n < pending[j].n
  /\ \A e \in Line : e.n <= bound /\ (e.state # "resolved" => e.severity # "none")
  /\ \A e \in current \cup ToSet(queue) : e.state \in events

-------------------------------------------------------------------------------
(* The story of one condition: T are the events under way about it, a is its *)
(* severity in the store, r what the receiver was told last.                 *)

Latest(T, e) == e \in T /\ \A f \in T : f.n <= e.n
Earliest(T, e) == e \in T /\ \A f \in T : e.n <= f.n
Before(T, f, e) ==
  f \in T /\ f.n < e.n /\ \A g \in T : ~(f.n < g.n /\ g.n < e.n)
Turns(T) == {e \in T : e.state \in {"opened", "resolved"}}

\* the events under way after x was published, if the endpoint hears of it
Longer(T, x, ev) == {f \in T \cup {x} : f \in T \/ x.state \in ev}

\* For an endpoint that hears of both: a condition that is over ends with its
\* recovery, and what opens follows a recovery.
EndsWell(ev, T, a, r) ==
  {"opened", "resolved"} \subseteq ev =>
    /\ a = "none" => /\ T = {} => r = "none"
                     /\ \A e \in T : Latest(T, e) => e.state = "resolved"
    /\ \A e \in T : e.state = "opened" =>
         /\ Earliest(T, e) => r = "none"
         /\ \A f \in T : Before(T, f, e) => f.state = "resolved"

\* An open condition is known, or its opening is under way and still valid.
Announced(ev, T, a, r, i) ==
  "opened" \in ev /\ a # "none" =>
    /\ Turns(T) = {} => r # "none"
    /\ \A e \in T : Latest(Turns(T), e) =>
         e.state = "opened" /\ e.incarnation = i

\* Its severity is known, or the event with it is under way and still valid.
Tracked(ev, T, a, r, i) ==
  ev = States /\ a # "none" =>
    /\ T = {} => r = a
    /\ \A e \in T : Latest(T, e) =>
         e.state # "resolved" /\ e.severity = a /\ e.incarnation = i

Story ==
  \A c \in Conditions \ tainted :
    /\ EndsWell(events, Told(c), active[c], received[c])
    /\ c \notin quiet =>
         /\ Announced(events, Told(c), active[c], received[c], incarnation[c[1]])
         /\ Tracked(events, Told(c), active[c], received[c], incarnation[c[1]])

-------------------------------------------------------------------------------

\* Only hosts of the inventory have conditions, and a muted one is quiet.
Store ==
  \A c \in Conditions :
    active[c] # "none" => /\ c[1] \in Inventory
                          /\ c \in quiet \cup tainted \/ ~Muted(c)

\* The pairing table has no duplicates, misses a condition that the receiver
\* knows only after an eviction, holds one that it does not know only after a
\* restart, and lets every recovery in hand through.
Pairing ==
  /\ \A i, j \in DOMAIN paired : paired[i] = paired[j] => i = j
  /\ IsPaired =>
       /\ \A c \in Conditions \ tainted :
            received[c] # "none" => c \in ToSet(paired) \/ saturated
       /\ \A c \in Conditions \ (tainted \cup primed) :
            c \in ToSet(paired) => received[c] # "none"
       /\ \A e \in current :
            e.state = "resolved" => e.cond \in ToSet(paired) \/ saturated

IInv == TypeOK /\ Ordered /\ Store /\ Pairing /\ Story

-------------------------------------------------------------------------------
(* Sequences *)

\* put_nowait adds the event to what is queued.
LEMMA ToSetAppend ==
  ASSUME NEW S, NEW s \in Seq(S), NEW e \in S
  PROVE  ToSet(Append(s, e)) = ToSet(s) \cup {e}
<1>1. DOMAIN s = 1 .. Len(s) /\ DOMAIN Append(s, e) = 1 .. Len(s) + 1 /\ Len(s) \in Nat
  BY LenProperties, AppendProperties
<1>2. /\ \A i \in 1 .. Len(s) : Append(s, e)[i] = s[i]
      /\ Append(s, e)[Len(s) + 1] = e
  BY AppendProperties
<1> QED
  BY <1>1, <1>2, SMT DEF ToSet

\* The first element and the rest make up the sequence.
LEMMA ToSetTail ==
  ASSUME NEW S, NEW s \in Seq(S), s # <<>>
  PROVE  /\ ToSet(s) = {Head(s)} \cup ToSet(Tail(s))
         /\ Head(s) = s[1] /\ 1 \in DOMAIN s
         /\ DOMAIN Tail(s) = 1 .. Len(s) - 1
         /\ \A i \in DOMAIN Tail(s) : Tail(s)[i] = s[i + 1] /\ i + 1 \in DOMAIN s
<1>1. /\ Tail(s) \in Seq(S) /\ Len(Tail(s)) = Len(s) - 1
      /\ \A i \in 1 .. Len(Tail(s)) : Tail(s)[i] = s[i + 1]
  BY HeadTailProperties
<1>2. DOMAIN s = 1 .. Len(s) /\ Len(s) \in Nat \ {0}
  BY LenProperties, EmptySeq
<1>3. DOMAIN Tail(s) = 1 .. Len(s) - 1
  BY <1>1, LenProperties
<1>4. Head(s) = s[1]
  BY <1>2, SMT
<1>5. ToSet(s) \subseteq {s[1]} \cup ToSet(Tail(s))
  <2> SUFFICES ASSUME NEW i \in 1 .. Len(s)
               PROVE  s[i] \in {s[1]} \cup ToSet(Tail(s))
    BY <1>2 DEF ToSet
  <2>1. CASE i = 1
    BY <2>1
  <2>2. CASE i # 1
    <3>1. i - 1 \in 1 .. Len(s) - 1 /\ (i - 1) + 1 = i
      BY <2>2, <1>2
    <3>2. i - 1 \in DOMAIN Tail(s) /\ Tail(s)[i - 1] = s[i]
      BY <3>1, <1>1, <1>3
    <3> QED
      BY <3>2 DEF ToSet
  <2> QED
    BY <2>1, <2>2
<1>6. \A i \in DOMAIN Tail(s) : Tail(s)[i] = s[i + 1] /\ i + 1 \in DOMAIN s
  BY <1>1, <1>2, <1>3
<1>7. ToSet(Tail(s)) \subseteq ToSet(s) /\ s[1] \in ToSet(s) /\ 1 \in DOMAIN s
  BY <1>2, <1>6, SMT DEF ToSet
<1> QED
  BY <1>3, <1>4, <1>5, <1>6, <1>7

\* A set of conditions is listed completely and without repetition.
LEMMA Listed ==
  ASSUME NEW S, IsFiniteSet(S)
  PROVE  /\ SetToSeq(S) \in Seq(S)
         /\ ToSet(SetToSeq(S)) = S
         /\ \A i, j \in DOMAIN SetToSeq(S) :
              SetToSeq(S)[i] = SetToSeq(S)[j] => i = j
<1> DEFINE n == Cardinality(S)
           f == SetToSeq(S)
<1>1. n \in Nat /\ ExistsBijection(1 .. n, S)
  BY FS_CardinalityType
<1>2. PICK g \in Bijection(1 .. n, S) : TRUE
  BY <1>1 DEF ExistsBijection
<1>3. g \in [1 .. n -> S] /\ IsInjective(g)
  BY <1>2 DEF Bijection, Injection, Surjection, IsInjective
<1>4. f \in [1 .. n -> S] /\ IsInjective(f)
  BY <1>3, Zenon DEF SetToSeq
<1>5. f \in Seq(S)
  BY <1>1, <1>4, SMT
<1>6. ToSet(f) = S
  <2>1. IsFiniteSet(1 .. n) /\ Cardinality(1 .. n) = n
    BY <1>1, FS_Interval
  <2>2. f \in Injection(1 .. n, S)
    BY <1>4 DEF Injection, IsInjective
  <2>3. f \in Surjection(1 .. n, S)
    BY <2>1, <2>2, FS_Injection, Zenon
  <2> QED
    BY <2>3, <1>4 DEF Surjection, ToSet
<1> QED
  BY <1>4, <1>5, <1>6 DEF IsInjective

-------------------------------------------------------------------------------
(* How a story goes on *)

\* The worker is done with the first event under way: a recovery leaves the
\* receiver without an alert, delivered or withheld.
LEMMA FirstEnds ==
  ASSUME NEW ev, NEW T \in SUBSET Event, NEW a, NEW r, NEW new, NEW e \in T,
         \A f \in T \ {e} : e.n < f.n,
         e.state = "resolved" => new = "none",
         EndsWell(ev, T, a, r)
  PROVE  EndsWell(ev, T \ {e}, a, new)
<1> DEFINE U == T \ {e}
<1> SUFFICES ASSUME {"opened", "resolved"} \subseteq ev
             PROVE  /\ a = "none" =>
                         /\ U = {} => new = "none"
                         /\ \A g \in U : Latest(U, g) => g.state = "resolved"
                    /\ \A g \in U : g.state = "opened" =>
                         /\ Earliest(U, g) => new = "none"
                         /\ \A f \in U : Before(U, f, g) => f.state = "resolved"
  BY DEF EndsWell
<1>0. \A f \in T : f.n \in Int
  BY DEF Event
<1>1. ASSUME a = "none", U = {}
      PROVE  new = "none"
  <2>1. Latest(T, e)
    BY <1>0, <1>1 DEF Latest
  <2> QED
    BY <1>1, <2>1 DEF EndsWell
<1>2. ASSUME a = "none", NEW g \in U, Latest(U, g)
      PROVE  g.state = "resolved"
  <2>1. Latest(T, g)
    BY <1>0, <1>2 DEF Latest
  <2> QED
    BY <1>2, <2>1 DEF EndsWell
<1>3. ASSUME NEW g \in U, g.state = "opened", Earliest(U, g)
      PROVE  new = "none"
  <2>1. Before(T, e, g)
    BY <1>0, <1>3 DEF Before, Earliest
  <2> QED
    BY <1>3, <2>1 DEF EndsWell
<1>4. ASSUME NEW g \in U, g.state = "opened", NEW f \in U, Before(U, f, g)
      PROVE  f.state = "resolved"
  <2>1. Before(T, f, g)
    BY <1>0, <1>4 DEF Before
  <2> QED
    BY <1>4, <2>1 DEF EndsWell
<1> QED
  BY <1>1, <1>2, <1>3, <1>4

\* apply adds the event of a change, if the endpoint hears of it, at the end.
LEMMA EndsWellGrows ==
  ASSUME NEW ev, NEW T \in SUBSET Event, NEW a, NEW r, NEW new, NEW x \in Event,
         \A f \in T : f.n < x.n,
         x.state = "resolved" <=> new = "none",
         x.state = "opened" <=> a = "none",
         EndsWell(ev, T, a, r)
  PROVE  EndsWell(ev, Longer(T, x, ev), new, r)
<1> DEFINE U == Longer(T, x, ev)
<1> USE DEF Longer
<1> SUFFICES ASSUME {"opened", "resolved"} \subseteq ev
             PROVE  /\ new = "none" =>
                         /\ U = {} => r = "none"
                         /\ \A g \in U : Latest(U, g) => g.state = "resolved"
                    /\ \A g \in U : g.state = "opened" =>
                         /\ Earliest(U, g) => r = "none"
                         /\ \A f \in U : Before(U, f, g) => f.state = "resolved"
  BY DEF EndsWell
<1>0. \A f \in T \cup {x} : f.n \in Int
  BY DEF Event
<1>1. ASSUME new = "none"
      PROVE  x \in U /\ \A g \in U : Latest(U, g) => g.state = "resolved"
  BY <1>0, <1>1 DEF Latest
<1>2. ASSUME NEW g \in U, g.state = "opened", Earliest(U, g)
      PROVE  r = "none"
  <2>1. CASE g \in T
    <3>1. Earliest(T, g)
      BY <2>1, <1>2 DEF Earliest
    <3> QED
      BY <2>1, <3>1, <1>2 DEF EndsWell
  <2>2. CASE g = x
    <3>1. a = "none" /\ T = {}
      BY <2>2, <1>0, <1>2 DEF Earliest
    <3> QED
      BY <3>1 DEF EndsWell
  <2> QED
    BY <2>1, <2>2
<1>3. ASSUME NEW g \in U, g.state = "opened", NEW f \in U, Before(U, f, g)
      PROVE  f.state = "resolved"
  <2>1. f \in T
    BY <1>0, <1>3 DEF Before
  <2>2. CASE g \in T
    <3>1. Before(T, f, g)
      BY <2>1, <2>2, <1>3 DEF Before
    <3> QED
      BY <2>1, <2>2, <3>1, <1>3 DEF EndsWell
  <2>3. CASE g = x
    <3>1. Latest(T, f) /\ a = "none"
      BY <2>1, <2>3, <1>0, <1>3 DEF Before, Latest
    <3> QED
      BY <3>1, <2>1 DEF EndsWell
  <2> QED
    BY <2>2, <2>3
<1> QED
  BY <1>1, <1>2, <1>3

\* The same step for an endpoint that waits for the opening: the opening is
\* withdrawn only if it is about an earlier host.
LEMMA AnnouncedFirst ==
  ASSUME NEW ev, NEW T \in SUBSET Event, NEW a, NEW r, NEW new, NEW i,
         NEW e \in T,
         \A f \in T \ {e} : e.n < f.n,
         \/ e.state = "resolved" \/ new # "none"
         \/ new = r /\ e.incarnation # i,
         Announced(ev, T, a, r, i)
  PROVE  Announced(ev, T \ {e}, a, new, i)
<1> DEFINE U == T \ {e}
<1> SUFFICES ASSUME "opened" \in ev, a # "none"
             PROVE  /\ Turns(U) = {} => new # "none"
                    /\ \A g \in U : Latest(Turns(U), g) =>
                         g.state = "opened" /\ g.incarnation = i
  BY DEF Announced
<1>0. \A f \in T : f.n \in Int
  BY DEF Event
<1>1. ASSUME Turns(U) = {}
      PROVE  new # "none"
  <2>1. CASE e \in Turns(T)
    <3>1. Latest(Turns(T), e)
      BY <2>1, <1>0, <1>1 DEF Turns, Latest
    <3>2. e.state = "opened" /\ e.incarnation = i
      BY <3>1 DEF Announced
    <3> QED
      BY <3>2
  <2>2. CASE e \notin Turns(T)
    <3>1. Turns(T) = {}
      BY <2>2, <1>1 DEF Turns
    <3>2. r # "none"
      BY <3>1 DEF Announced
    <3>3. e.state # "resolved"
      BY <2>2 DEF Turns
    <3>4. CASE e.incarnation = i
      BY <3>2, <3>3, <3>4
    <3>5. CASE e.incarnation # i
      BY <3>2, <3>3, <3>5
    <3> QED
      BY <3>4, <3>5
  <2> QED
    BY <2>1, <2>2
<1>2. ASSUME NEW g \in U, Latest(Turns(U), g)
      PROVE  g.state = "opened" /\ g.incarnation = i
  <2>1. Latest(Turns(T), g)
    BY <1>0, <1>2 DEF Turns, Latest
  <2> QED
    BY <2>1, <1>2 DEF Announced
<1> QED
  BY <1>1, <1>2

\* The same step for an endpoint that hears of every change.
LEMMA TrackedFirst ==
  ASSUME NEW ev, NEW T \in SUBSET Event, NEW a, NEW r, NEW new, NEW i,
         NEW e \in T,
         \A f \in T \ {e} : e.n < f.n,
         e.state = "resolved" \/ new = e.severity \/ e.incarnation # i,
         Tracked(ev, T, a, r, i)
  PROVE  Tracked(ev, T \ {e}, a, new, i)
<1> DEFINE U == T \ {e}
<1> SUFFICES ASSUME ev = States, a # "none"
             PROVE  /\ U = {} => new = a
                    /\ \A g \in U : Latest(U, g) =>
                         g.state # "resolved" /\ g.severity = a /\ g.incarnation = i
  BY DEF Tracked
<1>0. \A f \in T : f.n \in Int
  BY DEF Event
<1>1. ASSUME U = {}
      PROVE  new = a
  <2>1. Latest(T, e)
    BY <1>0, <1>1 DEF Latest
  <2> QED
    BY <2>1 DEF Tracked
<1>2. ASSUME NEW g \in U, Latest(U, g)
      PROVE  g.state # "resolved" /\ g.severity = a /\ g.incarnation = i
  <2>1. Latest(T, g)
    BY <1>0, <1>2 DEF Latest
  <2> QED
    BY <2>1, <1>2 DEF Tracked
<1> QED
  BY <1>1, <1>2

\* A change that is published at the end of the story.
LEMMA AnnouncedGrows ==
  ASSUME NEW ev, NEW T \in SUBSET Event, NEW a, NEW r, NEW new, NEW i,
         NEW x \in Event,
         \A f \in T : f.n < x.n,
         x.state = "opened" <=> a = "none",
         x.state = "resolved" <=> new = "none",
         x.incarnation = i,
         Announced(ev, T, a, r, i)
  PROVE  Announced(ev, Longer(T, x, ev), new, r, i)
<1> DEFINE U == Longer(T, x, ev)
<1> USE DEF Longer
<1> SUFFICES ASSUME "opened" \in ev, new # "none"
             PROVE  /\ Turns(U) = {} => r # "none"
                    /\ \A g \in U : Latest(Turns(U), g) =>
                         g.state = "opened" /\ g.incarnation = i
  BY DEF Announced
<1>0. \A f \in T \cup {x} : f.n \in Int
  BY DEF Event
<1>1. CASE x.state = "opened"
  <2>1. x \in Turns(U)
    BY <1>1 DEF Turns
  <2>2. \A g \in U : Latest(Turns(U), g) => g = x
    BY <2>1, <1>0 DEF Latest, Turns
  <2> QED
    BY <2>1, <2>2, <1>1
<1>2. CASE x.state # "opened"
  <2>1. a # "none" /\ Turns(U) = Turns(T)
    BY <1>2 DEF Turns
  <2>2. Turns(T) \subseteq T
    BY DEF Turns
  <2> QED
    BY <2>1, <2>2 DEF Announced, Latest
<1> QED
  BY <1>1, <1>2

\* The latest event has the severity that apply gives the condition.
LEMMA TrackedGrows ==
  ASSUME NEW ev, NEW T \in SUBSET Event, NEW r, NEW new, NEW i,
         NEW x \in Event,
         \A f \in T : f.n < x.n,
         x.state = "resolved" <=> new = "none",
         x.severity = new, x.incarnation = i
  PROVE  Tracked(ev, Longer(T, x, ev), new, r, i)
<1> DEFINE U == Longer(T, x, ev)
<1> USE DEF Longer
<1> SUFFICES ASSUME ev = States, new # "none"
             PROVE  /\ U = {} => r = new
                    /\ \A g \in U : Latest(U, g) =>
                         g.state # "resolved" /\ g.severity = new /\ g.incarnation = i
  BY DEF Tracked
<1>0. \A f \in T \cup {x} : f.n \in Int
  BY DEF Event
<1>1. x \in U
  BY DEF Event
<1>2. \A g \in U : Latest(U, g) => g = x
  BY <1>0, <1>1 DEF Latest
<1> QED
  BY <1>1, <1>2

-------------------------------------------------------------------------------
(* Steps that leave the line and the stories alone *)

\* What is under way stays, and in its order.
LEMMA LineKept ==
  ASSUME Ordered, UNCHANGED <<current, queue, pending, bound, events>>
  PROVE  Ordered' /\ Line' = Line
BY DEF Ordered, Line, ToSet

\* The table, and what it is about, stay.
LEMMA PairingKept ==
  ASSUME Pairing,
         UNCHANGED <<paired, saturated, current, received, tainted, primed, events>>
  PROVE  Pairing'
BY DEF Pairing, IsPaired, ToSet

\* The story of a condition stays where its events, its severity, what the
\* receiver knows of it and its host stay.
LEMMA StoryKept ==
  ASSUME Story, events' = events, tainted \subseteq tainted',
         NEW c \in Conditions \ tainted', Told(c)' = Told(c),
         active'[c] = active[c], received'[c] = received[c],
         active[c] # "none" => /\ incarnation'[c[1]] = incarnation[c[1]]
                               /\ c \in quiet => c \in quiet'
  PROVE  /\ EndsWell(events, Told(c), active[c], received[c])'
         /\ c \notin quiet' =>
              /\ Announced(events, Told(c), active[c], received[c],
                           incarnation[c[1]])'
              /\ Tracked(events, Told(c), active[c], received[c],
                         incarnation[c[1]])'
<1>2. EndsWell(events, Told(c), active[c], received[c])
  BY DEF Story
<1>3. EndsWell(events, Told(c), active[c], received[c])'
  BY <1>2 DEF EndsWell, Latest, Earliest, Before
<1>4. CASE active[c] = "none"
  BY <1>3, <1>4 DEF Announced, Tracked
<1>5. CASE active[c] # "none"
  <2> SUFFICES ASSUME c \notin quiet'
               PROVE  /\ Announced(events, Told(c), active[c], received[c],
                                   incarnation[c[1]])'
                      /\ Tracked(events, Told(c), active[c], received[c],
                                 incarnation[c[1]])'
    BY <1>3
  <2>1. c \notin quiet /\ incarnation'[c[1]] = incarnation[c[1]]
    BY <1>5
  <2>2. /\ Announced(events, Told(c), active[c], received[c], incarnation[c[1]])
        /\ Tracked(events, Told(c), active[c], received[c], incarnation[c[1]])
    BY <2>1 DEF Story
  <2> QED
    BY <2>1, <2>2 DEF Announced, Tracked, Latest, Turns
<1> QED
  BY <1>4, <1>5

\* The steps of the main thread and the ends of the other two change only
\* where the shutdown stands.
LEMMA ShutdownSteps ==
  ASSUME IInv,
         \/ CollectorEnds \/ WorkerEnds \/ Stop
         \/ CloseHistory \/ CloseNotifications \/ ForceStop \/ UNCHANGED vars
  PROVE  IInv'
<1> USE DEF IInv, storeVars, hostVars, overlayVars, workerVars, shutdownVars,
            ghostVars
<1>1. UNCHANGED <<active, incarnation, maintenance, action, bound, pending,
                  events, queue, paired, saturated, current, received,
                  tainted, quiet, primed>>
  BY DEF CollectorEnds, WorkerEnds, Stop, CloseHistory, CloseNotifications,
         ForceStop, vars
<1>2. TypeOK'
  <2>1. CASE UNCHANGED vars
    BY <2>1 DEF TypeOK, vars, Event
  <2>2. CASE CollectorEnds \/ WorkerEnds
    BY <2>2, <1>1 DEF TypeOK, CollectorEnds, WorkerEnds
  <2>3. CASE Stop
    BY <2>3, <1>1 DEF TypeOK, Stop, Trouble, Inventory
  <2>4. CASE CloseHistory \/ CloseNotifications \/ ForceStop
    BY <2>4, <1>1 DEF TypeOK, CloseHistory, CloseNotifications, ForceStop
  <2> QED
    BY <2>1, <2>2, <2>3, <2>4
<1>3. Ordered' /\ Line' = Line
  BY <1>1, LineKept
<1>4. Store'
  BY <1>1 DEF Store, Inventory, Muted
<1>5. Pairing'
  BY <1>1, PairingKept
<1>6. Story'
  BY <1>1, <1>3, StoryKept DEF Story, Told
<1> QED
  BY <1>2, <1>3, <1>4, <1>5, <1>6

-------------------------------------------------------------------------------
(* Operators and discovery *)

\* An action or a window silences what is open only after it made it quiet.
LEMMA OverlaySteps ==
  ASSUME IInv,
         \/ \E c \in Conditions, a \in Actions \cup {"none"} : SetAction(c, a)
         \/ \E h \in Hosts : SetMaintenance(h)
  PROVE  IInv'
<1> USE DEF IInv, storeVars, hostVars, workerVars, shutdownVars
<1>1. /\ UNCHANGED <<active, incarnation, nextIncarnation, bound, saved, pending,
                     events, queue, paired, saturated, wpc, current, attempt,
                     phase, collector, probing, forced, received, tainted,
                     primed>>
      /\ quiet \subseteq quiet'
  BY DEF SetAction, SetMaintenance, Trouble
<1>2. TypeOK'
  <2>1. CASE \E c \in Conditions, a \in Actions \cup {"none"} : SetAction(c, a)
    <3>1. PICK c \in Conditions, a \in Actions \cup {"none"} : SetAction(c, a)
      BY <2>1
    <3>2. a \in {"none", "acknowledged", "silenced"}
      BY DeliveryAssumption
    <3> QED
      BY <3>1, <3>2, <1>1 DEF TypeOK, SetAction, Trouble
  <2>2. CASE \E h \in Hosts : SetMaintenance(h)
    BY <2>2, <1>1 DEF TypeOK, SetMaintenance, Trouble
  <2> QED
    BY <2>1, <2>2
<1>3. Ordered' /\ Line' = Line
  BY <1>1, LineKept
<1>4. Store'
  <2> SUFFICES ASSUME NEW c \in Conditions, active[c] # "none"
               PROVE  c[1] \in Inventory /\ (c \in quiet' \cup tainted \/ ~Muted(c)')
    BY <1>1 DEF Store, Inventory
  <2>1. c[1] \in Inventory /\ (c \in quiet \cup tainted \/ ~Muted(c))
    BY DEF Store
  <2>2. CASE \E d \in Conditions, a \in Actions \cup {"none"} : SetAction(d, a)
    BY <2>1, <2>2, <1>1 DEF SetAction, Muted, TypeOK
  <2>3. CASE \E h \in Hosts : SetMaintenance(h)
    BY <2>1, <2>3, <1>1 DEF SetMaintenance, Muted, TypeOK
  <2> QED
    BY <2>2, <2>3
<1>5. Pairing'
  BY <1>1, PairingKept
<1>6. Story'
  BY <1>1, <1>3, StoryKept DEF Story, Told
<1> QED
  BY <1>2, <1>3, <1>4, <1>5, <1>6

\* A host that leaves takes its open conditions out of every story; one that
\* comes back has none yet.
LEMMA InventorySteps ==
  ASSUME IInv, NEW h \in Hosts, RemoveHost(h) \/ AddHost(h)
  PROVE  IInv'
<1> USE DEF IInv, storeVars, hostVars, overlayVars, workerVars, shutdownVars,
            ghostVars
<1>1. /\ UNCHANGED <<bound, saved, pending, events, queue, paired, saturated,
                     wpc, current, attempt, phase, collector, probing, forced,
                     maintenance, primed>>
      /\ tainted \subseteq tainted'
  BY DEF RemoveHost, AddHost, Taint
<1>2. TypeOK'
  <2>1. CASE RemoveHost(h)
    <3>1. active' \in [Conditions -> Severity] /\ received' \in [Conditions -> Severity]
      BY <2>1 DEF RemoveHost, TypeOK, Taint, Severity
    <3>2. action' \in [Conditions -> {"none", "acknowledged", "silenced"}]
      BY <2>1 DEF RemoveHost, TypeOK
    <3>3. incarnation' \in [Hosts -> Nat] /\ nextIncarnation' \in Nat \ {0}
      BY <2>1 DEF RemoveHost, TypeOK
    <3>4. /\ tainted' \in SUBSET Conditions /\ quiet' \in SUBSET Conditions
          /\ troubles' \in Nat
      BY <2>1 DEF RemoveHost, TypeOK, Taint, Trouble
    <3> QED
      BY <3>1, <3>2, <3>3, <3>4, <1>1 DEF TypeOK
  <2>2. CASE AddHost(h)
    BY <2>2, <1>1 DEF AddHost, TypeOK, Trouble
  <2> QED
    BY <2>1, <2>2
<1>3. Ordered' /\ Line' = Line
  BY <1>1, LineKept
<1>4. ASSUME NEW c \in Conditions \ tainted'
      PROVE  /\ active'[c] = active[c] /\ received'[c] = received[c]
             /\ active[c] # "none" => /\ incarnation'[c[1]] = incarnation[c[1]]
                                      /\ c \in quiet <=> c \in quiet'
                                      /\ Muted(c)' = Muted(c)
  <2>1. active[c] # "none" => c[1] \in Hosts /\ incarnation[c[1]] # 0
    BY DEF Store, Inventory
  <2>2. CASE RemoveHost(h)
    BY <2>1, <2>2, <1>4 DEF RemoveHost, Taint, TypeOK, Muted
  <2>3. CASE AddHost(h)
    BY <2>1, <2>3, <1>4 DEF AddHost, TypeOK, Muted, Inventory
  <2> QED
    BY <2>2, <2>3
<1>5. Store'
  <2> SUFFICES ASSUME NEW c \in Conditions, active'[c] # "none"
               PROVE  c[1] \in Inventory' /\ (c \in quiet' \cup tainted' \/ ~Muted(c)')
    BY DEF Store
  <2>1. c[1] \in Hosts
    BY DEF Hosts
  <2>2. active[c] # "none" /\ c[1] \in Inventory'
    <3>1. CASE RemoveHost(h)
      BY <2>1, <3>1 DEF RemoveHost, Store, Inventory, TypeOK
    <3>2. CASE AddHost(h)
      BY <2>1, <3>2 DEF AddHost, Store, Inventory, TypeOK
    <3> QED
      BY <3>1, <3>2
  <2>3. c \in quiet \cup tainted \/ ~Muted(c)
    BY <2>2 DEF Store
  <2> QED
    BY <2>2, <2>3, <1>1, <1>4
<1>6. Pairing'
  BY <1>1, <1>4 DEF Pairing, IsPaired, ToSet
<1>7. Story'
  BY <1>1, <1>3, <1>4, StoryKept DEF Story, Told
<1> QED
  BY <1>2, <1>3, <1>5, <1>6, <1>7

-------------------------------------------------------------------------------
(* The collector publishes *)

\* An event moves to the end of the queue, or leaves the line; then it is not
\* subscribed, or its condition is tainted.
LEMMA PublishStep ==
  ASSUME IInv, Publish
  PROVE  IInv'
<1> USE DEF IInv, storeVars, hostVars, overlayVars, shutdownVars
<1> DEFINE e == pending[1]
<1>1. /\ UNCHANGED <<active, incarnation, nextIncarnation, maintenance, action,
                     bound, saved, events, paired, saturated, wpc, current,
                     attempt, phase, collector, probing, forced, quiet, primed,
                     troubles>>
      /\ pending # <<>> /\ pending' = Tail(pending)
  BY DEF Publish
<1>2. pending \in Seq(Event) /\ queue \in Seq(Event) /\ current \in SUBSET Event
  BY DEF TypeOK
<1>3. /\ ToSet(pending) = {e} \cup ToSet(pending')
      /\ e = Head(pending) /\ 1 \in DOMAIN pending
      /\ DOMAIN pending' = 1 .. Len(pending) - 1
      /\ \A i \in DOMAIN pending' :
           pending'[i] = pending[i + 1] /\ i + 1 \in DOMAIN pending
  BY <1>1, <1>2, ToSetTail
<1>4. /\ e \in Event /\ pending' \in Seq(Event)
      /\ DOMAIN pending = 1 .. Len(pending) /\ Len(pending) \in Nat
  BY <1>1, <1>2, <1>3, HeadTailProperties, LenProperties
<1>5. \/ queue' = queue /\ (e.state \in events => e.cond \in tainted')
      \/ /\ queue' = Append(queue, e) /\ UNCHANGED <<received, tainted>>
         /\ e.state \in events
  BY <1>3 DEF Publish, Taint
<1>6. /\ tainted' \in SUBSET Conditions /\ tainted \subseteq tainted'
      /\ received' \in [Conditions -> Severity]
      /\ \A c \in Conditions \ tainted' : received'[c] = received[c]
  <2>1. e.cond \in Conditions
    BY <1>4 DEF Event
  <2> QED
    BY <2>1, <1>3 DEF Publish, Taint, TypeOK, Severity
<1>7. queue' \in Seq(Event)
  BY <1>2, <1>4, <1>5, AppendProperties
<1>8. TypeOK'
  BY <1>1, <1>4, <1>6, <1>7 DEF TypeOK
<1>9. \/ queue' = queue
      \/ /\ queue' = Append(queue, e) /\ ToSet(queue') = ToSet(queue) \cup {e}
         /\ DOMAIN queue = 1 .. Len(queue) /\ Len(queue) \in Nat
         /\ DOMAIN queue' = 1 .. Len(queue) + 1
         /\ \A i \in DOMAIN queue : queue'[i] = queue[i]
         /\ queue'[Len(queue) + 1] = e
  <2>1. CASE queue' = Append(queue, e)
    <3>1. ToSet(queue') = ToSet(queue) \cup {e}
      BY <2>1, <1>2, <1>4, ToSetAppend
    <3>2. DOMAIN queue = 1 .. Len(queue) /\ Len(queue) \in Nat
      BY <1>2, LenProperties
    <3>3. /\ Len(queue') = Len(queue) + 1
          /\ \A i \in 1 .. Len(queue) : queue'[i] = queue[i]
          /\ queue'[Len(queue) + 1] = e
      BY <2>1, <1>2, <1>4, AppendProperties
    <3>4. DOMAIN queue' = 1 .. Len(queue')
      BY <1>7, LenProperties
    <3> QED
      BY <2>1, <3>1, <3>2, <3>3, <3>4
  <2> QED
    BY <2>1, <1>5
<1>10. Line' \subseteq Line /\ (Line' = Line \/ queue' = queue)
  BY <1>1, <1>3, <1>9 DEF Line
<1>11. Ordered'
  <2>1. \A i, j \in DOMAIN pending' : i < j => pending'[i].n < pending'[j].n
    BY <1>3, <1>4 DEF Ordered
  <2>2. \A j \in DOMAIN pending' : e.n < pending'[j].n
    BY <1>3, <1>4 DEF Ordered
  <2>3. \A f \in current : \A j \in DOMAIN pending' : f.n < pending'[j].n
    BY <1>3 DEF Ordered
  <2>4. \A i \in DOMAIN queue, j \in DOMAIN pending' : queue[i].n < pending'[j].n
    BY <1>3 DEF Ordered
  <2>5. CASE queue' = queue
    BY <2>1, <2>3, <2>4, <2>5, <1>1, <1>10 DEF Ordered
  <2>6. CASE queue' # queue
    <3>1. \A i \in DOMAIN queue : queue[i].n < e.n
      BY <1>3 DEF Ordered
    <3>2. \A i, j \in DOMAIN queue' : i < j => queue'[i].n < queue'[j].n
      BY <2>6, <3>1, <1>9 DEF Ordered
    <3>3. \A i \in DOMAIN queue', j \in DOMAIN pending' :
            queue'[i].n < pending'[j].n
      BY <2>2, <2>4, <2>6, <1>9
    <3>4. \A f \in current : f.n < e.n
      BY <1>3 DEF Ordered
    <3>5. \A f \in current : \A i \in DOMAIN queue' : f.n < queue'[i].n
      BY <2>6, <3>4, <1>9 DEF Ordered
    <3>6. \A f \in current \cup ToSet(queue') : f.state \in events
      BY <2>6, <1>5, <1>9 DEF Ordered
    <3> QED
      BY <2>1, <2>3, <3>2, <3>3, <3>5, <3>6, <1>1, <1>10 DEF Ordered
  <2> QED
    BY <2>5, <2>6
<1>12. ASSUME NEW c \in Conditions \ tainted'
       PROVE  Told(c)' = Told(c)
  <2>1. \A f \in Line : f # e => f \in Line'
    BY <1>1, <1>3, <1>9 DEF Line
  <2>2. e.cond = c /\ e.state \in events => e \in Line'
    BY <1>5, <1>9, <1>12 DEF Line
  <2> QED
    BY <2>1, <2>2, <1>1, <1>10 DEF Told
<1>13. Store'
  BY <1>1, <1>6 DEF Store, Inventory, Muted
<1>14. Pairing'
  BY <1>1, <1>6 DEF Pairing, IsPaired, ToSet
<1>15. Story'
  BY <1>1, <1>6, <1>12, StoryKept DEF Story
<1> QED
  BY <1>8, <1>11, <1>13, <1>14, <1>15

-------------------------------------------------------------------------------
(* The worker *)

\* When the worker is done with the first event under way, the other stories
\* stay, and the one about its condition goes on if a recovery leaves the
\* receiver without an alert, and any other event was delivered or withdrawn
\* for a reason.
LEMMA StoryFirst ==
  ASSUME TypeOK, Story, tainted \subseteq tainted', quiet \subseteq quiet',
         UNCHANGED <<events, active, incarnation>>,
         NEW e \in Line, e.state \in events, Line' = Line \ {e},
         \A f \in Line' : e.n < f.n,
         \A c \in Conditions \ tainted' : c # e.cond => received'[c] = received[c],
         e.cond \notin tainted' =>
           /\ e.state = "resolved" => received'[e.cond] = "none"
           /\ \/ e.state = "resolved" \/ e.cond \in quiet'
              \/ active[e.cond] = "none"
              \/ received'[e.cond] = e.severity /\ e.severity # "none"
              \/ /\ received'[e.cond] = received[e.cond]
                 /\ e.incarnation # incarnation[e.cond[1]]
  PROVE  Story'
<1> SUFFICES ASSUME NEW c \in Conditions \ tainted'
             PROVE  /\ EndsWell(events, Told(c), active[c], received[c])'
                    /\ c \notin quiet' =>
                         /\ Announced(events, Told(c), active[c], received[c],
                                      incarnation[c[1]])'
                         /\ Tracked(events, Told(c), active[c], received[c],
                                    incarnation[c[1]])'
  BY DEF Story
<1>1. Line \subseteq Event
  BY DEF TypeOK, Line, ToSet
<1>2. CASE e \notin Told(c)
  <2>1. Told(c)' = Told(c)
    BY <1>2 DEF Told
  <2>2. c # e.cond
    BY <1>2 DEF Told
  <2> QED
    BY <2>1, <2>2, StoryKept
<1>3. CASE e \in Told(c)
  <2> DEFINE T == Told(c)
             i == incarnation[c[1]]
  <2>1. /\ T \in SUBSET Event /\ e.cond = c
        /\ Told(c)' = T \ {e} /\ \A f \in T \ {e} : e.n < f.n
    BY <1>1, <1>3 DEF Told
  <2>2. EndsWell(events, T, active[c], received[c])
    BY DEF Story
  <2>3. EndsWell(events, T \ {e}, active[c], received'[c])
    BY <2>1, <2>2, <1>3, FirstEnds
  <2>4. ASSUME c \notin quiet', active[c] # "none"
        PROVE  /\ Announced(events, T \ {e}, active[c], received'[c], i)
               /\ Tracked(events, T \ {e}, active[c], received'[c], i)
    <3>1. /\ Announced(events, T, active[c], received[c], i)
          /\ Tracked(events, T, active[c], received[c], i)
      BY <2>4 DEF Story
    <3>2. \/ e.state = "resolved"
          \/ received'[c] = e.severity /\ e.severity # "none"
          \/ received'[c] = received[c] /\ e.incarnation # i
      BY <2>1, <2>4
    <3>3. Announced(events, T \ {e}, active[c], received'[c], i)
      BY <2>1, <3>1, <3>2, <1>3, AnnouncedFirst
    <3>4. Tracked(events, T \ {e}, active[c], received'[c], i)
      BY <2>1, <3>1, <3>2, <1>3, TrackedFirst
    <3> QED
      BY <3>3, <3>4
  <2>5. ASSUME active[c] = "none"
        PROVE  /\ Announced(events, T \ {e}, active[c], received'[c], i)
               /\ Tracked(events, T \ {e}, active[c], received'[c], i)
    BY <2>5 DEF Announced, Tracked
  <2> QED
    BY <2>1, <2>3, <2>4, <2>5
<1> QED
  BY <1>2, <1>3

\* What is released from the worker's hand is the first event under way.
LEMMA CurrentReleased ==
  ASSUME TypeOK, Ordered, NEW e \in current, current' = {},
         UNCHANGED <<queue, pending, bound, events>>
  PROVE  /\ Ordered'
         /\ Line' = Line \ {e} /\ \A f \in Line' : e.n < f.n
         /\ e \in Line /\ e \in Event /\ e.cond \in Conditions
         /\ e.state \in events /\ (e.state # "resolved" => e.severity # "none")
<1>1. \A f \in current : f = e
  BY DEF Ordered
<1>2. \A f \in ToSet(queue) \cup ToSet(pending) : e.n < f.n
  BY DEF Ordered, ToSet
<1>3. e \in Event /\ e.n \in Int
  BY DEF TypeOK, Event
<1>4. e \notin ToSet(queue) \cup ToSet(pending)
  BY <1>2, <1>3
<1>5. Line' = ToSet(queue) \cup ToSet(pending) /\ Line = {e} \cup Line'
  BY <1>1 DEF Line
<1>6. Ordered'
  BY <1>5 DEF Ordered
<1> QED
  BY <1>2, <1>3, <1>4, <1>5, <1>6 DEF Event, Ordered

\* The worker takes the first event of the queue, or withholds the recovery
\* of a condition that the receiver does not know.
LEMMA TakeStep ==
  ASSUME IInv, Take
  PROVE  IInv'
<1> USE DEF IInv, storeVars, hostVars, overlayVars, shutdownVars, ghostVars
<1> DEFINE e == queue[1]
<1>1. /\ UNCHANGED <<active, incarnation, nextIncarnation, maintenance, action,
                     bound, saved, events, paired, saturated, pending, phase,
                     collector, probing, forced, received, tainted, quiet,
                     primed, troubles>>
      /\ queue # <<>> /\ queue' = Tail(queue) /\ wpc = "idle" /\ current = {}
  BY DEF Take, TypeOK
<1>2. pending \in Seq(Event) /\ queue \in Seq(Event)
  BY DEF TypeOK
<1>3. /\ ToSet(queue) = {e} \cup ToSet(queue')
      /\ e = Head(queue) /\ 1 \in DOMAIN queue
      /\ DOMAIN queue' = 1 .. Len(queue) - 1
      /\ \A i \in DOMAIN queue' :
           queue'[i] = queue[i + 1] /\ i + 1 \in DOMAIN queue
  BY <1>1, <1>2, ToSetTail
<1>4. /\ e \in Event /\ queue' \in Seq(Event)
      /\ DOMAIN queue = 1 .. Len(queue) /\ Len(queue) \in Nat
  BY <1>1, <1>2, <1>3, HeadTailProperties, LenProperties
<1>5. \/ Unpaired(e) /\ UNCHANGED <<wpc, current, attempt>>
      \/ ~Unpaired(e) /\ wpc' = "gate" /\ current' = {e} /\ attempt' = 0
  BY <1>3 DEF Take
<1>6. TypeOK'
  <2>1. 0 \in 0 .. MaxAttempts - 1
    BY DeliveryAssumption
  <2> QED
    BY <2>1, <1>1, <1>4, <1>5 DEF TypeOK
<1>7. /\ \A i, j \in DOMAIN queue' : i < j => queue'[i].n < queue'[j].n
      /\ \A i \in DOMAIN queue' : e.n < queue'[i].n
      /\ \A i \in DOMAIN queue', j \in DOMAIN pending : queue'[i].n < pending[j].n
      /\ \A j \in DOMAIN pending : e.n < pending[j].n
      /\ e.state \in events
  BY <1>3, <1>4 DEF Ordered
<1>8. Line' \subseteq Line /\ Line = {e} \cup Line'
  BY <1>1, <1>3, <1>5 DEF Line
<1>9. Ordered'
  <2>1. \A f \in current' : f = e
    BY <1>1, <1>5
  <2>2. \A f \in current' \cup ToSet(queue') : f.state \in events
    BY <2>1, <1>3 DEF Ordered
  <2> QED
    BY <2>1, <2>2, <1>1, <1>7, <1>8 DEF Ordered
<1>10. Store'
  BY <1>1 DEF Store, Inventory, Muted
<1>11. Pairing'
  BY <1>1, <1>5 DEF Pairing, IsPaired, ToSet, Unpaired
<1>12. Story'
  <2>1. CASE ~Unpaired(e)
    <3>1. Line' = Line
      BY <2>1, <1>5, <1>8 DEF Line
    <3> QED
      BY <3>1, <1>1, StoryKept DEF Story, Told
  <2>2. CASE Unpaired(e)
    <3>1. /\ e.state = "resolved" /\ e.cond \in Conditions
          /\ e.cond \notin tainted => received[e.cond] = "none"
      BY <2>2, <1>4 DEF Unpaired, Pairing, Event
    <3>2. \A f \in Line' : e.n < f.n
      BY <2>2, <1>1, <1>5, <1>7 DEF Line, ToSet
    <3>3. e.n \in Int
      BY <1>4 DEF Event
    <3>4. e \in Line /\ Line' = Line \ {e}
      BY <3>2, <3>3, <1>8
    <3> QED
      BY <3>1, <3>2, <3>4, <1>1, <1>7, StoryFirst
  <2> QED
    BY <2>1, <2>2
<1> QED
  BY <1>6, <1>9, <1>10, <1>11, <1>12

\* The gate lets an event pass, or withdraws one that is about an earlier host
\* or generation, is muted or forgotten.
LEMMA GateStep ==
  ASSUME IInv, NEW e \in current, Gate(e)
  PROVE  IInv'
<1> USE DEF IInv, storeVars, hostVars, overlayVars, shutdownVars
<1>1. /\ UNCHANGED <<active, incarnation, nextIncarnation, maintenance, action,
                     bound, saved, events, paired, saturated, pending, queue,
                     phase, collector, probing, forced, primed, troubles>>
      /\ tainted \subseteq tainted' /\ quiet \subseteq quiet'
  BY DEF Gate, Taint
<1>2. e \in Event /\ e.cond \in Conditions
  BY DEF TypeOK, Event
<1>3. /\ TypeOK'
      /\ \A c \in Conditions \ tainted' : received'[c] = received[c]
  <2>1. /\ tainted' \in SUBSET Conditions /\ quiet' \in SUBSET Conditions
        /\ received' \in [Conditions -> Severity]
        /\ \A c \in Conditions \ tainted' : received'[c] = received[c]
    BY <1>2 DEF Gate, Taint, TypeOK, Severity
  <2>2. /\ current' \in SUBSET Event /\ attempt' \in 0 .. MaxAttempts - 1
        /\ wpc' \in {"idle", "gate", "sending", "ended"}
        /\ current' = {} <=> wpc' \in {"idle", "ended"}
    <3>1. 0 \in 0 .. MaxAttempts - 1
      BY DeliveryAssumption
    <3> QED
      BY <3>1 DEF Gate, Release, TypeOK
  <2> QED
    BY <2>1, <2>2, <1>1 DEF TypeOK
<1>4. Store'
  BY <1>1 DEF Store, Inventory, Muted
<1>5. CASE wpc' = "sending"
  <2>1. UNCHANGED <<current, received, tainted, quiet>>
    BY <1>5 DEF Gate, Release
  <2>2. Ordered' /\ Line' = Line
    BY <2>1, <1>1, LineKept
  <2>3. Pairing'
    BY <2>1, <1>1, PairingKept
  <2>4. Story'
    BY <2>1, <2>2, <1>1, StoryKept DEF Story, Told
  <2> QED
    BY <2>2, <2>3, <2>4, <1>3, <1>4
<1>6. CASE wpc' # "sending"
  <2>1. /\ current' = {}
        /\ \/ e.cond \in tainted'
           \/ /\ ~StillActionable(e) /\ tainted' = tainted
              /\ quiet' = IF Forgotten(e) /\ active[e.cond] # "none"
                          THEN quiet \cup {e.cond} ELSE quiet
    BY <1>6 DEF Gate, Release, Taint
  <2>2. /\ Ordered'
        /\ Line' = Line \ {e} /\ \A f \in Line' : e.n < f.n
        /\ e \in Line /\ e.state \in events
    BY <2>1, <1>1, CurrentReleased
  <2>3. Pairing'
    BY <2>1, <1>1, <1>3 DEF Pairing, IsPaired, ToSet
  <2>4. e.cond \notin tainted' =>
          /\ e.state # "resolved"
          /\ \/ e.cond \in quiet' \/ active[e.cond] = "none"
             \/ e.incarnation # incarnation[e.cond[1]]
    BY <2>1, <1>2 DEF StillActionable, Store
  <2>5. Story'
    BY <2>2, <2>4, <1>1, <1>2, <1>3, StoryFirst
  <2> QED
    BY <2>2, <2>3, <2>5, <1>3, <1>4
<1> QED
  BY <1>5, <1>6

\* Removing one place of a sequence without duplicates removes one element.
LEMMA RemovedAt ==
  ASSUME NEW S, NEW s \in Seq(S), NEW k \in DOMAIN s,
         \A i, j \in DOMAIN s : s[i] = s[j] => i = j
  PROVE  /\ RemoveAt(s, k) \in Seq(S) /\ Len(RemoveAt(s, k)) = Len(s) - 1
         /\ ToSet(RemoveAt(s, k)) = ToSet(s) \ {s[k]}
         /\ \A i, j \in DOMAIN RemoveAt(s, k) :
              RemoveAt(s, k)[i] = RemoveAt(s, k)[j] => i = j
<1> DEFINE a == SubSeq(s, 1, k - 1)
           b == SubSeq(s, k + 1, Len(s))
           r == RemoveAt(s, k)
           n == Len(s)
<1>1. /\ n \in Nat /\ DOMAIN s = 1 .. n /\ k \in 1 .. n
      /\ \A i \in 1 .. n : s[i] \in S
  BY LenProperties
<1>2. /\ a \in Seq(S) /\ Len(a) = k - 1
      /\ \A i \in 1 .. k - 1 : a[i] = s[i]
  <2>1. /\ a \in Seq(S) /\ Len(a) = IF 1 <= k - 1 THEN k - 1 - 1 + 1 ELSE 0
        /\ \A i \in 1 .. k - 1 - 1 + 1 : a[i] = s[1 + i - 1]
    BY <1>1, SubSeqProperties
  <2> QED
    BY <2>1, <1>1
<1>3. /\ b \in Seq(S) /\ Len(b) = n - k
      /\ \A i \in 1 .. n - k : b[i] = s[k + i]
  <2>1. /\ b \in Seq(S) /\ Len(b) = IF k + 1 <= n THEN n - (k + 1) + 1 ELSE 0
        /\ \A i \in 1 .. n - (k + 1) + 1 : b[i] = s[(k + 1) + i - 1]
    BY <1>1, SubSeqProperties
  <2> QED
    BY <2>1, <1>1
<1>4. /\ r \in Seq(S) /\ Len(r) = n - 1
      /\ \A i \in 1 .. n - 1 : r[i] = IF i <= k - 1 THEN a[i] ELSE b[i - (k - 1)]
  <2>0. a \in Seq(S) /\ b \in Seq(S)
    BY <1>2, <1>3
  <2>1. r = a \o b
    BY DEF RemoveAt
  <2> HIDE DEF a, b, r
  <2>2. /\ a \o b \in Seq(S) /\ Len(a \o b) = Len(a) + Len(b)
        /\ \A i \in 1 .. Len(a) + Len(b) :
             (a \o b)[i] = IF i <= Len(a) THEN a[i] ELSE b[i - Len(a)]
    BY <2>0, ConcatProperties, Zenon
  <2>3. Len(a) + Len(b) = n - 1
    BY <1>1, <1>2, <1>3
  <2> QED
    BY <2>1, <2>2, <2>3, <1>2
<1>5. DOMAIN r = 1 .. n - 1
  BY <1>4, LenProperties
<1> HIDE DEF a, b, r, n
<1>6. \A i \in 1 .. n - 1 : r[i] = IF i < k THEN s[i] ELSE s[i + 1]
  <2> SUFFICES ASSUME NEW i \in 1 .. n - 1
               PROVE  r[i] = IF i < k THEN s[i] ELSE s[i + 1]
    OBVIOUS
  <2>1. CASE i < k
    <3>1. i <= k - 1 /\ i \in 1 .. k - 1
      BY <2>1, <1>1
    <3> QED
      BY <2>1, <3>1, <1>2, <1>4
  <2>2. CASE ~(i < k)
    <3>1. /\ ~(i <= k - 1) /\ i - (k - 1) \in 1 .. n - k
          /\ k + (i - (k - 1)) = i + 1
      BY <2>2, <1>1
    <3> QED
      BY <2>2, <3>1, <1>3, <1>4
  <2> QED
    BY <2>1, <2>2
<1>7. ASSUME NEW i \in DOMAIN r
      PROVE  r[i] \in ToSet(s) /\ r[i] # s[k]
  <2> DEFINE j == IF i < k THEN i ELSE i + 1
  <2>1. j \in DOMAIN s /\ j # k /\ r[i] = s[j]
    BY <1>1, <1>5, <1>6
  <2> HIDE DEF j
  <2> QED
    BY <2>1 DEF ToSet
<1>8. ASSUME NEW j \in 1 .. n, s[j] # s[k]
      PROVE  s[j] \in ToSet(r)
  <2>1. CASE j < k
    <3>1. j \in DOMAIN r /\ r[j] = s[j]
      BY <2>1, <1>1, <1>5, <1>6
    <3> QED
      BY <3>1 DEF ToSet
  <2>2. CASE j > k
    <3>1. j - 1 \in DOMAIN r /\ r[j - 1] = s[j]
      BY <2>2, <1>1, <1>5, <1>6
    <3> QED
      BY <3>1 DEF ToSet
  <2> QED
    BY <2>1, <2>2, <1>1, <1>8
<1>9. ToSet(s) \ {s[k]} \subseteq ToSet(r)
  BY <1>1, <1>8 DEF ToSet
<1>10. ASSUME NEW i \in DOMAIN r, NEW j \in DOMAIN r, r[i] = r[j]
       PROVE  i = j
  <2> DEFINE at(x) == IF x < k THEN x ELSE x + 1
  <2>1. \A x \in 1 .. n - 1 : at(x) \in 1 .. n /\ r[x] = s[at(x)]
    BY <1>1, <1>6
  <2>2. at(i) = at(j)
    BY <2>1, <1>1, <1>5, <1>10
  <2> QED
    BY <2>2, <1>1, <1>5
<1>11. ToSet(r) \subseteq ToSet(s) \ {s[k]}
  BY <1>7 DEF ToSet
<1> QED
  BY <1>4, <1>9, <1>10, <1>11 DEF r, n

\* pop(condition_key, None) takes exactly one condition out of the table.
LEMMA Popped ==
  ASSUME paired \in Seq(Conditions), NEW c,
         \A i, j \in DOMAIN paired : paired[i] = paired[j] => i = j
  PROVE  /\ PairedWithout(c) \in Seq(Conditions)
         /\ Len(PairedWithout(c)) <= Len(paired)
         /\ ToSet(PairedWithout(c)) = ToSet(paired) \ {c}
         /\ \A i, j \in DOMAIN PairedWithout(c) :
              PairedWithout(c)[i] = PairedWithout(c)[j] => i = j
<1>0. Len(paired) \in Nat
  BY LenProperties
<1>1. CASE c \in ToSet(paired)
  <2> DEFINE k == CHOOSE i \in DOMAIN paired : paired[i] = c
  <2>1. k \in DOMAIN paired /\ paired[k] = c
    BY <1>1 DEF ToSet
  <2>2. PairedWithout(c) = RemoveAt(paired, k)
    BY <1>1 DEF PairedWithout
  <2> QED
    BY <2>1, <2>2, <1>0, RemovedAt
<1>2. CASE c \notin ToSet(paired)
  BY <1>0, <1>2 DEF PairedWithout
<1> QED
  BY <1>1, <1>2

\* The table stays within its capacity and without duplicates; it loses what
\* it does not have to forget only when it overflows, and remembers that.
LEMMA PairEffect ==
  ASSUME TypeOK, NEW e \in Event, IsPaired, Pair(e),
         \A i, j \in DOMAIN paired : paired[i] = paired[j] => i = j
  PROVE  LET wanted == (ToSet(paired) \ {e.cond})
                         \cup (IF e.state = "resolved" THEN {} ELSE {e.cond})
         IN /\ paired' \in Seq(Conditions) /\ Len(paired') <= PairSize
            /\ saturated' \in BOOLEAN /\ (saturated => saturated')
            /\ ToSet(paired') \subseteq wanted
            /\ ToSet(paired') = wanted \/ saturated'
            /\ \A i, j \in DOMAIN paired' : paired'[i] = paired'[j] => i = j
<1> DEFINE c == e.cond
           o == PairedWithout(c)
           all == IF e.state = "resolved" THEN o ELSE Append(o, c)
           wanted == (ToSet(paired) \ {c})
                       \cup (IF e.state = "resolved" THEN {} ELSE {c})
<1>0. /\ c \in Conditions /\ PairSize \in Nat \ {0} /\ saturated \in BOOLEAN
      /\ paired \in Seq(Conditions) /\ Len(paired) <= PairSize
      /\ Len(paired) \in Nat
  BY DeliveryAssumption, LenProperties DEF Event, TypeOK
<1>1. /\ o \in Seq(Conditions) /\ Len(o) <= Len(paired) /\ Len(o) \in Nat
      /\ ToSet(o) = ToSet(paired) \ {c}
      /\ \A i, j \in DOMAIN o : o[i] = o[j] => i = j
  BY <1>0, Popped, LenProperties
<1>2. /\ all \in Seq(Conditions) /\ Len(all) <= PairSize + 1
      /\ ToSet(all) = wanted
      /\ \A i, j \in DOMAIN all : all[i] = all[j] => i = j
  <2>1. CASE e.state = "resolved"
    BY <2>1, <1>0, <1>1
  <2>2. CASE e.state # "resolved"
    <3>1. /\ all \in Seq(Conditions) /\ Len(all) = Len(o) + 1
          /\ \A i \in 1 .. Len(o) : all[i] = o[i]
          /\ all[Len(o) + 1] = c
      BY <2>2, <1>0, <1>1, AppendProperties
    <3>2. ToSet(all) = wanted
      BY <2>2, <1>0, <1>1, ToSetAppend
    <3>3. DOMAIN all = 1 .. Len(o) + 1 /\ DOMAIN o = 1 .. Len(o)
      BY <3>1, <1>1, LenProperties
    <3>4. \A i \in DOMAIN o : o[i] # c
      BY <1>1 DEF ToSet
    <3>5. ASSUME NEW i \in DOMAIN all, NEW j \in DOMAIN all, all[i] = all[j]
          PROVE  i = j
      <4>1. CASE i \in DOMAIN o /\ j \in DOMAIN o
        BY <4>1, <3>1, <3>3, <3>5, <1>1
      <4>2. CASE i = Len(o) + 1 /\ j \in DOMAIN o
        BY <4>2, <3>1, <3>3, <3>4, <3>5
      <4>3. CASE i \in DOMAIN o /\ j = Len(o) + 1
        BY <4>3, <3>1, <3>3, <3>4, <3>5
      <4>4. CASE i = Len(o) + 1 /\ j = Len(o) + 1
        BY <4>4
      <4> QED
        BY <4>1, <4>2, <4>3, <4>4, <3>3, <1>1
    <3> QED
      BY <3>1, <3>2, <3>5, <1>0, <1>1
  <2> QED
    BY <2>1, <2>2
<1>3. Len(all) \in Nat
  BY <1>2, LenProperties
<1>4. /\ paired' = IF Len(all) > PairSize THEN Tail(all) ELSE all
      /\ saturated' = (saturated \/ Len(all) > PairSize)
  BY DEF Pair
<1> HIDE DEF all, o
<1>5. CASE Len(all) > PairSize
  <2>1. all # <<>> /\ paired' = Tail(all)
    BY <1>0, <1>4, <1>5, EmptySeq
  <2>2. /\ paired' \in Seq(Conditions) /\ Len(paired') = Len(all) - 1
    BY <2>1, <1>2, HeadTailProperties
  <2>3. /\ ToSet(all) = {Head(all)} \cup ToSet(paired')
        /\ DOMAIN paired' = 1 .. Len(all) - 1
        /\ \A i \in DOMAIN paired' :
             paired'[i] = all[i + 1] /\ i + 1 \in DOMAIN all
    BY <2>1, <1>2, ToSetTail
  <2>4. \A i, j \in DOMAIN paired' : paired'[i] = paired'[j] => i = j
    BY <2>3, <1>2, <1>3
  <2>5. saturated' = TRUE /\ ToSet(paired') \subseteq wanted
    BY <2>3, <1>2, <1>4, <1>5
  <2>6. Len(paired') <= PairSize
    BY <2>2, <1>0, <1>2, <1>3
  <2> QED
    BY <2>2, <2>4, <2>5, <2>6
<1>6. CASE ~(Len(all) > PairSize)
  BY <1>0, <1>2, <1>3, <1>4, <1>6
<1> QED
  BY <1>5, <1>6

\* A delivery tells the receiver the state of the event and pairs it.
LEMMA DeliveredStep ==
  ASSUME IInv, NEW e \in current, Delivered(e)
  PROVE  IInv'
<1> USE DEF IInv, storeVars, hostVars, overlayVars, shutdownVars
<1> DEFINE c == e.cond
<1>1. /\ UNCHANGED <<active, incarnation, nextIncarnation, maintenance, action,
                     bound, saved, events, pending, queue, phase, collector,
                     probing, forced, tainted, quiet, primed, troubles>>
      /\ current' = {} /\ wpc' = "idle" /\ attempt' = 0 /\ Pair(e)
  BY DEF Delivered, Release
<1>2. /\ Ordered'
      /\ Line' = Line \ {e} /\ \A f \in Line' : e.n < f.n
      /\ e \in Line /\ e \in Event /\ c \in Conditions
      /\ e.state \in events /\ (e.state # "resolved" => e.severity # "none")
  BY <1>1, CurrentReleased
<1>3. received' = [received EXCEPT ![c] =
        IF e.state = "resolved" \/ c \in tainted THEN "none" ELSE e.severity]
  BY DEF Delivered
<1>4. /\ received' \in [Conditions -> Severity]
      /\ \A d \in Conditions : d # c => received'[d] = received[d]
      /\ c \notin tainted =>
           received'[c] = IF e.state = "resolved" THEN "none" ELSE e.severity
  BY <1>2, <1>3 DEF TypeOK, Event, Severity
<1>5. /\ paired \in Seq(Conditions) /\ Len(paired) <= PairSize
      /\ saturated \in BOOLEAN
      /\ \A i, j \in DOMAIN paired : paired[i] = paired[j] => i = j
  BY DEF TypeOK, Pairing
<1>6. /\ paired' \in Seq(Conditions) /\ Len(paired') <= PairSize
      /\ saturated' \in BOOLEAN
      /\ \A i, j \in DOMAIN paired' : paired'[i] = paired'[j] => i = j
  <2>1. CASE IsPaired
    BY <2>1, <1>1, <1>2, <1>5, PairEffect
  <2>2. CASE ~IsPaired
    BY <2>2, <1>1, <1>5 DEF Pair
  <2> QED
    BY <2>1, <2>2
<1>7. TypeOK'
  <2>1. 0 \in 0 .. MaxAttempts - 1
    BY DeliveryAssumption
  <2> QED
    BY <2>1, <1>1, <1>4, <1>6 DEF TypeOK
<1>8. Store'
  BY <1>1 DEF Store, Inventory, Muted
<1>9. Pairing'
  <2> SUFFICES ASSUME IsPaired
               PROVE  /\ \A d \in Conditions \ tainted :
                           received'[d] # "none" => d \in ToSet(paired') \/ saturated'
                      /\ \A d \in Conditions \ (tainted \cup primed) :
                           d \in ToSet(paired') => received'[d] # "none"
    BY <1>1, <1>6 DEF Pairing, IsPaired
  <2> DEFINE wanted == (ToSet(paired) \ {c})
                         \cup (IF e.state = "resolved" THEN {} ELSE {c})
  <2>1. /\ saturated => saturated'
        /\ ToSet(paired') \subseteq wanted
        /\ ToSet(paired') = wanted \/ saturated'
    BY <1>1, <1>2, <1>5, PairEffect
  <2>2. ASSUME NEW d \in Conditions \ tainted, received'[d] # "none"
        PROVE  d \in wanted \/ saturated
    BY <2>2, <1>4 DEF Pairing
  <2>3. ASSUME NEW d \in Conditions \ (tainted \cup primed), d \in wanted
        PROVE  received'[d] # "none"
    BY <2>3, <1>2, <1>4 DEF Pairing
  <2> HIDE DEF wanted
  <2> QED
    BY <2>1, <2>2, <2>3
<1>10. Story'
  <2>1. c \notin tainted' =>
          /\ e.state = "resolved" => received'[c] = "none"
          /\ e.state # "resolved" =>
               received'[c] = e.severity /\ e.severity # "none"
    BY <1>1, <1>2, <1>4
  <2> QED
    BY <2>1, <1>1, <1>2, <1>4, StoryFirst
<1> QED
  BY <1>2, <1>7, <1>8, <1>9, <1>10

\* A failed request is retried, given up, or leaves the receiver in doubt.
LEMMA FailsStep ==
  ASSUME IInv, NEW e \in current, Fails(e)
  PROVE  IInv'
<1> USE DEF IInv, storeVars, hostVars, overlayVars, shutdownVars
<1>1. /\ UNCHANGED <<active, incarnation, nextIncarnation, maintenance, action,
                     bound, saved, events, paired, saturated, pending, queue,
                     phase, collector, probing, forced, quiet, primed, troubles>>
      /\ wpc = "sending" /\ tainted \subseteq tainted'
  BY DEF Fails, Taint
<1>2. e \in Event /\ e.cond \in Conditions
  BY DEF TypeOK, Event
<1>3. /\ tainted' \in SUBSET Conditions
      /\ received' \in [Conditions -> Severity]
      /\ \A c \in Conditions \ tainted' : received'[c] = received[c]
  BY <1>2 DEF Fails, Taint, TypeOK, Severity
<1>4. \/ current' = {} /\ attempt' = 0 /\ wpc' = "idle" /\ e.cond \in tainted'
      \/ current' = current /\ attempt' = attempt + 1 /\ wpc' = "gate"
         /\ attempt + 1 < MaxAttempts
  BY DEF Fails, Retry, Release, Taint
<1>5. TypeOK'
  <2>1. MaxAttempts \in Nat \ {0} /\ attempt \in 0 .. MaxAttempts - 1
    BY DeliveryAssumption DEF TypeOK
  <2>2. attempt' \in 0 .. MaxAttempts - 1
    BY <2>1, <1>4
  <2> QED
    BY <2>2, <1>1, <1>3, <1>4 DEF TypeOK
<1>6. Store'
  BY <1>1 DEF Store, Inventory, Muted
<1>7. Pairing'
  BY <1>1, <1>3, <1>4 DEF Pairing, IsPaired, ToSet
<1>8. CASE current' = current
  <2>1. Ordered' /\ Line' = Line
    BY <1>1, <1>8, LineKept
  <2>2. Story'
    BY <2>1, <1>1, <1>3, StoryKept DEF Story, Told
  <2> QED
    BY <2>1, <2>2, <1>5, <1>6, <1>7
<1>9. CASE current' # current
  <2>1. /\ Ordered'
        /\ Line' = Line \ {e} /\ \A f \in Line' : e.n < f.n
        /\ e \in Line /\ e.state \in events /\ e.cond \in tainted'
    BY <1>1, <1>4, <1>9, CurrentReleased
  <2>2. Story'
    BY <2>1, <1>1, <1>2, <1>3, StoryFirst
  <2> QED
    BY <2>1, <2>2, <1>5, <1>6, <1>7
<1> QED
  BY <1>8, <1>9

-------------------------------------------------------------------------------
(* A result is applied *)

\* Each change that is not muted adds one event, of the host that is now in
\* the inventory, to the end of the line; a muted one makes its condition quiet.
LEMMA ApplyStep ==
  ASSUME IInv, NEW h \in Hosts, NEW online \in BOOLEAN, Apply(h, online)
  PROVE  IInv'
<1> USE DEF IInv, hostVars, workerVars
<1>1. /\ UNCHANGED <<incarnation, nextIncarnation, maintenance, events, queue,
                     paired, saturated, wpc, current, attempt, phase, collector,
                     forced, received, tainted, primed, troubles>>
      /\ pending = <<>> /\ h \in Inventory /\ probing' = probing \ {h}
  BY DEF Apply
<1>2. PICK new \in Outcomes(h, online) :
        LET changed == {c \in Conditions : new[c] # active[c]}
            passing == SetToSeq({c \in changed : Passes(c, new[c])})
            opening == {c \in changed : active[c] = "none"}
        IN /\ active' = new
           /\ bound' = bound + Len(passing)
           /\ pending' = [i \in DOMAIN passing |->
                [n |-> bound + i, cond |-> passing[i],
                 state |-> Transition(passing[i], new[passing[i]]),
                 severity |-> new[passing[i]], incarnation |-> incarnation[h]]]
           /\ saved' = IF phase \in {"running", "stopping"}
                       THEN [c \in Conditions |-> IF c \in changed THEN new[c]
                                                                   ELSE saved[c]]
                       ELSE saved
           /\ action' = [c \in Conditions |-> IF new[c] = "none" THEN "none"
                                                                 ELSE action[c]]
           /\ quiet' = {c \in quiet : new[c] # "none"}
                         \cup {c \in opening : Muted(c)}
  BY DEF Apply
<1> DEFINE changed == {c \in Conditions : new[c] # active[c]}
           wanted == {c \in changed : Passes(c, new[c])}
           passing == SetToSeq(wanted)
           count == Len(passing)
           x(i) == [n |-> bound + i, cond |-> passing[i],
                    state |-> Transition(passing[i], new[passing[i]]),
                    severity |-> new[passing[i]], incarnation |-> incarnation[h]]
<1>3. /\ passing \in Seq(wanted) /\ ToSet(passing) = wanted
      /\ \A i, j \in DOMAIN passing : passing[i] = passing[j] => i = j
  <2>1. IsFiniteSet(wanted)
    BY DeliveryAssumption, FS_Subset
  <2> QED
    BY <2>1, Listed
<1>4. /\ DOMAIN passing = 1 .. count /\ count \in Nat
      /\ \A i \in 1 .. count : passing[i] \in wanted
  BY <1>3, LenProperties
<1>5. /\ new \in [Conditions -> Severity]
      /\ \A c \in changed : c[1] = h
  BY DEF Outcomes
<1>6. /\ bound' = bound + count
      /\ pending' = [i \in 1 .. count |-> x(i)]
      /\ active' = new
      /\ \A c \in Conditions :
           /\ action'[c] = IF new[c] = "none" THEN "none" ELSE action[c]
           /\ new[c] # "none" => /\ c \in quiet => c \in quiet'
                                 /\ c \in changed /\ active[c] = "none" /\ Muted(c)
                                      => c \in quiet'
  BY <1>2, <1>4
<1> HIDE DEF passing
<1>7. ASSUME NEW i \in 1 .. count
      PROVE  /\ x(i) \in Event /\ pending'[i] = x(i)
             /\ x(i).n = bound + i /\ x(i).cond = passing[i]
             /\ x(i).severity = new[passing[i]] /\ x(i).incarnation = incarnation[h]
             /\ x(i).state = "resolved" <=> new[passing[i]] = "none"
             /\ x(i).state = "opened" <=> active[passing[i]] = "none"
  <2>1. /\ passing[i] \in Conditions /\ new[passing[i]] # active[passing[i]]
        /\ bound \in Nat /\ bound + i \in Nat \ {0} /\ incarnation[h] \in Nat
        /\ new[passing[i]] \in Severity
    BY <1>4, <1>5 DEF TypeOK
  <2> DEFINE s == Transition(passing[i], new[passing[i]])
  <2>2. /\ s \in States
        /\ s = "resolved" <=> new[passing[i]] = "none"
        /\ s = "opened" <=> active[passing[i]] = "none"
    BY <2>1 DEF Transition, States
  <2> HIDE DEF s
  <2>3. x(i).state = s
    BY DEF s
  <2>4. x(i) \in Event
    BY <2>1, <2>2 DEF Event, s
  <2> QED
    BY <2>2, <2>3, <2>4, <1>6
<1>8. pending' \in Seq(Event) /\ DOMAIN pending' = 1 .. count
  BY <1>4, <1>6, <1>7
<1> HIDE DEF x
<1>9. TypeOK'
  <2>1. action' \in [Conditions -> {"none", "acknowledged", "silenced"}]
    BY <1>2 DEF TypeOK
  <2>2. saved' \in [Conditions -> Severity]
    BY <1>2, <1>5 DEF TypeOK
  <2>3. quiet' \in SUBSET Conditions
    BY <1>2 DEF TypeOK
  <2>4. bound' \in Nat /\ probing' \in SUBSET Hosts
    BY <1>1, <1>4, <1>6 DEF TypeOK
  <2> QED
    BY <2>1, <2>2, <2>3, <2>4, <1>1, <1>5, <1>6, <1>8 DEF TypeOK
<1>10. /\ Line = current \cup ToSet(queue) /\ Line' = Line \cup ToSet(pending')
       /\ ToSet(pending') = {x(i) : i \in 1 .. count}
  <2>1. ToSet(pending') = {x(i) : i \in 1 .. count}
    BY <1>7, <1>8 DEF ToSet
  <2>2. ToSet(pending) = {}
    BY <1>1, SMT DEF ToSet
  <2> QED
    BY <2>1, <2>2, <1>1 DEF Line
<1>11. /\ bound \in Nat /\ Line \subseteq Event
       /\ \A f \in Line : f.n <= bound /\ (f.state # "resolved" => f.severity # "none")
  BY DEF TypeOK, Line, ToSet, Ordered
<1>12. \A f \in Line : \A i \in 1 .. count : f.n < x(i).n
  BY <1>7, <1>11 DEF Event
<1>13. Ordered'
  <2>1. \A i, j \in DOMAIN pending' : i < j => pending'[i].n < pending'[j].n
    BY <1>7, <1>8, <1>11
  <2>2. \A i \in DOMAIN queue, j \in DOMAIN pending' : queue[i].n < pending'[j].n
    BY <1>7, <1>8, <1>10, <1>12 DEF ToSet
  <2>3. \A f \in current : \A j \in DOMAIN pending' : f.n < pending'[j].n
    BY <1>7, <1>8, <1>10, <1>12
  <2>4. \A f \in Line' : f.n <= bound' /\ (f.state # "resolved" => f.severity # "none")
    BY <1>4, <1>6, <1>7, <1>10, <1>11 DEF Event
  <2> QED
    BY <2>1, <2>2, <2>3, <2>4, <1>1 DEF Ordered
<1>14. ASSUME NEW c \in Conditions, new[c] # "none"
       PROVE  Muted(c)' = Muted(c)
  BY <1>1, <1>6, <1>14 DEF Muted
<1>15. Store'
  BY <1>1, <1>5, <1>6, <1>14 DEF Store, Inventory
<1>16. Pairing'
  BY <1>1, PairingKept
<1>17. Story'
  <2> SUFFICES ASSUME NEW c \in Conditions \ tainted'
               PROVE  /\ EndsWell(events, Told(c), active[c], received[c])'
                      /\ c \notin quiet' =>
                           /\ Announced(events, Told(c), active[c], received[c],
                                        incarnation[c[1]])'
                           /\ Tracked(events, Told(c), active[c], received[c],
                                      incarnation[c[1]])'
    BY DEF Story
  <2>1. CASE c \notin wanted
    <3>1. Told(c)' = Told(c)
      BY <2>1, <1>1, <1>4, <1>7, <1>10 DEF Told
    <3>2. CASE c \notin changed
      BY <3>1, <3>2, <1>1, <1>6, StoryKept
    <3>3. CASE c \in changed
      <4>1. new[c] # "none" /\ Muted(c)
        BY <2>1, <3>3 DEF Passes
      <4>2. c \in quiet'
        BY <3>3, <4>1, <1>1, <1>6 DEF Store
      <4>3. EndsWell(events, Told(c), new[c], received[c])
        BY <4>1, <1>1 DEF Story, EndsWell
      <4> QED
        BY <3>1, <4>2, <4>3, <1>1, <1>6
    <3> QED
      BY <3>2, <3>3
  <2>2. CASE c \in wanted
    <3>1. PICK i \in 1 .. count : passing[i] = c
      BY <2>2, <1>3, <1>4 DEF ToSet
    <3> DEFINE T == Told(c)
               y == x(i)
               U == Longer(T, y, events)
               k == incarnation[c[1]]
    <3>2. /\ T \in SUBSET Event /\ y \in Event /\ \A f \in T : f.n < y.n
          /\ y.state = "resolved" <=> new[c] = "none"
          /\ y.state = "opened" <=> active[c] = "none"
          /\ y.severity = new[c] /\ y.incarnation = k
      BY <2>2, <3>1, <1>5, <1>7, <1>11, <1>12 DEF Told
    <3>3. Told(c)' = U
      <4>1. \A j \in 1 .. count : x(j).cond = c => j = i
        BY <3>1, <1>3, <1>4, <1>7
      <4>2. \A f \in ToSet(pending') : f.cond = c => f = y
        BY <4>1, <1>10
      <4>3. y \in ToSet(pending') /\ y.cond = c
        BY <3>1, <1>7, <1>10
      <4> QED
        BY <4>2, <4>3, <1>1, <1>10 DEF Told, Longer
    <3> HIDE DEF T, y, U, k
    <3>4. EndsWell(events, U, new[c], received[c])
      <4>1. EndsWell(events, T, active[c], received[c])
        BY <1>1 DEF Story, T
      <4> QED
        BY <4>1, <3>2, EndsWellGrows DEF U
    <3>5. Tracked(events, U, new[c], received[c], k)
      BY <3>2, TrackedGrows DEF U
    <3>6. ASSUME c \notin quiet'
          PROVE  Announced(events, U, new[c], received[c], k)
      <4>1. CASE new[c] = "none"
        BY <4>1 DEF Announced
      <4>2. CASE new[c] # "none"
        <5>1. c \notin quiet
          BY <3>6, <4>2, <1>6
        <5>2. Announced(events, T, active[c], received[c], k)
          BY <5>1, <1>1 DEF Story, T, k
        <5> QED
          BY <5>2, <3>2, AnnouncedGrows DEF U
      <4> QED
        BY <4>1, <4>2
    <3>7. active'[c] = new[c] /\ UNCHANGED <<events, received, incarnation>>
      BY <1>1, <1>6
    <3> QED
      BY <3>3, <3>4, <3>5, <3>6, <3>7 DEF k
  <2> QED
    BY <2>1, <2>2
<1> QED
  BY <1>9, <1>13, <1>15, <1>16, <1>17

-------------------------------------------------------------------------------
(* A restart *)

\* The new worker knows what the database calls open, as far as its table
\* reaches; a longer list saturates it.
LEMMA PrimedTable ==
  ASSUME RestartPrimed
  PROVE  LET open == {c \in Conditions : saved[c] # "none"}
         IN /\ paired' \in Seq(Conditions) /\ Len(paired') <= PairSize
            /\ saturated' \in BOOLEAN
            /\ \A i, j \in DOMAIN paired' : paired'[i] = paired'[j] => i = j
            /\ ToSet(paired') \subseteq open
            /\ ToSet(paired') = open \/ saturated'
<1> DEFINE open == {c \in Conditions : saved[c] # "none"}
           known == SetToSeq(open)
           n == Len(known)
           excess == IF n > PairSize THEN n - PairSize ELSE 0
<1>1. /\ known \in Seq(open) /\ ToSet(known) = open
      /\ \A i, j \in DOMAIN known : known[i] = known[j] => i = j
  <2>1. IsFiniteSet(open)
    BY DeliveryAssumption, FS_Subset
  <2> QED
    BY <2>1, Listed
<1>2. /\ n \in Nat /\ DOMAIN known = 1 .. n /\ PairSize \in Nat \ {0}
      /\ \A i \in 1 .. n : known[i] \in open
  <2>1. PairSize \in Nat \ {0}
    BY DeliveryAssumption
  <2> HIDE DEF known, open
  <2> QED
    BY <2>1, <1>1, LenProperties DEF n
<1>3. /\ paired' = SubSeq(known, excess + 1, n)
      /\ saturated' = (excess > 0)
  BY DEF RestartPrimed
<1> HIDE DEF known, n
<1>4. /\ excess \in 0 .. n /\ n - excess <= PairSize
  BY <1>2
<1> HIDE DEF excess
<1>5. /\ paired' \in Seq(open) /\ Len(paired') = n - excess
      /\ \A i \in 1 .. n - excess : paired'[i] = known[excess + i]
  <2>1. \A i \in excess + 1 .. n : known[i] \in open
    BY <1>2, <1>4
  <2>2. /\ paired' \in Seq(open)
        /\ Len(paired') = IF excess + 1 <= n THEN n - (excess + 1) + 1 ELSE 0
        /\ \A i \in 1 .. n - (excess + 1) + 1 :
             paired'[i] = known[(excess + 1) + i - 1]
    <3>1. excess + 1 \in Int /\ n \in Int
      BY <1>2, <1>4
    <3> HIDE DEF open
    <3> QED
      BY <2>1, <3>1, <1>3, SubSeqProperties
  <2>3. /\ n - (excess + 1) + 1 = n - excess
        /\ \A i \in 1 .. n - excess : (excess + 1) + i - 1 = excess + i
        /\ excess + 1 <= n \/ n - excess = 0
    BY <1>2, <1>4
  <2> QED
    BY <2>2, <2>3
<1>6. DOMAIN paired' = 1 .. n - excess
  BY <1>5, LenProperties
<1>7. \A i, j \in DOMAIN paired' : paired'[i] = paired'[j] => i = j
  <2>1. \A i \in DOMAIN paired' : excess + i \in DOMAIN known
    BY <1>2, <1>4, <1>6
  <2> SUFFICES ASSUME NEW i \in DOMAIN paired', NEW j \in DOMAIN paired',
                      paired'[i] = paired'[j]
               PROVE  i = j
    OBVIOUS
  <2>2. excess + i = excess + j
    BY <2>1, <1>1, <1>5, <1>6
  <2> QED
    BY <2>2, <1>2, <1>4, <1>6
<1>8. ToSet(paired') \subseteq open
  BY <1>2, <1>4, <1>5, <1>6 DEF ToSet
<1>9. excess = 0 => ToSet(paired') = open
  <2> SUFFICES ASSUME excess = 0
               PROVE  open \subseteq ToSet(paired')
    BY <1>8
  <2>1. \A i \in 1 .. n : i \in DOMAIN paired' /\ paired'[i] = known[i]
    BY <1>2, <1>5, <1>6
  <2> QED
    BY <2>1, <1>1, <1>2 DEF ToSet
<1>10. paired' \in Seq(Conditions)
  BY <1>2, <1>4, <1>5, SMT
<1>11. excess > 0 \/ excess = 0
  BY <1>4
<1>12. saturated' \in BOOLEAN /\ (excess > 0 => saturated')
  <2>1. CASE excess > 0
    BY <2>1, <1>3
  <2>2. CASE ~(excess > 0)
    <3>1. (excess > 0) = FALSE
      BY <2>2, <1>2, <1>4
    <3> QED
      BY <2>2, <3>1, <1>3
  <2> QED
    BY <2>1, <2>2
<1>13. Len(paired') <= PairSize
  BY <1>4, <1>5
<1>14. ToSet(paired') = open \/ saturated'
  BY <1>9, <1>11, <1>12
<1> QED
  BY <1>7, <1>8, <1>10, <1>12, <1>13, <1>14

\* What a restart lost or changed is tainted; every other story is over, and
\* the receiver knows what the database calls open.
LEMMA RestartStep ==
  ASSUME IInv, Restart
  PROVE  IInv'
<1> USE DEF IInv, overlayVars
<1> DEFINE lost == {e.cond : e \in Line} \cup {c \in Conditions : saved[c] # active[c]}
<1>1. /\ UNCHANGED <<maintenance, action, bound, saved, events, quiet>>
      /\ pending' = <<>> /\ queue' = <<>> /\ current' = {} /\ attempt' = 0
      /\ wpc' = "idle" /\ phase' = "running" /\ collector' = "running"
      /\ probing' = {} /\ forced' = FALSE /\ troubles' = troubles + 1
      /\ incarnation' = [h \in Hosts |-> IF h \in Inventory THEN 1 ELSE 0]
      /\ nextIncarnation' = 2 /\ active' = Resumed
      /\ RestartPrimed /\ primed' = ToSet(paired')
  BY DEF Restart, Release, Trouble
<1>2. Taint(lost)
  <2>1. lost = {e.cond : e \in ToSet(pending) \cup ToSet(queue) \cup current}
                 \cup {c \in Conditions : saved[c] # active[c]}
    BY DEF Line
  <2> QED
    BY <2>1 DEF Restart
<1>3. /\ Line \subseteq Event /\ lost \subseteq Conditions
  <2>1. Line \subseteq Event
    BY DEF TypeOK, Line, ToSet
  <2> QED
    BY <2>1 DEF Event
<1>4. ToSet(pending') = {} /\ ToSet(queue') = {} /\ Line' = {}
  BY <1>1, SMT DEF Line, ToSet
<1>5. /\ paired' \in Seq(Conditions) /\ Len(paired') <= PairSize
      /\ saturated' \in BOOLEAN
      /\ \A i, j \in DOMAIN paired' : paired'[i] = paired'[j] => i = j
      /\ ToSet(paired') \subseteq Conditions
      /\ \A c \in Conditions : saved[c] # "none" => c \in ToSet(paired') \/ saturated'
  BY <1>1, PrimedTable
<1>6. TypeOK'
  <2>1. active' \in [Conditions -> Severity]
    BY <1>1 DEF Resumed, TypeOK, Severity
  <2>2. /\ tainted' \in SUBSET Conditions
        /\ received' \in [Conditions -> Severity]
    BY <1>2, <1>3 DEF Taint, TypeOK, Severity
  <2>3. /\ incarnation' \in [Hosts -> Nat] /\ nextIncarnation' \in Nat \ {0}
        /\ 0 \in 0 .. MaxAttempts - 1
    BY <1>1, DeliveryAssumption
  <2>4. pending' \in Seq(Event) /\ queue' \in Seq(Event)
    BY <1>1
  <2>5. /\ current' \in SUBSET Event /\ wpc' \in {"idle", "gate", "sending", "ended"}
        /\ current' = {} <=> wpc' \in {"idle", "ended"}
        /\ attempt' \in 0 .. MaxAttempts - 1
    BY <2>3, <1>1
  <2>6. /\ phase' \in {"running", "stopping", "flushed", "closing"}
        /\ collector' \in {"running", "ended"} /\ probing' \in SUBSET Hosts
        /\ forced' \in BOOLEAN /\ primed' \in SUBSET Conditions
    BY <1>1, <1>5
  <2>7. /\ saved' \in [Conditions -> Severity] /\ maintenance' \in SUBSET Hosts
        /\ action' \in [Conditions -> {"none", "acknowledged", "silenced"}]
        /\ bound' \in Nat /\ events' \in SUBSET States /\ troubles' \in Nat
        /\ quiet' \in SUBSET Conditions
    BY <1>1 DEF TypeOK
  <2> QED
    BY <2>1, <2>2, <2>3, <2>4, <2>5, <2>6, <2>7, <1>5 DEF TypeOK
<1>7. Ordered'
  <2>1. DOMAIN pending' = {} /\ DOMAIN queue' = {}
    BY <1>1
  <2> QED
    BY <2>1, <1>1, <1>4 DEF Ordered
<1>8. ASSUME NEW c \in Conditions \ tainted'
      PROVE  /\ c \notin tainted /\ Told(c) = {} /\ Told(c)' = {}
             /\ saved[c] = active[c] /\ active'[c] = active[c]
             /\ received'[c] = received[c]
  <2>1. c \notin tainted /\ c \notin lost /\ received'[c] = received[c]
    BY <1>2, <1>8 DEF Taint
  <2>2. Told(c) = {} /\ Told(c)' = {} /\ saved[c] = active[c]
    BY <2>1, <1>4, <1>8 DEF Told
  <2>3. active'[c] = active[c]
    BY <2>2, <1>1 DEF Resumed, Store
  <2> QED
    BY <2>1, <2>2, <2>3
<1>9. Store'
  <2> SUFFICES ASSUME NEW c \in Conditions, active'[c] # "none"
               PROVE  c[1] \in Inventory' /\ (c \in quiet' \cup tainted' \/ ~Muted(c)')
    BY DEF Store
  <2>1. c[1] \in Inventory /\ c[1] \in Hosts
    BY <1>1 DEF Resumed, Inventory
  <2>2. c[1] \in Inventory'
    BY <2>1, <1>1 DEF Inventory
  <2> QED
    BY <2>2, <1>1, <1>8 DEF Store, Muted
<1>10. ASSUME NEW c \in Conditions \ tainted'
       PROVE  EndsWell(events, {}, active[c], received[c])
  BY <1>8, <1>10 DEF Story
<1>11. Pairing'
  <2>1. ASSUME IsPaired, NEW c \in Conditions \ tainted', received[c] # "none"
        PROVE  saved[c] # "none"
    BY <2>1, <1>8, <1>10 DEF EndsWell, IsPaired
  <2> QED
    BY <2>1, <1>1, <1>5, <1>8 DEF Pairing, IsPaired
<1>12. Story'
  <2> SUFFICES ASSUME NEW c \in Conditions \ tainted'
               PROVE  /\ EndsWell(events, {}, active[c], received[c])
                      /\ c \notin quiet =>
                           /\ Announced(events, {}, active[c], received[c],
                                        incarnation'[c[1]])
                           /\ Tracked(events, {}, active[c], received[c],
                                      incarnation'[c[1]])
    BY <1>1, <1>8 DEF Story
  <2>1. c \notin quiet =>
          /\ Announced(events, {}, active[c], received[c], incarnation[c[1]])
          /\ Tracked(events, {}, active[c], received[c], incarnation[c[1]])
    BY <1>8 DEF Story
  <2> QED
    BY <2>1, <1>10 DEF Announced, Tracked
<1> QED
  BY <1>6, <1>7, <1>9, <1>11, <1>12

-------------------------------------------------------------------------------
(* The theorems *)

\* Before the first result nothing is open, under way or known.
LEMMA Initially ==
  ASSUME Init
  PROVE  IInv
<1>1. DOMAIN pending = {} /\ DOMAIN queue = {} /\ DOMAIN paired = {}
  BY DEF Init
<1>2. Line = {}
  BY <1>1 DEF Init, Line, ToSet
<1>3. TypeOK
  <2>1. /\ events \in SUBSET States /\ 0 \in 0 .. MaxAttempts - 1
        /\ 0 <= PairSize
    BY DeliveryAssumption DEF Init
  <2>2. /\ pending \in Seq(Event) /\ queue \in Seq(Event)
        /\ paired \in Seq(Conditions) /\ Len(paired) = 0
    BY DEF Init
  <2>3. /\ active \in [Conditions -> Severity] /\ saved \in [Conditions -> Severity]
        /\ received \in [Conditions -> Severity]
        /\ action \in [Conditions -> {"none", "acknowledged", "silenced"}]
        /\ incarnation \in [Hosts -> Nat] /\ nextIncarnation \in Nat \ {0}
    BY DEF Init, Severity
  <2>4. /\ current = {} /\ wpc = "idle" /\ attempt = 0 /\ bound = 0 /\ troubles = 0
        /\ maintenance = {} /\ saturated = FALSE /\ phase = "running"
        /\ collector = "running" /\ probing = {} /\ forced = FALSE
        /\ tainted = {} /\ quiet = {} /\ primed = {}
    BY DEF Init
  <2> QED
    BY <2>1, <2>2, <2>3, <2>4 DEF TypeOK
<1>4. Ordered
  BY <1>1, <1>2 DEF Init, Ordered, ToSet
<1>5. Store
  BY DEF Init, Store
<1>6. Pairing
  BY <1>1 DEF Init, Pairing, ToSet
<1>7. Story
  <2>1. \A c \in Conditions : Told(c) = {} /\ active[c] = "none" /\ received[c] = "none"
    BY <1>2 DEF Init, Told
  <2> QED
    BY <2>1 DEF Story, EndsWell, Announced, Tracked
<1> QED
  BY <1>3, <1>4, <1>5, <1>6, <1>7 DEF IInv

\* Every step of every thread preserves the invariant.
LEMMA Preserved ==
  ASSUME IInv, [Next]_vars
  PROVE  IInv'
<1>1. CASE \E h \in Hosts, online \in BOOLEAN : Apply(h, online)
  BY <1>1, ApplyStep
<1>2. CASE Publish
  BY <1>2, PublishStep
<1>3. CASE CollectorEnds \/ UNCHANGED vars
  BY <1>3, ShutdownSteps
<1>4. CASE Worker
  BY <1>4, TakeStep, ShutdownSteps, GateStep, DeliveredStep, FailsStep DEF Worker
<1>5. CASE Main
  BY <1>5, ShutdownSteps, RestartStep DEF Main
<1>6. CASE \E c \in Conditions, a \in Actions \cup {"none"} : SetAction(c, a)
  BY <1>6, OverlaySteps
<1>7. CASE \E h \in Hosts : SetMaintenance(h) \/ RemoveHost(h) \/ AddHost(h)
  BY <1>7, OverlaySteps, InventorySteps
<1> QED
  BY <1>1, <1>2, <1>3, <1>4, <1>5, <1>6, <1>7 DEF Next

LEMMA Invariance == Spec => []IInv
<1>1. Init => IInv
  BY Initially
<1>2. IInv /\ [Next]_vars => IInv'
  BY Preserved
<1> QED
  BY <1>1, <1>2, PTL DEF Spec

\* The types of the store, the worker and the receiver, the bound of the pairing
\* table, and: once everything published is handled, a receiver of both states
\* holds an alert only for a condition that is still open.
THEOREM NoAlertHangs == Spec => []NoHangingAlert
<1>1. IInv => NoHangingAlert
  <2> SUFFICES ASSUME IInv, Settled, IsPaired, NEW c \in Conditions \ tainted,
                      active[c] = "none"
               PROVE  received[c] = "none"
    BY DEF NoHangingAlert, IInv
  <2>1. Told(c) = {}
    BY DEF IInv, TypeOK, Settled, Told, Line, ToSet
  <2> QED
    BY <2>1 DEF IInv, Story, EndsWell, IsPaired
<1> QED
  BY <1>1, Invariance, PTL

\* Once everything published is handled, a receiver knows every open condition
\* that was not muted and of which the store forgot no event, at its severity
\* if it hears of every change.
THEOREM AlertsDoArrive == Spec => []AlertsArrive
<1>1. IInv => AlertsArrive
  <2> SUFFICES ASSUME IInv, Settled, NEW c \in Conditions \ (tainted \cup quiet),
                      active[c] # "none"
               PROVE  /\ "opened" \in events => received[c] # "none"
                      /\ events = States => received[c] = active[c]
    BY DEF AlertsArrive
  <2>1. Told(c) = {} /\ Turns(Told(c)) = {}
    BY DEF IInv, TypeOK, Settled, Told, Line, ToSet, Turns
  <2> QED
    BY <2>1 DEF IInv, Story, Announced, Tracked
<1> QED
  BY <1>1, Invariance, PTL

\* A recovery reaches a receiver of both states only after the alert, unless
\* the table of the worker overflowed or was primed with the condition.
THEOREM RecoveriesDoPair == Spec => RecoveriesPair
<1>1. ASSUME IInv, NEW e \in current, Delivered(e)
      PROVE  \/ e.state # "resolved" \/ ~IsPaired \/ saturated
             \/ e.cond \in tainted \cup primed \/ received[e.cond] # "none"
  <2>1. e.cond \in Conditions
    BY <1>1 DEF IInv, TypeOK, Event
  <2> QED
    BY <2>1, <1>1 DEF IInv, Pairing
<1>2. IInv => [\A e \in current : Delivered(e) =>
                 \/ e.state # "resolved" \/ ~IsPaired \/ saturated
                 \/ e.cond \in tainted \cup primed \/ received[e.cond] # "none"]_vars
  BY <1>1
<1> QED
  BY <1>2, Invariance, PTL DEF RecoveriesPair

\* An alert is not opened twice at a receiver that hears of recoveries, also
\* not after retries, in windows or by a restart.
THEOREM NeverOpenedTwice == Spec => NoRepeatedOpen
<1>1. ASSUME IInv, NEW e \in current, Delivered(e), e.state = "opened",
             "resolved" \in events, e.cond \notin tainted
      PROVE  received[e.cond] = "none"
  <2> DEFINE c == e.cond
  <2>1. e \in Told(c) /\ c \in Conditions \ tainted /\ "opened" \in events
    BY <1>1 DEF IInv, TypeOK, Event, Ordered, Told, Line
  <2>2. \A f \in Line \ {e} : e.n < f.n
    BY <1>1 DEF IInv, Ordered, Line, ToSet
  <2>3. \A f \in Line : f.n \in Int
    <3>1. Line \subseteq Event
      BY <1>1 DEF IInv, TypeOK, Line, ToSet
    <3> QED
      BY <3>1 DEF Event
  <2>4. Earliest(Told(c), e)
    BY <2>1, <2>2, <2>3 DEF Earliest, Told
  <2>5. EndsWell(events, Told(c), active[c], received[c])
    BY <2>1, <1>1 DEF IInv, Story
  <2> QED
    BY <2>1, <2>4, <2>5, <1>1 DEF EndsWell
<1>2. IInv => [\A e \in current : Delivered(e) =>
                 \/ e.state # "opened" \/ "resolved" \notin events
                 \/ e.cond \in tainted \/ received[e.cond] = "none"]_vars
  BY <1>1
<1> QED
  BY <1>2, Invariance, PTL DEF NoRepeatedOpen

===============================================================================
