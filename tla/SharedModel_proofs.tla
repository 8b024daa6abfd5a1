------------------------- MODULE SharedModel_proofs -------------------------
(***************************************************************************)
(* What keeps calls on a shared model apart, for any number of threads,    *)
(* instances, models and layers: no lock does, since the lock is that of   *)
(* the instance; it takes the scheduler's discipline, that a model which   *)
(* one thread streams on is nobody else's.  What the lock does keep apart  *)
(* is the calls on one instance (LockInv).                                 *)
(***************************************************************************)
EXTENDS SharedModel, TLAPS

\* The instances whose calls by t patch the model, and the discipline.
Patches(t) == {i \in Uses[t] \cap Streaming : ModelOf[i] \notin Unsupported}

Exclusive ==
  \A t, u \in Threads : t # u =>
    \A i \in Patches(t), j \in Uses[u] : ModelOf[i] # ModelOf[j]

Calls ==
  [op : {"none", "generate", "beam", "reset", "batch"},
   who : SUBSET Instances,
   pc : {"idle", "validate", "prefill", "patch", "run", "unpatch", "exit"},
   layer : 1 .. Layers + 1, saved : Seq({Stock}), ran : SUBSET Labels,
   steps : Nat, raised : BOOLEAN]

Shape ==
  /\ forward \in [Models -> [1 .. Layers -> Labels]]
  /\ call \in [Threads -> Calls]

\* A call is on instances of one model, patches only with an operation that
\* streams, and has saved one original per layer it has patched.
Stages(t) ==
  /\ ~At(t, "idle") =>
       /\ call[t].who # {} /\ call[t].who \subseteq Uses[t]
       /\ \A i, j \in call[t].who : ModelOf[i] = ModelOf[j]
  /\ call[t].pc \in {"prefill", "patch", "run", "unpatch"} =>
       call[t].op \in {"generate", "beam", "batch"}
  /\ call[t].pc \in {"validate", "prefill"} => call[t].saved = <<>>
  /\ At(t, "validate") => call[t].op # "batch"
  /\ At(t, "patch") => Len(call[t].saved) = call[t].layer - 1
  /\ At(t, "unpatch") => Streams(t)
  /\ call[t].pc \in {"run", "unpatch"} /\ Streams(t) =>
       Len(call[t].saved) = Layers /\ ModelAt(t) \notin Unsupported

\* OwnForward, of one thread.
RanOwn(t) ==
  /\ At(t, "prefill") => call[t].ran \subseteq {Stock}
  /\ At(t, "run") =>
       call[t].ran \subseteq {IF Streams(t) THEN Own(t) ELSE Stock}

\* The call has the model in its hands, and has its forward in layer l.
Working(t) ==
  /\ call[t].pc \in {"patch", "run", "unpatch"}
  /\ Streams(t) /\ ModelAt(t) \notin Unsupported

Installed(t, l) ==
  \/ At(t, "patch") /\ l < call[t].layer
  \/ At(t, "run")
  \/ At(t, "unpatch") /\ l >= call[t].layer

\* What the layers of the model of t are while t works on it.
Fits(t) ==
  Working(t) => \A l \in 1 .. Layers :
    forward[ModelAt(t)][l] = IF Installed(t, l) THEN Own(t) ELSE Stock

Untouched(m) == \A l \in 1 .. Layers : forward[m][l] = Stock

IInv ==
  /\ Shape
  /\ \A t \in Threads : Stages(t) /\ RanOwn(t) /\ Fits(t)
  /\ \A m \in Models :
       (\A t \in Threads : Working(t) => ModelAt(t) # m) => Untouched(m)
-----------------------------------------------------------------------------
LEMMA ModelIsOne ==
  ASSUME NEW t \in Threads, Shape, Stages(t), ~At(t, "idle")
  PROVE  /\ ModelAt(t) \in Models
         /\ \A i \in call[t].who : ModelOf[i] = ModelAt(t)
<1>1. call[t].who # {} /\ call[t].who \subseteq Instances
  BY DEF Stages, Shape, Calls
<1>2. (CHOOSE i \in call[t].who : TRUE) \in call[t].who
  BY <1>1
<1> QED
  BY <1>1, <1>2 DEF ModelAt, Models, Stages

\* Nobody else works on the model of an instance that a thread calls.
LEMMA AloneOn ==
  ASSUME Exclusive, IInv, NEW t \in Threads, NEW j \in Uses[t],
         NEW u \in Threads, u # t, Working(u)
  PROVE  ModelAt(u) # ModelOf[j]
<1>1. Shape /\ Stages(u)
  BY DEF IInv
<1>2. ~At(u, "idle")
  BY DEF Working, At
<1>3. PICK i \in call[u].who : TRUE
  BY <1>1, <1>2 DEF Stages
<1>4. ModelOf[i] = ModelAt(u)
  BY <1>1, <1>2, <1>3, ModelIsOne
<1>5. i \in Patches(u)
  BY <1>1, <1>2, <1>3, <1>4 DEF Patches, Working, Streams, Stages
<1> QED
  BY <1>4, <1>5 DEF Exclusive

LEMMA Alone ==
  ASSUME Exclusive, IInv, NEW t \in Threads, ~At(t, "idle"),
         NEW u \in Threads, u # t, Working(u)
  PROVE  ModelAt(u) # ModelAt(t)
<1>1. Shape /\ Stages(t)
  BY DEF IInv
<1>2. PICK j \in call[t].who : TRUE
  BY <1>1 DEF Stages
<1>3. ModelOf[j] = ModelAt(t) /\ j \in Uses[t]
  BY <1>1, <1>2, ModelIsOne DEF Stages
<1> QED
  BY <1>3, AloneOn

\* So the layers are the model's own, for a thread that does not work on it.
LEMMA OwnLayers ==
  ASSUME Exclusive, IInv, NEW t \in Threads, NEW j \in Uses[t], ~Working(t)
  PROVE  Untouched(ModelOf[j])
<1>1. ModelOf[j] \in Models
  BY SharedAssumption DEF Models
<1>2. \A u \in Threads : Working(u) => ModelAt(u) # ModelOf[j]
  BY AloneOn
<1> QED
  BY <1>1, <1>2 DEF IInv

LEMMA CallLayers ==
  ASSUME Exclusive, IInv, NEW t \in Threads, ~At(t, "idle"), ~Working(t)
  PROVE  Untouched(ModelAt(t))
<1>1. Shape /\ Stages(t)
  BY DEF IInv
<1>2. PICK j \in call[t].who : TRUE
  BY <1>1 DEF Stages
<1>3. ModelOf[j] = ModelAt(t) /\ j \in Uses[t]
  BY <1>1, <1>2, ModelIsOne DEF Stages
<1> QED
  BY <1>3, OwnLayers

\* A step of thread t leaves the other calls as they are.
LEMMA OthersKept ==
  ASSUME IInv, NEW t \in Threads, NEW c, Become(t, c),
         NEW u \in Threads, u # t
  PROVE  /\ call'[u] = call[u]
         /\ Stages(u)' /\ RanOwn(u)'
         /\ Working(u)' = Working(u) /\ ModelAt(u)' = ModelAt(u)
         /\ Own(u)' = Own(u)
         /\ \A l \in 1 .. Layers : Installed(u, l)' = Installed(u, l)
<1>1. call'[u] = call[u]
  BY DEF IInv, Shape, Become
<1>2. Stages(u) /\ RanOwn(u)
  BY DEF IInv
<1>3. ModelAt(u)' = ModelAt(u) /\ Own(u)' = Own(u) /\ Streams(u)' = Streams(u)
  BY <1>1 DEF ModelAt, Own, Streams
<1>4. \A pc : At(u, pc)' = At(u, pc)
  BY <1>1 DEF At
<1>5. Stages(u)' /\ RanOwn(u)'
  BY <1>1, <1>2, <1>3, <1>4 DEF Stages, RanOwn
<1>6. Working(u)' = Working(u)
  BY <1>1, <1>3 DEF Working
<1>7. \A l \in 1 .. Layers : Installed(u, l)' = Installed(u, l)
  BY <1>1, <1>4 DEF Installed
<1> QED
  BY <1>1, <1>3, <1>5, <1>6, <1>7

\* A step of t that leaves the layers alone needs to be looked at only for t.
LEMMA QuietStep ==
  ASSUME IInv, NEW t \in Threads, NEW c \in Calls, Become(t, c),
         UNCHANGED forward, Stages(t)', RanOwn(t)', Fits(t)',
         Working(t) => \/ Working(t)' /\ c.who = call[t].who
                       \/ Untouched(ModelAt(t))
  PROVE  IInv'
<1>1. Shape'
  BY DEF IInv, Shape, Become
<1>2. ASSUME NEW u \in Threads PROVE (Stages(u) /\ RanOwn(u) /\ Fits(u))'
  <2>1. CASE u # t
    <3>1. Fits(u)
      BY DEF IInv
    <3> QED
      BY <2>1, <3>1, OthersKept DEF Fits
  <2> QED
    BY <2>1
<1>3. ASSUME NEW m \in Models,
             (\A u \in Threads : Working(u) => ModelAt(u) # m)'
      PROVE  Untouched(m)'
  <2>1. \A u \in Threads \ {t} : Working(u) => ModelAt(u) # m
    BY <1>3, OthersKept
  <2>2. CASE Working(t) => ModelAt(t) # m
    BY <2>1, <2>2 DEF IInv, Untouched
  <2>3. CASE Working(t) /\ ModelAt(t) = m
    <3>1. CASE Working(t)' /\ c.who = call[t].who
      <4>1. ModelAt(t)' = ModelAt(t)
        BY <3>1 DEF IInv, Shape, Become, ModelAt
      <4> QED
        BY <1>3, <2>3, <3>1, <4>1
    <3>2. CASE Untouched(ModelAt(t))
      BY <2>3, <3>2 DEF Untouched
    <3> QED
      BY <2>3, <3>1, <3>2
  <2> QED
    BY <2>2, <2>3
<1>4. Models' = Models
  BY DEF Models
<1> QED
  BY <1>1, <1>2, <1>3, <1>4 DEF IInv

\* A step of t that sets one layer of the model it works on.
LEMMA LayerStep ==
  ASSUME Exclusive, IInv, NEW t \in Threads, NEW c \in Calls, Become(t, c),
         Working(t), Working(t)', c.who = call[t].who, c.op = call[t].op,
         NEW l \in 1 .. Layers, NEW f \in Labels,
         forward' = [forward EXCEPT ![ModelAt(t)][l] = f],
         f = IF Installed(t, l)' THEN Own(t) ELSE Stock,
         \A k \in (1 .. Layers) \ {l} : Installed(t, k)' = Installed(t, k),
         Stages(t)', RanOwn(t)'
  PROVE  IInv'
<1>1. Shape /\ Stages(t) /\ ~At(t, "idle") /\ Fits(t)
  BY DEF IInv, Working, At
<1>2. ModelAt(t) \in Models
  BY <1>1, ModelIsOne
<1>3. Shape'
  BY <1>1, <1>2 DEF Shape, Become
<1>4. ModelAt(t)' = ModelAt(t) /\ Own(t)' = Own(t)
  BY <1>1 DEF Shape, Become, ModelAt, Own
<1>5. Fits(t)'
  <2>1. ASSUME NEW k \in 1 .. Layers
        PROVE  forward'[ModelAt(t)][k] = IF Installed(t, k)' THEN Own(t) ELSE Stock
    <3>1. CASE k = l
      BY <1>1, <1>2, <3>1 DEF Shape
    <3>2. CASE k # l
      <4>1. forward'[ModelAt(t)][k] = forward[ModelAt(t)][k]
        BY <1>1, <1>2, <3>2 DEF Shape
      <4>2. forward[ModelAt(t)][k] = IF Installed(t, k) THEN Own(t) ELSE Stock
        BY <1>1 DEF Fits
      <4> QED
        BY <3>2, <4>1, <4>2
    <3> QED
      BY <3>1, <3>2
  <2> QED
    BY <1>4, <2>1 DEF Fits
<1>6. ASSUME NEW m \in Models, m # ModelAt(t) PROVE forward'[m] = forward[m]
  BY <1>1, <1>2, <1>6 DEF Shape
<1>7. ASSUME NEW u \in Threads PROVE (Stages(u) /\ RanOwn(u) /\ Fits(u))'
  <2>1. CASE u # t
    <3>1. Fits(u) /\ Stages(u)
      BY DEF IInv
    <3>2. ASSUME Working(u) PROVE forward'[ModelAt(u)] = forward[ModelAt(u)]
      <4>1. ModelAt(u) # ModelAt(t)
        BY <1>1, <2>1, <3>2, Alone
      <4>2. ModelAt(u) \in Models
        BY <1>1, <3>1, <3>2, ModelIsOne DEF Working, At
      <4> QED
        BY <1>6, <4>1, <4>2
    <3> QED
      BY <2>1, <3>1, <3>2, OthersKept DEF Fits
  <2> QED
    BY <1>5, <2>1
<1>8. ASSUME NEW m \in Models,
             (\A u \in Threads : Working(u) => ModelAt(u) # m)'
      PROVE  Untouched(m)'
  <2>1. m # ModelAt(t)
    BY <1>4, <1>8
  <2>2. \A u \in Threads : Working(u) => ModelAt(u) # m
    BY <1>8, <2>1, OthersKept
  <2>3. Untouched(m)
    BY <2>2 DEF IInv
  <2> QED
    BY <1>6, <2>1, <2>3 DEF Untouched
<1>9. Models' = Models
  BY DEF Models
<1> QED
  BY <1>3, <1>7, <1>8, <1>9 DEF IInv
-----------------------------------------------------------------------------
(* The steps.                                                              *)

LEMMA Becomes ==
  ASSUME IInv, NEW t \in Threads, NEW c, Become(t, c), c.who = call[t].who
  PROVE  /\ call'[t] = c
         /\ ModelAt(t)' = ModelAt(t) /\ Streams(t)' = Streams(t)
         /\ c.op = call[t].op => Own(t)' = Own(t)
         /\ \A pc : At(t, pc)' = (c.pc = pc)
<1>1. call'[t] = c
  BY DEF IInv, Shape, Become
<1> QED
  BY <1>1 DEF ModelAt, Streams, Own, At

\* A step of a call that does not work on a model yet, or no more.
LEMMA OffStep ==
  ASSUME Exclusive, IInv, NEW t \in Threads, NEW c \in Calls, Become(t, c),
         UNCHANGED forward, ~Working(t), ~At(t, "idle"), c.who = call[t].who,
         Stages(t)', RanOwn(t)', c.pc = "patch" => c.layer = 1,
         c.pc \notin {"run", "unpatch"} \/ ~Streams(t)
  PROVE  IInv'
<1>1. Untouched(ModelAt(t))
  BY CallLayers
<1>2. Fits(t)'
  <2>1. Working(t)' => c.pc = "patch" /\ c.layer = 1
    BY Becomes DEF Working
  <2>2. ASSUME c.pc = "patch", c.layer = 1, NEW l \in 1 .. Layers
        PROVE  ~Installed(t, l)'
    <3>1. call'[t] = c
      BY Becomes
    <3> QED
      BY <2>2, <3>1 DEF Installed, At
  <2> QED
    BY <1>1, <2>1, <2>2, Becomes DEF Fits, Untouched
<1> QED
  BY <1>2, QuietStep

LEMMA InitInv == Init => IInv
<1> SUFFICES ASSUME Init PROVE IInv
  OBVIOUS
<1>1. Layers \in Nat \ {0}
  BY SharedAssumption
<1>2. Stock \in Labels
  BY DEF Stock, Labels
<1>3. Idle \in Calls
  BY <1>1 DEF Idle, Calls
<1>4. Shape
  BY <1>2, <1>3 DEF Init, Shape
<1>5. ASSUME NEW t \in Threads
      PROVE  ~Working(t) /\ Stages(t) /\ RanOwn(t) /\ Fits(t)
  <2>1. call[t].pc = "idle"
    BY DEF Init, Idle
  <2> QED
    BY <2>1 DEF Working, Stages, RanOwn, Fits, At
<1>6. ASSUME NEW m \in Models PROVE Untouched(m)
  BY DEF Init, Untouched
<1> QED
  BY <1>4, <1>5, <1>6 DEF IInv

\* A call that has not begun.
LEMMA IdleCall ==
  /\ Idle \in Calls /\ Idle.pc = "idle" /\ Idle.saved = <<>>
  /\ Idle.layer = 1 /\ Idle.who = {}
<1>1. Layers \in Nat \ {0}
  BY SharedAssumption
<1> QED
  BY <1>1 DEF Idle, Calls

LEMMA BeginInv ==
  ASSUME Exclusive, IInv, NEW t \in Threads, NEW i \in Uses[t],
         NEW op \in {"generate", "beam", "reset"}, Begin(t, op, i)
  PROVE  IInv'
<1> DEFINE c == [Idle EXCEPT !.op = op, !.who = {i}, !.pc = "validate"]
<1>1. i \in Instances
  BY SharedAssumption
<1>2. /\ c \in Calls /\ c.pc = "validate" /\ c.who = {i} /\ c.op = op
      /\ c.saved = <<>>
  BY <1>1, IdleCall DEF Calls
<1>3. Become(t, c) /\ UNCHANGED forward /\ At(t, "idle")
  BY DEF Begin
<1> HIDE DEF c
<1>4. call'[t] = c
  BY <1>3 DEF IInv, Shape, Become
<1>5. ~Working(t) /\ ~Working(t)'
  BY <1>2, <1>3, <1>4 DEF Working, At
<1>6. Stages(t)'
  BY <1>2, <1>4 DEF Stages, At
<1>7. RanOwn(t)' /\ Fits(t)'
  BY <1>2, <1>4, <1>5 DEF RanOwn, Fits, At
<1> QED
  BY <1>2, <1>3, <1>5, <1>6, <1>7, QuietStep

LEMMA BatchInv ==
  ASSUME Exclusive, IInv, NEW t \in Threads, NEW S \in SUBSET Uses[t],
         BeginBatch(t, S)
  PROVE  IInv'
<1> DEFINE c == [Idle EXCEPT !.op = "batch", !.who = S, !.pc = "patch"]
<1>1. S \subseteq Instances /\ Layers \in Nat \ {0}
  BY SharedAssumption
<1>2. /\ c \in Calls /\ c.pc = "patch" /\ c.who = S /\ c.op = "batch"
      /\ c.saved = <<>> /\ c.layer = 1
  BY <1>1, IdleCall DEF Calls
<1>3. /\ Become(t, c) /\ UNCHANGED forward /\ At(t, "idle")
      /\ S # {} /\ \A i, j \in S : ModelOf[i] = ModelOf[j]
  BY DEF BeginBatch
<1> HIDE DEF c
<1>4. call'[t] = c
  BY <1>3 DEF IInv, Shape, Become
<1>5. ~Working(t)
  BY <1>3 DEF Working, At
<1>6. Stages(t)'
  BY <1>1, <1>2, <1>3, <1>4 DEF Stages, At
<1>7. Untouched(ModelAt(t)')
  <2>1. PICK j \in S : ModelAt(t)' = ModelOf[j]
    BY <1>2, <1>3, <1>4 DEF ModelAt
  <2> QED
    BY <1>5, <2>1, OwnLayers
<1>8. Fits(t)'
  <2>1. ASSUME NEW l \in 1 .. Layers PROVE ~Installed(t, l)'
    BY <1>2, <1>4 DEF Installed, At
  <2> QED
    BY <1>3, <1>7, <2>1 DEF Fits, Untouched
<1>9. RanOwn(t)'
  BY <1>2, <1>4 DEF RanOwn, At
<1> QED
  BY <1>2, <1>3, <1>5, <1>6, <1>8, <1>9, QuietStep

\* The call of t becomes c, at another stage of the same work.
Moves(t, c, pc) ==
  /\ Become(t, c)
  /\ c.who = call[t].who /\ c.op = call[t].op /\ c.saved = call[t].saved
  /\ c.pc = pc /\ c.layer = 1 /\ c.ran = {}

LEMMA MovesOn ==
  ASSUME IInv, NEW t \in Threads,
         NEW pc \in {"prefill", "patch", "run", "unpatch", "exit"},
         Goto(t, pc) \/ Leave(t, pc)
  PROVE  \E c \in Calls : Moves(t, c, pc)
<1>1. call[t] \in Calls /\ 1 \in 1 .. Layers + 1
  BY SharedAssumption DEF IInv, Shape
<1>2. CASE Goto(t, pc)
  <2> DEFINE c == [call[t] EXCEPT !.pc = pc, !.layer = 1, !.ran = {}]
  <2>1. /\ c \in Calls /\ c.who = call[t].who /\ c.op = call[t].op
        /\ c.saved = call[t].saved /\ c.pc = pc /\ c.layer = 1 /\ c.ran = {}
    BY <1>1 DEF Calls
  <2>2. Become(t, c)
    BY <1>2 DEF Goto
  <2> HIDE DEF c
  <2> QED
    BY <2>1, <2>2 DEF Moves
<1>3. CASE Leave(t, pc)
  <2> DEFINE c == [call[t] EXCEPT !.pc = pc, !.layer = 1, !.ran = {},
                                  !.raised = TRUE]
  <2>1. /\ c \in Calls /\ c.who = call[t].who /\ c.op = call[t].op
        /\ c.saved = call[t].saved /\ c.pc = pc /\ c.layer = 1 /\ c.ran = {}
    BY <1>1 DEF Calls
  <2>2. Become(t, c)
    BY <1>3 DEF Leave
  <2> HIDE DEF c
  <2> QED
    BY <2>1, <2>2 DEF Moves
<1> QED
  BY <1>2, <1>3

\* Leaving for the exit from a stage without a patched layer.
LEMMA ExitStage ==
  ASSUME Exclusive, IInv, NEW t \in Threads, ~At(t, "idle"), ~Working(t),
         Goto(t, "exit") \/ Leave(t, "exit"), UNCHANGED forward
  PROVE  IInv'
<1>1. PICK c \in Calls : Moves(t, c, "exit")
  BY MovesOn
<1>2. Become(t, c) /\ c.who = call[t].who /\ c.pc = "exit"
  BY <1>1 DEF Moves
<1>3. call'[t] = c
  BY <1>2, Becomes
<1>4. Stages(t)'
  <2>1. Stages(t)
    BY DEF IInv
  <2> QED
    BY <1>2, <1>3, <2>1 DEF Stages, At
<1>5. RanOwn(t)'
  BY <1>2, <1>3 DEF RanOwn, At
<1> QED
  BY <1>2, <1>4, <1>5, OffStep

LEMMA ValidateInv ==
  ASSUME Exclusive, IInv, NEW t \in Threads, Validate(t) \/ Reset(t)
  PROVE  IInv'
<1>1. /\ At(t, "validate") /\ ~Working(t) /\ ~At(t, "idle")
      /\ UNCHANGED forward
  BY DEF Validate, Reset, Working, At
<1>2. CASE Goto(t, "exit") \/ Leave(t, "exit")
  BY <1>1, <1>2, ExitStage
<1>3. ASSUME NEW pc \in {"prefill", "patch"}, Goto(t, pc),
             call[t].op \in {"generate", "beam"}
      PROVE  IInv'
  <2>1. PICK c \in Calls : Moves(t, c, pc)
    BY <1>3, MovesOn
  <2>2. call'[t] = c
    BY <2>1, Becomes DEF Moves
  <2>3. Stages(t)'
    <3>1. Stages(t) /\ call[t].saved = <<>>
      BY <1>1 DEF IInv, Stages, At
    <3> QED
      BY <1>1, <1>3, <2>1, <2>2, <3>1 DEF Stages, At, Moves
  <2>4. RanOwn(t)'
    BY <1>3, <2>1, <2>2 DEF RanOwn, At, Moves
  <2> QED
    BY <1>1, <1>3, <2>1, <2>3, <2>4, OffStep DEF Moves
<1> QED
  BY <1>2, <1>3 DEF Validate, Reset

\* The call of t has run one more layer, which had forward f.
Advances(t, c, f) ==
  /\ Become(t, c)
  /\ c.who = call[t].who /\ c.op = call[t].op /\ c.saved = call[t].saved
  /\ c.pc = call[t].pc /\ c.layer = call[t].layer + 1
  /\ c.ran = call[t].ran \cup {f}

LEMMA RunsLayer ==
  ASSUME IInv, NEW t \in Threads, ~At(t, "idle"), call[t].layer <= Layers,
         RunLayer(t)
  PROVE  \E c \in Calls :
           Advances(t, c, forward[ModelAt(t)][call[t].layer])
<1> DEFINE f == forward[ModelAt(t)][call[t].layer]
           c == [call[t] EXCEPT !.layer = @ + 1, !.ran = @ \cup {f}]
<1>1. Shape /\ Stages(t) /\ call[t] \in Calls
  BY DEF IInv, Shape
<1>2. call[t].layer \in 1 .. Layers + 1 /\ call[t].ran \subseteq Labels
  BY <1>1 DEF Calls
<1>3. call[t].layer \in 1 .. Layers /\ call[t].layer + 1 \in 1 .. Layers + 1
  BY <1>2, SharedAssumption
<1>4. f \in Labels
  <2>1. ModelAt(t) \in Models
    BY <1>1, ModelIsOne
  <2> QED
    BY <1>1, <1>3, <2>1 DEF Shape
<1>5. Become(t, c)
  BY DEF RunLayer
<1> HIDE DEF f
<1>6. call[t].ran \cup {f} \in SUBSET Labels
  BY <1>2, <1>4
<1>7. c \in Calls
  BY <1>1, <1>3, <1>6 DEF Calls
<1>8. /\ c.who = call[t].who /\ c.op = call[t].op /\ c.saved = call[t].saved
      /\ c.pc = call[t].pc /\ c.layer = call[t].layer + 1
      /\ c.ran = call[t].ran \cup {f}
  BY <1>1 DEF Calls
<1> HIDE DEF c
<1> QED
  BY <1>5, <1>7, <1>8 DEF Advances, f

LEMMA PrefillInv ==
  ASSUME Exclusive, IInv, NEW t \in Threads, Prefill(t) \/ PrefillRaises(t)
  PROVE  IInv'
<1>1. /\ At(t, "prefill") /\ ~Working(t) /\ ~At(t, "idle")
      /\ UNCHANGED forward /\ Stages(t) /\ RanOwn(t) /\ Shape
  BY DEF Prefill, PrefillRaises, Working, At, IInv
<1>2. CASE PrefillRaises(t)
  BY <1>1, <1>2, ExitStage DEF PrefillRaises
<1>3. CASE Goto(t, "patch")
  <2>1. PICK c \in Calls : Moves(t, c, "patch")
    BY <1>3, MovesOn
  <2>2. call'[t] = c
    BY <2>1, Becomes DEF Moves
  <2>3. Stages(t)'
    BY <1>1, <2>1, <2>2 DEF Stages, At, Moves
  <2>4. RanOwn(t)'
    BY <2>1, <2>2 DEF RanOwn, At, Moves
  <2> QED
    BY <1>1, <2>1, <2>3, <2>4, OffStep DEF Moves
<1>4. CASE call[t].layer <= Layers /\ RunLayer(t)
  <2>1. call[t] \in Calls /\ call[t].layer \in 1 .. Layers
    BY <1>1, <1>4, SharedAssumption DEF Shape, Calls
  <2>2. forward[ModelAt(t)][call[t].layer] = Stock
    BY <1>1, <2>1, CallLayers DEF Untouched
  <2>3. PICK c \in Calls : Advances(t, c, Stock)
    BY <1>1, <1>4, <2>2, RunsLayer
  <2>4. call'[t] = c
    BY <2>3, Becomes DEF Advances
  <2>5. Stages(t)'
    BY <1>1, <2>3, <2>4 DEF Stages, At, Advances
  <2>6. RanOwn(t)'
    BY <1>1, <2>3, <2>4 DEF RanOwn, At, Advances
  <2> QED
    BY <1>1, <2>3, <2>5, <2>6, OffStep DEF At, Advances
<1> QED
  BY <1>1, <1>2, <1>3, <1>4 DEF Prefill

\* Installing the forwards, layer by layer.
LEMMA PatchInv ==
  ASSUME Exclusive, IInv, NEW t \in Threads, Patch(t)
  PROVE  IInv'
<1>1. /\ At(t, "patch") /\ ~At(t, "idle") /\ Shape /\ Stages(t) /\ RanOwn(t)
      /\ Fits(t) /\ call[t] \in Calls
  BY DEF Patch, At, IInv, Shape
<1>2. Layers \in Nat \ {0} /\ call[t].layer \in 1 .. Layers + 1
  BY <1>1, SharedAssumption DEF Calls
<1>3. CASE ~Streams(t)
  <2>1. Goto(t, "run") /\ UNCHANGED forward /\ ~Working(t)
    BY <1>3 DEF Patch, Working
  <2>2. PICK c \in Calls : Moves(t, c, "run")
    BY <2>1, MovesOn
  <2>3. call'[t] = c /\ Streams(t)' = Streams(t)
    BY <2>2, Becomes DEF Moves
  <2>4. Stages(t)'
    BY <1>1, <1>3, <2>2, <2>3 DEF Stages, At, Moves
  <2>5. RanOwn(t)'
    BY <2>2, <2>3 DEF RanOwn, At, Moves
  <2> QED
    BY <1>1, <1>3, <2>1, <2>2, <2>4, <2>5, OffStep DEF Moves
<1>4. CASE Streams(t) /\ ModelAt(t) \in Unsupported
  <2>1. Leave(t, "exit") /\ UNCHANGED forward /\ ~Working(t)
    BY <1>4 DEF Patch, Working
  <2> QED
    BY <1>1, <2>1, ExitStage
<1>5. CASE Streams(t) /\ ModelAt(t) \notin Unsupported /\ call[t].layer <= Layers
  <2>0. PICK l \in 1 .. Layers : l = call[t].layer
    BY <1>2, <1>5
  <2> DEFINE s == Append(call[t].saved, forward[ModelAt(t)][l])
             c == [call[t] EXCEPT !.layer = l + 1,
                                  !.saved = Append(@, forward[ModelAt(t)][l])]
  <2>1. l \in 1 .. Layers /\ l + 1 \in 1 .. Layers + 1
    BY <1>2
  <2>2. Working(t) /\ ~Installed(t, l)
    BY <1>1, <1>5, <2>0 DEF Working, Installed, At
  <2>3. forward[ModelAt(t)][l] = Stock
    BY <1>1, <2>1, <2>2 DEF Fits
  <2>4. call[t].saved \in Seq({Stock}) /\ Len(call[t].saved) = l - 1
    BY <1>1, <2>0 DEF Calls, Stages
  <2>5. s \in Seq({Stock}) /\ Len(s) = l
    BY <2>1, <2>3, <2>4
  <2>6. /\ Become(t, c) /\ forward' = [forward EXCEPT ![ModelAt(t)][l] = Own(t)]
    BY <1>5, <2>0 DEF Patch
  <2>7. c = [call[t] EXCEPT !.layer = l + 1, !.saved = s]
    BY <1>1 DEF Calls
  <2>8. /\ c \in Calls /\ c.who = call[t].who /\ c.op = call[t].op
        /\ c.pc = "patch" /\ c.layer = l + 1 /\ c.saved = s
    BY <1>1, <2>1, <2>5, <2>7 DEF Calls, At
  <2> HIDE DEF c, s
  <2>9. /\ call'[t] = c /\ Streams(t)' = Streams(t)
        /\ ModelAt(t)' = ModelAt(t)
    BY <2>6, <2>8, Becomes
  <2>10. Stages(t)'
    <3>1. Len(c.saved) = c.layer - 1
      BY <2>1, <2>5, <2>8
    <3> QED
      BY <1>1, <2>8, <2>9, <3>1 DEF Stages, At
  <2>11. RanOwn(t)' /\ Working(t)'
    BY <1>5, <2>8, <2>9 DEF RanOwn, At, Working
  <2>12. ASSUME NEW k \in 1 .. Layers
         PROVE  Installed(t, k)' <=> k < l + 1
    BY <2>8, <2>9 DEF Installed, At
  <2>13. ASSUME NEW k \in 1 .. Layers PROVE Installed(t, k) <=> k < l
    BY <1>1, <2>0 DEF Installed, At
  <2>14. \A k \in (1 .. Layers) \ {l} : Installed(t, k)' = Installed(t, k)
    <3>1. ASSUME NEW k \in (1 .. Layers) \ {l} PROVE k < l + 1 <=> k < l
      BY <2>1
    <3>2. \A k : Installed(t, k) \in BOOLEAN /\ Installed(t, k)' \in BOOLEAN
      BY DEF Installed
    <3> QED
      BY <2>12, <2>13, <3>1, <3>2
  <2>15. Own(t) \in Labels
    BY <1>1 DEF Own, Labels, Calls, Stages, At
  <2>16. Installed(t, l)'
    <3>1. l < l + 1
      BY <2>1
    <3> QED
      BY <2>1, <2>12, <3>1
  <2>17. Own(t) = IF Installed(t, l)' THEN Own(t) ELSE Stock
    BY <2>16
  <2>18. c \in Calls /\ Become(t, c) /\ c.who = call[t].who /\ c.op = call[t].op
    BY <2>6, <2>8
  <2>19. Working(t) /\ Working(t)' /\ Stages(t)' /\ RanOwn(t)'
    BY <2>2, <2>10, <2>11
  <2>20. forward' = [forward EXCEPT ![ModelAt(t)][l] = Own(t)]
    BY <2>6
  <2> QED
    BY <2>1, <2>14, <2>15, <2>17, <2>18, <2>19, <2>20, LayerStep
<1>6. CASE Streams(t) /\ ModelAt(t) \notin Unsupported /\ call[t].layer > Layers
  <2>1. Goto(t, "run") /\ UNCHANGED forward
    BY <1>2, <1>6 DEF Patch
  <2>2. PICK c \in Calls : Moves(t, c, "run")
    BY <2>1, MovesOn
  <2>3. /\ call'[t] = c /\ Streams(t)' = Streams(t) /\ Own(t)' = Own(t)
        /\ ModelAt(t)' = ModelAt(t) /\ \A pc : At(t, pc)' = (c.pc = pc)
    BY <2>2, Becomes DEF Moves
  <2>4. Stages(t)'
    <3>1. Len(call[t].saved) = Layers
      BY <1>1, <1>2, <1>6 DEF Stages
    <3> QED
      BY <1>1, <1>6, <2>2, <2>3, <3>1 DEF Stages, At, Moves
  <2>5. RanOwn(t)'
    BY <2>2, <2>3 DEF RanOwn, At, Moves
  <2>6. Working(t) /\ Working(t)'
    BY <1>1, <1>6, <2>2, <2>3 DEF Working, At, Moves
  <2>7. Fits(t)'
    <3>1. ASSUME NEW k \in 1 .. Layers PROVE Installed(t, k) /\ Installed(t, k)'
      BY <1>1, <1>2, <1>6, <2>2, <2>3 DEF Installed, At, Moves
    <3> QED
      BY <1>1, <2>1, <2>3, <2>6, <3>1 DEF Fits
  <2> QED
    BY <2>1, <2>2, <2>4, <2>5, <2>6, <2>7, QuietStep DEF Moves
<1> QED
  BY <1>2, <1>3, <1>4, <1>5, <1>6

\* The end of the forward steps, with an exception or without.
LEMMA FinishInv ==
  ASSUME Exclusive, IInv, NEW t \in Threads, At(t, "run"), UNCHANGED forward,
         Goto(t, After(t)) \/ Leave(t, After(t))
  PROVE  IInv'
<1>1. /\ ~At(t, "idle") /\ Shape /\ Stages(t) /\ Fits(t)
      /\ call[t] \in Calls /\ Layers \in Nat
  BY SharedAssumption DEF At, IInv, Shape
<1>2. CASE ~Streams(t)
  <2>1. ~Working(t) /\ (Goto(t, "exit") \/ Leave(t, "exit"))
    BY <1>2 DEF Working, After
  <2> QED
    BY <1>1, <2>1, ExitStage
<1>3. CASE Streams(t)
  <2>1. Goto(t, "unpatch") \/ Leave(t, "unpatch")
    BY <1>3 DEF After
  <2>2. PICK c \in Calls : Moves(t, c, "unpatch")
    BY <2>1, MovesOn
  <2>3. /\ call'[t] = c /\ Streams(t)' = Streams(t) /\ Own(t)' = Own(t)
        /\ ModelAt(t)' = ModelAt(t) /\ \A pc : At(t, pc)' = (c.pc = pc)
    BY <2>2, Becomes DEF Moves
  <2>4. Stages(t)'
    BY <1>1, <1>3, <2>2, <2>3 DEF Stages, At, Moves
  <2>5. RanOwn(t)'
    BY <2>2, <2>3 DEF RanOwn, At, Moves
  <2>6. Working(t) /\ Working(t)'
    BY <1>1, <1>3, <2>2, <2>3 DEF Working, Stages, At, Moves
  <2>7. Fits(t)'
    <3>1. ASSUME NEW k \in 1 .. Layers PROVE Installed(t, k) /\ Installed(t, k)'
      BY <1>1, <2>2, <2>3 DEF Installed, At, Moves
    <3> QED
      BY <1>1, <2>3, <2>6, <3>1 DEF Fits
  <2> QED
    BY <2>2, <2>4, <2>5, <2>6, <2>7, QuietStep DEF Moves
<1> QED
  BY <1>2, <1>3

\* A pass through the model runs the forwards the call put there.
LEMMA RunInv ==
  ASSUME Exclusive, IInv, NEW t \in Threads, Run(t)
  PROVE  IInv'
<1>1. /\ At(t, "run") /\ ~At(t, "idle") /\ Shape /\ Stages(t) /\ RanOwn(t)
      /\ Fits(t) /\ call[t] \in Calls /\ UNCHANGED forward
  BY DEF Run, At, IInv, Shape
<1>2. Layers \in Nat \ {0} /\ call[t].layer \in 1 .. Layers + 1
  BY <1>1, SharedAssumption DEF Calls
<1>3. Working(t) <=> Streams(t)
  BY <1>1 DEF Working, Stages, At
<1>4. \A k \in 1 .. Layers : Installed(t, k)
  BY <1>1 DEF Installed
\* A step after which the call is still at "run".
<1>5. ASSUME NEW c \in Calls, Become(t, c), c.pc = "run",
             c.who = call[t].who, c.op = call[t].op, c.saved = call[t].saved,
             c.ran \subseteq {IF Streams(t) THEN Own(t) ELSE Stock}
      PROVE  IInv'
  <2>1. /\ call'[t] = c /\ Streams(t)' = Streams(t) /\ Own(t)' = Own(t)
        /\ ModelAt(t)' = ModelAt(t) /\ \A pc : At(t, pc)' = (c.pc = pc)
    BY <1>5, Becomes
  <2>2. Stages(t)'
    BY <1>1, <1>5, <2>1 DEF Stages, At
  <2>3. RanOwn(t)'
    BY <1>5, <2>1 DEF RanOwn, At
  <2>4. Working(t)' = Working(t)
    BY <1>1, <1>5, <2>1 DEF Working, At
  <2>5. Fits(t)'
    <3>1. \A k \in 1 .. Layers : Installed(t, k)'
      BY <1>5, <2>1 DEF Installed
    <3> QED
      BY <1>1, <1>4, <2>1, <2>4, <3>1 DEF Fits
  <2> QED
    BY <1>1, <1>5, <2>2, <2>3, <2>4, <2>5, QuietStep
<1>6. CASE call[t].layer <= Layers /\ RunLayer(t)
  <2> DEFINE f == forward[ModelAt(t)][call[t].layer]
  <2>1. call[t].layer \in 1 .. Layers
    BY <1>2, <1>6
  <2>2. f = IF Streams(t) THEN Own(t) ELSE Stock
    <3>1. CASE Streams(t)
      BY <1>1, <1>3, <1>4, <2>1, <3>1 DEF Fits
    <3>2. CASE ~Streams(t)
      BY <1>1, <1>3, <2>1, <3>2, CallLayers DEF Untouched
    <3> QED
      BY <3>1, <3>2
  <2> HIDE DEF f
  <2>3. PICK c \in Calls : Advances(t, c, f)
    BY <1>1, <1>6, RunsLayer DEF f
  <2>4. c.ran \subseteq {IF Streams(t) THEN Own(t) ELSE Stock}
    BY <1>1, <2>2, <2>3 DEF Advances, RanOwn
  <2> QED
    BY <1>1, <1>5, <2>3, <2>4 DEF Advances, At
<1>7. ASSUME Become(t, [call[t] EXCEPT !.layer = 1, !.ran = {},
                                       !.steps = @ + 1])
      PROVE  IInv'
  <2> DEFINE c == [call[t] EXCEPT !.layer = 1, !.ran = {}, !.steps = @ + 1]
  <2>1. call[t].steps + 1 \in Nat /\ 1 \in 1 .. Layers + 1
    BY <1>1, <1>2 DEF Calls
  <2>2. /\ c \in Calls /\ c.who = call[t].who /\ c.op = call[t].op
        /\ c.pc = "run" /\ c.saved = call[t].saved /\ c.ran = {}
    BY <1>1, <2>1 DEF Calls, At
  <2>3. Become(t, c)
    BY <1>7
  <2> HIDE DEF c
  <2> QED
    BY <1>5, <2>2, <2>3
<1>8. ASSUME Goto(t, After(t)) PROVE IInv'
  BY <1>1, <1>8, FinishInv
<1> QED
  BY <1>6, <1>7, <1>8 DEF Run

\* Restoring the forwards, layer by layer.
LEMMA UnpatchInv ==
  ASSUME Exclusive, IInv, NEW t \in Threads, Unpatch(t)
  PROVE  IInv'
<1>1. /\ At(t, "unpatch") /\ ~At(t, "idle") /\ Shape /\ Stages(t) /\ RanOwn(t)
      /\ Fits(t) /\ call[t] \in Calls /\ Streams(t) /\ Working(t)
  BY DEF Unpatch, At, IInv, Shape, Stages, Working
<1>2. Layers \in Nat \ {0} /\ call[t].layer \in 1 .. Layers + 1
  BY <1>1, SharedAssumption DEF Calls
<1>3. CASE call[t].layer <= Layers
  <2>1. PICK l \in 1 .. Layers : l = call[t].layer
    BY <1>2, <1>3
  <2> DEFINE c == [call[t] EXCEPT !.layer = @ + 1]
  <2>2. l + 1 \in 1 .. Layers + 1
    BY <1>2
  <2>3. call[t].saved[l] = Stock
    <3>1. call[t].saved \in Seq({Stock}) /\ Len(call[t].saved) = Layers
      BY <1>1 DEF Calls, Stages, At
    <3> QED
      BY <3>1
  <2>4. Become(t, c) /\ forward' = [forward EXCEPT ![ModelAt(t)][l] = Stock]
    BY <1>3, <2>1, <2>3 DEF Unpatch
  <2>5. /\ c \in Calls /\ c.who = call[t].who /\ c.op = call[t].op
        /\ c.pc = "unpatch" /\ c.layer = l + 1 /\ c.saved = call[t].saved
    BY <1>1, <2>1, <2>2 DEF Calls, At
  <2> HIDE DEF c
  <2>6. /\ call'[t] = c /\ Streams(t)' = Streams(t)
        /\ ModelAt(t)' = ModelAt(t) /\ \A pc : At(t, pc)' = (c.pc = pc)
    BY <2>4, <2>5, Becomes
  <2>7. Stages(t)' /\ RanOwn(t)' /\ Working(t)'
    BY <1>1, <2>5, <2>6 DEF Stages, RanOwn, Working, At
  <2>8. ASSUME NEW k \in 1 .. Layers
        PROVE  Installed(t, k)' <=> k >= l + 1
    BY <2>5, <2>6 DEF Installed, At
  <2>9. ASSUME NEW k \in 1 .. Layers PROVE Installed(t, k) <=> k >= l
    BY <1>1, <2>1 DEF Installed, At
  <2>10. \A k \in (1 .. Layers) \ {l} : Installed(t, k)' = Installed(t, k)
    <3>1. ASSUME NEW k \in (1 .. Layers) \ {l} PROVE k >= l + 1 <=> k >= l
      BY <1>2
    <3>2. \A k : Installed(t, k) \in BOOLEAN /\ Installed(t, k)' \in BOOLEAN
      BY DEF Installed
    <3> QED
      BY <2>8, <2>9, <3>1, <3>2
  <2>11. Stock = IF Installed(t, l)' THEN Own(t) ELSE Stock
    <3>1. ~(l >= l + 1)
      BY <2>1
    <3> QED
      BY <2>8, <3>1
  <2>12. Stock \in Labels
    BY DEF Stock, Labels
  <2> QED
    BY <1>1, <2>4, <2>5, <2>7, <2>10, <2>11, <2>12, LayerStep
<1>4. CASE call[t].layer > Layers
  <2>1. Goto(t, "exit") /\ UNCHANGED forward
    BY <1>2, <1>4 DEF Unpatch
  <2>2. PICK c \in Calls : Moves(t, c, "exit")
    BY <2>1, MovesOn
  <2>3. call'[t] = c
    BY <2>2, Becomes DEF Moves
  <2>4. Stages(t)' /\ RanOwn(t)' /\ ~Working(t)'
    BY <1>1, <2>2, <2>3 DEF Stages, RanOwn, Working, At, Moves
  <2>5. Fits(t)'
    BY <2>4 DEF Fits
  <2>6. Untouched(ModelAt(t))
    <3>1. ASSUME NEW k \in 1 .. Layers PROVE ~Installed(t, k)
      BY <1>1, <1>2, <1>4 DEF Installed, At
    <3> QED
      BY <1>1, <3>1 DEF Fits, Untouched
  <2> QED
    BY <2>1, <2>2, <2>4, <2>5, <2>6, QuietStep DEF Moves
<1> QED
  BY <1>2, <1>3, <1>4

LEMMA ExitInv ==
  ASSUME Exclusive, IInv, NEW t \in Threads, Exit(t)
  PROVE  IInv'
<1>1. At(t, "exit") /\ ~Working(t) /\ Become(t, Idle) /\ UNCHANGED forward
  BY DEF Exit, At, Working
<1>2. call'[t] = Idle
  BY <1>1 DEF IInv, Shape, Become
<1>3. Stages(t)' /\ RanOwn(t)' /\ ~Working(t)'
  BY <1>2, IdleCall DEF Stages, RanOwn, Working, At
<1>4. Fits(t)'
  BY <1>3 DEF Fits
<1> QED
  BY <1>1, <1>3, <1>4, IdleCall, QuietStep

LEMMA Unchanged ==
  ASSUME IInv, UNCHANGED vars
  PROVE  IInv'
<1>1. forward' = forward /\ call' = call /\ Models' = Models
  BY DEF vars, Models
<1>2. Shape'
  BY <1>1 DEF IInv, Shape
<1>3. ASSUME NEW t \in Threads
      PROVE  /\ Stages(t)' /\ RanOwn(t)' /\ Fits(t)'
             /\ Working(t)' = Working(t) /\ ModelAt(t)' = ModelAt(t)
  <2>1. Stages(t) /\ RanOwn(t) /\ Fits(t)
    BY DEF IInv
  <2>2. /\ ModelAt(t)' = ModelAt(t) /\ Own(t)' = Own(t)
        /\ Streams(t)' = Streams(t) /\ \A pc : At(t, pc)' = At(t, pc)
    BY <1>1 DEF ModelAt, Own, Streams, At
  <2>3. Working(t)' = Working(t)
    BY <1>1, <2>2 DEF Working
  <2>4. \A l \in 1 .. Layers : Installed(t, l)' = Installed(t, l)
    BY <1>1, <2>2 DEF Installed
  <2> QED
    BY <1>1, <2>1, <2>2, <2>3, <2>4 DEF Stages, RanOwn, Fits
<1>4. ASSUME NEW m \in Models,
             (\A t \in Threads : Working(t) => ModelAt(t) # m)'
      PROVE  Untouched(m)'
  <2>1. Untouched(m)
    BY <1>3, <1>4 DEF IInv
  <2> QED
    BY <1>1, <2>1 DEF Untouched
<1> QED
  BY <1>1, <1>2, <1>3, <1>4 DEF IInv

LEMMA NextInv ==
  ASSUME Exclusive, IInv, [Next]_vars
  PROVE  IInv'
<1>1. ASSUME NEW t \in Threads, Start(t) PROVE IInv'
  <2>1. ASSUME NEW i \in Uses[t], Refuse(t, i) PROVE IInv'
    BY <2>1, Unchanged DEF Refuse
  <2> QED
    BY <1>1, <2>1, BeginInv, BatchInv DEF Start
<1>2. ASSUME NEW t \in Threads, Continue(t) PROVE IInv'
  <2>1. CASE RunRaises(t)
    BY <2>1, FinishInv DEF RunRaises
  <2> QED
    BY <1>2, <2>1, ValidateInv, PrefillInv, PatchInv, RunInv, UnpatchInv,
       ExitInv DEF Continue
<1> QED
  BY <1>1, <1>2, Unchanged DEF Next

\* Calls on a model that one thread patches, and no other thread uses, keep
\* their layers apart.
LEMMA Inductive ==
  ASSUME Exclusive
  PROVE  Spec => []IInv
<1>1. IInv /\ [Next]_vars => IInv'
  BY NextInv
<1> QED
  BY <1>1, InitInv, PTL DEF Spec

\* Every pass runs the forwards the call means it to run, through patches and
\* exceptions of other calls, when no other thread uses a model that a thread
\* patches: OwnForward for any number of threads, models and layers.
THEOREM RunsOwnForward ==
  ASSUME Exclusive
  PROVE  Spec => []OwnForward
<1>1. IInv => OwnForward
  BY DEF IInv, RanOwn, OwnForward
<1> QED
  BY <1>1, Inductive, PTL

\* The finally of every call leaves its model as it was loaded, however the
\* call ended and whatever calls of its thread ran before: Restored.
THEOREM LeavesStock ==
  ASSUME Exclusive
  PROVE  Spec => []Restored
<1>1. IInv => Restored
  BY DEF IInv, Working, Untouched, Restored
<1> QED
  BY <1>1, Inductive, PTL

-----------------------------------------------------------------------------
(* One call per instance: this needs no discipline but the lock's. *)

\* The calls are records with these fields at least.
Recorded ==
  /\ DOMAIN call = Threads
  /\ \A t \in Threads : {"op", "who", "pc"} \subseteq DOMAIN call[t]

\* Who is inside a call holds the lock of its instance; a batch holds none, but
\* has instances that are no other thread's.
Holds(t) ==
  /\ At(t, "idle") => call[t].who = {}
  /\ call[t].who \subseteq Uses[t]
  /\ call[t].op = "batch" =>
       \A u \in Threads \ {t} : call[t].who \cap Uses[u] = {}
  /\ call[t].op # "batch" => \A i \in call[t].who : lock[i] = t

LockInv ==
  /\ lock \in [Instances -> Threads \cup {NoThread}]
  /\ Recorded
  /\ \A t \in Threads : Holds(t)

LEMMA InitLocks == Init => LockInv
<1> SUFFICES ASSUME Init PROVE LockInv
  OBVIOUS
<1>1. /\ {"op", "who", "pc"} \subseteq DOMAIN Idle
      /\ Idle.who = {} /\ Idle.op = "none"
  BY DEF Idle
<1>2. Recorded /\ \A t \in Threads : call[t] = Idle
  BY <1>1 DEF Init, Recorded
<1>3. lock \in [Instances -> Threads \cup {NoThread}]
  BY DEF Init
<1>4. ASSUME NEW t \in Threads PROVE Holds(t)
  BY <1>1, <1>2 DEF Holds
<1> QED
  BY <1>2, <1>3, <1>4 DEF LockInv

\* A call of a thread becomes c.
LEMMA BecomesCall ==
  ASSUME Recorded, NEW t \in Threads, NEW c, Become(t, c),
         {"op", "who", "pc"} \subseteq DOMAIN c
  PROVE  /\ Recorded' /\ call'[t] = c
         /\ \A u \in Threads \ {t} : call'[u] = call[u]
<1>1. call' = [call EXCEPT ![t] = c] /\ DOMAIN call = Threads
  BY DEF Become, Recorded
<1>2. /\ DOMAIN call' = Threads /\ call'[t] = c
      /\ \A u \in Threads \ {t} : call'[u] = call[u]
  BY <1>1
<1>3. \A u \in Threads : {"op", "who", "pc"} \subseteq DOMAIN call'[u]
  <2> SUFFICES ASSUME NEW u \in Threads
               PROVE  {"op", "who", "pc"} \subseteq DOMAIN call'[u]
    OBVIOUS
  <2>1. CASE u = t
    BY <1>2, <2>1
  <2>2. CASE u # t
    BY <1>2, <2>2 DEF Recorded
  <2> QED
    BY <2>1, <2>2
<1> QED
  BY <1>2, <1>3 DEF Recorded

\* Inside a call, its instances and the locks stay.
LEMMA InsideLocks ==
  ASSUME LockInv, NEW t \in Threads, NEW c, Become(t, c), lock' = lock,
         {"op", "who", "pc"} \subseteq DOMAIN c,
         c.who = call[t].who, c.op = call[t].op, c.pc # "idle"
  PROVE  LockInv'
<1>1. /\ Recorded' /\ call'[t] = c
      /\ \A u \in Threads \ {t} : call'[u] = call[u]
  BY BecomesCall DEF LockInv
<1>2. Holds(t)'
  BY <1>1 DEF LockInv, Holds, At
<1>3. ASSUME NEW u \in Threads \ {t} PROVE Holds(u)'
  BY <1>1, <1>3 DEF LockInv, Holds, At
<1> QED
  BY <1>1, <1>2, <1>3 DEF LockInv

LEMMA GotoLocks ==
  ASSUME LockInv, NEW t \in Threads, NEW pc, pc # "idle",
         Goto(t, pc) \/ Leave(t, pc), lock' = lock
  PROVE  LockInv'
<1>1. {"op", "who", "pc"} \subseteq DOMAIN call[t]
  BY DEF LockInv, Recorded
<1>2. CASE Goto(t, pc)
  <2>1. PICK c : c = [call[t] EXCEPT !.pc = pc, !.layer = 1, !.ran = {}]
    OBVIOUS
  <2>2. /\ {"op", "who", "pc"} \subseteq DOMAIN c
        /\ c.who = call[t].who /\ c.op = call[t].op /\ c.pc = pc
    BY <1>1, <2>1
  <2>3. Become(t, c)
    BY <1>2, <2>1 DEF Goto
  <2> QED
    BY <2>2, <2>3, InsideLocks
<1>3. CASE Leave(t, pc)
  <2>1. PICK c : c = [call[t] EXCEPT !.pc = pc, !.layer = 1, !.ran = {},
                                     !.raised = TRUE]
    OBVIOUS
  <2>2. /\ {"op", "who", "pc"} \subseteq DOMAIN c
        /\ c.who = call[t].who /\ c.op = call[t].op /\ c.pc = pc
    BY <1>1, <2>1
  <2>3. Become(t, c)
    BY <1>3, <2>1 DEF Leave
  <2> QED
    BY <2>2, <2>3, InsideLocks
<1> QED
  BY <1>2, <1>3

LEMMA BeginLocks ==
  ASSUME LockInv, NEW t \in Threads, Start(t)
  PROVE  LockInv'
<1>1. {"op", "who", "pc"} \subseteq DOMAIN Idle
  BY DEF Idle
<1>2. ASSUME NEW op \in {"generate", "beam", "reset"}, NEW i \in Uses[t],
             Begin(t, op, i)
      PROVE  LockInv'
  <2>1. PICK c : c = [Idle EXCEPT !.op = op, !.who = {i}, !.pc = "validate"]
    OBVIOUS
  <2>2. /\ {"op", "who", "pc"} \subseteq DOMAIN c
        /\ c.who = {i} /\ c.op = op /\ c.pc = "validate"
    BY <2>1 DEF Idle
  <2>3. /\ Recorded' /\ call'[t] = c
        /\ \A u \in Threads \ {t} : call'[u] = call[u]
    BY <1>2, <2>1, <2>2, BecomesCall DEF Begin, LockInv
  <2>4. /\ lock[i] = NoThread /\ lock' = [lock EXCEPT ![i] = t]
        /\ i \in Instances /\ NoThread \notin Threads
    BY <1>2, SharedAssumption DEF Begin, Acquire
  <2>5. /\ lock' \in [Instances -> Threads \cup {NoThread}]
        /\ lock'[i] = t /\ \A j \in Instances \ {i} : lock'[j] = lock[j]
    BY <2>4 DEF LockInv
  <2>6. Holds(t)'
    BY <2>2, <2>3, <2>5 DEF Holds, At
  <2>7. ASSUME NEW u \in Threads \ {t} PROVE Holds(u)'
    <3>1. Holds(u) /\ call'[u] = call[u] /\ call[u].who \subseteq Instances
      BY <2>3, SharedAssumption DEF LockInv, Holds
    <3>2. ASSUME call[u].op # "batch" PROVE \A j \in call[u].who : lock'[j] = u
      BY <2>4, <2>5, <3>1, <3>2 DEF Holds
    <3> QED
      BY <3>1, <3>2 DEF Holds, At
  <2> QED
    BY <2>3, <2>5, <2>6, <2>7 DEF LockInv
<1>3. ASSUME NEW sessions \in SUBSET Uses[t], BeginBatch(t, sessions)
      PROVE  LockInv'
  <2>1. PICK c : c = [Idle EXCEPT !.op = "batch", !.who = sessions,
                                  !.pc = "patch"]
    OBVIOUS
  <2>2. /\ {"op", "who", "pc"} \subseteq DOMAIN c
        /\ c.who = sessions /\ c.op = "batch" /\ c.pc = "patch"
    BY <2>1 DEF Idle
  <2>3. /\ Recorded' /\ call'[t] = c /\ lock' = lock
        /\ \A u \in Threads \ {t} : call'[u] = call[u]
    BY <1>3, <2>1, <2>2, BecomesCall DEF BeginBatch, LockInv
  <2>4. \A u \in Threads \ {t} : sessions \cap Uses[u] = {}
    BY <1>3 DEF BeginBatch
  <2>5. Holds(t)'
    BY <2>2, <2>3, <2>4 DEF Holds, At
  <2>6. ASSUME NEW u \in Threads \ {t} PROVE Holds(u)'
    BY <2>3 DEF LockInv, Holds, At
  <2> QED
    BY <2>3, <2>5, <2>6 DEF LockInv
<1>4. ASSUME UNCHANGED vars PROVE LockInv'
  BY <1>4 DEF vars, LockInv, Recorded, Holds, At
<1> QED
  BY <1>2, <1>3, <1>4 DEF Start, Refuse

\* A call becomes c, which is at the same place.
Along(t, c) ==
  /\ Become(t, c) /\ {"op", "who", "pc"} \subseteq DOMAIN c
  /\ c.who = call[t].who /\ c.op = call[t].op /\ c.pc = call[t].pc

LEMMA AlongLocks ==
  ASSUME LockInv, NEW t \in Threads, ~At(t, "idle"), lock' = lock,
         NEW c, Along(t, c)
  PROVE  LockInv'
BY InsideLocks DEF Along, At

LEMMA ContinueLocks ==
  ASSUME LockInv, NEW t \in Threads, Continue(t)
  PROVE  LockInv'
<1>0. {"op", "who", "pc"} \subseteq DOMAIN call[t]
  BY DEF LockInv, Recorded
<1>1. ASSUME RunLayer(t), ~At(t, "idle"), lock' = lock PROVE LockInv'
  <2>1. PICK c : /\ Become(t, c)
                 /\ \E l, r : c = [call[t] EXCEPT !.layer = l, !.ran = r]
    BY <1>1 DEF RunLayer
  <2>2. Along(t, c)
    BY <1>0, <2>1 DEF Along
  <2> QED
    BY <1>1, <2>2, AlongLocks
<1>2. CASE Validate(t) \/ Reset(t) \/ PrefillRaises(t) \/ RunRaises(t)
  <2>1. lock' = lock /\ \E pc \in {"exit", "prefill", "patch", "unpatch"} :
                          Goto(t, pc) \/ Leave(t, pc)
    BY <1>2 DEF Validate, Reset, PrefillRaises, RunRaises, After
  <2> QED
    BY <2>1, GotoLocks
<1>3. CASE Prefill(t)
  <2>1. ~At(t, "idle") /\ lock' = lock /\ (RunLayer(t) \/ Goto(t, "patch"))
    BY <1>3 DEF Prefill, At
  <2> QED
    BY <1>1, <2>1, GotoLocks
<1>4. CASE Patch(t)
  <2>1. /\ ~At(t, "idle") /\ lock' = lock
        /\ \/ Goto(t, "run") \/ Leave(t, "exit")
           \/ \E l, s : Become(t, [call[t] EXCEPT !.layer = l, !.saved = s])
    BY <1>4 DEF Patch, At
  <2>2. ASSUME NEW l, NEW s, Become(t, [call[t] EXCEPT !.layer = l, !.saved = s])
        PROVE  LockInv'
    <3>1. Along(t, [call[t] EXCEPT !.layer = l, !.saved = s])
      BY <1>0, <2>2 DEF Along
    <3> QED
      BY <2>1, <3>1, AlongLocks
  <2> QED
    BY <2>1, <2>2, GotoLocks
<1>5. CASE Run(t)
  <2>1. /\ ~At(t, "idle") /\ lock' = lock
        /\ \/ RunLayer(t) \/ Goto(t, "unpatch") \/ Goto(t, "exit")
           \/ \E n : Become(t, [call[t] EXCEPT !.layer = 1, !.ran = {},
                                               !.steps = n])
    BY <1>5 DEF Run, At, After
  <2>2. ASSUME NEW n, Become(t, [call[t] EXCEPT !.layer = 1, !.ran = {},
                                                !.steps = n])
        PROVE  LockInv'
    <3>1. Along(t, [call[t] EXCEPT !.layer = 1, !.ran = {}, !.steps = n])
      BY <1>0, <2>2 DEF Along
    <3> QED
      BY <2>1, <3>1, AlongLocks
  <2> QED
    BY <1>1, <2>1, <2>2, GotoLocks
<1>6. CASE Unpatch(t)
  <2>1. /\ ~At(t, "idle") /\ lock' = lock
        /\ \/ Goto(t, "exit")
           \/ \E l : Become(t, [call[t] EXCEPT !.layer = l])
    BY <1>6 DEF Unpatch, At
  <2>2. ASSUME NEW l, Become(t, [call[t] EXCEPT !.layer = l]) PROVE LockInv'
    <3>1. Along(t, [call[t] EXCEPT !.layer = l])
      BY <1>0, <2>2 DEF Along
    <3> QED
      BY <2>1, <3>1, AlongLocks
  <2> QED
    BY <2>1, <2>2, GotoLocks
<1>7. CASE Exit(t)
  <2>1. /\ {"op", "who", "pc"} \subseteq DOMAIN Idle
        /\ Idle.who = {} /\ Idle.op = "none"
    BY DEF Idle
  <2>2. /\ Recorded' /\ call'[t] = Idle
        /\ \A u \in Threads \ {t} : call'[u] = call[u]
    BY <1>7, <2>1, BecomesCall DEF Exit, LockInv
  <2>3. lock' = [i \in Instances |->
                   IF i \in call[t].who /\ call[t].op # "batch"
                   THEN NoThread ELSE lock[i]]
    BY <1>7 DEF Exit
  <2>4. lock' \in [Instances -> Threads \cup {NoThread}]
    BY <2>3 DEF LockInv
  <2>5. Holds(t)'
    BY <2>1, <2>2 DEF Holds
  <2>6. ASSUME NEW u \in Threads \ {t} PROVE Holds(u)'
    <3>1. Holds(u) /\ Holds(t) /\ call'[u] = call[u]
          /\ call[u].who \subseteq Instances
      BY <2>2, SharedAssumption DEF LockInv, Holds
    <3>2. ASSUME call[u].op # "batch" PROVE \A j \in call[u].who : lock'[j] = u
      BY <2>3, <3>1, <3>2 DEF Holds
    <3> QED
      BY <3>1, <3>2 DEF Holds, At
  <2> QED
    BY <2>2, <2>4, <2>5, <2>6 DEF LockInv
<1> QED
  BY <1>2, <1>3, <1>4, <1>5, <1>6, <1>7 DEF Continue

\* No two calls are ever on the same instance, although every thread may try
\* at any moment, the lock is only tried, and batches do not take it:
\* OneCallPerInstance for any number of threads and instances.
THEOREM OneCallAtATime == Spec => []OneCallPerInstance
<1>1. LockInv /\ [Next]_vars => LockInv'
  <2>1. LockInv /\ UNCHANGED vars => LockInv'
    BY DEF vars, LockInv, Recorded, Holds, At
  <2> QED
    BY <2>1, BeginLocks, ContinueLocks DEF Next
<1>2. LockInv => OneCallPerInstance
  <2> SUFFICES ASSUME LockInv, NEW t \in Threads, NEW u \in Threads, t # u,
                      NEW i \in call[t].who, i \in call[u].who
               PROVE  FALSE
    BY DEF OneCallPerInstance
  <2>1. Holds(t) /\ Holds(u)
    BY DEF LockInv
  <2>2. CASE call[t].op = "batch" \/ call[u].op = "batch"
    BY <2>1, <2>2 DEF Holds
  <2>3. CASE call[t].op # "batch" /\ call[u].op # "batch"
    BY <2>1, <2>3 DEF Holds
  <2> QED
    BY <2>2, <2>3
<1> QED
  BY <1>1, <1>2, InitLocks, PTL DEF Spec
=============================================================================
