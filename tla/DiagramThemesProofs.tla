-------------------------- MODULE DiagramThemesProofs --------------------------
(***************************************************************************)
(* Proofs about DiagramThemes, for every catalog, every number of diagrams  *)
(* and every sequence of what the reader and the system do.                 *)
(*                                                                         *)
(* The inductive invariant Inv relates the queue of rendering tasks to the  *)
(* drawings made so far, the requests that wait to the theme chosen last,   *)
(* and what a block shows to the drawings it has.                           *)
(***************************************************************************)
EXTENDS DiagramThemes, TLAPS

Slots == Themes \cup {Nil, Unknown}
StoredModes == Modes \cup {Nil, Unknown}
Colours == {None, Failed, PrintTheme} \cup Themes
Jobs == {job \in [theme : Themes \cup {PrintTheme}, key : Keys] :
           job.theme = (IF job.key = PrintKey THEN PrintTheme ELSE job.key)}
Stages == {"import", "slots", "print", "pending", "visible", "done", "failed"}

ChoiceTyped ==
  /\ storage \in [mode : StoredModes, legacy : StoredModes, light : Slots, dark : Slots]
  /\ state \in [mode : Modes, light : Themes, dark : Themes, theme : Themes]
  /\ visible = state.theme /\ printing \in BOOLEAN /\ systemDark \in BOOLEAN
RendererTyped ==
  /\ queue \in Seq(Jobs) /\ next \in Diagrams \cup {0}
  /\ variants \in [Diagrams -> [Keys -> Colours]]
PageTyped ==
  /\ shown \in [Diagrams -> Keys \cup {Source}] /\ lastScreen \in [Diagrams -> Themes]
  /\ dialog \in [open : BOOLEAN, closing : BOOLEAN, block : Diagrams \cup {0},
                 svg : Keys \cup {Source, Nil}, fresh : BOOLEAN]
ControlTyped ==
  /\ pending \in Seq(Themes) /\ latest \in Nat /\ waiting \subseteq [theme : Themes, n : Nat]
  /\ boot \in [pc : Stages, todo : Seq(Themes)]
Typed == ChoiceTyped /\ RendererTyped /\ PageTyped /\ ControlTyped

-----------------------------------------------------------------------------
(* The queue: every theme at most once; the running task has drawn the blocks *)
(* before next, with its own palette, and no other task has drawn anything.    *)
OneTaskEach == \A m, n \in DOMAIN queue : queue[m].key = queue[n].key => m = n
RunningHere == next # 0 => queue # <<>> /\ config = Palette(queue[1])
StillToDraw ==
  \A n \in DOMAIN queue, i \in Diagrams :
    (variants[i][queue[n].key] = None) <=> (n # 1 \/ next <= i)
AllOrNothing ==
  \A k \in Keys : Preparing(k) \/ Prepared(k) \/ \A i \in Diagrams : variants[i][k] = None
QueueSound == OneTaskEach /\ RunningHere /\ StillToDraw /\ AllOrNothing /\ OwnPalette

(* The module's top level: nothing happens before it is imported, nor when it  *)
(* cannot be; the print drawings are made once, before the last two stages.    *)
Asleep ==
  boot.pc \in {"import", "failed"} =>
    /\ queue = <<>> /\ waiting = {} /\ \A i \in Diagrams : shown[i] = Source
    /\ \A i \in Diagrams, k \in Keys : variants[i][k] = None
PrintUntouched ==
  boot.pc = "slots" => ~Preparing(PrintKey) /\ \A i \in Diagrams : variants[i][PrintKey] = None
PrintPrepared == boot.pc \in {"pending", "visible", "done"} => Prepared(PrintKey)
StagesSound == Asleep /\ PrintUntouched /\ PrintPrepared

(* A block shows a drawing it has.                                             *)
Drawn == \A i \in Diagrams : shown[i] # Source => Rendered(i, shown[i])

(* Who waits for a theme waits for a task or has it already.                   *)
WorthWaiting == \A r \in waiting : Preparing(r.theme) \/ Prepared(r.theme)

(* On the screen, the chosen theme is prepared or the latest request is for it. *)
Asked == \E r \in waiting : r.n = latest /\ r.theme = visible
Served == Prepared(visible) \/ Asked
ChosenServed ==
  /\ boot.pc = "visible" /\ ~printing => Served \/ boot.todo = <<visible>>
  /\ boot.pc = "done" /\ ~printing => Served
ScreenComing ==
  boot.pc = "done" /\ ~printing =>
    \A i \in Diagrams : shown[i] = PrintKey => Asked \/ ~Rendered(i, visible)
Screen == ChosenServed /\ ScreenComing

ViewerSound ==
  dialog.open => /\ dialog.block \in Diagrams /\ dialog.fresh
                 /\ dialog.svg = shown[dialog.block] /\ shown[dialog.block] # Source

Inv ==
  /\ Typed /\ ChoiceRemembered /\ QueueSound /\ StagesSound /\ Drawn /\ WorthWaiting
  /\ Screen /\ PrintShown /\ ViewerSound

-----------------------------------------------------------------------------
(* The catalog's identifiers and the marks of the model do not meet.           *)
LEMMA Marks ==
  /\ Themes \subseteq Keys /\ PrintKey \in Keys /\ PrintKey \notin Themes
  /\ Source \notin Keys /\ None # Failed
  /\ None \notin Themes \cup {PrintTheme} /\ Failed \notin Themes \cup {PrintTheme}
  /\ PrintTheme # PrintKey /\ Light \in Themes /\ Dark \in Themes
BY CatalogAssumption DEF Keys, PrintKey, Source, None, Failed, Nil

(* There is a first block.                                                      *)
LEMMA Numbered == 1 \in Diagrams /\ 0 \notin Diagrams /\ Diagrams \subseteq Int
BY PageAssumption DEF Diagrams

(* The tasks the code makes are honest about their palette.                     *)
LEMMA HonestJobs ==
  /\ \A t \in Themes : Job(t, t) \in Jobs /\ Job(t, t).key = t
  /\ Job(PrintTheme, PrintKey) \in Jobs /\ Job(PrintTheme, PrintKey).key = PrintKey
  /\ \A job \in Jobs : /\ job.key \in Keys
                       /\ Palette(job) = (IF job.key = PrintKey THEN PrintTheme ELSE job.key)
                       /\ Palette(job) \in Colours \ {None, Failed}
BY Marks DEF Job, Jobs, Palette, Colours, Keys

(* One drawing more, in one block.                                              *)
LEMMA OneCell ==
  ASSUME NEW v \in [Diagrams -> [Keys -> Colours]], NEW d \in Diagrams, NEW key \in Keys,
         NEW c \in Colours, NEW w, w = [v EXCEPT ![d][key] = c]
  PROVE  /\ w \in [Diagrams -> [Keys -> Colours]]
         /\ \A i \in Diagrams, k \in Keys : w[i][k] = IF i = d /\ k = key THEN c ELSE v[i][k]
OBVIOUS

(* A whole theme in every block.                                                *)
LEMMA OneColumn ==
  ASSUME NEW v \in [Diagrams -> [Keys -> Colours]], NEW key \in Keys,
         NEW c \in [Diagrams -> Colours], NEW w,
         w = [i \in Diagrams |-> [v[i] EXCEPT ![key] = c[i]]]
  PROVE  /\ w \in [Diagrams -> [Keys -> Colours]]
         /\ \A i \in Diagrams, k \in Keys : w[i][k] = IF k = key THEN c[i] ELSE v[i][k]
OBVIOUS

-----------------------------------------------------------------------------
(* The queue that a request makes of the one there is.                          *)
HasKey(tasks, k) == \E n \in DOMAIN tasks : tasks[n].key = k
Grown(tasks) ==
  /\ tasks \in Seq(Jobs)
  /\ \A k \in Keys : Preparing(k) => HasKey(tasks, k)
  /\ \A m, n \in DOMAIN tasks : tasks[m].key = tasks[n].key => m = n
  /\ next # 0 => tasks # <<>> /\ config = Palette(tasks[1])
  /\ \A n \in DOMAIN tasks, i \in Diagrams :
       (variants[i][tasks[n].key] = None) <=> (n # 1 \/ next <= i)

LEMMA GrownFromNothing ==
  ASSUME RendererTyped, QueueSound
  PROVE  Grown(queue)
BY DEF RendererTyped, QueueSound, Grown, OneTaskEach, RunningHere, StillToDraw, HasKey, Preparing

(* A theme that is prepared is in no task.                                      *)
LEMMA PreparedNotPreparing ==
  ASSUME RendererTyped, QueueSound, NEW k \in Keys, Preparing(k)
  PROVE  ~Prepared(k)
<1>1. PICK n \in DOMAIN queue : queue[n].key = k BY DEF Preparing
<1>2. next \in Diagrams => variants[next][k] = None
  BY <1>1, Numbered DEF QueueSound, StillToDraw
<1>3. next = 0 => variants[1][k] = None
  BY <1>1, Numbered DEF QueueSound, StillToDraw
<1> QED BY <1>2, <1>3, Numbered DEF RendererTyped, Prepared

LEMMA EnqueueGrows ==
  ASSUME RendererTyped, QueueSound, NEW tasks, Grown(tasks), NEW job \in Jobs
  PROVE  /\ Grown(Enqueue(tasks, job))
         /\ Prepared(job.key) \/ HasKey(Enqueue(tasks, job), job.key)
         /\ \A k \in Keys : HasKey(tasks, k) => HasKey(Enqueue(tasks, job), k)
         /\ \A k \in Keys : HasKey(Enqueue(tasks, job), k) => HasKey(tasks, k) \/ k = job.key
<1> DEFINE new == Append(tasks, job)
<1>1. tasks \in Seq(Jobs) /\ job.key \in Keys BY HonestJobs DEF Grown
<1>2. CASE Prepared(job.key) \/ HasKey(tasks, job.key)
  <2>1. Enqueue(tasks, job) = tasks BY <1>2 DEF Enqueue, HasKey
  <2> QED BY <2>1, <1>2
<1>3. CASE ~Prepared(job.key) /\ ~HasKey(tasks, job.key)
  <2>1. Enqueue(tasks, job) = new BY <1>1, <1>3 DEF Enqueue, HasKey
  <2>2. /\ new \in Seq(Jobs) /\ Len(new) = Len(tasks) + 1 /\ DOMAIN new = 1..(Len(tasks) + 1)
        /\ DOMAIN tasks = 1..Len(tasks) /\ Len(tasks) \in Nat
        /\ new[Len(tasks) + 1] = job /\ \A n \in 1..Len(tasks) : new[n] = tasks[n]
    BY <1>1
  <2>3. \A i \in Diagrams : variants[i][job.key] = None
    BY <1>1, <1>3 DEF QueueSound, AllOrNothing, Grown
  <2> HIDE DEF new
  <2>4. \A k \in Keys : HasKey(new, k) <=> HasKey(tasks, k) \/ k = job.key
    BY <2>2 DEF HasKey
  <2>5. \A m, n \in DOMAIN new : new[m].key = new[n].key => m = n
    BY <2>2, <1>3 DEF HasKey, Grown
  <2>6. next # 0 => new # <<>> /\ config = Palette(new[1])
    BY <2>2, <1>1 DEF Grown
  <2>7. ASSUME NEW n \in DOMAIN new, NEW i \in Diagrams
        PROVE  (variants[i][new[n].key] = None) <=> (n # 1 \/ next <= i)
    <3>1. CASE n \in 1..Len(tasks)
      BY <3>1, <2>2 DEF Grown
    <3>2. CASE n = Len(tasks) + 1
      <4>1. CASE tasks = <<>>
        <5>1. next = 0 BY <4>1 DEF Grown
        <5> QED BY <5>1, <3>2, <2>2, <2>3 DEF Diagrams
      <4>2. CASE tasks # <<>>
        <5>1. n # 1 BY <4>2, <3>2, <2>2, <1>1
        <5> QED BY <5>1, <3>2, <2>2, <2>3
      <4> QED BY <4>1, <4>2
    <3> QED BY <3>1, <3>2, <2>2
  <2>8. Grown(new)
    BY <2>2, <2>4, <2>5, <2>6, <2>7 DEF Grown
  <2> QED BY <2>1, <2>4, <2>8, <1>1
<1> QED BY <1>2, <1>3

(* Adding tasks keeps the queue sound and loses none.                           *)
LEMMA GrownStep ==
  ASSUME RendererTyped, QueueSound, Grown(queue'), UNCHANGED <<config, next, variants>>
  PROVE  /\ RendererTyped' /\ QueueSound'
         /\ \A k \in Keys : Preparing(k) => Preparing(k)'
<1>1. \A k \in Keys : Preparing(k)' <=> HasKey(queue', k) BY DEF Preparing, HasKey
<1>2. \A k \in Keys : Preparing(k) => Preparing(k)' BY <1>1 DEF Grown
<1>3. RendererTyped' BY DEF RendererTyped, Grown
<1>4. OneTaskEach' /\ RunningHere' BY DEF Grown, OneTaskEach, RunningHere, Palette
<1>5. StillToDraw' BY DEF Grown, StillToDraw
<1>6. AllOrNothing'
  BY <1>2 DEF QueueSound, AllOrNothing, Prepared
<1>7. OwnPalette' BY DEF QueueSound, OwnPalette, Rendered
<1> QED BY <1>2, <1>3, <1>4, <1>5, <1>6, <1>7 DEF QueueSound

-----------------------------------------------------------------------------
(* What the renderer does.  A drawing that was made stays, and who was being    *)
(* prepared is still, or is prepared.                                           *)
Grows == \A i \in Diagrams, k \in Keys : variants[i][k] # None => variants'[i][k] = variants[i][k]
Onward == \A k \in Keys : Preparing(k) => Preparing(k)' \/ Prepared(k)'

(* The running task ends: the others move up.                                   *)
LEMMA TaskEnds ==
  ASSUME NEW q \in Seq(Jobs), q # <<>>
  PROVE  /\ Tail(q) \in Seq(Jobs) /\ q[1] \in Jobs /\ Head(q) = q[1] /\ 1 \in DOMAIN q
         /\ \A n \in DOMAIN Tail(q) : n \in Nat \ {0} /\ n + 1 \in DOMAIN q /\ Tail(q)[n] = q[n + 1]
         /\ \A n \in DOMAIN q : n \in Nat /\ (n # 1 => n - 1 \in DOMAIN Tail(q) /\ Tail(q)[n - 1] = q[n])
OBVIOUS

LEMMA InitializeStep ==
  ASSUME RendererTyped, QueueSound, Initialize
  PROVE  RendererTyped' /\ QueueSound' /\ Grows /\ Onward
<1>1. /\ queue # <<>> /\ next = 0 /\ config' = Palette(Running) /\ next' = 1
      /\ queue' = queue /\ variants' = variants
  BY DEF Initialize
<1>2. RendererTyped' BY <1>1, Numbered DEF RendererTyped
<1>3. Running = queue[1] BY <1>1 DEF Running, RendererTyped
<1>4. RunningHere' BY <1>1, <1>3 DEF RunningHere, Palette
<1>5. OneTaskEach' BY <1>1 DEF QueueSound, OneTaskEach
<1>6. StillToDraw' BY <1>1 DEF QueueSound, StillToDraw, Diagrams
<1>7. AllOrNothing' BY <1>1 DEF QueueSound, AllOrNothing, Preparing, Prepared
<1>8. OwnPalette' BY <1>1 DEF QueueSound, OwnPalette, Rendered
<1>9. Grows /\ Onward BY <1>1 DEF Grows, Onward, Preparing
<1> QED BY <1>2, <1>4, <1>5, <1>6, <1>7, <1>8, <1>9 DEF QueueSound

(* The head task is left with every block drawn or failed.                      *)
LEMMA HeadDone ==
  ASSUME RendererTyped, QueueSound, queue # <<>>, queue' = Tail(queue), next' = 0,
         variants' \in [Diagrams -> [Keys -> Colours]],
         \A i \in Diagrams, k \in Keys : k # queue[1].key => variants'[i][k] = variants[i][k],
         \A i \in Diagrams : variants'[i][queue[1].key] # None,
         OwnPalette'
  PROVE  RendererTyped' /\ QueueSound' /\ Onward
<1>1. queue \in Seq(Jobs) BY DEF RendererTyped
<1>2. /\ queue' \in Seq(Jobs) /\ queue[1] \in Jobs /\ 1 \in DOMAIN queue
      /\ \A n \in DOMAIN queue' : n \in Nat \ {0} /\ n + 1 \in DOMAIN queue /\ queue'[n] = queue[n + 1]
      /\ \A n \in DOMAIN queue : n \in Nat /\ (n # 1 => n - 1 \in DOMAIN queue' /\ queue'[n - 1] = queue[n])
  BY <1>1, TaskEnds
<1>3. PICK key \in Keys : key = queue[1].key BY <1>2, HonestJobs
<1>4. \A n \in DOMAIN queue : queue[n].key = key => n = 1
  BY <1>2, <1>3 DEF QueueSound, OneTaskEach
<1>5. RendererTyped' BY <1>2 DEF RendererTyped
<1>6. OneTaskEach' BY <1>2 DEF QueueSound, OneTaskEach
<1>7. RunningHere' BY DEF RunningHere
<1>8. StillToDraw'
  <2> SUFFICES ASSUME NEW n \in DOMAIN queue', NEW i \in Diagrams
               PROVE  variants'[i][queue'[n].key] = None /\ next' <= i
    BY DEF StillToDraw
  <2>1. n + 1 \in DOMAIN queue /\ n + 1 # 1 /\ queue'[n] = queue[n + 1] BY <1>2
  <2>2. queue[n + 1].key # key /\ queue[n + 1].key \in Keys BY <2>1, <1>4, <1>1, HonestJobs
  <2>3. variants[i][queue[n + 1].key] = None BY <2>1 DEF QueueSound, StillToDraw
  <2> QED BY <1>3, <2>1, <2>2, <2>3 DEF Diagrams
<1>9. Prepared(key)' BY <1>3 DEF Prepared
<1>10. ASSUME NEW k \in Keys, k # key
       PROVE  (Preparing(k)' <=> Preparing(k)) /\ (Prepared(k)' <=> Prepared(k))
  <2>1. Preparing(k)' => Preparing(k) BY <1>2 DEF Preparing
  <2>2. Preparing(k) => Preparing(k)'
    <3> SUFFICES ASSUME NEW n \in DOMAIN queue, queue[n].key = k PROVE Preparing(k)' BY DEF Preparing
    <3>1. n # 1 BY <1>3, <1>10
    <3> QED BY <3>1, <1>2 DEF Preparing
  <2>3. Prepared(k)' <=> Prepared(k) BY <1>3, <1>10 DEF Prepared
  <2> QED BY <2>1, <2>2, <2>3
<1>11. AllOrNothing'
  <2> SUFFICES ASSUME NEW k \in Keys
               PROVE  Preparing(k)' \/ Prepared(k)' \/ \A i \in Diagrams : variants'[i][k] = None
    BY DEF AllOrNothing
  <2>1. CASE k # key
    <3>1. Preparing(k) \/ Prepared(k) \/ \A i \in Diagrams : variants[i][k] = None
      BY DEF QueueSound, AllOrNothing
    <3>2. \A i \in Diagrams : variants'[i][k] = variants[i][k] BY <1>3, <2>1
    <3> QED BY <1>10, <2>1, <3>1, <3>2
  <2> QED BY <1>9, <2>1
<1>12. Onward BY <1>9, <1>10 DEF Onward
<1> QED BY <1>5, <1>6, <1>7, <1>8, <1>11, <1>12 DEF QueueSound

LEMMA InitializeFailsStep ==
  ASSUME RendererTyped, QueueSound, InitializeFails
  PROVE  RendererTyped' /\ QueueSound' /\ Grows /\ Onward
<1> DEFINE key == queue[1].key
<1>1. /\ queue # <<>> /\ next = 0 /\ next' = 0 /\ queue' = Tail(queue) /\ queue \in Seq(Jobs)
      /\ variants' = [i \in Diagrams |-> [variants[i] EXCEPT ![Running.key] = Failed]]
  BY DEF InitializeFails, RendererTyped
<1>2. Running = queue[1] /\ queue[1] \in Jobs /\ 1 \in DOMAIN queue BY <1>1, TaskEnds DEF Running
<1>3. key \in Keys BY <1>2, HonestJobs
<1>4. /\ variants' \in [Diagrams -> [Keys -> Colours]]
      /\ \A i \in Diagrams, k \in Keys : variants'[i][k] = IF k = key THEN Failed ELSE variants[i][k]
  <2> DEFINE c == [i \in Diagrams |-> Failed]
  <2>1. c \in [Diagrams -> Colours] BY DEF Colours
  <2>2. variants' = [i \in Diagrams |-> [variants[i] EXCEPT ![key] = c[i]]] BY <1>1, <1>2
  <2>3. variants \in [Diagrams -> [Keys -> Colours]] BY DEF RendererTyped
  <2> HIDE DEF key
  <2>4. \A i \in Diagrams : c[i] = Failed OBVIOUS
  <2> HIDE DEF c
  <2>5. /\ variants' \in [Diagrams -> [Keys -> Colours]]
        /\ \A i \in Diagrams, k \in Keys : variants'[i][k] = IF k = key THEN c[i] ELSE variants[i][k]
    BY <2>1, <2>2, <2>3, <1>3, OneColumn
  <2> QED BY <2>4, <2>5
<1>5. \A i \in Diagrams : variants[i][key] = None
  BY <1>1, <1>2 DEF QueueSound, StillToDraw, Diagrams
<1>6. Grows BY <1>4, <1>5 DEF Grows
<1>7. OwnPalette'
  BY <1>4 DEF QueueSound, OwnPalette, Rendered
<1>8. RendererTyped' /\ QueueSound' /\ Onward
  <2>1. \A i \in Diagrams, k \in Keys : k # queue[1].key => variants'[i][k] = variants[i][k]
    BY <1>4
  <2>2. \A i \in Diagrams : variants'[i][queue[1].key] # None BY <1>3, <1>4, Marks
  <2> QED BY <1>1, <1>4, <1>7, <2>1, <2>2, HeadDone
<1> QED BY <1>6, <1>8

(* The await of one block.                                                      *)
LEMMA RenderDiagramStep ==
  ASSUME RendererTyped, QueueSound, RenderDiagram
  PROVE  RendererTyped' /\ QueueSound' /\ Grows /\ Onward
<1>1. /\ next \in Diagrams /\ next # 0 /\ queue # <<>> /\ queue \in Seq(Jobs)
      /\ config = Palette(queue[1]) /\ config' = config
  BY Numbered DEF RenderDiagram, RendererTyped, QueueSound, RunningHere
<1>2. Running = queue[1] /\ queue[1] \in Jobs /\ 1 \in DOMAIN queue BY <1>1, TaskEnds DEF Running
<1>3. PICK key \in Keys : key = queue[1].key BY <1>2, HonestJobs
<1>4. variants[next][key] = None
  BY <1>1, <1>2, <1>3 DEF QueueSound, StillToDraw, Diagrams
<1>5. PICK c \in Colours : /\ c \in {config, Failed} /\ c # None
                           /\ variants' = [variants EXCEPT ![next][key] = c]
  <2>1. config \in Colours \ {None, Failed} BY <1>1, <1>2, HonestJobs
  <2>2. Failed \in Colours /\ Failed # None BY Marks DEF Colours
  <2>3. \/ variants' = [variants EXCEPT ![next][key] = config]
        \/ variants' = [variants EXCEPT ![next][key] = Failed]
    BY <1>2, <1>3, <1>4 DEF RenderDiagram
  <2> QED BY <2>1, <2>2, <2>3
<1>6. /\ variants' \in [Diagrams -> [Keys -> Colours]]
      /\ \A i \in Diagrams, k \in Keys : variants'[i][k] = IF i = next /\ k = key THEN c ELSE variants[i][k]
  <2>1. variants \in [Diagrams -> [Keys -> Colours]] BY DEF RendererTyped
  <2> QED BY <1>1, <1>5, <2>1, OneCell
<1>7. Grows BY <1>4, <1>6 DEF Grows
<1>8. OwnPalette'
  <2>1. config = (IF key = PrintKey THEN PrintTheme ELSE key) BY <1>1, <1>2, <1>3, HonestJobs
  <2> QED BY <1>5, <1>6, <2>1 DEF QueueSound, OwnPalette, Rendered
<1>9. CASE next + 1 \in Diagrams
  <2>1. next' = next + 1 /\ queue' = queue BY <1>9 DEF RenderDiagram
  <2>2. RendererTyped' BY <1>6, <1>9, <2>1 DEF RendererTyped
  <2>3. OneTaskEach' BY <2>1 DEF QueueSound, OneTaskEach
  <2>4. RunningHere' BY <1>1, <2>1 DEF RunningHere, Palette
  <2>5. StillToDraw'
    <3> SUFFICES ASSUME NEW n \in DOMAIN queue, NEW i \in Diagrams
                 PROVE  (variants'[i][queue[n].key] = None) <=> (n # 1 \/ next + 1 <= i)
      BY <2>1 DEF StillToDraw
    <3>1. queue[n].key \in Keys /\ (queue[n].key = key => n = 1)
      BY <1>1, <1>2, <1>3, HonestJobs DEF QueueSound, OneTaskEach
    <3>2. (variants[i][queue[n].key] = None) <=> (n # 1 \/ next <= i)
      BY DEF QueueSound, StillToDraw
    <3>3. CASE n = 1 /\ i = next
      BY <1>1, <1>3, <1>5, <1>6, <3>3, <3>1 DEF Diagrams
    <3>4. CASE n # 1 \/ i # next
      <4>1. variants'[i][queue[n].key] = variants[i][queue[n].key] BY <1>6, <3>1, <3>4
      <4>2. next \in Int /\ i \in Int BY <1>1 DEF Diagrams
      <4> QED BY <3>2, <3>4, <4>1, <4>2
    <3> QED BY <3>3, <3>4
  <2>6. \A k \in Keys : Preparing(k)' <=> Preparing(k) BY <2>1 DEF Preparing
  <2>7. \A k \in Keys : k # key => \A i \in Diagrams : variants'[i][k] = variants[i][k] BY <1>6
  <2>8. Preparing(key) BY <1>2, <1>3 DEF Preparing
  <2>9. AllOrNothing'
    <3> SUFFICES ASSUME NEW k \in Keys, k # key
                 PROVE  Preparing(k)' \/ Prepared(k)' \/ \A i \in Diagrams : variants'[i][k] = None
      BY <2>6, <2>8 DEF AllOrNothing
    <3>1. Preparing(k) \/ Prepared(k) \/ \A i \in Diagrams : variants[i][k] = None
      BY DEF QueueSound, AllOrNothing
    <3>2. Prepared(k)' <=> Prepared(k) BY <2>7 DEF Prepared
    <3> QED BY <2>6, <2>7, <3>1, <3>2
  <2>10. Onward BY <2>6 DEF Onward
  <2> QED BY <1>7, <1>8, <2>2, <2>3, <2>4, <2>5, <2>9, <2>10 DEF QueueSound
<1>10. CASE next + 1 \notin Diagrams
  <2>1. next' = 0 /\ queue' = Tail(queue) BY <1>10 DEF RenderDiagram
  <2>2. \A i \in Diagrams, k \in Keys : k # queue[1].key => variants'[i][k] = variants[i][k]
    BY <1>3, <1>6
  <2>3. \A i \in Diagrams : variants'[i][queue[1].key] # None
    <3> SUFFICES ASSUME NEW i \in Diagrams, i # next PROVE variants[i][key] # None
      BY <1>3, <1>5, <1>6
    <3>1. ~(next <= i) BY <1>1, <1>10, PageAssumption DEF Diagrams
    <3> QED BY <1>2, <1>3, <3>1 DEF QueueSound, StillToDraw
  <2>4. RendererTyped' /\ QueueSound' /\ Onward
    BY <1>1, <1>6, <1>8, <2>1, <2>2, <2>3, HeadDone
  <2> QED BY <1>7, <2>4
<1> QED BY <1>9, <1>10

(* A step that leaves the renderer and its queue alone.                         *)
LEMMA RendererIdle ==
  ASSUME RendererTyped, QueueSound, UNCHANGED renderer
  PROVE  RendererTyped' /\ QueueSound' /\ Grows /\ Onward
<1>1. config' = config /\ queue' = queue /\ next' = next /\ variants' = variants BY DEF renderer
<1>2. RendererTyped' BY <1>1 DEF RendererTyped
<1>3. OneTaskEach' BY <1>1 DEF QueueSound, OneTaskEach
<1>4. RunningHere' BY <1>1 DEF QueueSound, RunningHere, Palette
<1>5. StillToDraw' BY <1>1 DEF QueueSound, StillToDraw
<1>6. AllOrNothing' BY <1>1 DEF QueueSound, AllOrNothing, Preparing, Prepared
<1>7. OwnPalette' BY <1>1 DEF QueueSound, OwnPalette, Rendered
<1>8. Grows /\ Onward BY <1>1 DEF Grows, Onward, Preparing
<1> QED BY <1>2, <1>3, <1>4, <1>5, <1>6, <1>7, <1>8 DEF QueueSound

-----------------------------------------------------------------------------
(* What a request leaves: its themes are prepared or queued, nothing else is    *)
(* queued, and the request that waits is the latest.                            *)
LEMMA RequestQueues ==
  ASSUME RendererTyped, QueueSound, NEW chosen \in Themes, NEW theme \in Themes,
         queue' = Enqueue(Enqueue(queue, Job(chosen, chosen)), Job(theme, theme)),
         UNCHANGED <<config, next, variants>>
  PROVE  /\ RendererTyped' /\ QueueSound' /\ Grows /\ Onward
         /\ Preparing(theme)' \/ Prepared(theme)'
         /\ \A k \in Keys : Preparing(k) => Preparing(k)'
         /\ Preparing(PrintKey)' => Preparing(PrintKey)
<1> DEFINE first == Enqueue(queue, Job(chosen, chosen))
           second == Enqueue(first, Job(theme, theme))
<1>1. /\ Job(chosen, chosen) \in Jobs /\ Job(chosen, chosen).key = chosen
      /\ Job(theme, theme) \in Jobs /\ Job(theme, theme).key = theme
  BY HonestJobs
<1>2. chosen \in Keys /\ theme \in Keys /\ PrintKey \in Keys /\ PrintKey # chosen /\ PrintKey # theme
  BY Marks
<1>3. Grown(queue) BY GrownFromNothing
<1>4. /\ Grown(first)
      /\ \A k \in Keys : HasKey(first, k) => HasKey(queue, k) \/ k = Job(chosen, chosen).key
  BY <1>1, <1>3, EnqueueGrows
<1> HIDE DEF first
<1>5. /\ Grown(second) /\ (Prepared(Job(theme, theme).key) \/ HasKey(second, Job(theme, theme).key))
      /\ \A k \in Keys : HasKey(second, k) => HasKey(first, k) \/ k = Job(theme, theme).key
  BY <1>1, <1>4, EnqueueGrows
<1>6. queue' = second BY DEF first
<1> HIDE DEF second
<1>7. Grown(queue') BY <1>5, <1>6
<1>8. RendererTyped' /\ QueueSound' /\ \A k \in Keys : Preparing(k) => Preparing(k)'
  BY <1>7, GrownStep
<1>9. Grows /\ Onward BY <1>8 DEF Grows, Onward
<1>10. Preparing(theme)' \/ Prepared(theme)'
  <2>1. HasKey(queue', theme) => Preparing(theme)' BY DEF HasKey, Preparing
  <2>2. Prepared(theme) => Prepared(theme)' BY DEF Prepared
  <2> QED BY <1>1, <1>5, <1>6, <2>1, <2>2
<1>11. Preparing(PrintKey)' => Preparing(PrintKey)
  <2>1. Preparing(PrintKey)' => HasKey(queue', PrintKey) BY DEF HasKey, Preparing
  <2>2. HasKey(queue, PrintKey) => Preparing(PrintKey) BY DEF HasKey, Preparing
  <2> QED BY <1>1, <1>2, <1>4, <1>5, <1>6, <2>1, <2>2
<1> QED BY <1>8, <1>9, <1>10, <1>11

(* A theme is noted once, whoever asks.                                         *)
LEMMA NotedTyped ==
  ASSUME NEW themes \in Seq(Themes), NEW t \in Themes
  PROVE  Noted(themes, t) \in Seq(Themes)
<1>1. Append(themes, t) \in Seq(Themes) OBVIOUS
<1> QED BY <1>1 DEF Noted

(* What the controls become.                                                    *)
LEMMA RequestControls ==
  ASSUME ControlTyped, NEW chosen \in Themes, NEW theme \in Themes,
         Request(chosen, theme), boot' = boot
  PROVE  ControlTyped'
<1>1. CASE boot.pc = "import" /\ pending' = Noted(Noted(pending, chosen), theme)
           /\ UNCHANGED <<queue, waiting, latest>>
  <2>1. pending \in Seq(Themes) BY DEF ControlTyped
  <2>2. Noted(pending, chosen) \in Seq(Themes) BY <2>1, NotedTyped
  <2>3. Noted(Noted(pending, chosen), theme) \in Seq(Themes) BY <2>2, NotedTyped
  <2> QED BY <1>1, <2>3 DEF ControlTyped
<1>2. CASE UNCHANGED <<pending, queue, waiting, latest>>
  BY <1>2 DEF ControlTyped
<1>3. CASE /\ latest' = latest + 1 /\ waiting' = waiting \cup {[theme |-> theme, n |-> latest + 1]}
           /\ UNCHANGED pending
  <2>1. latest + 1 \in Nat BY DEF ControlTyped
  <2>2. [theme |-> theme, n |-> latest + 1] \in [theme : Themes, n : Nat] BY <2>1
  <2>3. waiting' \subseteq [theme : Themes, n : Nat] BY <1>3, <2>2 DEF ControlTyped
  <2> QED BY <1>3, <2>1, <2>3 DEF ControlTyped
<1> QED BY <1>1, <1>2, <1>3 DEF Request

(* A whole request, at any stage.                                               *)
AskedFor(theme) == \E r \in waiting : r.n = latest /\ r.theme = theme
LEMMA RequestStep ==
  ASSUME RendererTyped, QueueSound, ControlTyped, Asleep, WorthWaiting,
         NEW chosen \in Themes, NEW theme \in Themes,
         Request(chosen, theme), UNCHANGED <<config, next, variants>>, boot' = boot
  PROVE  /\ RendererTyped' /\ QueueSound' /\ Grows /\ Onward /\ ControlTyped' /\ WorthWaiting'
         /\ boot.pc \in {"import", "failed"} => queue' = queue /\ waiting' = waiting
         /\ boot.pc \notin {"import", "failed"} => AskedFor(theme)'
         /\ Preparing(PrintKey)' => Preparing(PrintKey)
<1>1. CASE boot.pc \in {"import", "failed"}
  <2>1. queue' = queue /\ waiting' = waiting BY <1>1 DEF Request
  <2>2. UNCHANGED renderer BY <2>1 DEF renderer
  <2>3. RendererTyped' /\ QueueSound' /\ Grows /\ Onward BY <2>2, RendererIdle
  <2>4. WorthWaiting' BY <1>1, <2>1 DEF WorthWaiting, Asleep
  <2>5. Preparing(PrintKey)' => Preparing(PrintKey) BY <2>1 DEF Preparing
  <2>6. ControlTyped' BY RequestControls
  <2> QED BY <1>1, <2>1, <2>3, <2>4, <2>5, <2>6
<1>2. CASE boot.pc \notin {"import", "failed"}
  <2>1. /\ queue' = Enqueue(Enqueue(queue, Job(chosen, chosen)), Job(theme, theme))
        /\ latest' = latest + 1 /\ waiting' = waiting \cup {[theme |-> theme, n |-> latest + 1]}
    BY <1>2 DEF Request
  <2>2. /\ RendererTyped' /\ QueueSound' /\ Grows /\ Onward
        /\ Preparing(theme)' \/ Prepared(theme)'
        /\ \A k \in Keys : Preparing(k) => Preparing(k)'
        /\ Preparing(PrintKey)' => Preparing(PrintKey)
    BY <2>1, RequestQueues
  <2>3. ControlTyped' BY RequestControls
  <2>4. \A k \in Keys : Prepared(k) => Prepared(k)' BY DEF Prepared
  <2>5. WorthWaiting'
    <3> SUFFICES ASSUME NEW r \in waiting' PROVE Preparing(r.theme)' \/ Prepared(r.theme)'
      BY DEF WorthWaiting
    <3>1. CASE r \in waiting
      <4>1. r.theme \in Keys BY <3>1, Marks DEF ControlTyped
      <4>2. Preparing(r.theme) \/ Prepared(r.theme) BY <3>1 DEF WorthWaiting
      <4> QED BY <2>2, <2>4, <4>1, <4>2
    <3>2. CASE r = [theme |-> theme, n |-> latest + 1]
      <4>1. r.theme = theme BY <3>2
      <4> QED BY <2>2, <4>1
    <3> QED BY <2>1, <3>1, <3>2
  <2>6. AskedFor(theme)'
    <3>1. [theme |-> theme, n |-> latest + 1] \in waiting' BY <2>1
    <3> QED BY <2>1, <3>1 DEF AskedFor
  <2> QED BY <1>2, <2>2, <2>3, <2>5, <2>6
<1> QED BY <1>1, <1>2

-----------------------------------------------------------------------------
(* The resolved state of any stored or chosen values.                           *)
LEMMA Resolution ==
  ASSUME NEW mode \in Modes, NEW light \in Slots, NEW dark \in Slots
  PROVE  /\ ResolveThemeState(mode, light, dark) \in
              [mode : Modes, light : Themes, dark : Themes, theme : Themes]
         /\ ResolveThemeState(mode, light, dark).mode = mode
         /\ ResolveThemeState(mode, light, dark).light = (IF light \in Themes THEN light ELSE Light)
         /\ ResolveThemeState(mode, light, dark).dark = (IF dark \in Themes THEN dark ELSE Dark)
BY Marks DEF ResolveThemeState

(* However the reader or the system changes the theme, the new theme is asked   *)
(* for, unless the page prints or the theme stays what it is.                    *)
Choosing == SetMode \/ SetSlot \/ SystemChanges
LEMMA ChoosingAsks ==
  ASSUME ChoiceTyped, Choosing
  PROVE  /\ ChoiceTyped' /\ printing' = printing
         /\ UNCHANGED <<config, next, variants, page, boot>>
         /\ \/ \E chosen \in Themes : Request(chosen, visible')
            \/ UNCHANGED <<pending, queue, waiting, latest>> /\ (printing \/ visible' = visible)
<1>1. /\ state.light \in Slots /\ state.dark \in Slots /\ state.mode \in Modes
      /\ state.light \in Themes /\ state.dark \in Themes
  BY DEF ChoiceTyped, Slots
<1>2. CASE SetMode
  <2>1. PICK mode \in Modes : /\ storage' = PersistMode(mode) /\ ~printing
                              /\ Apply(ResolveThemeState(mode, state.light, state.dark))
                              /\ UNCHANGED <<systemDark, printing, config, next, variants, page, boot>>
    BY <1>2 DEF SetMode
  <2> DEFINE new == ResolveThemeState(mode, state.light, state.dark)
  <2>2. new \in [mode : Modes, light : Themes, dark : Themes, theme : Themes]
    BY <1>1, Resolution
  <2> HIDE DEF new
  <2>3. state' = new /\ visible' = new.theme /\ Request(new.theme, new.theme)
    BY <2>1 DEF Apply, new
  <2>4. storage' \in [mode : StoredModes, legacy : StoredModes, light : Slots, dark : Slots]
    BY <2>1 DEF PersistMode, ChoiceTyped, StoredModes
  <2>5. ChoiceTyped' BY <2>1, <2>2, <2>3, <2>4 DEF ChoiceTyped
  <2>6. visible' \in Themes BY <2>2, <2>3
  <2> QED BY <2>1, <2>3, <2>5, <2>6
<1>3. CASE SetSlot
  <2>1. PICK slot \in {"light", "dark"}, theme \in Themes :
           /\ storage' = [storage EXCEPT ![slot] = theme]
           /\ LET new == IF slot = "light" THEN ResolveThemeState(state.mode, theme, state.dark)
                                           ELSE ResolveThemeState(state.mode, state.light, theme)
              IN state' = new /\ visible' = new.theme /\ Request(theme, new.theme)
           /\ UNCHANGED <<systemDark, printing, config, next, variants, page, boot>>
    BY <1>3 DEF SetSlot
  <2> DEFINE new == IF slot = "light" THEN ResolveThemeState(state.mode, theme, state.dark)
                                      ELSE ResolveThemeState(state.mode, state.light, theme)
  <2>2. new \in [mode : Modes, light : Themes, dark : Themes, theme : Themes]
    <3>1. theme \in Slots BY DEF Slots
    <3>2. ResolveThemeState(state.mode, theme, state.dark)
            \in [mode : Modes, light : Themes, dark : Themes, theme : Themes]
      BY <1>1, <3>1, Resolution
    <3>3. ResolveThemeState(state.mode, state.light, theme)
            \in [mode : Modes, light : Themes, dark : Themes, theme : Themes]
      BY <1>1, <3>1, Resolution
    <3> QED BY <3>2, <3>3
  <2>3. state' = new /\ visible' = new.theme /\ Request(theme, new.theme) BY <2>1
  <2> HIDE DEF new
  <2>4. storage' \in [mode : StoredModes, legacy : StoredModes, light : Slots, dark : Slots]
    <3>1. CASE slot = "light" BY <2>1, <3>1 DEF ChoiceTyped, Slots
    <3>2. CASE slot = "dark" BY <2>1, <3>2 DEF ChoiceTyped, Slots
    <3> QED BY <3>1, <3>2
  <2>5. ChoiceTyped' BY <2>1, <2>2, <2>3, <2>4 DEF ChoiceTyped
  <2>6. \E chosen \in Themes : Request(chosen, visible') BY <2>3
  <2> QED BY <2>1, <2>5, <2>6
<1>4. CASE SystemChanges
  <2>1. /\ systemDark' = ~systemDark /\ UNCHANGED <<storage, printing, config, next, variants, page, boot>>
    BY <1>4 DEF SystemChanges
  <2>2. CASE state.mode = "system"
    <3> DEFINE theme == IF ~systemDark THEN state.dark ELSE state.light
               new == [state EXCEPT !.theme = theme]
    <3>1. theme \in Themes BY <1>1
    <3>2. Apply(new) BY <1>4, <2>2 DEF SystemChanges
    <3> HIDE DEF theme
    <3>3. /\ new \in [mode : Modes, light : Themes, dark : Themes, theme : Themes]
          /\ new.theme = theme
      BY <3>1 DEF ChoiceTyped
    <3> HIDE DEF new
    <3>4. state' = new /\ visible' = new.theme BY <3>2 DEF Apply
    <3>5. ChoiceTyped' BY <2>1, <3>3, <3>4 DEF ChoiceTyped
    <3>6. CASE printing
      BY <2>1, <3>2, <3>5, <3>6 DEF Apply
    <3>7. CASE ~printing
      <4>1. Request(theme, visible') BY <3>2, <3>3, <3>4, <3>7 DEF Apply
      <4> QED BY <2>1, <3>1, <3>5, <4>1
    <3> QED BY <3>6, <3>7
  <2>3. CASE state.mode # "system"
    <3>1. UNCHANGED <<state, visible, pending, queue, waiting, latest>>
      BY <1>4, <2>3 DEF SystemChanges
    <3>2. ChoiceTyped' BY <2>1, <3>1 DEF ChoiceTyped
    <3> QED BY <2>1, <3>1, <3>2
  <2> QED BY <2>2, <2>3
<1> QED BY <1>2, <1>3, <1>4 DEF Choosing

-----------------------------------------------------------------------------
(* The remembered choice, field by field.                                       *)
Remembered ==
  /\ state.mode = (IF StoredMode(storage) \in Modes THEN StoredMode(storage) ELSE "system")
  /\ state.light = (IF storage.light \in Themes THEN storage.light ELSE Light)
  /\ state.dark = (IF storage.dark \in Themes THEN storage.dark ELSE Dark)
  /\ state.theme = (IF state.mode = "light" \/ (state.mode = "system" /\ ~systemDark)
                    THEN state.light ELSE state.dark)

LEMMA RememberedFields ==
  ASSUME ChoiceTyped, ChoiceRemembered
  PROVE  Remembered
<1> DEFINE m == IF StoredMode(storage) \in Modes THEN StoredMode(storage) ELSE "system"
<1>1. m \in Modes BY DEF Modes
<1>2. state = ResolveThemeState(m, storage.light, storage.dark)
  BY DEF ChoiceRemembered, LoadThemeState
<1> HIDE DEF m
<1>3. /\ state.mode = m
      /\ state.light = (IF storage.light \in Themes THEN storage.light ELSE Light)
      /\ state.dark = (IF storage.dark \in Themes THEN storage.dark ELSE Dark)
  BY <1>2 DEF ResolveThemeState
<1>4. state.theme = (IF m = "light" \/ (m = "system" /\ ~systemDark) THEN state.light ELSE state.dark)
  BY <1>1, <1>2 DEF ResolveThemeState, Modes
<1> QED BY <1>3, <1>4 DEF Remembered, m

(* A record of the state's shape is known by its fields.                        *)
LEMMA StateFields ==
  ASSUME NEW r \in [mode : Modes, light : Themes, dark : Themes, theme : Themes],
         NEW m, NEW l, NEW d, NEW t, r.mode = m, r.light = l, r.dark = d, r.theme = t
  PROVE  r = [mode |-> m, light |-> l, dark |-> d, theme |-> t]
OBVIOUS

LEMMA FieldsRemembered ==
  ASSUME ChoiceTyped', Remembered'
  PROVE  ChoiceRemembered'
<1> DEFINE stored == StoredMode(storage')
           m == IF stored \in Modes THEN stored ELSE "system"
           l == IF storage'.light \in Themes THEN storage'.light ELSE Light
           d == IF storage'.dark \in Themes THEN storage'.dark ELSE Dark
           t == IF m = "light" \/ (m = "system" /\ ~systemDark') THEN l ELSE d
<1>1. StoredMode(storage)' = stored BY DEF StoredMode
<1>2. state' \in [mode : Modes, light : Themes, dark : Themes, theme : Themes]
  BY DEF ChoiceTyped
<1>3. state'.mode = m /\ state'.light = l /\ state'.dark = d BY <1>1 DEF Remembered
<1>4. state'.theme = t BY <1>3 DEF Remembered
<1>5. m \in Modes BY DEF Modes
<1>6. LoadThemeState(storage)' = [mode |-> m, light |-> l, dark |-> d,
         theme |-> IF (IF m = "system" THEN (IF systemDark' THEN "dark" ELSE "light") ELSE m) = "light"
                   THEN l ELSE d]
  BY <1>1 DEF LoadThemeState, ResolveThemeState
<1> HIDE DEF m, l, d, stored
<1>7. LoadThemeState(storage)' = [mode |-> m, light |-> l, dark |-> d, theme |-> t]
  BY <1>5, <1>6 DEF Modes
<1> HIDE DEF t
<1>8. state' = [mode |-> m, light |-> l, dark |-> d, theme |-> t]
  BY <1>2, <1>3, <1>4, StateFields
<1> QED BY <1>7, <1>8 DEF ChoiceRemembered

(* A choice is remembered as it is made.                                        *)
LEMMA ChoosingRemembers ==
  ASSUME ChoiceTyped, Remembered, ChoiceTyped', Choosing
  PROVE  Remembered'
<1>1. /\ state.light \in Slots /\ state.dark \in Slots /\ state.mode \in Modes
      /\ state.light \in Themes /\ state.dark \in Themes
  BY DEF ChoiceTyped, Slots
<1>2. CASE SetMode
  <2>1. PICK mode \in Modes : /\ storage' = PersistMode(mode)
                              /\ state' = ResolveThemeState(mode, state.light, state.dark)
                              /\ systemDark' = systemDark
    BY <1>2 DEF SetMode, Apply
  <2>2. state'.mode = mode /\ state'.light = state.light /\ state'.dark = state.dark
    BY <1>1, <2>1, Resolution
  <2>3. state'.theme = (IF mode = "light" \/ (mode = "system" /\ ~systemDark')
                        THEN state'.light ELSE state'.dark)
    BY <1>1, <2>1 DEF ResolveThemeState, Modes
  <2>4. storage'.light = storage.light /\ storage'.dark = storage.dark
    BY <2>1 DEF PersistMode, ChoiceTyped
  <2>5. storage'.mode = (IF mode = "system" THEN Nil ELSE mode) /\ storage'.legacy = storage'.mode
    BY <2>1 DEF PersistMode, ChoiceTyped
  <2>6. StoredMode(storage') = mode BY <2>5 DEF StoredMode, Modes, Nil
  <2>7. StoredMode(storage)' = mode BY <2>6 DEF StoredMode
  <2> QED BY <2>2, <2>3, <2>4, <2>7 DEF Remembered
<1>3. CASE SetSlot
  <2>1. PICK slot \in {"light", "dark"}, theme \in Themes :
           /\ storage' = [storage EXCEPT ![slot] = theme]
           /\ state' = (IF slot = "light" THEN ResolveThemeState(state.mode, theme, state.dark)
                                          ELSE ResolveThemeState(state.mode, state.light, theme))
           /\ systemDark' = systemDark
    BY <1>3 DEF SetSlot
  <2>2. theme \in Slots BY DEF Slots
  <2>3. storage'.mode = storage.mode /\ storage'.legacy = storage.legacy
    BY <2>1 DEF ChoiceTyped
  <2>4. StoredMode(storage)' = StoredMode(storage) BY <2>3 DEF StoredMode
  <2>5. CASE slot = "light"
    <3>1. storage'.light = theme /\ storage'.dark = storage.dark BY <2>1, <2>5 DEF ChoiceTyped
    <3>2. state' = ResolveThemeState(state.mode, theme, state.dark) BY <2>1, <2>5
    <3>3. state'.mode = state.mode /\ state'.light = theme /\ state'.dark = state.dark
      BY <1>1, <2>2, <3>2, Resolution
    <3>4. state'.theme = (IF state.mode = "light" \/ (state.mode = "system" /\ ~systemDark')
                          THEN state'.light ELSE state'.dark)
      BY <1>1, <2>1, <3>2 DEF ResolveThemeState, Modes
    <3> QED BY <2>4, <3>1, <3>3, <3>4 DEF Remembered
  <2>6. CASE slot = "dark"
    <3>1. storage'.dark = theme /\ storage'.light = storage.light BY <2>1, <2>6 DEF ChoiceTyped
    <3>2. state' = ResolveThemeState(state.mode, state.light, theme) BY <2>1, <2>6
    <3>3. state'.mode = state.mode /\ state'.light = state.light /\ state'.dark = theme
      BY <1>1, <2>2, <3>2, Resolution
    <3>4. state'.theme = (IF state.mode = "light" \/ (state.mode = "system" /\ ~systemDark')
                          THEN state'.light ELSE state'.dark)
      BY <1>1, <2>1, <3>2 DEF ResolveThemeState, Modes
    <3> QED BY <2>4, <3>1, <3>3, <3>4 DEF Remembered
  <2> QED BY <2>5, <2>6
<1>4. CASE SystemChanges
  <2>1. storage' = storage /\ systemDark' = ~systemDark /\ systemDark \in BOOLEAN
    BY <1>4 DEF SystemChanges, ChoiceTyped
  <2>2. StoredMode(storage)' = StoredMode(storage) BY <2>1 DEF StoredMode
  <2>3. CASE state.mode = "system"
    <3>1. state' = [state EXCEPT !.theme = IF ~systemDark THEN state.dark ELSE state.light]
      BY <1>4, <2>3 DEF SystemChanges, Apply
    <3>2. /\ state'.mode = state.mode /\ state'.light = state.light /\ state'.dark = state.dark
          /\ state'.theme = (IF ~systemDark THEN state.dark ELSE state.light)
      BY <3>1 DEF ChoiceTyped
    <3> QED BY <2>1, <2>2, <2>3, <3>2 DEF Remembered
  <2>4. CASE state.mode # "system"
    <3>1. state' = state BY <1>4, <2>4 DEF SystemChanges
    <3> QED BY <2>1, <2>2, <2>4, <3>1 DEF Remembered
  <2> QED BY <2>3, <2>4
<1> QED BY <1>2, <1>3, <1>4 DEF Choosing

(* No other step touches the choice.                                            *)
LEMMA ChoiceStep ==
  ASSUME ChoiceTyped, ChoiceRemembered, [Next]_vars
  PROVE  ChoiceTyped' /\ ChoiceRemembered'
<1>1. CASE Choosing
  <2>1. ChoiceTyped' BY <1>1, ChoosingAsks
  <2>2. Remembered BY RememberedFields
  <2>3. Remembered' BY <1>1, <2>1, <2>2, ChoosingRemembers
  <2> QED BY <2>1, <2>3, FieldsRemembered
<1>2. CASE UNCHANGED prefs /\ printing' \in {printing, TRUE, FALSE}
  <2>1. UNCHANGED <<storage, systemDark, state, visible>> BY <1>2 DEF prefs
  <2>2. ChoiceTyped' BY <1>2, <2>1 DEF ChoiceTyped
  <2>3. ChoiceRemembered'
    BY <2>1 DEF ChoiceRemembered, LoadThemeState, ResolveThemeState, StoredMode
  <2> QED BY <2>2, <2>3
<1>3. CASE \/ Initialize \/ InitializeFails \/ RenderDiagram \/ RequestReady \/ ImportFails
           \/ Imported \/ BootRenders \/ BootPrint \/ BootPending \/ BootVisible \/ BootShows
           \/ OpenViewer \/ CloseViewer \/ ViewerClosed
  <2>1. UNCHANGED <<prefs, printing>>
    BY <1>3 DEF Initialize, InitializeFails, RenderDiagram, RequestReady, ImportFails, Imported,
      BootRenders, BootPrint, BootPending, BootVisible, BootShows, OpenViewer, CloseViewer, ViewerClosed
  <2> QED BY <2>1, <1>2
<1>4. CASE PrintStarts \/ PrintEnds
  <2>1. UNCHANGED prefs /\ printing' \in {TRUE, FALSE} BY <1>4 DEF PrintStarts, PrintEnds
  <2> QED BY <2>1, <1>2
<1>5. CASE UNCHANGED vars
  <2>1. UNCHANGED <<prefs, printing>> BY <1>5 DEF vars, prefs
  <2> QED BY <2>1, <1>2
<1> QED BY <1>1, <1>3, <1>4, <1>5 DEF Next, Choosing

-----------------------------------------------------------------------------
(* One task more, at the module's top level.                                    *)
LEMMA QueuesOne ==
  ASSUME RendererTyped, QueueSound, NEW job \in Jobs, queue' = Enqueue(queue, job),
         UNCHANGED <<config, next, variants>>
  PROVE  /\ RendererTyped' /\ QueueSound' /\ Grows /\ Onward
         /\ Preparing(PrintKey)' => Preparing(PrintKey) \/ job.key = PrintKey
<1>1. Grown(queue) BY GrownFromNothing
<1>2. /\ Grown(queue')
      /\ \A k \in Keys : HasKey(queue', k) => HasKey(queue, k) \/ k = job.key
  BY <1>1, EnqueueGrows
<1>3. RendererTyped' /\ QueueSound' /\ \A k \in Keys : Preparing(k) => Preparing(k)'
  BY <1>2, GrownStep
<1>4. Grows /\ Onward BY <1>3 DEF Grows, Onward
<1>5. PrintKey \in Keys BY Marks
<1> QED BY <1>2, <1>3, <1>4, <1>5 DEF HasKey, Preparing

LEMMA BootRendersStep ==
  ASSUME RendererTyped, QueueSound, ControlTyped, BootRenders
  PROVE  /\ RendererTyped' /\ QueueSound' /\ Grows /\ Onward /\ ControlTyped'
         /\ Preparing(PrintKey)' => Preparing(PrintKey)
<1>1. /\ boot.todo \in Seq(Themes) /\ boot.todo # <<>> /\ boot \in [pc : Stages, todo : Seq(Themes)]
      /\ UNCHANGED <<config, next, variants, pending, waiting, latest>>
  BY DEF ControlTyped, BootRenders
<1>2. PICK t \in Themes : t = Head(boot.todo) BY <1>1
<1>3. CASE Awaited(t)
  <2>1. boot' = [boot EXCEPT !.todo = Tail(@)] /\ queue' = queue BY <1>2, <1>3 DEF BootRenders
  <2>2. UNCHANGED renderer BY <1>1, <2>1 DEF renderer
  <2>3. RendererTyped' /\ QueueSound' /\ Grows /\ Onward BY <2>2, RendererIdle
  <2>4. Tail(boot.todo) \in Seq(Themes) BY <1>1
  <2>5. boot' \in [pc : Stages, todo : Seq(Themes)] BY <1>1, <2>1, <2>4
  <2>6. ControlTyped' BY <1>1, <2>5 DEF ControlTyped
  <2> QED BY <2>1, <2>3, <2>6 DEF Preparing
<1>4. CASE ~Awaited(t)
  <2>1. queue' = Enqueue(queue, Job(t, t)) /\ boot' = boot BY <1>2, <1>4 DEF BootRenders
  <2>2. Job(t, t) \in Jobs /\ Job(t, t).key # PrintKey BY HonestJobs, Marks
  <2>3. /\ RendererTyped' /\ QueueSound' /\ Grows /\ Onward
        /\ Preparing(PrintKey)' => Preparing(PrintKey)
    BY <1>1, <2>1, <2>2, QueuesOne
  <2>4. ControlTyped' BY <1>1, <2>1 DEF ControlTyped
  <2> QED BY <2>3, <2>4
<1> QED BY <1>3, <1>4

(* The print drawings: the theme's own ones, or a task of their own.            *)
LEMMA BootPrintStep ==
  ASSUME RendererTyped, QueueSound, ControlTyped, PrintUntouched, BootPrint
  PROVE  /\ RendererTyped' /\ QueueSound' /\ Grows /\ Onward /\ ControlTyped'
<1>1. /\ boot.pc = "slots" /\ boot' = [pc |-> "print", todo |-> <<>>]
      /\ UNCHANGED <<config, next, pending, waiting, latest>>
  BY DEF BootPrint
<1>2. ControlTyped'
  <2>1. [pc |-> "print", todo |-> <<>>] \in [pc : Stages, todo : Seq(Themes)] BY DEF Stages
  <2> QED BY <1>1, <2>1 DEF ControlTyped
<1>3. CASE PrintTheme \in Themes /\ Prepared(PrintTheme)
  <2> DEFINE c == [i \in Diagrams |-> variants[i][PrintTheme]]
  <2>1. /\ variants' = [i \in Diagrams |-> [variants[i] EXCEPT ![PrintKey] = variants[i][PrintTheme]]]
        /\ queue' = queue
    BY <1>3 DEF BootPrint
  <2>2. PrintTheme \in Keys /\ PrintKey \in Keys /\ PrintTheme # PrintKey BY <1>3, Marks
  <2>3. c \in [Diagrams -> Colours] /\ \A i \in Diagrams : c[i] = variants[i][PrintTheme]
    BY <2>2 DEF RendererTyped
  <2>4. variants' = [i \in Diagrams |-> [variants[i] EXCEPT ![PrintKey] = c[i]]] BY <2>1
  <2> HIDE DEF c
  <2>5. /\ variants' \in [Diagrams -> [Keys -> Colours]]
        /\ \A i \in Diagrams, k \in Keys : variants'[i][k] = IF k = PrintKey THEN c[i] ELSE variants[i][k]
    <3>1. variants \in [Diagrams -> [Keys -> Colours]] BY DEF RendererTyped
    <3> QED BY <2>2, <2>3, <2>4, <3>1, OneColumn
  <2>6. /\ \A i \in Diagrams : variants[i][PrintKey] = None /\ variants'[i][PrintKey] # None
        /\ ~Preparing(PrintKey)
    BY <1>1, <1>3, <2>2, <2>3, <2>5 DEF PrintUntouched, Prepared
  <2>7. Grows BY <2>5, <2>6 DEF Grows
  <2>8. RendererTyped' BY <1>1, <2>1, <2>5 DEF RendererTyped
  <2>9. OneTaskEach' BY <2>1 DEF QueueSound, OneTaskEach
  <2>10. RunningHere' BY <1>1, <2>1 DEF QueueSound, RunningHere, Palette
  <2>11. \A n \in DOMAIN queue : queue[n].key \in Keys /\ queue[n].key # PrintKey
    <3>1. \A n \in DOMAIN queue : queue[n] \in Jobs BY DEF RendererTyped
    <3> QED BY <2>6, <3>1, HonestJobs DEF Preparing
  <2>12. StillToDraw'
    <3> SUFFICES ASSUME NEW n \in DOMAIN queue, NEW i \in Diagrams
                 PROVE  (variants'[i][queue[n].key] = None) <=> (n # 1 \/ next <= i)
      BY <1>1, <2>1 DEF StillToDraw
    <3>1. variants'[i][queue[n].key] = variants[i][queue[n].key] BY <2>5, <2>11
    <3> QED BY <3>1 DEF QueueSound, StillToDraw
  <2>13. AllOrNothing'
    <3> SUFFICES ASSUME NEW k \in Keys
                 PROVE  Preparing(k)' \/ Prepared(k)' \/ \A i \in Diagrams : variants'[i][k] = None
      BY DEF AllOrNothing
    <3>1. CASE k = PrintKey BY <2>6, <3>1 DEF Prepared
    <3>2. CASE k # PrintKey
      <4>1. \A i \in Diagrams : variants'[i][k] = variants[i][k] BY <2>5, <3>2
      <4>2. Preparing(k) \/ Prepared(k) \/ \A i \in Diagrams : variants[i][k] = None
        BY DEF QueueSound, AllOrNothing
      <4> QED BY <2>1, <4>1, <4>2 DEF Preparing, Prepared
    <3> QED BY <3>1, <3>2
  <2>14. OwnPalette'
    <3>1. OwnPalette BY DEF QueueSound
    <3>2. \A i \in Diagrams : Rendered(i, PrintTheme) => c[i] = PrintTheme
      BY <2>2, <2>3, <3>1 DEF OwnPalette
    <3> QED BY <2>2, <2>3, <2>5, <3>1, <3>2 DEF OwnPalette, Rendered
  <2>15. Onward BY <2>1 DEF Onward, Preparing
  <2> QED BY <1>2, <2>7, <2>8, <2>9, <2>10, <2>12, <2>13, <2>14, <2>15 DEF QueueSound
<1>4. CASE ~(PrintTheme \in Themes /\ Prepared(PrintTheme))
  <2>1. queue' = Enqueue(queue, Job(PrintTheme, PrintKey)) /\ variants' = variants
    BY <1>4 DEF BootPrint
  <2>2. Job(PrintTheme, PrintKey) \in Jobs BY HonestJobs
  <2> QED BY <1>1, <1>2, <2>1, <2>2, QueuesOne
<1> QED BY <1>3, <1>4

(* Every step at which a theme may be asked for.  Once the module runs and the  *)
(* page is on the screen, either the latest request is for the chosen theme or   *)
(* the choice and the requests are what they were.                               *)
LEMMA AskingStep ==
  ASSUME ChoiceTyped, RendererTyped, QueueSound, ControlTyped, Asleep, WorthWaiting,
         Choosing \/ PrintEnds
  PROVE  /\ RendererTyped' /\ QueueSound' /\ Grows /\ Onward /\ ControlTyped' /\ WorthWaiting'
         /\ boot.pc \in {"import", "failed"} => queue' = queue /\ waiting' = waiting
         /\ Preparing(PrintKey)' => Preparing(PrintKey)
         /\ boot' = boot /\ variants' = variants
         /\ boot.pc \notin {"import", "failed"} /\ ~printing' =>
              Asked' \/ (Choosing /\ UNCHANGED <<visible, printing, waiting, latest>>)
<1>1. ASSUME NEW chosen \in Themes, NEW theme \in Themes, theme = visible', Request(chosen, theme),
             UNCHANGED <<config, next, variants>>, boot' = boot
      PROVE  /\ RendererTyped' /\ QueueSound' /\ Grows /\ Onward /\ ControlTyped' /\ WorthWaiting'
             /\ boot.pc \in {"import", "failed"} => queue' = queue /\ waiting' = waiting
             /\ Preparing(PrintKey)' => Preparing(PrintKey)
             /\ boot.pc \notin {"import", "failed"} => Asked'
  <2>1. /\ RendererTyped' /\ QueueSound' /\ Grows /\ Onward /\ ControlTyped' /\ WorthWaiting'
        /\ boot.pc \in {"import", "failed"} => queue' = queue /\ waiting' = waiting
        /\ boot.pc \notin {"import", "failed"} => AskedFor(theme)'
        /\ Preparing(PrintKey)' => Preparing(PrintKey)
    BY <1>1, RequestStep
  <2>2. AskedFor(theme)' => Asked' BY <1>1 DEF AskedFor, Asked
  <2> QED BY <2>1, <2>2
<1>2. CASE Choosing
  <2>1. /\ ChoiceTyped' /\ printing' = printing
        /\ UNCHANGED <<config, next, variants, page, boot>>
        /\ \/ \E chosen \in Themes : Request(chosen, visible')
           \/ UNCHANGED <<pending, queue, waiting, latest>> /\ (printing \/ visible' = visible)
    BY <1>2, ChoosingAsks
  <2>2. CASE \E chosen \in Themes : Request(chosen, visible')
    <3>1. PICK chosen \in Themes : Request(chosen, visible') BY <2>2
    <3>2. visible' \in Themes BY <2>1 DEF ChoiceTyped
    <3>3. PICK theme \in Themes : theme = visible' BY <3>2
    <3>4. Request(chosen, theme) BY <3>1, <3>3
    <3> QED BY <2>1, <3>3, <3>4, <1>1
  <2>3. CASE UNCHANGED <<pending, queue, waiting, latest>> /\ (printing \/ visible' = visible)
    <3>1. UNCHANGED renderer BY <2>1, <2>3 DEF renderer
    <3>2. RendererTyped' /\ QueueSound' /\ Grows /\ Onward BY <3>1, RendererIdle
    <3>3. ControlTyped' BY <2>1, <2>3 DEF ControlTyped
    <3>4. WorthWaiting' BY <2>1, <2>3 DEF WorthWaiting, Preparing, Prepared
    <3>5. Preparing(PrintKey)' => Preparing(PrintKey) BY <2>3 DEF Preparing
    <3> QED BY <1>2, <2>1, <2>3, <3>2, <3>3, <3>4, <3>5
  <2> QED BY <2>1, <2>2, <2>3
<1>3. CASE PrintEnds
  <2>1. /\ UNCHANGED prefs /\ UNCHANGED <<config, next, variants, boot>>
        /\ Request(visible, visible)
    BY <1>3 DEF PrintEnds
  <2>2. visible \in Themes /\ visible' = visible BY <2>1 DEF prefs, ChoiceTyped
  <2> QED BY <2>1, <2>2, <1>1
<1> QED BY <1>2, <1>3

(* The renderer, the queue and the controls, at any step.                       *)
LEMMA RendererStep ==
  ASSUME ChoiceTyped, RendererTyped, QueueSound, ControlTyped, Asleep, PrintUntouched, WorthWaiting,
         [Next]_vars
  PROVE  RendererTyped' /\ QueueSound' /\ Grows /\ Onward /\ ControlTyped'
<1>1. CASE Choosing \/ PrintEnds BY <1>1, AskingStep
<1>2. CASE Initialize
  BY <1>2, InitializeStep DEF Initialize, control, ControlTyped
<1>3. CASE InitializeFails
  BY <1>3, InitializeFailsStep DEF InitializeFails, control, ControlTyped
<1>4. CASE RenderDiagram
  BY <1>4, RenderDiagramStep DEF RenderDiagram, control, ControlTyped
<1>5. CASE BootRenders BY <1>5, BootRendersStep
<1>6. CASE BootPrint BY <1>6, BootPrintStep
<1>7. CASE \/ RequestReady \/ ImportFails \/ Imported \/ BootPending \/ BootVisible \/ BootShows
           \/ PrintStarts \/ OpenViewer \/ CloseViewer \/ ViewerClosed \/ UNCHANGED vars
  <2>1. UNCHANGED renderer
    BY <1>7 DEF RequestReady, ImportFails, Imported, BootPending, BootVisible, BootShows,
      PrintStarts, OpenViewer, CloseViewer, ViewerClosed, vars, renderer
  <2>2. RendererTyped' /\ QueueSound' /\ Grows /\ Onward BY <2>1, RendererIdle
  <2>3. CASE RequestReady
    <3>1. /\ waiting' \subseteq waiting /\ UNCHANGED <<pending, latest, boot>>
      BY <2>3 DEF RequestReady
    <3> QED BY <2>2, <3>1 DEF ControlTyped
  <2>4. CASE ImportFails \/ BootShows
    <3>1. UNCHANGED <<pending, waiting, latest>> /\ boot' \in [pc : Stages, todo : Seq(Themes)]
      BY <2>4 DEF ImportFails, BootShows, ControlTyped, Stages
    <3> QED BY <2>2, <3>1 DEF ControlTyped
  <2>5. CASE Imported
    <3>1. state.light \in Themes /\ state.dark \in Themes BY DEF ChoiceTyped
    <3>2. /\ UNCHANGED <<pending, waiting, latest>>
          /\ boot' = [pc |-> "slots",
              todo |-> IF state.light = state.dark THEN <<state.light>> ELSE <<state.light, state.dark>>]
      BY <2>5 DEF Imported
    <3>3. <<state.light>> \in Seq(Themes) /\ <<state.light, state.dark>> \in Seq(Themes)
      BY <3>1
    <3>4. boot' \in [pc : Stages, todo : Seq(Themes)] BY <3>2, <3>3 DEF Stages
    <3> QED BY <2>2, <3>2, <3>4 DEF ControlTyped
  <2>6. CASE BootPending
    <3>1. UNCHANGED <<pending, waiting, latest>> /\ boot' \in [pc : Stages, todo : Seq(Themes)]
      BY <2>6 DEF BootPending, ControlTyped, Stages
    <3> QED BY <2>2, <3>1 DEF ControlTyped
  <2>7. CASE BootVisible
    <3>1. visible \in Themes BY DEF ChoiceTyped
    <3>2. <<visible>> \in Seq(Themes) BY <3>1
    <3>3. /\ UNCHANGED <<waiting, latest>> /\ pending' = <<>>
          /\ boot' = [pc |-> "visible", todo |-> <<visible>>]
      BY <2>7 DEF BootVisible
    <3>4. boot' \in [pc : Stages, todo : Seq(Themes)] BY <3>2, <3>3 DEF Stages
    <3> QED BY <2>2, <3>3, <3>4 DEF ControlTyped
  <2>8. CASE PrintStarts \/ OpenViewer \/ CloseViewer \/ ViewerClosed \/ UNCHANGED vars
    <3>1. UNCHANGED <<pending, waiting, latest, boot>>
      BY <2>8 DEF PrintStarts, OpenViewer, CloseViewer, ViewerClosed, vars, control
    <3> QED BY <2>2, <3>1 DEF ControlTyped
  <2> QED BY <1>7, <2>3, <2>4, <2>5, <2>6, <2>7, <2>8
<1> QED BY <1>1, <1>2, <1>3, <1>4, <1>5, <1>6, <1>7 DEF Next, Choosing

-----------------------------------------------------------------------------
(* Showing a theme, or falling back on another, shows only drawings there are,  *)
(* and takes an open viewer along.                                              *)
LEMMA ShowAllSound ==
  ASSUME PageTyped, Drawn, ViewerSound, NEW k \in Keys,
         NEW alt \in [Diagrams -> Keys], \A i \in Diagrams : alt[i] \in Themes \cup {k},
         ShowAll(k, alt), variants' = variants
  PROVE  /\ PageTyped' /\ Drawn' /\ ViewerSound'
         /\ \A i \in Diagrams : shown'[i] = Choice(i, k, alt[i])
<1> DEFINE new == [i \in Diagrams |-> Choice(i, k, alt[i])]
           touched == {i \in Diagrams : Changed(i, k, alt[i])}
<1>1. \A i \in Diagrams :
        /\ new[i] = Choice(i, k, alt[i]) /\ Choice(i, k, alt[i]) \in Keys \cup {Source}
        /\ Changed(i, k, alt[i]) => Choice(i, k, alt[i]) \in {k, alt[i]} /\ Rendered(i, new[i])
        /\ ~Changed(i, k, alt[i]) => Choice(i, k, alt[i]) = shown[i]
  BY DEF Choice, Changed, PageTyped
<1>2. /\ shown' = new
      /\ lastScreen' = [i \in Diagrams |->
                          IF Changed(i, k, alt[i]) /\ new[i] # PrintKey THEN new[i] ELSE lastScreen[i]]
      /\ dialog' = IF dialog.open /\ dialog.block \in touched
                   THEN [dialog EXCEPT !.svg = new[dialog.block], !.fresh = TRUE] ELSE dialog
  BY DEF ShowAll, Follow
<1>3. new \in [Diagrams -> Keys \cup {Source}] BY <1>1
<1>4. \A i \in touched : i \in Diagrams /\ Changed(i, k, alt[i]) OBVIOUS
<1>5. \A i \in Diagrams : i \notin touched => ~Changed(i, k, alt[i]) OBVIOUS
<1> HIDE DEF new, touched
<1>6. Keys = Themes \cup {PrintKey} BY DEF Keys
<1>7. lastScreen' \in [Diagrams -> Themes]
  <2>1. \A i \in Diagrams : lastScreen[i] \in Themes BY DEF PageTyped
  <2>2. \A i \in Diagrams : Changed(i, k, alt[i]) /\ new[i] # PrintKey => new[i] \in Themes
    BY <1>1, <1>6
  <2> QED BY <1>2, <2>1, <2>2
<1>8. Drawn'
  <2> SUFFICES ASSUME NEW i \in Diagrams, shown'[i] # Source PROVE Rendered(i, shown'[i])
    BY DEF Drawn, Rendered
  <2>1. CASE Changed(i, k, alt[i]) BY <1>1, <1>2, <2>1
  <2>2. CASE ~Changed(i, k, alt[i]) BY <1>1, <1>2, <2>2 DEF Drawn
  <2> QED BY <2>1, <2>2
<1>9. dialog \in [open : BOOLEAN, closing : BOOLEAN, block : Diagrams \cup {0},
                   svg : Keys \cup {Source, Nil}, fresh : BOOLEAN]
  BY DEF PageTyped
<1>10. CASE dialog.open /\ dialog.block \in touched
  <2>1. PICK b \in Diagrams : b = dialog.block /\ b \in touched BY <1>4, <1>10
  <2>2. PICK svg \in Keys \cup {Source} : svg = new[b] BY <1>3, <2>1
  <2>3. dialog' = [dialog EXCEPT !.svg = svg, !.fresh = TRUE] BY <1>2, <1>10, <2>1, <2>2
  <2>4. /\ dialog' \in [open : BOOLEAN, closing : BOOLEAN, block : Diagrams \cup {0},
                        svg : Keys \cup {Source, Nil}, fresh : BOOLEAN]
        /\ dialog'.block = b /\ dialog'.svg = svg /\ dialog'.fresh
    BY <1>9, <2>1, <2>3
  <2>5. svg # Source
    <3>1. Changed(b, k, alt[b]) BY <1>4, <2>1
    <3>2. new[b] \in {k, alt[b]} BY <1>1, <3>1
    <3> QED BY <2>2, <3>2, Marks
  <2>6. ViewerSound' BY <1>2, <2>1, <2>2, <2>4, <2>5 DEF ViewerSound
  <2>7. PageTyped' BY <1>2, <1>3, <1>7, <2>4 DEF PageTyped
  <2> QED BY <1>1, <1>2, <1>8, <2>6, <2>7
<1>11. CASE ~(dialog.open /\ dialog.block \in touched)
  <2>1. dialog' = dialog BY <1>2, <1>11
  <2>2. ViewerSound'
    <3> SUFFICES ASSUME dialog.open
                 PROVE  /\ dialog.block \in Diagrams /\ dialog.fresh
                        /\ dialog.svg = new[dialog.block] /\ new[dialog.block] # Source
      BY <1>2, <2>1 DEF ViewerSound
    <3>1. PICK b \in Diagrams : b = dialog.block /\ b \notin touched BY <1>11 DEF ViewerSound
    <3>2. new[b] = shown[b] BY <1>1, <1>5, <3>1
    <3> QED BY <3>1, <3>2 DEF ViewerSound
  <2>3. PageTyped' BY <1>2, <1>3, <1>7, <1>9, <2>1 DEF PageTyped
  <2> QED BY <1>1, <1>2, <1>8, <2>2, <2>3
<1> QED BY <1>10, <1>11

LEMMA ShowThemeSound ==
  ASSUME PageTyped, Drawn, ViewerSound, NEW k \in Keys, ShowTheme(k), variants' = variants
  PROVE  /\ PageTyped' /\ Drawn' /\ ViewerSound'
         /\ \A i \in Diagrams : shown'[i] = IF Rendered(i, k) THEN k ELSE shown[i]
<1> DEFINE alt == [i \in Diagrams |-> k]
<1>1. alt \in [Diagrams -> Keys] /\ \A i \in Diagrams : alt[i] = k OBVIOUS
<1>2. ShowAll(k, alt) BY DEF ShowTheme
<1> HIDE DEF alt
<1>3. \A i \in Diagrams : alt[i] \in Themes \cup {k} BY <1>1
<1>4. /\ PageTyped' /\ Drawn' /\ ViewerSound'
      /\ \A i \in Diagrams : shown'[i] = Choice(i, k, alt[i])
  BY <1>1, <1>2, <1>3, ShowAllSound
<1> QED BY <1>1, <1>4 DEF Choice

LEMMA RestoreSound ==
  ASSUME ChoiceTyped, PageTyped, Drawn, ViewerSound, RestoreScreen, variants' = variants
  PROVE  /\ PageTyped' /\ Drawn' /\ ViewerSound'
         /\ \A i \in Diagrams : shown'[i] = IF Rendered(i, visible) THEN visible
                                 ELSE IF Rendered(i, lastScreen[i]) THEN lastScreen[i] ELSE shown[i]
<1>1. PICK k \in Keys : k = visible BY Marks DEF ChoiceTyped
<1>2. PICK alt \in [Diagrams -> Keys] : alt = lastScreen /\ \A i \in Diagrams : alt[i] \in Themes
  BY Marks DEF PageTyped
<1>3. ShowAll(k, alt) BY <1>1, <1>2 DEF RestoreScreen
<1>4. \A i \in Diagrams : alt[i] \in Themes \cup {k} BY <1>2
<1>5. /\ PageTyped' /\ Drawn' /\ ViewerSound'
      /\ \A i \in Diagrams : shown'[i] = Choice(i, k, alt[i])
  BY <1>3, <1>4, ShowAllSound
<1> QED BY <1>1, <1>2, <1>5 DEF Choice

(* A failed rendering sends no block back to its source that shows a drawing.   *)
LEMMA FallbackKeeps ==
  ASSUME PageTyped, Drawn, NEW failed, Fallback(failed)
  PROVE  shown' = shown
<1>1. \A i \in Diagrams : NoneRendered(i) => shown[i] = Source
  BY DEF NoneRendered, Drawn, PageTyped
<1>2. \A i \in Diagrams : (IF i \in failed /\ NoneRendered(i) THEN Source ELSE shown[i]) = shown[i]
  BY <1>1
<1>3. shown' = [i \in Diagrams |-> shown[i]] BY <1>2 DEF Fallback
<1> QED BY <1>3 DEF PageTyped

(* What a block holds only changes when the module shows, not when it draws.    *)
LEMMA DrawingShowsNothing ==
  ASSUME PageTyped, Drawn, Asleep, InitializeFails \/ RenderDiagram \/ ImportFails
  PROVE  shown' = shown
<1>1. CASE InitializeFails BY <1>1, FallbackKeeps DEF InitializeFails
<1>2. CASE RenderDiagram BY <1>2, FallbackKeeps DEF RenderDiagram
<1>3. CASE ImportFails
  <2>1. shown' = [i \in Diagrams |-> Source] /\ boot.pc = "import" BY <1>3 DEF ImportFails
  <2>2. \A i \in Diagrams : shown[i] = Source BY <2>1 DEF Asleep
  <2> QED BY <2>1, <2>2 DEF PageTyped
<1> QED BY <1>1, <1>2, <1>3

Shows == RequestReady \/ BootShows \/ PrintStarts \/ PrintEnds
LEMMA ShownStays ==
  ASSUME PageTyped, Drawn, Asleep, [Next]_vars, ~Shows
  PROVE  shown' = shown
<1>1. CASE InitializeFails \/ RenderDiagram \/ ImportFails BY <1>1, DrawingShowsNothing
<1>2. CASE \/ Initialize \/ Imported \/ BootRenders \/ BootPrint \/ BootPending \/ BootVisible
           \/ SetMode \/ SetSlot \/ SystemChanges \/ OpenViewer \/ CloseViewer \/ ViewerClosed
           \/ UNCHANGED vars
  BY <1>2 DEF Initialize, Imported, BootRenders, BootPrint, BootPending, BootVisible, SetMode, SetSlot,
    SystemChanges, OpenViewer, CloseViewer, ViewerClosed, vars, page
<1> QED BY <1>1, <1>2 DEF Next, Shows

(* A page that shows what it showed shows it rightly.                           *)
LEMMA PageIdle ==
  ASSUME PageTyped, Drawn, ViewerSound, Grows, UNCHANGED page
  PROVE  PageTyped' /\ Drawn' /\ ViewerSound'
<1>1. shown' = shown /\ lastScreen' = lastScreen /\ dialog' = dialog BY DEF page
<1>2. PageTyped' BY <1>1 DEF PageTyped
<1>3. ViewerSound' BY <1>1 DEF ViewerSound
<1>4. Drawn'
  <2> SUFFICES ASSUME NEW i \in Diagrams, shown[i] # Source
               PROVE  variants'[i][shown[i]] \notin {None, Failed}
    BY <1>1 DEF Drawn, Rendered
  <2>1. shown[i] \in Keys BY DEF PageTyped
  <2> QED BY <2>1 DEF Drawn, Rendered, Grows
<1> QED BY <1>2, <1>3, <1>4

LEMMA PageStep ==
  ASSUME ChoiceTyped, PageTyped, ControlTyped, Drawn, ViewerSound, Asleep, Grows, [Next]_vars
  PROVE  PageTyped' /\ Drawn' /\ ViewerSound'
<1>1. CASE InitializeFails \/ RenderDiagram \/ ImportFails
  <2>1. shown' = shown BY <1>1, DrawingShowsNothing
  <2>2. lastScreen' = lastScreen /\ dialog' = dialog
    BY <1>1 DEF InitializeFails, RenderDiagram, ImportFails
  <2>3. UNCHANGED page BY <2>1, <2>2 DEF page
  <2> QED BY <2>3, PageIdle
<1>2. CASE \/ Initialize \/ Imported \/ BootRenders \/ BootPrint \/ BootPending \/ BootVisible
           \/ SetMode \/ SetSlot \/ SystemChanges \/ UNCHANGED vars
  <2>1. UNCHANGED page
    BY <1>2 DEF Initialize, Imported, BootRenders, BootPrint, BootPending, BootVisible, SetMode, SetSlot,
      SystemChanges, vars, page
  <2> QED BY <2>1, PageIdle
<1>3. CASE RequestReady
  <2>1. PICK r \in waiting : /\ IF Showable(r) THEN ShowTheme(r.theme) ELSE UNCHANGED page
                             /\ variants' = variants
    BY <1>3 DEF RequestReady, renderer
  <2>2. PICK k \in Keys : k = r.theme BY Marks DEF ControlTyped
  <2>3. CASE Showable(r) BY <2>1, <2>2, <2>3, ShowThemeSound
  <2>4. CASE ~Showable(r) BY <2>1, <2>4, PageIdle
  <2> QED BY <2>3, <2>4
<1>4. CASE BootShows
  <2>1. variants' = variants /\ (ShowTheme(PrintKey) \/ RestoreScreen)
    BY <1>4 DEF BootShows, renderer
  <2> QED BY <2>1, Marks, ShowThemeSound, RestoreSound
<1>5. CASE PrintStarts
  <2>1. variants' = variants /\ ShowTheme(PrintKey) BY <1>5 DEF PrintStarts, renderer
  <2> QED BY <2>1, Marks, ShowThemeSound
<1>6. CASE PrintEnds
  <2>1. variants' = variants /\ RestoreScreen BY <1>6 DEF PrintEnds
  <2> QED BY <2>1, RestoreSound
<1>7. CASE OpenViewer \/ CloseViewer \/ ViewerClosed
  <2>1. shown' = shown /\ lastScreen' = lastScreen /\ variants' = variants
    BY <1>7 DEF OpenViewer, CloseViewer, ViewerClosed, renderer
  <2>2. Drawn' BY <2>1 DEF Drawn, Rendered
  <2>3. CASE OpenViewer
    <3>1. PICK i \in Diagrams : /\ shown[i] # Source
             /\ dialog' = [open |-> TRUE, closing |-> FALSE, block |-> i, svg |-> shown[i], fresh |-> TRUE]
      BY <2>3 DEF OpenViewer
    <3>2. shown[i] \in Keys \cup {Source, Nil} BY DEF PageTyped
    <3>3. PageTyped' BY <2>1, <3>1, <3>2 DEF PageTyped
    <3>4. ViewerSound' BY <2>1, <3>1 DEF ViewerSound
    <3> QED BY <2>2, <3>3, <3>4
  <2>4. CASE CloseViewer
    <3>1. /\ dialog' = [dialog EXCEPT !.open = FALSE, !.closing = TRUE]
          /\ dialog \in [open : BOOLEAN, closing : BOOLEAN, block : Diagrams \cup {0},
                         svg : Keys \cup {Source, Nil}, fresh : BOOLEAN]
      BY <2>4 DEF CloseViewer, PageTyped
    <3>2. /\ dialog' \in [open : BOOLEAN, closing : BOOLEAN, block : Diagrams \cup {0},
                          svg : Keys \cup {Source, Nil}, fresh : BOOLEAN]
          /\ dialog'.open = FALSE
      BY <3>1
    <3> QED BY <2>1, <2>2, <3>2 DEF PageTyped, ViewerSound
  <2>5. CASE ViewerClosed
    <3>1. dialog' = [open |-> FALSE, closing |-> FALSE, block |-> 0, svg |-> Nil, fresh |-> FALSE]
      BY <2>5 DEF ViewerClosed
    <3> QED BY <2>1, <2>2, <3>1 DEF PageTyped, ViewerSound
  <2> QED BY <1>7, <2>3, <2>4, <2>5
<1> QED BY <1>1, <1>2, <1>3, <1>4, <1>5, <1>6, <1>7 DEF Next

-----------------------------------------------------------------------------
(* Waiting stays worthwhile.                                                    *)
LEMMA WaitingStep ==
  ASSUME ChoiceTyped, RendererTyped, QueueSound, ControlTyped, Asleep, WorthWaiting, Grows, Onward,
         [Next]_vars
  PROVE  WorthWaiting'
<1>1. CASE Choosing \/ PrintEnds BY <1>1, AskingStep
<1>2. CASE ~(Choosing \/ PrintEnds)
  <2>1. waiting' \subseteq waiting
    BY <1>2 DEF Next, Choosing, Initialize, InitializeFails, RenderDiagram, RequestReady, ImportFails,
      Imported, BootRenders, BootPrint, BootPending, BootVisible, BootShows, PrintStarts, OpenViewer,
      CloseViewer, ViewerClosed, vars, control
  <2> SUFFICES ASSUME NEW r \in waiting PROVE Preparing(r.theme)' \/ Prepared(r.theme)'
    BY <2>1 DEF WorthWaiting
  <2>2. PICK k \in Keys : k = r.theme BY Marks DEF ControlTyped
  <2>3. CASE Preparing(k) BY <2>2, <2>3 DEF Onward
  <2>4. CASE Prepared(k) BY <2>2, <2>4 DEF Grows, Prepared
  <2> QED BY <2>2, <2>3, <2>4 DEF WorthWaiting
<1> QED BY <1>1, <1>2

(* A task draws its own theme only, and ends without another for print.         *)
LEMMA PrintKeyStays ==
  ASSUME RendererTyped, QueueSound, ~Preparing(PrintKey), InitializeFails \/ RenderDiagram
  PROVE  ~Preparing(PrintKey)' /\ \A i \in Diagrams : variants'[i][PrintKey] = variants[i][PrintKey]
<1>1. queue # <<>> /\ queue \in Seq(Jobs)
  BY Numbered DEF InitializeFails, RenderDiagram, RendererTyped, QueueSound, RunningHere
<1>2. Running = queue[1] /\ queue[1] \in Jobs /\ 1 \in DOMAIN queue BY <1>1, TaskEnds DEF Running
<1>3. PICK key \in Keys : key = Running.key BY <1>2, HonestJobs
<1>4. key # PrintKey BY <1>2, <1>3 DEF Preparing
<1>5. PrintKey \in Keys BY Marks
<1>6. variants \in [Diagrams -> [Keys -> Colours]] BY DEF RendererTyped
<1>7. \A i \in Diagrams : variants'[i][PrintKey] = variants[i][PrintKey]
  <2>1. CASE InitializeFails
    <3>1. variants' = [i \in Diagrams |-> [variants[i] EXCEPT ![key] = Failed]]
      BY <1>3, <2>1 DEF InitializeFails
    <3> QED BY <1>4, <1>5, <1>6, <3>1
  <2>2. CASE RenderDiagram
    <3>1. \/ variants' = variants \/ variants' = [variants EXCEPT ![next][key] = config]
          \/ variants' = [variants EXCEPT ![next][key] = Failed]
      BY <1>3, <2>2 DEF RenderDiagram
    <3> QED BY <1>4, <1>5, <1>6, <3>1
  <2> QED BY <2>1, <2>2
<1>8. ~Preparing(PrintKey)'
  <2>1. queue' = queue \/ queue' = Tail(queue) BY DEF InitializeFails, RenderDiagram
  <2>2. \A n \in DOMAIN Tail(queue) : n + 1 \in DOMAIN queue /\ Tail(queue)[n] = queue[n + 1]
    BY <1>1, TaskEnds
  <2> QED BY <2>1, <2>2 DEF Preparing
<1> QED BY <1>7, <1>8

(* Before the import, and when it fails, nothing is asked for and drawn.         *)
LEMMA AsleepStep ==
  ASSUME Typed, QueueSound, StagesSound, Drawn, ViewerSound, WorthWaiting, [Next]_vars
  PROVE  Asleep'
<1> SUFFICES ASSUME boot'.pc \in {"import", "failed"}
             PROVE  /\ queue' = <<>> /\ waiting' = {} /\ \A i \in Diagrams : shown'[i] = Source
                    /\ \A i \in Diagrams, k \in Keys : variants'[i][k] = None
  BY DEF Asleep
<1>1. boot \in [pc : Stages, todo : Seq(Themes)] BY DEF Typed, ControlTyped
<1>2. CASE Imported \/ BootRenders \/ BootPrint \/ BootPending \/ BootVisible \/ BootShows
  BY <1>1, <1>2 DEF Imported, BootRenders, BootPrint, BootPending, BootVisible, BootShows
<1>3. CASE ~(Imported \/ BootRenders \/ BootPrint \/ BootPending \/ BootVisible \/ BootShows)
  <2>1. boot.pc \in {"import", "failed"}
    BY <1>1, <1>3 DEF Next, Initialize, InitializeFails, RenderDiagram, RequestReady, ImportFails, SetMode,
      SetSlot, SystemChanges, PrintStarts, PrintEnds, OpenViewer, CloseViewer, ViewerClosed, vars, control
  <2>2. /\ queue = <<>> /\ waiting = {} /\ \A i \in Diagrams : shown[i] = Source
        /\ \A i \in Diagrams, k \in Keys : variants[i][k] = None
    BY <2>1 DEF StagesSound, Asleep
  <2>3. ~Initialize /\ ~InitializeFails /\ ~RenderDiagram /\ ~RequestReady
    BY <2>2, Numbered DEF Initialize, InitializeFails, RenderDiagram, RequestReady, QueueSound, RunningHere
  <2>4. \A i \in Diagrams, k \in Keys : ~Rendered(i, k) BY <2>2 DEF Rendered
  <2>5. CASE Choosing \/ PrintEnds
    <3>1. queue' = queue /\ waiting' = waiting /\ variants' = variants
      BY <2>1, <2>5, AskingStep DEF Typed, StagesSound
    <3>2. CASE Choosing BY <2>2, <3>1, <3>2 DEF Choosing, SetMode, SetSlot, SystemChanges, page
    <3>3. CASE PrintEnds
      <4>1. RestoreScreen BY <3>3 DEF PrintEnds
      <4>2. \A i \in Diagrams : shown'[i] = IF Rendered(i, visible) THEN visible
                                 ELSE IF Rendered(i, lastScreen[i]) THEN lastScreen[i] ELSE shown[i]
        BY <3>1, <4>1, RestoreSound DEF Typed
      <4>3. visible \in Keys /\ \A i \in Diagrams : lastScreen[i] \in Keys
        BY Marks DEF Typed, ChoiceTyped, PageTyped
      <4> QED BY <2>2, <2>4, <3>1, <4>2, <4>3
    <3> QED BY <2>5, <3>2, <3>3
  <2>6. CASE PrintStarts
    <3>1. queue' = queue /\ waiting' = waiting /\ variants' = variants /\ ShowTheme(PrintKey)
      BY <2>6 DEF PrintStarts, renderer, control
    <3>2. PrintKey \in Keys BY Marks
    <3>3. \A i \in Diagrams : shown'[i] = IF Rendered(i, PrintKey) THEN PrintKey ELSE shown[i]
      BY <3>1, <3>2, ShowThemeSound DEF Typed
    <3> QED BY <2>2, <2>4, <3>1, <3>2, <3>3
  <2>7. CASE ImportFails \/ OpenViewer \/ CloseViewer \/ ViewerClosed \/ UNCHANGED vars
    <3>1. queue' = queue /\ waiting' = waiting /\ variants' = variants
      BY <2>7 DEF ImportFails, OpenViewer, CloseViewer, ViewerClosed, vars, renderer, control
    <3>2. shown' = shown
      BY <2>7, DrawingShowsNothing DEF ImportFails, OpenViewer, CloseViewer, ViewerClosed, vars,
        Typed, StagesSound
    <3> QED BY <2>2, <3>1, <3>2
  <2> QED BY <1>3, <2>3, <2>5, <2>6, <2>7 DEF Next, Choosing
<1> QED BY <1>2, <1>3

(* The print drawings are made after the slots', and only once.                  *)
LEMMA PrintKeyStep ==
  ASSUME Typed, QueueSound, StagesSound, WorthWaiting, Grows, [Next]_vars
  PROVE  PrintUntouched' /\ PrintPrepared'
<1>1. boot \in [pc : Stages, todo : Seq(Themes)] /\ PrintKey \in Keys
  BY Marks DEF Typed, ControlTyped
<1>2. Prepared(PrintKey) => Prepared(PrintKey)' BY <1>1 DEF Grows, Prepared
<1>3. CASE Choosing \/ PrintEnds
  <2>1. /\ boot' = boot /\ variants' = variants /\ (Preparing(PrintKey)' => Preparing(PrintKey))
    BY <1>3, AskingStep DEF Typed, StagesSound
  <2> QED BY <1>2, <2>1 DEF StagesSound, PrintUntouched, PrintPrepared
<1>4. CASE InitializeFails \/ RenderDiagram
  <2>1. boot' = boot BY <1>4 DEF InitializeFails, RenderDiagram, control
  <2>2. ~Preparing(PrintKey) => /\ ~Preparing(PrintKey)'
                               /\ \A i \in Diagrams : variants'[i][PrintKey] = variants[i][PrintKey]
    BY <1>4, PrintKeyStays DEF Typed
  <2> QED BY <1>2, <2>1, <2>2 DEF StagesSound, PrintUntouched, PrintPrepared
<1>5. CASE BootRenders
  <2>1. Preparing(PrintKey)' => Preparing(PrintKey) BY <1>5, BootRendersStep DEF Typed
  <2>2. boot'.pc = boot.pc /\ variants' = variants BY <1>1, <1>5 DEF BootRenders
  <2> QED BY <1>2, <2>1, <2>2 DEF StagesSound, PrintUntouched, PrintPrepared
<1>6. CASE Imported
  <2>1. /\ boot.pc = "import" /\ boot'.pc = "slots" /\ queue' = queue /\ variants' = variants
    BY <1>6 DEF Imported, renderer
  <2> QED BY <1>1, <2>1 DEF StagesSound, Asleep, PrintUntouched, PrintPrepared, Preparing
<1>7. CASE BootPrint \/ BootPending \/ BootVisible \/ BootShows
  <2>1. /\ boot'.pc # "slots"
        /\ boot'.pc \in {"pending", "visible", "done"} => boot.pc \in {"print", "pending", "visible"}
        /\ boot'.pc \in {"pending", "visible", "done"} /\ boot.pc = "print" => Awaited(PrintKey)
    BY <1>1, <1>7 DEF BootPrint, BootPending, BootVisible, BootShows
  <2>2. Awaited(PrintKey) => Prepared(PrintKey) BY <1>1 DEF Awaited
  <2> QED BY <1>2, <2>1, <2>2 DEF StagesSound, PrintUntouched, PrintPrepared
<1>8. CASE \/ Initialize \/ RequestReady \/ ImportFails \/ PrintStarts \/ OpenViewer \/ CloseViewer
           \/ ViewerClosed \/ UNCHANGED vars
  <2>1. queue' = queue /\ variants' = variants /\ (boot' = boot \/ boot'.pc = "failed")
    BY <1>1, <1>8 DEF Initialize, RequestReady, ImportFails, PrintStarts, OpenViewer, CloseViewer,
      ViewerClosed, vars, renderer, control
  <2>2. Preparing(PrintKey)' => Preparing(PrintKey) BY <2>1 DEF Preparing
  <2> QED BY <1>2, <2>1, <2>2 DEF StagesSound, PrintUntouched, PrintPrepared
<1> QED BY <1>3, <1>4, <1>5, <1>6, <1>7, <1>8 DEF Next, Choosing

(* While the page prints, its blocks hold their print drawings.                  *)
LEMMA PrintShownStep ==
  ASSUME Typed, StagesSound, Drawn, ViewerSound, PrintShown, Grows, [Next]_vars
  PROVE  PrintShown'
<1> SUFFICES ASSUME printing', boot'.pc = "done", NEW i \in Diagrams,
                    variants'[i][PrintKey] \notin {None, Failed}
             PROVE  shown'[i] = PrintKey
  BY DEF PrintShown, Rendered
<1>1. PrintKey \in Keys /\ boot \in [pc : Stages, todo : Seq(Themes)]
  BY Marks DEF Typed, ControlTyped
<1>2. CASE PrintStarts \/ (BootShows /\ printing)
  <2>1. variants' = variants /\ ShowTheme(PrintKey) BY <1>2 DEF PrintStarts, BootShows, renderer
  <2>2. shown'[i] = IF Rendered(i, PrintKey) THEN PrintKey ELSE shown[i]
    BY <1>1, <2>1, ShowThemeSound DEF Typed
  <2> QED BY <2>1, <2>2 DEF Rendered
<1>3. CASE ~PrintStarts /\ ~BootShows
  <2>1. printing /\ boot.pc = "done"
    <3>1. CASE \/ Initialize \/ InitializeFails \/ RenderDiagram \/ RequestReady \/ Choosing
               \/ OpenViewer \/ CloseViewer \/ ViewerClosed \/ UNCHANGED vars
      <4>1. printing' = printing /\ boot' = boot
        BY <3>1 DEF Initialize, InitializeFails, RenderDiagram, RequestReady, Choosing, SetMode, SetSlot,
          SystemChanges, OpenViewer, CloseViewer, ViewerClosed, vars, control
      <4> QED BY <4>1
    <3>2. ~(ImportFails \/ Imported \/ BootRenders \/ BootPrint \/ BootPending \/ BootVisible)
      <4>1. ~ImportFails /\ ~BootRenders
        <5>1. ImportFails => boot'.pc = "failed" BY <1>1 DEF ImportFails
        <5>2. BootRenders => boot'.pc = boot.pc /\ boot.pc # "done" BY <1>1 DEF BootRenders
        <5> QED BY <5>1, <5>2
      <4>2. ~(Imported \/ BootPrint \/ BootPending \/ BootVisible)
        <5>1. Imported => boot'.pc = "slots" BY DEF Imported
        <5>2. BootPrint => boot'.pc = "print" BY DEF BootPrint
        <5>3. BootPending => boot'.pc = "pending" BY DEF BootPending
        <5>4. BootVisible => boot'.pc = "visible" BY DEF BootVisible
        <5> QED BY <5>1, <5>2, <5>3, <5>4
      <4> QED BY <4>1, <4>2
    <3>3. ~PrintEnds BY DEF PrintEnds
    <3> QED BY <1>3, <3>1, <3>2, <3>3 DEF Next, Choosing
  <2>2. variants'[i][PrintKey] = variants[i][PrintKey]
    BY <1>1, <2>1 DEF Grows, StagesSound, PrintPrepared, Prepared
  <2>3. shown' = shown
    <3>1. CASE RequestReady BY <2>1, <3>1 DEF RequestReady, Showable, page
    <3>2. ~PrintEnds BY DEF PrintEnds
    <3> QED BY <1>3, <3>1, <3>2, ShownStays DEF Shows, Typed, StagesSound
  <2> QED BY <2>1, <2>2, <2>3 DEF PrintShown, Rendered
<1>4. CASE BootShows /\ ~printing BY <1>4 DEF BootShows
<1> QED BY <1>2, <1>3, <1>4

(* On the screen, the chosen theme is on its way to every block that holds its    *)
(* print drawing.                                                                 *)
LEMMA ScreenStep ==
  ASSUME Typed, QueueSound, StagesSound, Drawn, ViewerSound, WorthWaiting, Screen, Grows, [Next]_vars
  PROVE  Screen'
<1>1. /\ visible \in Themes /\ visible \in Keys /\ visible # PrintKey
      /\ boot \in [pc : Stages, todo : Seq(Themes)]
  BY Marks DEF Typed, ChoiceTyped, ControlTyped
<1>2. Prepared(visible) => \A i \in Diagrams : variants'[i][visible] = variants[i][visible]
  BY <1>1 DEF Prepared, Grows
<1>3. ASSUME UNCHANGED <<visible, printing, waiting, latest>>, shown' = shown,
             boot' = boot \/ boot'.pc \notin {"visible", "done"}
      PROVE  Screen'
  <2>1. Asked' <=> Asked BY <1>3 DEF Asked
  <2>2. Prepared(visible) => Prepared(visible)' BY <1>2, <1>3 DEF Prepared
  <2>3. ChosenServed' BY <1>3, <2>1, <2>2 DEF Screen, ChosenServed, Served
  <2>4. ScreenComing'
    <3> SUFFICES ASSUME boot'.pc = "done", ~printing, NEW i \in Diagrams, shown[i] = PrintKey
                 PROVE  Asked' \/ variants'[i][visible] \in {None, Failed}
      BY <1>3 DEF ScreenComing, Rendered
    <3>1. boot.pc = "done" BY <1>3
    <3>2. Asked \/ variants[i][visible] \in {None, Failed}
      BY <3>1 DEF Screen, ScreenComing, Rendered
    <3>3. Asked \/ Prepared(visible) BY <3>1 DEF Screen, ChosenServed, Served
    <3> QED BY <1>2, <2>1, <3>2, <3>3
  <2> QED BY <2>3, <2>4 DEF Screen
<1>4. CASE Choosing \/ PrintEnds
  <2>1. /\ boot' = boot /\ variants' = variants
        /\ boot.pc \notin {"import", "failed"} /\ ~printing' =>
             Asked' \/ (Choosing /\ UNCHANGED <<visible, printing, waiting, latest>>)
    BY <1>4, AskingStep DEF Typed, StagesSound
  <2>2. CASE Asked' BY <2>2 DEF Screen, ChosenServed, ScreenComing, Served
  <2>3. CASE Choosing /\ UNCHANGED <<visible, printing, waiting, latest>>
    <3>1. shown' = shown BY <2>3 DEF Choosing, SetMode, SetSlot, SystemChanges, page
    <3> QED BY <1>3, <2>1, <2>3, <3>1
  <2>4. CASE boot.pc \in {"import", "failed"} \/ printing'
    BY <2>1, <2>4 DEF Screen, ChosenServed, ScreenComing
  <2> QED BY <2>1, <2>2, <2>3, <2>4
<1>5. CASE RequestReady
  <2>1. PICK r \in waiting : /\ ~Preparing(r.theme) /\ waiting' = waiting \ {r}
                             /\ IF Showable(r) THEN ShowTheme(r.theme) ELSE UNCHANGED page
                             /\ UNCHANGED <<visible, printing, variants, latest, boot>>
    BY <1>5 DEF RequestReady, prefs, renderer
  <2>2. CASE r.n = latest /\ r.theme = visible
    <3>1. Prepared(visible) BY <2>1, <2>2 DEF WorthWaiting
    <3>2. Prepared(visible)' BY <2>1, <3>1 DEF Prepared
    <3>3. ChosenServed' BY <3>2 DEF ChosenServed, Served
    <3>4. CASE printing BY <2>1, <3>3, <3>4 DEF Screen, ScreenComing
    <3>5. CASE ~printing
      <4>1. ShowTheme(visible) BY <2>1, <2>2, <3>5 DEF Showable
      <4>2. \A i \in Diagrams : shown'[i] = IF Rendered(i, visible) THEN visible ELSE shown[i]
        BY <1>1, <2>1, <4>1, ShowThemeSound DEF Typed
      <4>3. \A i \in Diagrams : shown'[i] = PrintKey => variants'[i][visible] \in {None, Failed}
        BY <1>1, <2>1, <4>2 DEF Rendered
      <4>4. ScreenComing' BY <2>1, <4>3 DEF ScreenComing, Rendered
      <4> QED BY <3>3, <4>4 DEF Screen
    <3> QED BY <3>4, <3>5
  <2>3. CASE ~(r.n = latest /\ r.theme = visible)
    <3>1. UNCHANGED page BY <2>1, <2>3 DEF Showable
    <3>2. Asked => Asked' BY <2>1, <2>3 DEF Asked
    <3>3. Prepared(visible) => Prepared(visible)' BY <2>1 DEF Prepared
    <3>4. ChosenServed' BY <2>1, <3>2, <3>3 DEF Screen, ChosenServed, Served
    <3>5. ScreenComing' BY <2>1, <3>1, <3>2 DEF Screen, ScreenComing, Rendered, page
    <3> QED BY <3>4, <3>5 DEF Screen
  <2> QED BY <2>2, <2>3
<1>6. CASE BootShows
  <2>1. /\ boot.pc = "visible" /\ boot.todo = <<>> /\ boot'.pc = "done"
        /\ UNCHANGED <<visible, printing, waiting, latest, variants>>
        /\ ~printing => RestoreScreen
    BY <1>1, <1>6 DEF BootShows, prefs, renderer
  <2>2. CASE printing BY <2>1, <2>2 DEF Screen, ChosenServed, ScreenComing
  <2>3. CASE ~printing
    <3>1. boot.todo # <<visible>> BY <2>1
    <3>2. Served BY <2>1, <2>3, <3>1 DEF Screen, ChosenServed
    <3>3. Served' BY <2>1, <3>2 DEF Served, Asked, Prepared
    <3>4. \A i \in Diagrams : shown'[i] = IF Rendered(i, visible) THEN visible
                                ELSE IF Rendered(i, lastScreen[i]) THEN lastScreen[i] ELSE shown[i]
      BY <2>1, <2>3, RestoreSound DEF Typed
    <3>5. \A i \in Diagrams : shown'[i] = PrintKey => variants'[i][visible] \in {None, Failed}
      BY <1>1, <2>1, <3>4 DEF Rendered
    <3>6. ScreenComing' BY <2>1, <3>5 DEF ScreenComing, Rendered
    <3>7. ChosenServed' BY <3>3 DEF ChosenServed
    <3> QED BY <3>6, <3>7 DEF Screen
  <2> QED BY <2>2, <2>3
<1>7. CASE BootVisible
  <2>1. boot'.pc = "visible" /\ boot'.todo = <<visible>> /\ visible' = visible
    BY <1>7 DEF BootVisible, prefs
  <2> QED BY <2>1 DEF Screen, ChosenServed, ScreenComing
<1>8. CASE BootRenders
  <2>1. /\ UNCHANGED <<visible, printing, waiting, latest, variants>> /\ shown' = shown
        /\ boot'.pc = boot.pc /\ boot.pc # "done"
    BY <1>1, <1>8 DEF BootRenders, prefs, page
  <2>2. CASE boot' = boot BY <1>3, <2>1, <2>2
  <2>3. CASE Awaited(Head(boot.todo)) /\ boot.todo = <<visible>>
    <3>1. Prepared(visible) BY <1>1, <2>3 DEF Awaited
    <3>2. Prepared(visible)' BY <2>1, <3>1 DEF Prepared
    <3> QED BY <2>1, <3>2 DEF Screen, ChosenServed, ScreenComing, Served
  <2>4. CASE boot.todo # <<visible>>
    <3>1. Served => Served' BY <2>1 DEF Served, Asked, Prepared
    <3> QED BY <2>1, <2>4, <3>1 DEF Screen, ChosenServed, ScreenComing
  <2> QED BY <1>8, <2>2, <2>3, <2>4 DEF BootRenders
<1>9. CASE PrintStarts BY <1>9 DEF PrintStarts, Screen, ChosenServed, ScreenComing
<1>10. CASE \/ Initialize \/ InitializeFails \/ RenderDiagram \/ ImportFails \/ Imported \/ BootPrint
            \/ BootPending \/ OpenViewer \/ CloseViewer \/ ViewerClosed \/ UNCHANGED vars
  <2>1. /\ UNCHANGED <<visible, printing, waiting, latest>>
        /\ boot' = boot \/ boot'.pc \notin {"visible", "done"}
    BY <1>1, <1>10 DEF Initialize, InitializeFails, RenderDiagram, ImportFails, Imported, BootPrint,
      BootPending, OpenViewer, CloseViewer, ViewerClosed, vars, prefs, control
  <2>2. shown' = shown
    <3>1. CASE InitializeFails \/ RenderDiagram \/ ImportFails
      BY <3>1, DrawingShowsNothing DEF Typed, StagesSound
    <3>2. CASE ~(InitializeFails \/ RenderDiagram \/ ImportFails)
      BY <1>10, <3>2 DEF Initialize, Imported, BootPrint, BootPending, OpenViewer, CloseViewer,
        ViewerClosed, vars, page
    <3> QED BY <3>1, <3>2
  <2> QED BY <1>3, <2>1, <2>2
<1> QED BY <1>4, <1>5, <1>6, <1>7, <1>8, <1>9, <1>10 DEF Next, Choosing

-----------------------------------------------------------------------------
LEMMA InvInit == Init => Inv
<1> SUFFICES ASSUME Init PROVE Inv OBVIOUS
<1>1. ChoiceTyped /\ ChoiceRemembered
  <2>1. PICK s \in Stores : storage = Migrated(s) BY DEF Init
  <2>2. s \in [mode : StoredModes, legacy : StoredModes, light : Slots, dark : Slots]
    BY PageAssumption DEF StoredModes, Slots
  <2>3. storage \in [mode : StoredModes, legacy : StoredModes, light : Slots, dark : Slots]
    BY <2>1, <2>2 DEF Migrated, StoredMode, StoredModes, Modes
  <2>4. state = LoadThemeState(storage) /\ visible = state.theme
        /\ systemDark \in BOOLEAN /\ printing \in BOOLEAN
    BY DEF Init
  <2>5. PICK m \in Modes : LoadThemeState(storage) = ResolveThemeState(m, storage.light, storage.dark)
    BY DEF LoadThemeState, Modes
  <2>6. storage.light \in Slots /\ storage.dark \in Slots BY <2>3
  <2>7. state \in [mode : Modes, light : Themes, dark : Themes, theme : Themes]
    BY <2>4, <2>5, <2>6, Resolution
  <2> QED BY <2>3, <2>4, <2>7 DEF ChoiceTyped, ChoiceRemembered
<1>2. /\ queue = <<>> /\ next = 0 /\ boot.pc = "import" /\ waiting = {} /\ dialog.open = FALSE
      /\ variants = [i \in Diagrams |-> [k \in Keys |-> None]]
      /\ shown = [i \in Diagrams |-> Source]
  BY DEF Init
<1>3. /\ \A i \in Diagrams : shown[i] = Source
      /\ \A i \in Diagrams, k \in Keys : variants[i][k] = None /\ ~Rendered(i, k)
  BY <1>2 DEF Rendered
<1>4. RendererTyped
  BY <1>2 DEF RendererTyped, Colours
<1>5. PageTyped
  <2>1. visible \in Themes BY <1>1 DEF ChoiceTyped
  <2> QED BY <2>1 DEF Init, PageTyped
<1>6. ControlTyped BY DEF Init, ControlTyped, Stages
<1>7. QueueSound
  BY <1>2, <1>3 DEF QueueSound, OneTaskEach, RunningHere, StillToDraw, AllOrNothing, OwnPalette
<1>8. StagesSound
  BY <1>2, <1>3 DEF StagesSound, Asleep, PrintUntouched, PrintPrepared
<1>9. Drawn /\ WorthWaiting BY <1>2, <1>3 DEF Drawn, WorthWaiting
<1>10. Screen /\ PrintShown /\ ViewerSound
  BY <1>2 DEF Screen, ChosenServed, ScreenComing, PrintShown, ViewerSound
<1> QED BY <1>1, <1>4, <1>5, <1>6, <1>7, <1>8, <1>9, <1>10 DEF Inv, Typed

LEMMA InvNext == Inv /\ [Next]_vars => Inv'
<1> SUFFICES ASSUME Inv, [Next]_vars PROVE Inv' OBVIOUS
<1> USE DEF Inv, Typed, StagesSound
<1>1. ChoiceTyped' /\ ChoiceRemembered' BY ChoiceStep
<1>2. RendererTyped' /\ QueueSound' /\ Grows /\ Onward /\ ControlTyped' BY RendererStep
<1>3. PageTyped' /\ Drawn' /\ ViewerSound' BY <1>2, PageStep
<1>4. WorthWaiting' BY <1>2, WaitingStep
<1>5. Asleep' BY AsleepStep
<1>6. PrintUntouched' /\ PrintPrepared' BY <1>2, PrintKeyStep
<1>7. PrintShown' BY <1>2, PrintShownStep
<1>8. Screen' BY <1>2, ScreenStep
<1> QED BY <1>1, <1>2, <1>3, <1>4, <1>5, <1>6, <1>7, <1>8

(* The inductive invariant holds in every reachable state.                       *)
THEOREM DiagramsInvariant == Spec => []Inv
BY InvInit, InvNext, PTL DEF Spec

(* The variables keep the types the code gives them (mermaid.ts, theme-state.ts). *)
THEOREM DiagramsTyped == Spec => []TypeOK
<1>1. Inv => TypeOK
  <2> SUFFICES ASSUME Inv PROVE TypeOK OBVIOUS
  <2>1. state.mode \in Modes /\ {state.light, state.dark, visible} \subseteq Themes /\ state.theme = visible
    BY DEF Inv, Typed, ChoiceTyped
  <2>2. next \in Diagrams \cup {0} BY DEF Inv, Typed, RendererTyped
  <2>3. \A i \in Diagrams : shown[i] \in Keys \cup {Source} /\ lastScreen[i] \in Themes
    BY DEF Inv, Typed, PageTyped
  <2>4. \A i \in Diagrams, k \in Keys : variants[i][k] \in {None, Failed, PrintTheme} \cup Themes
    BY DEF Inv, Typed, RendererTyped, Colours
  <2>5. boot.pc \in {"import", "slots", "print", "pending", "visible", "done", "failed"}
    BY DEF Inv, Typed, ControlTyped, Stages
  <2> QED BY <2>1, <2>2, <2>3, <2>4, <2>5 DEF TypeOK
<1> QED BY <1>1, DiagramsInvariant, PTL

(* What the reader sees is what the reader chose: the choice survives the page,   *)
(* every drawing has its own theme's palette, a printing page shows its print      *)
(* drawings, the screen gives them up once the requests are served, and the open   *)
(* viewer shows what its block shows (renderTheme, requestTheme, showVariant and    *)
(* the print handlers of mermaid.ts; persistMode of theme-state.ts).               *)
THEOREM ReaderAlwaysSees == Spec => []ReaderSees
<1>1. Inv => ReaderSees
  <2> SUFFICES ASSUME Inv PROVE ReaderSees OBVIOUS
  <2>1. ChoiceRemembered /\ OwnPalette /\ PrintShown BY DEF Inv, QueueSound
  <2>2. ScreenRestored BY DEF Inv, Screen, ScreenComing, ScreenRestored, Asked
  <2>3. ViewerFollows BY DEF Inv, ViewerSound, ViewerFollows
  <2> QED BY <2>1, <2>2, <2>3 DEF ReaderSees
<1> QED BY <1>1, DiagramsInvariant, PTL

-----------------------------------------------------------------------------
(* A block that changes shows the chosen theme, the last one it showed, or, when   *)
(* the page prints, print's; and never its source again.                           *)
LEMMA ShownMoves ==
  ASSUME Inv, [Next]_vars, NEW i \in Diagrams
  PROVE  /\ shown'[i] # shown[i] =>
              shown'[i] \in {visible, lastScreen[i]} \cup (IF printing' THEN {PrintKey} ELSE {})
         /\ shown[i] # Source => shown'[i] # Source
<1> USE DEF Inv, Typed, StagesSound
<1>1. PrintKey \in Keys /\ visible \in Keys /\ lastScreen[i] \in Keys /\ Source \notin Keys
  BY Marks DEF ChoiceTyped, PageTyped
<1>2. CASE ~Shows BY <1>2, ShownStays
<1>3. CASE RequestReady
  <2>1. PICK r \in waiting : /\ IF Showable(r) THEN ShowTheme(r.theme) ELSE UNCHANGED page
                             /\ variants' = variants
    BY <1>3 DEF RequestReady, renderer
  <2>2. CASE Showable(r)
    <3>1. ShowTheme(visible) BY <2>1, <2>2 DEF Showable
    <3>2. shown'[i] = IF Rendered(i, visible) THEN visible ELSE shown[i]
      BY <1>1, <2>1, <3>1, ShowThemeSound
    <3> QED BY <1>1, <3>2
  <2>3. CASE ~Showable(r) BY <2>1, <2>3 DEF page
  <2> QED BY <2>2, <2>3
<1>4. CASE PrintStarts \/ (BootShows /\ printing)
  <2>1. variants' = variants /\ ShowTheme(PrintKey) /\ printing'
    BY <1>4 DEF PrintStarts, BootShows, renderer
  <2>2. shown'[i] = IF Rendered(i, PrintKey) THEN PrintKey ELSE shown[i]
    BY <1>1, <2>1, ShowThemeSound
  <2> QED BY <1>1, <2>1, <2>2
<1>5. CASE PrintEnds \/ (BootShows /\ ~printing)
  <2>1. variants' = variants /\ RestoreScreen BY <1>5 DEF PrintEnds, BootShows, renderer
  <2>2. shown'[i] = IF Rendered(i, visible) THEN visible
                    ELSE IF Rendered(i, lastScreen[i]) THEN lastScreen[i] ELSE shown[i]
    BY <2>1, RestoreSound
  <2> QED BY <1>1, <2>2
<1> QED BY <1>2, <1>3, <1>4, <1>5 DEF Shows

(* The drawings of a block only move forward: a late rendering never replaces a     *)
(* newer theme's drawing, no theme is drawn twice, and what is shown is not lost     *)
(* to a failure (the queue of renderTheme, requestGuard, showSource in mermaid.ts).  *)
THEOREM DrawingsOnlyForward == Spec => DrawingsForward
<1>1. ASSUME Inv, [Next]_vars
      PROVE  \A i \in Diagrams : shown'[i] # shown[i] =>
               shown'[i] \in {visible, lastScreen[i]} \cup (IF printing' THEN {PrintKey} ELSE {})
  BY <1>1, ShownMoves
<1>2. ASSUME Inv, [Next]_vars
      PROVE  \A i \in Diagrams :
               /\ \A k \in Keys : variants[i][k] # None => variants'[i][k] = variants[i][k]
               /\ shown[i] # Source => shown'[i] # Source
  <2>1. Grows BY <1>2, RendererStep DEF Inv, Typed, StagesSound
  <2> QED BY <1>2, <2>1, ShownMoves DEF Grows
<1>3. Spec => NoStaleDrawing BY <1>1, DiagramsInvariant, PTL DEF Spec, NoStaleDrawing
<1>4. Spec => DrawnOnce BY <1>2, DiagramsInvariant, PTL DEF Spec, DrawnOnce
<1> QED BY <1>3, <1>4 DEF DrawingsForward
=============================================================================
