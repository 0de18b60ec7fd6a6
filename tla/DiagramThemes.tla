----------------------------- MODULE DiagramThemes -----------------------------
(***************************************************************************)
(* The Mermaid diagrams of one open page (web/src/mermaid.ts) under the    *)
(* reader's theme choices (theme.ts, theme-state.ts).  The module is       *)
(* imported and every theme rendered asynchronously; themes change, the    *)
(* page is printed and the diagram viewer is open meanwhile.               *)
(*                                                                         *)
(* JavaScript runs each handler to its next await without interruption:    *)
(* an action is what runs between two awaits.  SVG text is abstracted to   *)
(* the palette it was rendered with, layout is left out.                   *)
(***************************************************************************)
EXTENDS Integers, Sequences

CONSTANTS Blocks,     \* how many Mermaid blocks the page has
          Light, Dark,\* the catalog's default themes
          Themes,     \* the catalog embedded in the page
          Unknown,    \* a theme some other page's catalog has
          Stores,     \* what the browser may have stored for this origin
          PrintTheme, \* "github-light", which may be outside the catalog
          MaxEvents   \* bound on what the reader and the system do

Diagrams == 1..Blocks
PrintKey == "__airplan-print-github-light"
Keys == Themes \cup {PrintKey}
Modes == {"system", "light", "dark"}
Nil == "(null)"
None == "(none)"
Failed == "(failed)"
Source == "(source)"

(* Identifiers of themes are lower-case words (src/airplan/theme.go:119).   *)
ASSUME CatalogAssumption ==
  /\ {Light, Dark} \subseteq Themes /\ Unknown \notin Themes
  /\ {PrintKey, Nil, None, Failed, Source} \cap (Themes \cup {PrintTheme}) = {}
ASSUME PageAssumption ==
  /\ Blocks \in Nat \ {0} /\ MaxEvents \in Nat
  /\ Stores \subseteq [mode : Modes \cup {Nil, Unknown}, legacy : Modes \cup {Nil, Unknown},
                      light : Themes \cup {Nil, Unknown}, dark : Themes \cup {Nil, Unknown}]

VARIABLES
  storage,   \* localStorage: mode, legacy mode and the two slots
  systemDark,\* prefers-color-scheme
  state,     \* window.__airplanThemeState
  visible,   \* visibleTheme of mermaid.ts
  printing,  \* printActive
  config,    \* what mermaid.initialize was last given
  queue,     \* renderTheme's tasks; the head is running
  next,      \* the diagram the running task is at, 0 before initialize
  variants,  \* per diagram and key: None, Failed or the palette used
  shown,     \* what each block holds: Source or a key
  lastScreen,\* lastScreenThemes
  pending,   \* pendingThemes: requests made before the import
  waiting,   \* calls of requestTheme awaiting their theme
  latest,    \* requestGuard
  boot,      \* the module's top level: where it is, what it has left to render
  dialog,    \* the viewer
  events     \* events so far

vars == <<storage, systemDark, state, visible, printing, config, queue, next, variants, shown,
          lastScreen, pending, waiting, latest, boot, dialog, events>>
prefs == <<storage, systemDark, state, visible>>
renderer == <<config, queue, next, variants>>
page == <<shown, lastScreen, dialog>>
control == <<pending, waiting, latest, boot>>

-----------------------------------------------------------------------------
(* theme-state.ts                                                          *)

MutantResolve(mode, light, dark) ==
  LET resolved == IF mode = "system" THEN (IF systemDark THEN "dark" ELSE "light") ELSE mode
  IN [mode |-> mode, light |-> light, dark |-> dark,
      theme |-> IF resolved = "light" THEN light ELSE dark]
ResolveThemeState(mode, light, dark) ==
  LET safeLight == IF light \in Themes THEN light ELSE Light
      safeDark  == IF dark \in Themes THEN dark ELSE Dark
      resolved  == IF mode = "system" THEN (IF systemDark THEN "dark" ELSE "light") ELSE mode
  IN [mode |-> mode, light |-> safeLight, dark |-> safeDark,
      theme |-> IF resolved = "light" THEN safeLight ELSE safeDark]

(* A page of an earlier version stored the mode under another key.          *)
StoredMode(s) == IF s.mode # Nil THEN s.mode
                 ELSE IF s.legacy \in {"light", "dark"} THEN s.legacy ELSE "system"

LoadThemeState(s) ==
  ResolveThemeState(IF StoredMode(s) \in Modes THEN StoredMode(s) ELSE "system", s.light, s.dark)

Migrated(s) == IF s.mode = Nil /\ StoredMode(s) # "system" THEN [s EXCEPT !.mode = StoredMode(s)] ELSE s

PersistMode(mode) ==
  LET stored == IF mode = "system" THEN Nil ELSE mode
  IN [storage EXCEPT !.mode = stored, !.legacy = stored]

-----------------------------------------------------------------------------
Init ==
  /\ \E s \in Stores : storage = Migrated(s)
  /\ systemDark \in BOOLEAN /\ printing \in BOOLEAN
  /\ state = LoadThemeState(storage) /\ visible = state.theme
  /\ config = Nil /\ queue = <<>> /\ next = 0
  /\ variants = [i \in Diagrams |-> [k \in Keys |-> None]]
  /\ shown = [i \in Diagrams |-> Source] /\ lastScreen = [i \in Diagrams |-> visible]
  /\ pending = <<>> /\ waiting = {} /\ latest = 0
  /\ boot = [pc |-> "import", todo |-> <<>>]
  /\ dialog = [open |-> FALSE, closing |-> FALSE, block |-> 0, svg |-> Nil, fresh |-> FALSE]
  /\ events = 0

Rendered(i, k) == variants[i][k] \notin {None, Failed}

(* showVariant for every block at once, each asked for the theme pick[i] with *)
(* alt[i] to fall back on.  New markup has a new trigger, and an open viewer  *)
(* of that block is given the new drawing and the new trigger.                *)
Choice(i, k, alt) == IF Rendered(i, k) THEN k ELSE IF Rendered(i, alt) THEN alt ELSE shown[i]
Changed(i, k, alt) == Rendered(i, k) \/ Rendered(i, alt)

Follow(new, touched) ==
  dialog' = IF dialog.open /\ dialog.block \in touched
            THEN [dialog EXCEPT !.svg = new[dialog.block], !.fresh = TRUE] ELSE dialog

ShowAll(k, alt) ==
  LET new == [i \in Diagrams |-> Choice(i, k, alt[i])] IN
  /\ shown' = new
  /\ lastScreen' = [i \in Diagrams |->
                      IF Changed(i, k, alt[i]) /\ new[i] # PrintKey THEN new[i] ELSE lastScreen[i]]
  /\ Follow(new, {i \in Diagrams : Changed(i, k, alt[i])})

ShowTheme(k) == ShowAll(k, [i \in Diagrams |-> k])
RestoreScreen == ShowAll(visible, lastScreen)

-----------------------------------------------------------------------------
(* renderTheme: themes are rendered one after another, each of them once.   *)

Prepared(k) == \A i \in Diagrams : variants[i][k] # None
Preparing(k) == \E n \in DOMAIN queue : queue[n].key = k
Job(theme, key) == [theme |-> theme, key |-> key]

(* A theme without a palette is ignored.                                     *)
Enqueue(tasks, job) ==
  IF job.key \in Keys /\ ~Prepared(job.key) /\ \A n \in DOMAIN tasks : tasks[n].key # job.key
  THEN Append(tasks, job) ELSE tasks

Running == Head(queue)
Palette(job) == IF job.key = PrintKey THEN PrintTheme ELSE job.theme

NoneRendered(i) == \A k \in Keys : ~Rendered(i, k)

(* A block that has never been drawn goes back to its source.                *)
Fallback(failed) == shown' = [i \in Diagrams |-> IF i \in failed /\ NoneRendered(i)
                                                 THEN Source ELSE shown[i]]

Initialize ==
  /\ queue # <<>> /\ next = 0
  /\ config' = Palette(Running) /\ next' = 1
  /\ UNCHANGED <<prefs, printing, queue, variants, page, control, events>>

InitializeFails ==
  /\ queue # <<>> /\ next = 0
  /\ variants' = [i \in Diagrams |-> [variants[i] EXCEPT ![Running.key] = Failed]]
  /\ Fallback(Diagrams) /\ queue' = Tail(queue)
  /\ UNCHANGED <<prefs, printing, config, next, lastScreen, dialog, control, events>>

(* One await: the drawing of one block, or its failure.                      *)
RenderDiagram ==
  /\ next \in Diagrams
  /\ \/ /\ variants[next][Running.key] # None /\ UNCHANGED <<variants, shown>>
     \/ /\ variants[next][Running.key] = None
        /\ \/ variants' = [variants EXCEPT ![next][Running.key] = config] /\ UNCHANGED shown
           \/ variants' = [variants EXCEPT ![next][Running.key] = Failed] /\ Fallback({next})
  /\ IF next + 1 \in Diagrams THEN next' = next + 1 /\ UNCHANGED queue
                              ELSE next' = 0 /\ queue' = Tail(queue)
  /\ UNCHANGED <<prefs, printing, config, lastScreen, dialog, control, events>>

-----------------------------------------------------------------------------
(* requestTheme                                                            *)

MutantStale(r) == ~printing
MutantNeverShow(r) == r.n = latest - 1 /\ r.theme = visible /\ ~printing
Showable(r) == r.n = latest /\ r.theme = visible /\ ~printing

Noted(themes, t) == IF \E n \in DOMAIN themes : themes[n] = t THEN themes ELSE Append(themes, t)

(* A theme to prepare and one to prepare and show.  Until the module is       *)
(* imported they are only noted.                                             *)
Request(chosen, theme) ==
  \/ /\ boot.pc = "import"
     /\ pending' = Noted(Noted(pending, chosen), theme) /\ UNCHANGED <<queue, waiting, latest>>
  \/ boot.pc = "failed" /\ UNCHANGED <<pending, queue, waiting, latest>>
  \/ /\ boot.pc \notin {"import", "failed"}
     /\ queue' = Enqueue(Enqueue(queue, Job(chosen, chosen)), Job(theme, theme))
     /\ latest' = latest + 1
     /\ waiting' = waiting \cup {[theme |-> theme, n |-> latest + 1]}
     /\ UNCHANGED pending

RequestReady ==
  \E r \in waiting :
    /\ ~Preparing(r.theme)
    /\ waiting' = waiting \ {r}
    /\ IF Showable(r) THEN ShowTheme(r.theme) ELSE UNCHANGED page
    /\ UNCHANGED <<prefs, printing, renderer, pending, latest, boot, events>>

-----------------------------------------------------------------------------
(* The module's top level, from one await to the next.                      *)

ImportFails ==
  /\ boot.pc = "import"
  /\ boot' = [boot EXCEPT !.pc = "failed"] /\ shown' = [i \in Diagrams |-> Source]
  /\ UNCHANGED <<prefs, printing, renderer, lastScreen, dialog, pending, waiting, latest, events>>

Imported ==
  /\ boot.pc = "import"
  /\ boot' = [pc |-> "slots",
              todo |-> IF state.light = state.dark THEN <<state.light>> ELSE <<state.light, state.dark>>]
  /\ UNCHANGED <<prefs, printing, renderer, page, pending, waiting, latest, events>>

(* for (...) await renderTheme(themeID)                                       *)
Awaited(k) == ~Preparing(k) /\ (Prepared(k) \/ k \notin Keys)
BootRenders ==
  /\ boot.pc \in {"slots", "pending", "visible"} /\ boot.todo # <<>>
  /\ IF Awaited(Head(boot.todo))
     THEN boot' = [boot EXCEPT !.todo = Tail(@)] /\ UNCHANGED queue
     ELSE /\ ~Preparing(Head(boot.todo)) /\ UNCHANGED boot
          /\ queue' = Enqueue(queue, Job(Head(boot.todo), Head(boot.todo)))
  /\ UNCHANGED <<prefs, printing, config, next, variants, page, pending, waiting, latest, events>>

(* The print drawing is GitHub Light's when the page has that theme ready.    *)
BootPrint ==
  /\ boot.pc = "slots" /\ boot.todo = <<>> /\ ~Preparing(PrintTheme)
  /\ boot' = [pc |-> "print", todo |-> <<>>]
  /\ IF PrintTheme \in Themes /\ Prepared(PrintTheme)
     THEN /\ variants' = [i \in Diagrams |-> [variants[i] EXCEPT ![PrintKey] = variants[i][PrintTheme]]]
          /\ UNCHANGED queue
     ELSE queue' = Enqueue(queue, Job(PrintTheme, PrintKey)) /\ UNCHANGED variants
  /\ UNCHANGED <<prefs, printing, config, next, page, pending, waiting, latest, events>>

BootPending ==
  /\ boot.pc = "print" /\ Awaited(PrintKey)
  /\ boot' = [pc |-> "pending", todo |-> pending]
  /\ UNCHANGED <<prefs, printing, renderer, page, pending, waiting, latest, events>>

BootVisible ==
  /\ boot.pc = "pending" /\ boot.todo = <<>>
  /\ boot' = [pc |-> "visible", todo |-> <<visible>>] /\ pending' = <<>>
  /\ UNCHANGED <<prefs, printing, renderer, page, waiting, latest, events>>

BootShows ==
  /\ boot.pc = "visible" /\ boot.todo = <<>>
  /\ boot' = [boot EXCEPT !.pc = "done"]
  /\ IF printing THEN ShowTheme(PrintKey) ELSE RestoreScreen
  /\ UNCHANGED <<prefs, printing, renderer, pending, waiting, latest, events>>

Boot == Imported \/ BootRenders \/ BootPrint \/ BootPending \/ BootVisible \/ BootShows

-----------------------------------------------------------------------------
(* The reader, the system and the browser's print dialog.  What ends by      *)
(* itself, printing and the viewer, does not count against the bound.        *)

Event == events < MaxEvents /\ events' = events + 1

(* apply announces the theme; a printing page only notes it.                 *)
Apply(new) ==
  /\ state' = new /\ visible' = new.theme
  /\ IF printing THEN UNCHANGED <<pending, queue, waiting, latest>> ELSE Request(new.theme, new.theme)

SetMode ==
  \E mode \in Modes :
    /\ Event /\ ~printing
    /\ storage' = PersistMode(mode)
    /\ Apply(ResolveThemeState(mode, state.light, state.dark))
    /\ UNCHANGED <<systemDark, printing, config, next, variants, page, boot>>

(* The chosen theme is prepared even when its slot is not the one shown.      *)
SetSlot ==
  \E slot \in {"light", "dark"}, theme \in Themes :
    /\ Event /\ ~printing
    /\ storage' = [storage EXCEPT ![slot] = theme]
    /\ LET new == IF slot = "light" THEN ResolveThemeState(state.mode, theme, state.dark)
                                    ELSE ResolveThemeState(state.mode, state.light, theme)
       IN /\ state' = new /\ visible' = new.theme
          /\ Request(theme, new.theme)
    /\ UNCHANGED <<systemDark, printing, config, next, variants, page, boot>>

SystemChanges ==
  /\ Event /\ systemDark' = ~systemDark
  /\ IF state.mode = "system"
     THEN LET dark == ~systemDark IN
          Apply([state EXCEPT !.theme = IF dark THEN state.dark ELSE state.light])
     ELSE UNCHANGED <<state, visible, pending, queue, waiting, latest>>
  /\ UNCHANGED <<storage, printing, config, next, variants, page, boot>>

(* Both the media query and the print events report each change.             *)
PrintStarts ==
  /\ Event /\ printing' = TRUE /\ ShowTheme(PrintKey)
  /\ UNCHANGED <<prefs, renderer, control>>

MutantPrintEnds ==
  /\ printing /\ printing' = FALSE
  /\ UNCHANGED <<prefs, renderer, page, control, events>>
PrintEnds ==
  /\ printing /\ printing' = FALSE
  /\ Request(visible, visible)
  /\ RestoreScreen
  /\ UNCHANGED <<prefs, config, next, variants, boot, events>>

OpenViewer ==
  \E i \in Diagrams :
    /\ Event /\ ~dialog.open /\ ~dialog.closing /\ ~printing /\ shown[i] # Source
    /\ dialog' = [open |-> TRUE, closing |-> FALSE, block |-> i, svg |-> shown[i], fresh |-> TRUE]
    /\ UNCHANGED <<prefs, printing, renderer, shown, lastScreen, control>>

(* dialog.close() queues the event that forgets the block.                    *)
CloseViewer ==
  /\ dialog.open
  /\ dialog' = [dialog EXCEPT !.open = FALSE, !.closing = TRUE]
  /\ UNCHANGED <<prefs, printing, renderer, shown, lastScreen, control, events>>

ViewerClosed ==
  /\ dialog.closing
  /\ dialog' = [open |-> FALSE, closing |-> FALSE, block |-> 0, svg |-> Nil, fresh |-> FALSE]
  /\ UNCHANGED <<prefs, printing, renderer, shown, lastScreen, control, events>>

Next ==
  \/ Initialize \/ InitializeFails \/ RenderDiagram \/ RequestReady
  \/ ImportFails \/ Imported \/ BootRenders \/ BootPrint \/ BootPending \/ BootVisible \/ BootShows
  \/ SetMode \/ SetSlot \/ SystemChanges \/ PrintStarts \/ PrintEnds
  \/ OpenViewer \/ CloseViewer \/ ViewerClosed

Spec == Init /\ [][Next]_vars

(* The event loop runs every promise's continuation; the reader owes nothing. *)
FairSpec == Spec /\ WF_vars(Initialize \/ RenderDiagram) /\ WF_vars(RequestReady)
                 /\ WF_vars(Boot) /\ WF_vars(ViewerClosed)

-----------------------------------------------------------------------------
TypeOK ==
  /\ state.mode \in Modes /\ {state.light, state.dark, visible} \subseteq Themes
  /\ state.theme = visible /\ next \in Diagrams \cup {0}
  /\ \A i \in Diagrams : shown[i] \in Keys \cup {Source} /\ lastScreen[i] \in Themes
  /\ \A i \in Diagrams, k \in Keys : variants[i][k] \in {None, Failed, PrintTheme} \cup Themes
  /\ boot.pc \in {"import", "slots", "print", "pending", "visible", "done", "failed"}

(* The reader's choice survives the page: opened again, this page would        *)
(* resolve to the theme it shows now (theme-state.ts loadThemeState, persistMode). *)
ChoiceRemembered == LoadThemeState(storage) = state

(* A drawing is made with its own theme's palette, though mermaid has one      *)
(* global configuration and several themes are asked for at once.              *)
OwnPalette ==
  \A i \in Diagrams, k \in Keys : Rendered(i, k) =>
    variants[i][k] = (IF k = PrintKey THEN PrintTheme ELSE k)

(* While printing, once the module has started, each block holds its print     *)
(* drawing if it has one, whatever theme was chosen or finished meanwhile.      *)
PrintShown ==
  printing /\ boot.pc = "done" =>
    \A i \in Diagrams : Rendered(i, PrintKey) => shown[i] = PrintKey

(* Back on the screen, once the requests made meanwhile are served, a block      *)
(* still holds its print drawing only if the chosen theme cannot be drawn.        *)
ScreenRestored ==
  ~printing /\ boot.pc = "done" /\ waiting = {} =>
    \A i \in Diagrams : shown[i] = PrintKey => ~Rendered(i, visible)

(* The open viewer shows what its block shows and can return the focus to a     *)
(* trigger that is still in the document.                                        *)
ViewerFollows == dialog.open => dialog.svg = shown[dialog.block] /\ dialog.fresh

(* What the reader sees is what the reader chose: the choice is remembered,      *)
(* every drawing has its own theme's palette, and print, the screen after it      *)
(* and the open viewer show the drawings meant for them.                          *)
ReaderSees == ChoiceRemembered /\ OwnPalette /\ PrintShown /\ ScreenRestored /\ ViewerFollows

(* A late rendering never replaces a newer theme's drawing: a block only ever    *)
(* changes to the chosen theme, to the last one it showed, or to print's.        *)
NoStaleDrawing ==
  [][\A i \in Diagrams : shown'[i] # shown[i] =>
       shown'[i] \in {visible, lastScreen[i]} \cup (IF printing' THEN {PrintKey} ELSE {})]_vars

(* No theme is drawn twice, and a drawing, once shown, is not lost to a failure. *)
DrawnOnce ==
  [][\A i \in Diagrams :
       /\ \A k \in Keys : variants[i][k] # None => variants'[i][k] = variants[i][k]
       /\ shown[i] # Source => shown'[i] # Source]_vars

(* The drawings of a block only ever move forward.                               *)
DrawingsForward == NoStaleDrawing /\ DrawnOnce

(* When the reader has stopped, the page comes to show the chosen theme on        *)
(* every block that can be drawn with it, unless the module did not load.         *)
Settles ==
  <>[](boot.pc = "failed" \/ printing \/
       \A i \in Diagrams : shown[i] = visible \/ variants[i][visible] = Failed)
=============================================================================
