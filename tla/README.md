# Verification of gui_library

`gui_library` is a C toolkit for graphical user interfaces: a tree of widgets
of three classes (frame, button, toplevel), a geometry manager (the placer), a
list of event bindings and an event loop that dispatches mouse and keyboard
events to callbacks and redraws what they changed. It is single threaded. What
makes it hard is that callbacks run in the middle of walks over linked lists
and may change those lists, free what the walks stand on, or free what a
gesture of the mouse still points to; that the pointers of the widget tree are
rewritten by hand in several functions; that rectangles are clipped through
pointers to the geometry of the widgets themselves; and that offsets are kept
in unsigned words.

This directory models that behaviour in TLA+, checks it with TLC and proves all
of its safety properties with TLAPS. `PROJECT.json` maps every definition to the
lines it models.

## 1. The system

| Component | State | Operations | Interacts with |
|---|---|---|---|
| Event bindings (`ei_event.c`) | `top_event_bind`, a singly linked list | `ei_bind`, `ei_unbind`, `destroy_event_binded_to_widget` | read by the loop, written by programs, by the defaults of a toplevel, by `ei_widget_destroy` |
| Application and loop (`ei_application.c`) | `run`, `invalidated_rects`, root widget, surfaces | `ei_app_create`, `ei_app_run`, `ei_app_quit_request`, `ei_app_invalidate_rect`, `ei_app_free` | calls the callbacks; runs the placer and the draw functions |
| Widget hierarchy (`ei_widget.c`) | `parent`, `children_head`, `children_tail`, `next_sibling`, attributes, pick ids | `ei_widget_create`, `ei_widget_destroy`, `ei_*_configure`, `ei_widget_pick` | calls the class functions, the bindings, the invalidation |
| Toplevel class (`ei_toplevelclass.c`) | `resizing_toplevel`, `moving_toplevel`, `offsetptr` | `quit_toplevel_event`, `beg_resize`, `resize`, `end_resize`, `beg_move`, `move`, `end_move`, defaults, `geomnotifytoplevel` | bound by `ei_app_create` and by its defaults; calls `ei_place`, `ei_widget_destroy` |
| Button class (`ei_buttonclass.c`) | `button_pressed`, `pressing_over`, reliefs | `ei_handle_button_down`, `_up`, `_move`, `geomnotifybutton` | bound by `ei_app_create`; calls the button's own callback |
| Frame class (`ei_frameclass.c`) | attributes only | defaults, `geomnotifyframe` | invalidation |
| Placer and geometry managers (`ei_placermanager.c`, `ei_geometrymanager.c`) | `geom_params`, `screen_location`, list of managers | `ei_place`, `runplacer`, `ei_geometrymanager_unmap`, registration | notifies the class, invalidates |
| Class registry (`ei_widgetclass.c`) | list of classes | registration, lookup | `ei_widget_create` |
| Rectangles (`ei_calculations.c`) | none | `normalize_rect`, `extend_rect`, intersection, arcs | everywhere |
| Drawing (`ei_draw.c`, `ei_draw_more.c`) | none | polygons, text, fills, copies | hardware layer |
| Hardware layer (`hw_interface.h`) | precompiled library | events, surfaces | the loop |

What is hard, and what makes each component correct:

* **Bindings.** The walks unlink and free nodes. Correct when the list stays
  in the order of registration, no node is lost, exactly the asked bindings go,
  and no freed node is used.
* **Loop.** It stands on a binding while a callback binds, unbinds, creates
  and destroys. Correct when each event is dispatched to an end, nothing freed
  is used, a quit request ends it and a release of the mouse ends the gestures.
* **Hierarchy.** Head, tail and sibling pointers must agree after every call,
  with the resize button kept last; the order of siblings is the drawing order.
* **Toplevel gestures.** What the mouse holds must follow it through unsigned
  offsets, anchors, relative positions and minimum sizes.
* **Attributes.** Thirty pointers per widget, allocated in defaults, configure
  functions and notifications, are freed by one release function. Correct when
  all that is drawn is there, what a program gave stays, and each cell goes once.
* **Layout.** The placer runs again only where a rectangle changed. Correct when
  the widgets still lie where a computation of the whole tree would put them.
* **Picking and pressing.** A pixel leads to a widget by its colour; press, move
  and release each look anew. Correct when colours are unique, clicks and
  callbacks correspond, and no button stays sunken.
* **Redraw.** Each call invalidates only what it changed, and drawing itself
  places widgets and invalidates. Correct when the screen ends up right,
  nothing is written outside the window and the drawing ends.

`PROJECT.json` lists the hazards line by line with the properties that cover
them, and says of the others why nothing covers them yet.

## 2. The modules

| Module | Models | A step is |
|---|---|---|
| `EventBinding` | what the list of bindings promises: an ordered map from the rank of registration to the binding | a call |
| `BindingMemory` | the nodes and pointers of `ei_event.c` | one iteration of a loop over the list |
| `WidgetLife` | what creation and destruction promise: a tree, destroyed by subtrees | a call |
| `WidgetTree` | head, tail, sibling and parent pointers, `closable` and `resizable`, destructors | a call |
| `EventLoop` | `ei_app_create`, `ei_app_run`, `ei_app_free`, all library callbacks and the program's calls; composes `EventBinding` and `WidgetLife` | a binding examined, a call of a callback, a move to the next binding |
| `Placer` | `runplacer`'s arithmetic and the defaults of `ei_place`, per axis, as operators | – |
| `ToplevelDrag` | moving and resizing a toplevel; extends `Placer` | a mouse event |
| `Geometry` | sizes, borders, placer parameters, `screen_location` and `content_rect` through nested widgets; extends `Placer` | a call, or one widget drawn |
| `Attributes` | the attributes of a widget of any class: defaults, configure functions, notification, release, as cells of memory | a call |
| `Registry` | registration and lookup of classes (and, the same code, of geometry managers) | – |
| `ButtonPress` | identifiers, colours, picking, relief and `pressing_over`; extends `Registry` | a mouse event, or a call |
| `Redraw` | `ei_app_invalidate_rect`, what `runplacer`, the class notifications and the button handlers invalidate, and the drawing half of a turn; extends `Placer` | a call, or one widget drawn for one rectangle |
| `*_proofs` | theorems and proofs about the module of that name: `EventLoop`, `BindingMemory`, `WidgetTree`, `ToplevelDrag`, `Redraw`, `Attributes`, `Geometry`, `ButtonPress` | – |

`MC*.tla` modules give the constants their values. `BindingMemory` implements
`EventBinding` (`ImplementsList`), and `WidgetTree` implements `WidgetLife`
(`ImplementsLife`), so that `EventLoop`, which is built on the two abstract
modules, speaks of the code's lists and pointers.

How the state corresponds to the code:

* **EventBinding / BindingMemory.** A node is named by the rank at which
  `ei_bind` made it. In `BindingMemory` a freed node leaves the domain of
  `node`; `call`, `last` and `curr` are the running function and its local
  pointers; `before` is the list the call found, which the
  refinement mapping (`Abstract`) shows until it returns. `ChainFrom(top)` is what `next` reaches,
  the least set closed under it. `eventtype`, `widget`, `tag` and `callback` are the fields compared
  by `ei_unbind`; `user_param` is folded into the callback.
* **WidgetLife / WidgetTree.** `status` says how a widget went: `destroyed` by
  a call on it, `released` with an ancestor. `above[w]` is what the parent
  pointers of `w` reach; the mapping computes it from `parent`. A walk of the
  code over siblings, children or parents is the set of what it reaches
  (`Reached`): what such a walk does depends on that set and on its ends. A widget name
  is an instance, never an address: addresses reused by `malloc` are not
  modelled. `Destroy` and `Withdraw` thread the tree through the parts of one
  call, since `ei_toplevel_configure` unlinks a button and then destroys it.
* **EventLoop.** `pc` says whether the program sets up, the loop waits,
  examines a binding or moves to the next, a library callback runs, or the
  program runs (`user` from a binding, `button_user` from a button). `current`
  is `current_bind`. `fault` names the first access to freed memory, after
  which nothing is known of the program and the model stops.
* **ToplevelDrag.** `offset` is `offsetptr`, a word of `2 * HalfWord` values;
  an `int` is at least `-HalfWord` and below `HalfWord`; `mouse` and
  `grab` are history: where the mouse is, and from it to what it took hold of.
* **Geometry.** `geo` is one record threaded through the statements of a call:
  `params` is NULL for a widget that is not managed, `inner` the cell
  `content_rect` leads to, NULL when it leads to `screen_location`. `Moves` is
  the recursion of `runplacer` and the notifications, from a parent to its
  children. `geo.cut` and `careless` are history.
* **Attributes.** `w.cell[a]` says what the pointer of an attribute leads to:
  nothing, a cell of its own, a freed one, or the `screen_location`. `w.given`
  and `w.shared` say whose value or memory is behind it; `w.leaked` and
  `w.fault` record a cell nobody points to any more and the first misuse. The
  arguments of a call are a function on those given. `tidy` is history.
* **ButtonPress.** A widget is named by its `pick_id`; `surface` is the pick
  surface at a few spots. `pressed`, `shifted` and `blind` are history: what the
  mouse went down on, whether what it shows changed since it moved, and whether
  a mouse button was used meanwhile.
* **Redraw.** `place` is the rectangle the placer computes for a widget,
  `location` its `screen_location`, which invalidations clip in place; `rects`
  is `invalidated_rects`, from the rectangle being drawn on; `screen` holds
  for each pixel the widget shown and its appearance.

## 3. The runs

Nine runs pass.

| Run | Question | Bounds and why they suffice |
|---|---|---|
| `binding_memory` | Do the pointer walks implement the ordered list, leak nothing, keep its order and end? | 2 widgets, 1 tag, 1 event type, 1 callback, 4 calls of `ei_bind`. Four nodes give a top, an interior, a last node and two neighbours of one owner on either side of another's; fields only matter when they are equal or not. |
| `event_loop` | What holds of any program, whatever its callbacks do? | A toplevel with its two buttons, a further button, one program callback bound by tag and by widget, 11 ranks: seven of `ei_app_create`, three of a toplevel and one of the program, registered before or during a dispatch. Both mouse buttons, every widget under the mouse, title bar or not. |
| `careful_loop` | Is a program that keeps three obligations safe? | As above; it may also name library callbacks in `ei_bind` and `ei_unbind`. |
| `widget_tree` | Are the pointers right after any sequence of calls? | The root, a toplevel, its two buttons and three further widgets: the buttons, one widget between them, one before and one below. Sequences of calls are unbounded; a name is created once. |
| `toplevel_drag` | Do corner and title bar follow the mouse, in words that wrap? | A window of 6 pixels a side, words of 64 values (`HalfWord = 32`), sizes and positions up to 6 (`Far`): every value fits an `int`, as on a real screen, and every negative offset wraps in the unsigned word. Placed with no size, a size or a relative size, at an absolute or relative position, requested sizes at the minimum and above. |
| `redraw` | Is the screen right when all is drawn, and is it ever? | A window of 4 by 4, a frame inside it, across two of its corners or well outside, a button inside it in two overlapping places. `Margin = 1` instead of the 2 of `extend_rect`; two rectangles left to draw (`MaxCalls`) before a further call. |
| `attributes` | Are attributes ready, kept and freed once, and what must a program do for it? | One widget of each class; up to two arguments per call (`MaxArgs`), which reach every pair of branches, sequences of calls unbounded. Of the attributes that behave alike, `Watched` are followed. Also run with three arguments. |
| `geometry` | Does placing only what moved suffice? | A toplevel, a frame in it, a button in that, in a window of 8: it takes three levels for a move to be passed on by one that does not itself get a call. Two positions of the toplevel, one of which puts the frame across the side of the window; the frame with and without border, of its own size or its parent's. |
| `press` | Do colours, clicks and reliefs correspond? | Channels of 2 values, hence 8 colours, and identifiers up to 8: all three channels count, and the colours come round once. Two widgets at a time, two spots, a program class besides the buttons and a duplicate of "button". The spots are symmetric. |

Three more runs show what the code does where the documentation says otherwise
(section 6).

What the properties say:

* `ImplementsList`, `NothingLeaked`, `RegistrationOrder`, `CallsReturn`: above.
* `DestroyedIsUnbound`: no binding is left on a widget `ei_widget_destroy` was
  called for. `TreeRooted`: no live widget is below a dead one.
* `ReleaseEndsGestures`: when a left release over a live widget has been
  dispatched, nothing is pressed, moved or resized. It relies on no earlier
  callback consuming a release: the bindings of `ei_app_create` come first, and
  the programs of this run do not unbind them.
* `EveryTurnEnds`, `QuitIsHonoured`: a dispatch ends although callbacks extend
  the list it walks; a request to quit ends the loop.
* `NoFreedAccess`, `CarefulInv`: section 5.
* `WellLinked`: what head and siblings reach is exactly the live children, once
  each, and the tail is the last. `GripLast`: the resize button is that last
  one. `DrawingOrder`: no call reorders the children that stay, and a new one
  is drawn above all but the resize button. `CallsComplete`: no null pointer is
  followed as long as live toplevels are configured as all programs of the
  repository have them (closable; with a resize button if resizable).
* `CornerHeld`, `TitleHeld`, `MinRespected`: the corner, or the title bar, stays
  where it is relative to the mouse, except where the minimum size forbids it;
  the size never goes below the minimum.
* `DrawnInWindow`: every rectangle drawn lies in the window, so that fills, which
  do not look at bounds, stay in the surface. `ScreenRight`: when nothing is
  left to draw, each pixel shows what a drawing of the whole window would.
  `RedrawEnds`: the drawing comes to an end.
* `DestructorsHonest`: a widget destroyed by a call gets its destructor called,
  and no widget that stays does.
* `Drawable`: every attribute the draw functions read untested is there, and
  not both a text and an image. `GivenStays`: a value given is kept by calls
  that do not give it. `ReleasedWhole`: a release frees each cell left, once.
  `TidyIsSafe`, `ShownIsLive`: a program that keeps the obligations of `Tidy`
  loses no memory, has no freed cell used, and no widget shows memory the
  program has freed.
* `LaidOut`: each widget shown lies where the parameters put it, provided no
  border was set once it had been placed, and neither it nor the inside of a
  button was ever clipped to the window; no premise can be dropped (section 6).
  `RequestedHonoured`: a size not given is the requested one, unless that was
  changed after placing or a widget clipped.
* `PickExact`: a widget's colour leads to it, as long as there are colours.
  `ClassesLast`: no freed class is reached, and a name keeps its class.
  `SunkenIsPressed`, `Click`: a button is sunken only while pressed with the
  mouse over it; a callback is called by a release over the widget pressed, and
  by each.

### Fairness

* `EventLoop`: weak fairness of `Turn` (the loop's own steps), of `Library`
  (library callbacks, straight-line code) and of `CallbackReturn` (a callback
  of the program returns). Nothing is assumed of `ei_app_run` being called, of
  events arriving (`WaitNext`), or of the program making any call. A program
  that makes calls without end in a callback is bounded only by `MaxBind`.
* `Redraw`: weak fairness of `Draw`, the drawing loop; programs need not call.
* `BindingMemory`: weak fairness of `Next`; a call once begun is straight-line
  code, and `CallsReturn` speaks only of calls begun.
* The other modules have no liveness property: a step of theirs is a call that
  ends by itself.

Deadlock is checked everywhere but in `binding_memory` and its violation run,
where a write into a freed node stops the model.

## 4. Abstractions, by name

* **EventLoop.** An event carries the widget whose colour the pick surface
  holds at the mouse (`under`), the button and whether the mouse is at the title
  bar; non-mouse events are one type. A destroyed toplevel or close button may
  still be under the mouse (`OnScreen`), because the destruction repaints
  `screen_location` only; in the code nothing is then picked. Toplevels have
  their defaults (closable, resizable). Buttons other than a toplevel's may or
  may not have a callback. Destructors do not call the library. A program
  naming library callbacks in `ei_bind` or `ei_unbind` names them as the library
  binds them. The drawing is part of `EndTurn` here and is `Redraw`'s subject.
  `ei_widget_pick` is a function of the event. Relief and `pressing_over` are
  left out; they decide no lifetime.
* **WidgetTree.** `resizable` is a BOOLEAN (some axis or none). Decorations are
  not destroyed or configured directly by programs; destructors are only
  recorded.
* **ToplevelDrag.** One toplevel; `rel_x`, `rel_width` in halves; the
  properties leave the overlap of both gestures out.
* **Attributes.** The values of attributes are told apart only as far as the
  control of the code does (a border of zero or not, a null text or image). Of
  each class one widget at a time: nothing but program memory is shared between
  widgets. The buttons `setdefaultstoplevel` adds are not part of the toplevel's
  cells. A text longer than its 40 characters is left out; the test meant for it
  looks at the bytes of a pointer and always succeeds.
* **Geometry.** One axis, as the two never meet but in the test for a move; sizes
  given to `ei_place` itself are left to `ToplevelDrag`. A button without border
  leaks the rectangle it had, which `Attributes` counts.
* **ButtonPress.** Widgets are children of the root, which is enough for the
  order in which colours are compared. A pixel of the surface is always that of
  a live widget: the loop draws what changed before the next event. The left
  button of the mouse goes down and up in turn. A press is not interrupted by
  the destruction of its button (`gone_button` is about that).
* **Redraw.** Widgets are children of the root, each placement rectangle is
  chosen directly, appearance is one bit. Heads of the list are dropped when
  drawn instead of at the end, which no later step can tell: the code only
  looks at the last rectangle and at those after the current one.
* **All.** `malloc` succeeds; the surfaces' locks and updates are left out.

## 5. The proofs

The theorems hold for all values of the constants that satisfy the named
assumptions of the module: any number of widgets, toplevels, bindings, nodes,
classes and callbacks, any sizes of windows, words and colours. All modules
follow one plan: an inductive invariant (`Inv`, or `CarefulInv` in
`EventLoop`), lemmas about the operators, one lemma per action or group of
actions, then the theorems. TLC evaluates the assumptions in every run. They say
what the code's types and layout give: the null pointer is no widget, the parts
of a toplevel are its own, a tree has no cycle, channels have indices of their
own, coordinates stay far enough from the ends of an `int`.

| Module | Theorem | States |
|---|---|---|
| `EventLoop` | `TypeCorrect`, `TreeIsRooted`, `DestroyedStaysUnbound` | `TypeOK`, `TreeRooted`, `DestroyedIsUnbound`, for any program |
| | `CarefulInvariant`, `CarefulIsSafe` (`Careful`) | `CarefulInv`, `NoFreedAccess` |
| | `ReleaseEndsGesturesHolds` (`KeepsReleases`) | `ReleaseEndsGestures` |
| `BindingMemory` | `ListImplemented` | the refinement `ImplementsList` |
| | `NothingIsLeaked`, `OrderIsRegistration` | `NothingLeaked`, `RegistrationOrder` |
| `WidgetTree` | `TypeCorrect`, `ListsAgree`, `GripStaysLast`, `NoNullFollowed`, `DestructorsCalled` | `TypeOK`, `WellLinked`, `GripLast`, `CallsComplete`, `DestructorsHonest` |
| | `LifeImplemented`, `OrderOfDrawing` | the refinement `ImplementsLife`, the action property `DrawingOrder` |
| `ToplevelDrag` | `TypeCorrect`, `TitleFollows` | `TypeOK`, `TitleHeld` |
| | `CornerFollows` (`Anchored`), `MinimumRespected` (`Roomy`, both axes resizable) | `CornerHeld`, `MinRespected` |
| `Attributes` | `TypeCorrect`, `TidyProgramsAreSafe`, `AlwaysDrawable`, `AllIsReleased`, `NothingFreedIsShown`, `GivenAttributesStay` | `TypeOK`, `TidyIsSafe`, `Drawable`, `ReleasedWhole`, `ShownIsLive`, the action property `GivenStays` |
| `Geometry` | `LayoutIsComputed`, `RequestIsHonoured` | `LaidOut`, `RequestedHonoured` |
| `ButtonPress` | `TypeCorrect`, `ColoursLeadBack`, `ClassesOutliveUse`, `SunkenWhilePressed`, `ClicksAreCalled` | `TypeOK`, `PickExact`, `ClassesLast`, `SunkenIsPressed`, the action property `Click` |
| `Redraw` | `TypeCorrect`, `NothingOutside` | `TypeOK`, `DrawnInWindow` |
| | `ScreenIsRight` (`Plain`) | `ScreenRight` |

The hypotheses in brackets are those the runs make, and each is needed:

* `Careful` – the program keeps three obligations:
  1. `SafeToUnbind`: a callback does not remove the binding it is called from;
  2. `SafeToDestroy`: when it destroys a widget, the descendants have no
     bindings left, its own are not neighbours in the list, the one it is
     called from is not among them, and no press or drag is under way in it;
  3. `SafeEvent`: the close button of a toplevel is not pressed. This bears on
     the user rather than on the program, because the library leaves no choice:
     pressing it always leaves `button_pressed` on it, so that the next move of
     the mouse reads freed memory (`gone_button`).
* `KeepsReleases` – the program unbinds none of the three bindings of
  `ei_app_create` for a release. Without them nobody ends the gesture.
* `Anchored` – the toplevel is placed by its north-west, the only corner for
  which `resize` computes (section 6).
* `Roomy` – the toplevel is placed at no less than its minimum size; `resize`
  then grants no smaller one on an axis that is resizable.
* `Plain` – no widget is a toplevel or a button with a border. Of those the code
  invalidates less than it changes (section 6). The placements are arbitrary:
  across the sides of the window, outside of it, of no or negative size.

### The invariants, and why they are needed

* **EventLoop.** `TypeOK` is not inductive alone: that a callback of the library
  runs from a linked binding (`OnLinked`) is carried along, since the gestures
  take their widget from the binding. In `CarefulInv` every pointer the library
  will follow leads to something live: the bindings' widgets (`BoundAreLive`),
  the gestures (`GesturesOnLive`), the loop's cursor (`CursorLinked`), and the
  parent a resize button's press acts on (`GripsOnToplevels`, with `TreeRooted`
  above it). `LibraryBoundAsMade` and `CalledAsBound` tie a running callback to
  the widget and event it was bound for, which is how `SafeEvent` excludes
  `quit_toplevel_event`. For the end of the gestures, the bindings of
  `ei_app_create` keep the first ranks (`ListAsCreated`), so that the dispatch
  of a release meets all three before any callback of the program can consume
  it; the invariant says which gestures are over once the cursor has passed
  which rank.
* **BindingMemory.** The listed nodes are linked in increasing order of their
  names (`Chained`), so that `NextIn` says of a pointer, without following it,
  where it must lead; what `next` reaches is then the whole list, by the least
  node it would miss (`Predecessor`). During `ei_unbind` and the destruction,
  the invariant relates `last` and `curr` to the list the call found and to what
  is already gone. A destruction that meets two neighbours writes through a freed
  node and never returns in the model; in `EventLoop` it is what `Careful`
  excludes (`binding_memory_destroy` shows it).
* **WidgetTree.** No property of the pointers that follows them is inductive by
  itself. The invariant says instead that numbers exist, a place for each widget
  (`at`), such that the children of each parent are in increasing order of
  their places, head the lowest, tail the highest, and `next` the next one
  (`Sorted`, `Tree`); and a depth that falls along parents (`Deep`), so that
  there is no cycle. The program holds neither. From the places follows what a
  walk reaches (`SortedReach`), and each way of linking or unlinking a child
  only has to give or keep places (`OneMore`, `CutSorted`, `WithdrawnCuts`).
  What is freed with a widget is its family, those it is an ancestor of
  (`SubtreeIsFamily`), which is what `WidgetLife` releases: the refinement
  rests on it. `Standing` is claimed only until a fault, after which the code
  has followed a null pointer.
* **ToplevelDrag.** The offset in the unsigned word is the wrapped distance
  (`OffsetKept`); `Wraps` and `WrapsTwice` lead back from the word to the `int`,
  because no distance on the screen leaves it.
* **Attributes.** `Sound` says that what was given or is shared is an attribute
  of the class, with a cell behind it if it leads to the program's memory;
  `Whole` which cells there are after the defaults; `Clean` that nothing of a
  tidy program was lost and that without a border `content_rect` has no cell,
  which is what keeps a later notification from losing one. The configure
  functions are proved part by part, in the order they run.
* **Geometry.** The invariant speaks of a widget and its parent only: one that is
  not managed is at zero (`Hidden`), the content of one that lies somewhere is
  its inside (`Celled`), a frame without a border never had one (`Bare`), and
  each lies where its parent's content puts it (`Fits`), unless the parent is
  not managed or at zero, where it will move again and place its children.
  `DownTheTree` shows that a definition going from a parent to its children
  defines a function, on trees of any depth, and `AllDown` carries `Fits` from
  the window down to the whole layout.
* **ButtonPress.** `ThreeDigits` shows that the three channels know the
  identifier below the number of colours, hence `PixelInjective`; the press is
  followed by the history of what the mouse went down on.
* **Redraw.** The rectangles in the list lie wholly in the window, whatever the
  signs of their sizes: clipping one puts it there and merging two keeps it.
  `CoverInv` is about every pixel of the window: one that does not show what it
  should is in a rectangle still to be drawn, or in the current one and shows
  what the children drawn so far make of it. Clipping a location in place keeps
  its pixels in the window (`NormalizedMeets`), and no invalidation drops a pixel
  already covered (`Grows`). The critical step is a rectangle that grows while it
  is drawn: the children already drawn are not drawn in what it gained. What was
  right there may be drawn over, but then by all that belongs above as well, in
  order (`DrawnNext`); what was wrong there is in a later rectangle.

Two things make the proofs about walks possible. What a walk reaches is a least
closed set, not a recursive operator; and what induction over data would give is
had from the least element of a set of naturals (`Smallest`), taken from the
library's theorem on well-founded relations: of the counterexamples to a claim
about depths or places, take the lowest.

### Only model-checked

* Liveness: `CallsReturn`, `EveryTurnEnds`, `QuitIsHonoured` and `RedrawEnds`
  rest on fairness, which the provers do not reach.
* That the hypotheses in brackets above are needed: theorems speak of what holds
  with them, the runs and section 6 of what happens without.

## 6. What the models found

Each of the first three is a run that must be violated, with the line of the
documentation it contradicts.

* `binding_memory_destroy` – destroying a widget with two neighbouring bindings
  writes through the node just freed.
* `gone_button` – closing a toplevel leaves `button_pressed` on the freed close
  button.
* `endless_draw` – a frame one pixel beyond the right side is clipped at each
  drawing and invalidated again at the next, by a rectangle too thin to be
  merged: the drawing never ends.

Reached as well, and stated here only, with the lines of the code:

* `ei_toplevel_configure` with `closable` FALSE on a default toplevel takes the
  quit button out of the children, calls `ei_widget_destroy` on it, which looks
  for it there and follows a null pointer (`ei_widget.c:655`; the fault
  `lost_child` of `WidgetTree`, which `CallsComplete` excludes by its premise),
  although the comment at line 419 announces that the button is withdrawn.
* Below a destroyed widget only first children get their destructor called
  (`ei_widget.c:600`).
* A toplevel resizable on one axis is resized on both (`ei_toplevelclass.c:73`).
* `requested_size` goes back to a default when it is not given again
  (`ei_widget.c:44`), where `ei_widget.h` says of such arguments that "its value
  must not be changed"; the relief of a button that had none is raised after a
  click (`ei_buttonclass.c:194`).
* A second image given to a button is written to the cell just freed
  (`ei_widget.c:280`); a `min_size` leading to a null pointer is followed
  (`ei_widget.c:506`); a border given to a widget laid out inside one, a text
  made null, an image after a text, a second callback each lose a cell
  (`ei_widget.c:78`, 109, 126, 335).
* A class name nobody registered is followed as a null class
  (`ei_widget.c:524`), where `ei_widget.h` says of `ei_widget_create` that it
  returns "NULL if there was an error". A class structure registered twice is
  freed in the list (`ei_widgetclass.c:18`).
* A widget clipped to the window and then placed exactly there does not place
  its children again, nor does one placed at the zero rectangle
  (`ei_placermanager.c:73`); a border set to zero on a frame leaves the content
  rectangle of the old border.

In the other modules: with `Careful` FALSE, the use of a
binding whose widget was destroyed with an ancestor, the next binding read from
a node the callback unbound, and a toplevel destroyed in the middle of its drag;
in `WidgetTree`, `no_child` (configuring a toplevel whose children are gone) and
`walked_off` (`resizable` taken away and given back, then a child created);
outside the configurations of `toplevel_drag`, a size below the minimum on an
axis that is not resizable, and a corner that does not follow the mouse when
the anchor is not the north-west; outside those of `redraw`, the stale border of a
button with a border, the decoration of a toplevel moved, unmapped or destroyed.

## 7. Not modelled, and why

* Drawing (`ei_draw*.c`), arcs and points: floating-point output without state.
* The hardware layer: precompiled, seen only as the source of events.
* The list of geometry managers as a second instance of `Registry`: there is
  only the placer.
* The overlap of a move and a resize of a toplevel; the parameter of callbacks
  bound to a tag, which is null in the code (`ei_application.c:294`).
* The example programs: they fix what `Careful` and `CallsComplete` assume.

## 8. Plan

Done in order of importance: bindings, tree, loop and its proof, drags, redraw,
attributes, layout, picking and pressing; then the proofs of all of them. Next:

1. Nested clipping, borders and toplevels in `Redraw`, on `Geometry`'s layout.
2. `Delivery`: what dispatching an event promises, implemented by `EventLoop`.
3. The two gestures of a toplevel at once in `ToplevelDrag`.

Still worth proving: `Rooted` of `WidgetLife` by itself, now a consequence of
`TreeIsRooted`; and that `EventLoop`, with `Careful`, calls `EventBinding` only as
`BindingMemory` implements it, never on neighbours. The number of runs is kept
at twelve: a new question joins a configuration that can ask it.
